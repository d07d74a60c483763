-------------------------- MODULE MC_ChannelManager --------------------------
(* Two channels, two replies for one of them.                               *)
EXTENDS ChannelManager

CONSTANTS t, w

MC_Names == {t, w}
MC_Dest  == <<t, t>>
=============================================================================
