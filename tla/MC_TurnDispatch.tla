-------------------------- MODULE MC_TurnDispatch --------------------------
(* One session with three chat messages and a /stop; or without the /stop. *)
EXTENDS TurnDispatch

CONSTANTS m1, m2, m3, m4, s1, s2

MsgsDef == {m1, m2, m3, m4}
OneSession == [m \in MsgsDef |-> s1]

ThreeMsgs == {m1, m2, m3}
ThreeOfOne == [m \in ThreeMsgs |-> s1]
=============================================================================
