--------------------------- MODULE MC_MessageBus ---------------------------
(* Three publish calls on a channel of one, one on another, two closers.   *)
EXTENDS MessageBus

CONSTANTS a, b, c, d, in, out, x, y

StreamOfDef == [m \in {a, b, c, d} |-> IF m = d THEN out ELSE in]
=============================================================================
