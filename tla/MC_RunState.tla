---------------------------- MODULE MC_RunState ----------------------------
(* Two model calls against an evolver and a sleeper; or a model call and a *)
(* reflex against an evolver, followed by a publisher.                     *)
EXTENDS RunState

CONSTANTS c1, c2, e1, z1, p1

TwoCalls == [c \in {c1, c2} |-> "inference"]
CallAndReflex == [c \in {c1, c2} |-> IF c = c1 THEN "inference" ELSE "reflex"]
=============================================================================
