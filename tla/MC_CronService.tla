--------------------------- MODULE MC_CronService ---------------------------
(* A recurring job and an 'at' job, two generations of the gateway's       *)
(* service and the command line.                                           *)
EXTENDS CronService

CONSTANTS p, o, g1, g2, cli

MC_Jobs     == {p, o}
MC_Periodic == {p}
MC_Gens     == {g1, g2}
=============================================================================
