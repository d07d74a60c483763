---------------------------- MODULE MC_JSONLStore ----------------------------
(* One conversation under three names: two old ones, each the other's      *)
(* alias, and an opaque one, which has the lock of the first.  So the      *)
(* order of the locks crosses that of the keys, two promotions may want    *)
(* the same pair of locks, and two sessions may share one.                 *)
EXTENDS JSONLStore, TLC

CONSTANTS old1, old2, opaque, c1, c2, m1, m2

MC_Keys    == {old1, old2, opaque}
MC_Rank    == (old1 :> 1) @@ (old2 :> 2) @@ (opaque :> 3)
MC_Shard   == (old1 :> 1) @@ (old2 :> 2) @@ (opaque :> 1)
MC_Aliases == {<<old1, old2>>, <<old2, old1>>, <<opaque, old2>>, <<opaque, old1>>}
MC_Callers == {c1, c2}

(* Nothing tells two callers apart. *)
Symmetry   == Permutations(MC_Callers)
=============================================================================
