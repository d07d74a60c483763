--------------------------- MODULE SubTurnsProofs ---------------------------
(***************************************************************************)
(* Proofs about SubTurns, for any finite set of spawns and any limits: the *)
(* tokens and slots are exactly those of the spawns that hold them, and no *)
(* turn runs deeper than MaxDepth.                                         *)
(*                                                                         *)
(* A step changes what one spawn holds, and the counters with it           *)
(* (TokenMoves); TreeShape says whose counters those are.                  *)
(***************************************************************************)
EXTENDS SubTurns, FiniteSetTheorems, TLAPS

SemHolders(t)  == {c \in Subs : parent[c] = t /\ HoldsSem(c)}
SlotHolders(d) == {c \in Subs : depth[c] = d /\ HoldsSlot(c)}

(* A spawn that has begun is one deeper than its parent, and one that      *)
(* waits for a token is a spawn of a sub-turn that runs.                   *)
TreeShape ==
  /\ \A t \in Roots : depth[t] = 0
  /\ \A c \in Subs :
       /\ pc[c] \in {"sem", "slot", "setup", "run"} =>
            parent[c] \in Turns /\ depth[c] = depth[parent[c]] + 1
       /\ pc[c] = "sem" => parent[c] \in Subs
       /\ pc[c] = "slot" => depth[c] \in Depths
       /\ pc[c] # "unused" => parent[c] \in Turns
       /\ pc[c] \notin {"look", "send", "done"} => c \notin panicked
       /\ parent[c] \in Turns => pc[parent[c]] # "unused"

SubTurnsInv == TypeOK /\ TreeShape /\ SlotsMatchRuns

-----------------------------------------------------------------------------
(***************************************************************************)
(* Counting.                                                               *)
(***************************************************************************)

(* A set of spawns loses or gains at most one: by how much the number of   *)
(* holders of a token changes when one spawn takes or gives back its own.  *)
LEMMA OneMoves ==
  ASSUME NEW A \in SUBSET Subs, NEW B \in SUBSET Subs, NEW c \in Subs,
         \A x \in Subs \ {c} : x \in A <=> x \in B
  PROVE  /\ Cardinality(A) \in Nat
         /\ Cardinality(B) \in Nat
         /\ (c \in A <=> c \in B) => Cardinality(B) = Cardinality(A)
         /\ c \in A /\ c \notin B => Cardinality(B) = Cardinality(A) - 1
         /\ c \notin A /\ c \in B => Cardinality(B) = Cardinality(A) + 1
<1>1. IsFiniteSet(A) /\ IsFiniteSet(B)
  BY SubTurnsAssumption, FS_Subset
<1>2. Cardinality(A) \in Nat /\ Cardinality(B) \in Nat
  BY <1>1, FS_CardinalityType
<1>3. (c \in A <=> c \in B) => A = B
  OBVIOUS
<1>4. ASSUME c \in A, c \notin B
      PROVE  Cardinality(B) = Cardinality(A) - 1
  <2>1. B = A \ {c}
    BY <1>4
  <2> QED
    BY <1>1, <1>4, <2>1, FS_RemoveElement
<1>5. ASSUME c \notin A, c \in B
      PROVE  Cardinality(B) = Cardinality(A) + 1
  <2>1. B = A \cup {c}
    BY <1>5
  <2> QED
    BY <1>1, <1>5, <2>1, FS_AddElement
<1> QED
  BY <1>2, <1>3, <1>4, <1>5

(* What one spawn c takes or gives back is counted (the sends and receives *)
(* on concurrencySem).                                                     *)
LEMMA SemMoves ==
  ASSUME TypeOK, NEW c \in Subs,
         UNCHANGED parent,
         \A x \in Subs \ {c} : HoldsSem(x) <=> HoldsSem(x)',
         \A t \in Subs : sem[t] = Cardinality(SemHolders(t)),
         HoldsSem(c) /\ ~HoldsSem(c)' => sem' = [sem EXCEPT ![parent[c]] = @ - 1],
         ~HoldsSem(c) /\ HoldsSem(c)' => sem' = [sem EXCEPT ![parent[c]] = @ + 1],
         (HoldsSem(c) <=> HoldsSem(c)') => sem' = sem
  PROVE  \A t \in Subs : sem'[t] = Cardinality(SemHolders(t)') /\ sem'[t] \in Nat
<1> SUFFICES ASSUME NEW t \in Subs
             PROVE  sem'[t] = Cardinality(SemHolders(t)') /\ sem'[t] \in Nat
  OBVIOUS
<1> DEFINE A == SemHolders(t)
           B == SemHolders(t)'
<1>1. /\ A \in SUBSET Subs /\ B \in SUBSET Subs
      /\ \A x \in Subs \ {c} : x \in A <=> x \in B
      /\ c \in A <=> (parent[c] = t /\ HoldsSem(c))
      /\ c \in B <=> (parent[c] = t /\ HoldsSem(c)')
  BY DEF SemHolders
<1> HIDE DEF A, B
<1>2. /\ Cardinality(A) \in Nat /\ Cardinality(B) \in Nat
      /\ (c \in A <=> c \in B) => Cardinality(B) = Cardinality(A)
      /\ c \in A /\ c \notin B => Cardinality(B) = Cardinality(A) - 1
      /\ c \notin A /\ c \in B => Cardinality(B) = Cardinality(A) + 1
  BY <1>1, OneMoves
<1>3. sem[t] = Cardinality(A)
  BY DEF A
<1>4. HoldsSem(c) \/ HoldsSem(c)' => parent[c] \in Subs
  BY DEF HoldsSem
<1>5. sem \in [Subs -> 0 .. MaxConcurrent]
  BY DEF TypeOK
<1>6. sem'[t] = Cardinality(B)
  <2>1. CASE HoldsSem(c) <=> HoldsSem(c)'
    BY <1>1, <1>2, <1>3, <2>1
  <2>2. CASE HoldsSem(c) /\ ~HoldsSem(c)'
    BY <1>1, <1>2, <1>3, <1>4, <1>5, <2>2
  <2>3. CASE ~HoldsSem(c) /\ HoldsSem(c)'
    BY <1>1, <1>2, <1>3, <1>4, <1>5, <2>3
  <2> QED
    BY <2>1, <2>2, <2>3
<1> QED
  BY <1>2, <1>6 DEF B

(* The same for the slots of the pool of its depth (subTurnSlots).         *)
LEMMA PoolMoves ==
  ASSUME TypeOK, NEW c \in Subs,
         UNCHANGED depth,
         \A x \in Subs \ {c} : HoldsSlot(x) <=> HoldsSlot(x)',
         HoldsSlot(c) \/ HoldsSlot(c)' => depth[c] \in Depths,
         \A d \in Depths : pool[d] = Cardinality(SlotHolders(d)),
         HoldsSlot(c) /\ ~HoldsSlot(c)' => pool' = [pool EXCEPT ![depth[c]] = @ - 1],
         ~HoldsSlot(c) /\ HoldsSlot(c)' => pool' = [pool EXCEPT ![depth[c]] = @ + 1],
         (HoldsSlot(c) <=> HoldsSlot(c)') => pool' = pool
  PROVE  \A d \in Depths : pool'[d] = Cardinality(SlotHolders(d)') /\ pool'[d] \in Nat
<1> SUFFICES ASSUME NEW d \in Depths
             PROVE  pool'[d] = Cardinality(SlotHolders(d)') /\ pool'[d] \in Nat
  OBVIOUS
<1> DEFINE A == SlotHolders(d)
           B == SlotHolders(d)'
<1>1. /\ A \in SUBSET Subs /\ B \in SUBSET Subs
      /\ \A x \in Subs \ {c} : x \in A <=> x \in B
      /\ c \in A <=> (depth[c] = d /\ HoldsSlot(c))
      /\ c \in B <=> (depth[c] = d /\ HoldsSlot(c)')
  BY DEF SlotHolders
<1> HIDE DEF A, B
<1>2. /\ Cardinality(A) \in Nat /\ Cardinality(B) \in Nat
      /\ (c \in A <=> c \in B) => Cardinality(B) = Cardinality(A)
      /\ c \in A /\ c \notin B => Cardinality(B) = Cardinality(A) - 1
      /\ c \notin A /\ c \in B => Cardinality(B) = Cardinality(A) + 1
  BY <1>1, OneMoves
<1>3. pool[d] = Cardinality(A)
  BY DEF A
<1>5. pool \in [Depths -> 0 .. MaxGlobal]
  BY DEF TypeOK
<1>6. pool'[d] = Cardinality(B)
  <2>1. CASE HoldsSlot(c) <=> HoldsSlot(c)'
    BY <1>1, <1>2, <1>3, <2>1
  <2>2. CASE HoldsSlot(c) /\ ~HoldsSlot(c)'
    BY <1>1, <1>2, <1>3, <1>5, <2>2
  <2>3. CASE ~HoldsSlot(c) /\ HoldsSlot(c)'
    BY <1>1, <1>2, <1>3, <1>5, <2>3
  <2> QED
    BY <2>1, <2>2, <2>3
<1> QED
  BY <1>2, <1>6 DEF B
-----------------------------------------------------------------------------

(* How a step of c may change the counters: not at all, by giving back     *)
(* what c holds, or by taking one.                                         *)
SemStep(c) ==
  \/ sem' = sem /\ (HoldsSem(c) <=> HoldsSem(c)')
  \/ sem' = SemWithout(c) /\ ~HoldsSem(c)'
  \/ /\ ~HoldsSem(c) /\ HoldsSem(c)' /\ sem[parent[c]] < MaxConcurrent
     /\ sem' = [sem EXCEPT ![parent[c]] = @ + 1]
PoolStep(c) ==
  \/ pool' = pool /\ (HoldsSlot(c) <=> HoldsSlot(c)')
  \/ pool' = PoolWithout(c) /\ ~HoldsSlot(c)'
  \/ /\ ~HoldsSlot(c) /\ HoldsSlot(c)' /\ pool[depth[c]] < MaxGlobal
     /\ pool' = [pool EXCEPT ![depth[c]] = @ + 1]

(* A step of one spawn that has begun, within the tree as it is.           *)
LEMMA TokenMoves ==
  ASSUME SubTurnsInv, NEW c \in Subs, NEW p \in PCs \ {"unused", "sem"},
         UNCHANGED <<parent, depth>>,
         pc' = [pc EXCEPT ![c] = p], pc[c] # "unused",
         \A x \in Subs \ {c} : x \in panicked' <=> x \in panicked,
         p \in {"slot", "setup", "run"} =>
           pc[c] \in {"sem", "slot", "setup"} /\ panicked' = panicked,
         p = "slot" \/ HoldsSlot(c)' => depth[c] \in Depths,
         SemStep(c), PoolStep(c)
  PROVE  /\ pc' \in [Turns -> PCs]
         /\ sem' \in [Subs -> 0 .. MaxConcurrent]
         /\ pool' \in [Depths -> 0 .. MaxGlobal]
         /\ TreeShape' /\ SlotsMatchRuns'
<1> USE DEF SubTurnsInv
<1>1. pc \in [Turns -> PCs] /\ c \in Turns
  BY DEF TypeOK, Turns
<1>2. pc' \in [Turns -> PCs]
  BY <1>1
<1>3. \A x \in Turns \ {c} : pc'[x] = pc[x]
  BY <1>1
<1>4. pc'[c] = p
  BY <1>1
<1>5. \A x \in Subs \ {c} : HoldsSem(x) <=> HoldsSem(x)'
  BY <1>3 DEF HoldsSem, Late, Turns
<1>15. \A x \in Subs \ {c} : HoldsSlot(x) <=> HoldsSlot(x)'
  BY <1>3 DEF HoldsSlot, Late, Turns
<1>6. HoldsSlot(c) => depth[c] \in Depths
  BY DEF SlotsMatchRuns
<1>7. \A t \in Subs : sem[t] = Cardinality(SemHolders(t))
  BY DEF SlotsMatchRuns, SemHolders
<1>8. \A d \in Depths : pool[d] = Cardinality(SlotHolders(d))
  BY DEF SlotsMatchRuns, SlotHolders
<1>9. \A t \in Subs : sem'[t] = Cardinality(SemHolders(t)') /\ sem'[t] \in Nat
  <2>2. /\ HoldsSem(c) /\ ~HoldsSem(c)' => sem' = [sem EXCEPT ![parent[c]] = @ - 1]
        /\ ~HoldsSem(c) /\ HoldsSem(c)' => sem' = [sem EXCEPT ![parent[c]] = @ + 1]
        /\ (HoldsSem(c) <=> HoldsSem(c)') => sem' = sem
    BY DEF SemStep, SemWithout
  <2>9. TypeOK /\ UNCHANGED parent
    OBVIOUS
  <2> QED
    BY <1>5, <1>7, <2>2, <2>9, SemMoves
<1>10. \A d \in Depths : pool'[d] = Cardinality(SlotHolders(d)') /\ pool'[d] \in Nat
  <2>2. /\ HoldsSlot(c) /\ ~HoldsSlot(c)' => pool' = [pool EXCEPT ![depth[c]] = @ - 1]
        /\ ~HoldsSlot(c) /\ HoldsSlot(c)' => pool' = [pool EXCEPT ![depth[c]] = @ + 1]
        /\ (HoldsSlot(c) <=> HoldsSlot(c)') => pool' = pool
    BY DEF PoolStep, PoolWithout, PoolOf
  <2>3. HoldsSlot(c) \/ HoldsSlot(c)' => depth[c] \in Depths
    BY <1>6
  <2>9. TypeOK /\ UNCHANGED depth
    OBVIOUS
  <2> QED
    BY <1>8, <1>15, <2>2, <2>3, <2>9, PoolMoves
<1>11. sem' \in [Subs -> 0 .. MaxConcurrent]
  <2>1. sem \in [Subs -> 0 .. MaxConcurrent]
    BY DEF TypeOK
  <2>2. DOMAIN sem' = Subs /\ sem' = [t \in Subs |-> sem'[t]]
    BY <2>1 DEF SemStep, SemWithout
  <2>3. \A t \in Subs : sem'[t] <= MaxConcurrent
    BY <1>9, <2>1, SubTurnsAssumption DEF SemStep, SemWithout
  <2> QED
    BY <1>9, <2>2, <2>3, SubTurnsAssumption
<1>12. pool' \in [Depths -> 0 .. MaxGlobal]
  <2>1. pool \in [Depths -> 0 .. MaxGlobal]
    BY DEF TypeOK
  <2>2. DOMAIN pool' = Depths /\ pool' = [d \in Depths |-> pool'[d]]
    BY <2>1 DEF PoolStep, PoolWithout
  <2>3. \A d \in Depths : pool'[d] <= MaxGlobal
    BY <1>10, <2>1, SubTurnsAssumption DEF PoolStep, PoolWithout, PoolOf
  <2> QED
    BY <1>10, <2>2, <2>3, SubTurnsAssumption
<1>13. TreeShape'
  <2>1. \A r \in Roots : depth'[r] = 0
    BY DEF TreeShape
  <2>2. \A x \in Turns : pc[x] # "unused" => pc'[x] # "unused"
    BY <1>3, <1>4
  <2>3. \A x \in Subs \ {c} : pc'[x] = pc[x] /\ (x \in panicked' <=> x \in panicked)
    BY <1>3 DEF Turns
  <2>4. \A x \in Subs \ {c} :
           /\ pc'[x] \in {"sem", "slot", "setup", "run"} =>
                parent'[x] \in Turns /\ depth'[x] = depth'[parent'[x]] + 1
           /\ pc'[x] = "sem" => parent'[x] \in Subs
           /\ pc'[x] = "slot" => depth'[x] \in Depths
           /\ pc'[x] # "unused" => parent'[x] \in Turns
           /\ pc'[x] \notin {"look", "send", "done"} => x \notin panicked'
           /\ parent'[x] \in Turns => pc'[parent'[x]] # "unused"
    BY <2>2, <2>3 DEF TreeShape
  <2>5. /\ pc'[c] \in {"slot", "setup", "run"} =>
             parent'[c] \in Turns /\ depth'[c] = depth'[parent'[c]] + 1
        /\ pc'[c] = "slot" => depth'[c] \in Depths
        /\ pc'[c] \notin {"unused", "sem"} /\ parent'[c] \in Turns
        /\ pc'[parent'[c]] # "unused"
    BY <1>4, <2>2 DEF TreeShape
  <2>6. pc'[c] \notin {"look", "send", "done"} => c \notin panicked'
    BY <1>4 DEF TreeShape, PCs
  <2> QED
    BY <2>1, <2>4, <2>5, <2>6 DEF TreeShape
<1>14. SlotsMatchRuns'
  <2>1. \A x \in Subs : HoldsSlot(x)' => depth'[x] \in Depths
    BY <1>15 DEF SlotsMatchRuns
  <2> QED
    BY <1>9, <1>10, <2>1 DEF SlotsMatchRuns, SemHolders, SlotHolders
<1> QED
  BY <1>2, <1>11, <1>12, <1>13, <1>14

-----------------------------------------------------------------------------
(***************************************************************************)
(* The invariant.                                                          *)
(***************************************************************************)

LEMMA SubTurnsStarts == Init => SubTurnsInv
<1> SUFFICES ASSUME Init PROVE SubTurnsInv
  OBVIOUS
<1>1. TypeOK
  BY SubTurnsAssumption DEF Init, TypeOK, Turns, PCs, Finishing, Depths
<1>2. TreeShape
  BY SubTurnsAssumption DEF Init, TreeShape, Turns
<1>3. \A c \in Subs : ~HoldsSem(c) /\ ~HoldsSlot(c)
  BY SubTurnsAssumption DEF Init, HoldsSem, HoldsSlot, Late, Turns
<1>4. /\ \A t \in Subs : {c \in Subs : parent[c] = t /\ HoldsSem(c)} = {}
      /\ \A d \in Depths : {c \in Subs : depth[c] = d /\ HoldsSlot(c)} = {}
  BY <1>3
<1>5. SlotsMatchRuns
  BY <1>3, <1>4, FS_EmptySet DEF Init, SlotsMatchRuns
<1> QED
  BY <1>1, <1>2, <1>5 DEF SubTurnsInv

(* A step that moves no spawn leaves the counts as they are.               *)
LEMMA NobodyMoves ==
  ASSUME SubTurnsInv, UNCHANGED <<parent, depth, sem, pool, panicked>>,
         pc' \in [Turns -> PCs],
         \A c \in Subs : pc'[c] = pc[c],
         \A t \in Turns : pc[t] # "unused" => pc'[t] # "unused"
  PROVE  TreeShape' /\ SlotsMatchRuns'
<1>1. \A c \in Subs : HoldsSem(c) <=> HoldsSem(c)'
  BY DEF HoldsSem, Late
<1>2. \A c \in Subs : HoldsSlot(c) <=> HoldsSlot(c)'
  BY DEF HoldsSlot, Late
<1>3. /\ \A t \in Subs : SemHolders(t)' = SemHolders(t)
      /\ \A d \in Depths : SlotHolders(d)' = SlotHolders(d)
  BY <1>1, <1>2 DEF SemHolders, SlotHolders
<1>4. SlotsMatchRuns'
  BY <1>2, <1>3 DEF SubTurnsInv, SlotsMatchRuns, SemHolders, SlotHolders
<1>5. TreeShape'
  BY DEF SubTurnsInv, TreeShape
<1> QED
  BY <1>4, <1>5

(* spawnSubTurn begins.                                                    *)
LEMMA SpawnStep ==
  ASSUME SubTurnsInv, NEW t \in Turns, NEW c \in Subs, NEW isAsync \in BOOLEAN,
         Spawn(t, c, isAsync)
  PROVE  SubTurnsInv'
<1> USE DEF SubTurnsInv
<1>1. /\ pc[t] = "run" /\ pc[c] = "unused" /\ c \in Turns /\ c # t
      /\ parent' = [parent EXCEPT ![c] = t]
      /\ depth' = [depth EXCEPT ![c] = depth[t] + 1]
      /\ pc' = [pc EXCEPT ![c] = IF t \in Roots THEN "slot" ELSE "sem"]
      /\ UNCHANGED <<sem, pool, panicked>>
  BY DEF Spawn, Goto, Turns
<1>2. /\ pc \in [Turns -> PCs] /\ depth \in [Turns -> 0 .. MaxDepth + 1]
      /\ parent \in [Subs -> Turns \cup {None}]
  BY DEF TypeOK
<1>3. depth[t] \in 0 .. MaxDepth
  <2>1. CASE t \in Roots
    BY <2>1, SubTurnsAssumption DEF TreeShape
  <2>2. CASE t \in Subs
    <3>1. HoldsSlot(t)
      BY <1>1 DEF HoldsSlot
    <3> QED
      BY <2>2, <3>1 DEF SlotsMatchRuns, Depths
  <2> QED
    BY <2>1, <2>2 DEF Turns
<1>4. TypeOK'
  <2>1. pc' \in [Turns -> PCs] /\ parent' \in [Subs -> Turns \cup {None}]
    BY <1>1, <1>2 DEF PCs
  <2>2. depth' \in [Turns -> 0 .. MaxDepth + 1]
    BY <1>1, <1>2, <1>3, SubTurnsAssumption
  <2> QED
    BY <2>1, <2>2 DEF TypeOK, Spawn
<1>5. \A x \in Subs \ {c} : /\ pc'[x] = pc[x] /\ parent'[x] = parent[x]
                            /\ depth'[x] = depth[x]
  BY <1>1, <1>2 DEF Turns
<1>6. /\ pc'[c] = (IF t \in Roots THEN "slot" ELSE "sem") /\ parent'[c] = t
      /\ depth'[c] = depth[t] + 1
  BY <1>1, <1>2
<1>7. ~HoldsSem(c) /\ ~HoldsSlot(c)
  BY <1>1 DEF HoldsSem, HoldsSlot, Late
<1>8. ~HoldsSem(c)' /\ ~HoldsSlot(c)'
  BY <1>6, SubTurnsAssumption DEF HoldsSem, HoldsSlot, Late
<1>9. \A x \in Subs : HoldsSem(x) <=> HoldsSem(x)'
  <2>1. \A x \in Subs \ {c} : HoldsSem(x) <=> HoldsSem(x)'
    BY <1>1, <1>5 DEF HoldsSem, Late
  <2> QED
    BY <1>7, <1>8, <2>1
<1>10. \A x \in Subs : HoldsSlot(x) <=> HoldsSlot(x)'
  <2>1. \A x \in Subs \ {c} : HoldsSlot(x) <=> HoldsSlot(x)'
    BY <1>1, <1>5 DEF HoldsSlot, Late
  <2> QED
    BY <1>7, <1>8, <2>1
<1>11. /\ \A x \in Subs : SemHolders(x)' = SemHolders(x)
       /\ \A d \in Depths : SlotHolders(d)' = SlotHolders(d)
  BY <1>5, <1>7, <1>8, <1>9, <1>10 DEF SemHolders, SlotHolders
<1>12. SlotsMatchRuns'
  <2>1. \A x \in Subs : HoldsSlot(x)' => depth'[x] \in Depths
    BY <1>5, <1>8, <1>10 DEF SlotsMatchRuns
  <2> QED
    BY <1>1, <1>11, <2>1 DEF SlotsMatchRuns, SemHolders, SlotHolders
<1>13. TreeShape'
  <2>1. \A r \in Roots : depth'[r] = 0
    BY <1>1, <1>2, SubTurnsAssumption DEF TreeShape, Turns
  <2>2. \A x \in Turns \ {c} : depth'[x] = depth[x] /\ pc'[x] = pc[x]
    BY <1>1, <1>2
  <2>3. \A x \in Subs \ {c} : parent[x] # c
    BY <1>1 DEF TreeShape
  <2>4. \A x \in Subs \ {c} :
           /\ pc'[x] \in {"sem", "slot", "setup", "run"} =>
                parent'[x] \in Turns /\ depth'[x] = depth'[parent'[x]] + 1
           /\ pc'[x] = "sem" => parent'[x] \in Subs
           /\ pc'[x] = "slot" => depth'[x] \in Depths
           /\ pc'[x] # "unused" => parent'[x] \in Turns
           /\ pc'[x] \notin {"look", "send", "done"} => x \notin panicked'
           /\ parent'[x] \in Turns => pc'[parent'[x]] # "unused"
    BY <1>1, <1>5, <2>2, <2>3 DEF TreeShape
  <2>5. /\ parent'[c] \in Turns /\ depth'[c] = depth'[parent'[c]] + 1
        /\ pc'[c] = "sem" => parent'[c] \in Subs
        /\ pc'[parent'[c]] # "unused" /\ c \notin panicked'
    BY <1>1, <1>6, <2>2 DEF Turns, TreeShape
  <2>6. pc'[c] = "slot" => depth'[c] \in Depths
    BY <1>6, SubTurnsAssumption DEF TreeShape, Depths
  <2> QED
    BY <2>1, <2>4, <2>5, <2>6 DEF TreeShape
<1> QED
  BY <1>4, <1>12, <1>13

(* Every other step of a spawn, as TokenMoves takes it.                    *)
LEMMA SpawnMoves ==
  ASSUME SubTurnsInv, NEW c \in Subs,
         AcquireSem(c) \/ AcquireSlot(c) \/ GiveUp(c) \/ Register(c)
           \/ EndRun(c) \/ Panic(c) \/ Deliver(c)
  PROVE  SubTurnsInv'
<1> USE DEF SubTurnsInv
<1>0. pc \in [Turns -> PCs] /\ c \in Turns
  BY DEF TypeOK, Turns
<1>1. SUFFICES ASSUME TRUE
      PROVE  /\ pc' \in [Turns -> PCs]
             /\ sem' \in [Subs -> 0 .. MaxConcurrent]
             /\ pool' \in [Depths -> 0 .. MaxGlobal]
             /\ TreeShape' /\ SlotsMatchRuns'
  <2>1. UNCHANGED <<parent, depth, async, aborted, finish>>
    BY DEF AcquireSem, AcquireSlot, GiveUp, Register, EndRun, Panic, Deliver,
           Look, Send, SendOrphan, Unchanged
  <2>2. results' \in [Subs -> Seq(Subs)]
    <3>1. CASE Send(c)
      <4>1. results' = [results EXCEPT ![parent[c]] = Append(@, c)]
        BY <3>1 DEF Send
      <4>2. results \in [Subs -> Seq(Subs)]
        BY DEF TypeOK
      <4>3. \A q \in Seq(Subs) : Append(q, c) \in Seq(Subs)
        OBVIOUS
      <4> QED
        BY <4>1, <4>2, <4>3
    <3>2. CASE ~Send(c)
      BY <3>2 DEF TypeOK, AcquireSem, AcquireSlot, GiveUp, Register, EndRun, Panic,
           Deliver, Look, SendOrphan
    <3> QED
      BY <3>1, <3>2
  <2>3. panicked' \subseteq Subs
    BY DEF TypeOK, AcquireSem, AcquireSlot, GiveUp, Register, EndRun, Panic, Deliver,
           Look, Send, SendOrphan
  <2>4. faults' \in 0 .. MaxFaults
    BY SubTurnsAssumption DEF TypeOK, AcquireSem, AcquireSlot, GiveUp, Register, EndRun,
           Panic, Deliver, Look, Send, SendOrphan, Fault
  <2> QED
    BY <2>1, <2>2, <2>3, <2>4 DEF TypeOK
<1>2. CASE AcquireSem(c)
  <2>1. CASE depth[parent[c]] >= MaxDepth
    <3>1. /\ pc[c] = "sem" /\ UNCHANGED <<parent, depth, panicked, sem, pool>>
          /\ pc' = [pc EXCEPT ![c] = "done"]
      BY <1>2, <2>1 DEF AcquireSem, Goto, Unchanged
    <3>2. pc'[c] = "done"
      BY <1>0, <3>1
    <3>3. SemStep(c) /\ PoolStep(c) /\ ~HoldsSlot(c)'
      BY <3>1, <3>2 DEF SemStep, PoolStep, HoldsSem, HoldsSlot, Late
    <3> QED
      BY <3>1, <3>3, TokenMoves DEF PCs
  <2>2. CASE ~(depth[parent[c]] >= MaxDepth)
    <3>1. /\ pc[c] = "sem" /\ UNCHANGED <<parent, depth, panicked, pool>>
          /\ pc' = [pc EXCEPT ![c] = "slot"]
          /\ sem' = [sem EXCEPT ![parent[c]] = @ + 1] /\ sem[parent[c]] < MaxConcurrent
      BY <1>2, <2>2 DEF AcquireSem, Goto, Unchanged
    <3>2. pc'[c] = "slot" /\ parent[c] \in Subs
      BY <1>0, <3>1 DEF TreeShape
    <3>3. SemStep(c)
      BY <3>1, <3>2 DEF SemStep, HoldsSem, Late
    <3>4. PoolStep(c) /\ ~HoldsSlot(c)'
      BY <3>1, <3>2 DEF PoolStep, HoldsSlot, Late
    <3>5. depth[c] \in Depths
      <4>1. depth[c] = depth[parent[c]] + 1 /\ parent[c] \in Turns
        BY <3>1 DEF TreeShape
      <4>2. depth[parent[c]] \in Nat /\ depth[parent[c]] < MaxDepth
        BY <2>2, <4>1, SubTurnsAssumption DEF TypeOK
      <4> QED
        BY <4>1, <4>2, SubTurnsAssumption DEF Depths
    <3> QED
      BY <3>1, <3>3, <3>4, <3>5, TokenMoves DEF PCs
  <2> QED
    BY <2>1, <2>2
<1>3. CASE AcquireSlot(c)
  <2>1. /\ pc[c] = "slot" /\ UNCHANGED <<parent, depth, panicked, sem>>
        /\ pc' = [pc EXCEPT ![c] = "setup"]
        /\ pool' = [pool EXCEPT ![depth[c]] = @ + 1] /\ pool[depth[c]] < MaxGlobal
    BY <1>3 DEF AcquireSlot, Goto, Unchanged, PoolOf
  <2>2. pc'[c] = "setup" /\ depth[c] \in Depths
    BY <1>0, <2>1 DEF TreeShape
  <2>3. SemStep(c) /\ PoolStep(c)
    BY <2>1, <2>2 DEF SemStep, PoolStep, HoldsSem, HoldsSlot, Late
  <2> QED
    BY <2>1, <2>2, <2>3, TokenMoves DEF PCs
<1>4. CASE Register(c)
  <2>1. /\ pc[c] = "setup" /\ UNCHANGED <<parent, depth, panicked, sem, pool>>
        /\ pc' = [pc EXCEPT ![c] = "run"]
    BY <1>4 DEF Register, Goto, Unchanged
  <2>2. pc'[c] = "run" /\ depth[c] \in Depths
    BY <1>0, <2>1 DEF SlotsMatchRuns, HoldsSlot
  <2>3. SemStep(c) /\ PoolStep(c)
    BY <2>1, <2>2 DEF SemStep, PoolStep, HoldsSem, HoldsSlot, Late
  <2>4. pc[c] # "unused"
    BY <2>1
  <2>5. /\ "run" \in PCs \ {"unused", "sem"}
        /\ pc[c] \in {"sem", "slot", "setup"}
        /\ \A x \in Subs \ {c} : x \in panicked' <=> x \in panicked
    BY <2>1 DEF PCs
  <2> QED
    BY <2>1, <2>2, <2>3, <2>4, <2>5, TokenMoves
<1>5. ASSUME NEW p \in {"look", "send", "done"}, pc[c] \notin {"unused"},
             pc' = [pc EXCEPT ![c] = p], UNCHANGED <<parent, depth>>,
             \A x \in Subs \ {c} : x \in panicked' <=> x \in panicked,
             SemStep(c), PoolStep(c), HoldsSlot(c)' => HoldsSlot(c)
      PROVE  /\ pc' \in [Turns -> PCs]
             /\ sem' \in [Subs -> 0 .. MaxConcurrent]
             /\ pool' \in [Depths -> 0 .. MaxGlobal]
             /\ TreeShape' /\ SlotsMatchRuns'
  <2>1. p \in PCs \ {"unused", "sem"} /\ p \notin {"slot", "setup", "run"}
    BY DEF PCs
  <2>2. pc[c] # "unused"
    BY <1>5
  <2>4. HoldsSlot(c)' => depth[c] \in Depths
    BY <1>5 DEF SlotsMatchRuns
  <2> QED
    BY <1>5, <2>1, <2>2, <2>4, TokenMoves
<1>6. CASE GiveUp(c)
  <2>1. /\ pc[c] # "unused" /\ UNCHANGED <<parent, depth, panicked>>
        /\ pc' = [pc EXCEPT ![c] = "done"]
        /\ sem' = SemWithout(c) /\ pool' = PoolWithout(c)
    BY <1>6 DEF GiveUp, Goto, Unchanged
  <2>2. pc'[c] = "done"
    BY <1>0, <2>1
  <2>3. SemStep(c) /\ PoolStep(c) /\ (HoldsSlot(c)' => HoldsSlot(c))
    BY <2>1, <2>2 DEF SemStep, PoolStep, HoldsSem, HoldsSlot, Late
  <2> QED
    BY <1>5, <2>1, <2>3
<1>7. CASE EndRun(c)
  <2> DEFINE p == IF c \in async THEN "look" ELSE "done"
  <2>1. /\ pc[c] # "unused" /\ UNCHANGED <<parent, depth, panicked>>
        /\ pc' = [pc EXCEPT ![c] = p]
        /\ sem' = SemWithout(c) /\ pool' = PoolWithout(c)
    BY <1>7 DEF EndRun, Goto, Unchanged
  <2>2. pc'[c] = p /\ p \in {"look", "send", "done"}
    BY <1>0, <2>1
  <2>3. SemStep(c) /\ PoolStep(c) /\ (HoldsSlot(c)' => HoldsSlot(c))
    <3>1. c \notin panicked /\ panicked' = panicked
      BY <1>7, <2>1 DEF EndRun, TreeShape
    <3> QED
      BY <2>1, <2>2, <3>1 DEF SemStep, PoolStep, HoldsSem, HoldsSlot, Late
  <2> QED
    BY <1>5, <2>1, <2>2, <2>3
<1>8. CASE Panic(c)
  <2>1. /\ pc[c] = "run" /\ UNCHANGED <<parent, depth>>
        /\ panicked' = panicked \cup {c}
    BY <1>8 DEF Panic, Unchanged
  <2>2. CASE c \in async
    <3>1. pc' = [pc EXCEPT ![c] = "look"] /\ UNCHANGED <<sem, pool>>
      BY <1>8, <2>2 DEF Panic, Goto
    <3>2. pc'[c] = "look"
      BY <1>0, <3>1
    <3>3. SemStep(c) /\ PoolStep(c) /\ (HoldsSlot(c)' => HoldsSlot(c))
      BY <2>1, <3>1, <3>2 DEF SemStep, PoolStep, HoldsSem, HoldsSlot, Late
    <3> QED
      BY <1>5, <2>1, <3>1, <3>3
  <2>3. CASE c \notin async
    <3>1. /\ pc' = [pc EXCEPT ![c] = "done"]
          /\ sem' = SemWithout(c) /\ pool' = PoolWithout(c)
      BY <1>8, <2>3 DEF Panic, Goto
    <3>2. pc'[c] = "done"
      BY <1>0, <3>1
    <3>3. SemStep(c) /\ PoolStep(c) /\ (HoldsSlot(c)' => HoldsSlot(c))
      BY <2>1, <3>1, <3>2 DEF SemStep, PoolStep, HoldsSem, HoldsSlot, Late
    <3> QED
      BY <1>5, <2>1, <3>1, <3>3
  <2> QED
    BY <2>2, <2>3
<1>9. ASSUME pc[c] \in {"look", "send"}, UNCHANGED <<parent, depth, panicked>>, Return(c)
      PROVE  /\ pc' \in [Turns -> PCs]
             /\ sem' \in [Subs -> 0 .. MaxConcurrent]
             /\ pool' \in [Depths -> 0 .. MaxGlobal]
             /\ TreeShape' /\ SlotsMatchRuns'
  <2>1. /\ pc' = [pc EXCEPT ![c] = "done"]
        /\ sem' = SemWithout(c) /\ pool' = PoolWithout(c)
    BY <1>9 DEF Return, Goto
  <2>2. pc'[c] = "done"
    BY <1>0, <2>1
  <2>3. SemStep(c) /\ PoolStep(c) /\ (HoldsSlot(c)' => HoldsSlot(c))
    BY <2>1, <2>2 DEF SemStep, PoolStep, HoldsSem, HoldsSlot, Late
  <2> QED
    BY <1>5, <1>9, <2>1, <2>3
<1>10. CASE Look(c)
  <2>1. pc[c] = "look" /\ UNCHANGED <<parent, depth, panicked>>
    BY <1>10 DEF Look, Unchanged
  <2>2. CASE parent[c] \in Roots \/ finish[parent[c]] # "no"
    BY <1>9, <1>10, <2>1, <2>2 DEF Look
  <2>3. CASE ~(parent[c] \in Roots \/ finish[parent[c]] # "no")
    <3>1. pc' = [pc EXCEPT ![c] = "send"] /\ UNCHANGED <<sem, pool>>
      BY <1>10, <2>3 DEF Look, Goto
    <3>2. pc'[c] = "send"
      BY <1>0, <3>1
    <3>3. SemStep(c) /\ PoolStep(c) /\ (HoldsSlot(c)' => HoldsSlot(c))
      BY <2>1, <3>1, <3>2 DEF SemStep, PoolStep, HoldsSem, HoldsSlot, Late
    <3> QED
      BY <1>5, <2>1, <3>1, <3>3
  <2> QED
    BY <2>2, <2>3
<1>11. CASE Send(c)
  BY <1>9, <1>11 DEF Send, Unchanged
<1>12. CASE SendOrphan(c)
  BY <1>9, <1>12 DEF SendOrphan, Unchanged
<1> QED
  BY <1>2, <1>3, <1>4, <1>6, <1>7, <1>8, <1>10, <1>11, <1>12 DEF Deliver

LEMMA SubTurnsStep == SubTurnsInv /\ [Next]_vars => SubTurnsInv'
<1> SUFFICES ASSUME SubTurnsInv, [Next]_vars PROVE SubTurnsInv'
  OBVIOUS
<1> USE DEF SubTurnsInv
<1>0. pc \in [Turns -> PCs] /\ finish \in [Turns -> Finishing]
  BY DEF TypeOK
<1>1. ASSUME NEW t \in Turns, NEW c \in Subs, NEW isAsync \in BOOLEAN,
             Spawn(t, c, isAsync)
      PROVE  SubTurnsInv'
  BY <1>1, SpawnStep
<1>2. ASSUME NEW c \in Subs,
             AcquireSem(c) \/ AcquireSlot(c) \/ GiveUp(c) \/ Register(c)
               \/ EndRun(c) \/ Panic(c) \/ Deliver(c)
      PROVE  SubTurnsInv'
  BY <1>2, SpawnMoves
<1>3. ASSUME NEW c \in Subs, Poll(c) PROVE SubTurnsInv'
  <2>1. results' \in [Subs -> Seq(Subs)]
    <3>1. results \in [Subs -> Seq(Subs)] /\ results[c] # << >>
      BY <1>3 DEF TypeOK, Poll
    <3>2. Tail(results[c]) \in Seq(Subs)
      BY <3>1
    <3> QED
      BY <1>3, <3>1, <3>2 DEF Poll
  <2>2. UNCHANGED <<pc, parent, depth, async, sem, pool, aborted, finish, panicked, faults>>
    BY <1>3 DEF Poll, Unchanged
  <2>3. TypeOK'
    BY <2>1, <2>2 DEF TypeOK
  <2> QED
    BY <1>0, <2>2, <2>3, NobodyMoves
<1>4. ASSUME NEW t \in Turns, EndRoot(t) PROVE SubTurnsInv'
  <2>1. /\ t \in Roots /\ pc[t] = "run" /\ pc' = [pc EXCEPT ![t] = "done"]
        /\ UNCHANGED <<parent, depth, async, sem, pool, results, aborted, finish,
                       panicked, faults>>
    BY <1>4 DEF EndRoot, Goto, Unchanged
  <2>2. pc' \in [Turns -> PCs]
    BY <1>0, <2>1 DEF PCs
  <2>3. /\ \A c \in Subs : pc'[c] = pc[c]
        /\ \A x \in Turns : pc[x] # "unused" => pc'[x] # "unused"
    BY <1>0, <2>1, SubTurnsAssumption DEF Turns
  <2>4. TypeOK'
    BY <2>1, <2>2 DEF TypeOK
  <2> QED
    BY <2>1, <2>2, <2>3, <2>4, NobodyMoves
<1>5. ASSUME NEW t \in Turns, HardAbort(t) \/ Close(t) \/ Cascade(t)
      PROVE  SubTurnsInv'
  <2>1. UNCHANGED <<pc, parent, depth, async, sem, pool, results, panicked>>
    BY <1>5 DEF HardAbort, Close, Cascade
  <2>2. finish' \in [Turns -> Finishing]
    BY <1>0, <1>5 DEF HardAbort, Close, Cascade, Finishing
  <2>3. aborted' \subseteq Turns
    BY <1>5 DEF HardAbort, Close, Cascade, TypeOK
  <2>4. faults' \in 0 .. MaxFaults
    BY <1>5, SubTurnsAssumption DEF HardAbort, Close, Cascade, TypeOK, Fault
  <2>5. TypeOK'
    BY <2>1, <2>2, <2>3, <2>4 DEF TypeOK
  <2> QED
    BY <1>0, <2>1, <2>5, NobodyMoves
<1>6. CASE UNCHANGED vars
  <2>1. TypeOK'
    BY <1>6 DEF TypeOK, vars
  <2> QED
    BY <1>0, <1>6, <2>1, NobodyMoves DEF vars
<1> QED
  BY <1>1, <1>2, <1>3, <1>4, <1>5, <1>6 DEF Next

(* Type correctness: every counter stays within its capacity, a semaphore  *)
(* never gives back more than was taken, for any limits.                   *)
THEOREM SubTurnsTypeCorrect == Spec => []TypeOK
<1>1. SubTurnsInv => TypeOK
  BY DEF SubTurnsInv
<1> QED
  BY <1>1, SubTurnsStarts, SubTurnsStep, PTL DEF Spec

(* spawnSubTurn's deferred releases: in every state the tokens of each     *)
(* turn's semaphore and the slots of each depth's pool are those of the    *)
(* spawns that hold them, and what runs is no deeper than MaxDepth.        *)
THEOREM SlotsAccounted == Spec => []SlotsMatchRuns
<1>1. SubTurnsInv => SlotsMatchRuns
  BY DEF SubTurnsInv
<1> QED
  BY <1>1, SubTurnsStarts, SubTurnsStep, PTL DEF Spec
=============================================================================
