------------------------- MODULE TurnDispatchProofs -------------------------
(***************************************************************************)
(* Proofs about TurnDispatch, for any number of messages, sessions,        *)
(* workers and queue slots.                                                *)
(*                                                                         *)
(* The argument: while a session has not been stolen from, a worker        *)
(* between its claim and the end of its turn (or of a Continue) is the     *)
(* owner of the session's entry, and an entry has one owner.  A message is *)
(* in the place its fate names, and in no other.                           *)
(***************************************************************************)
EXTENDS TurnDispatch, FiniteSetTheorems, TLAPS

(* Where a worker holds the session: by its first placeholder, by the one  *)
(* of Continue, or by its turn.                                            *)
ByClaim(w) ==
  \/ wpc[w] \in {"sem", "gate", "unclaim", "process", "procAbort"}
  \/ wpc[w] = "register" /\ ~isCont[w]
ByCont(w) ==
  \/ wpc[w] = "contDeq"
  \/ wpc[w] = "register" /\ isCont[w]
ByTurn(w) == wpc[w] \in TurnPCs

OwnsSlot ==
  \A w \in Msgs : SessionOf[w] \notin stolen =>
    /\ ByClaim(w) => Slot(w) = Entry("claim", w)
    /\ ByCont(w)  => Slot(w) = Entry("cont", w)
    /\ ByTurn(w)  => Slot(w) = Entry("turn", w)

(* The converse: the owner of an entry is at a point from which it will    *)
(* still replace or delete it.                                             *)
HoldsEntry(k, w) ==
  /\ (k = "turn")  => (wpc[w] \in TurnPCs)
  /\ (k = "claim") => /\ wpc[w] \notin TurnPCs \cup {"none", "done", "contDeq"}
                      /\ ~(wpc[w] = "register" /\ isCont[w])
  /\ (k = "cont")  =>
       \/ wpc[w] \in {"contDeq", "exit", "cleanup", "cleanupChk", "cleanupDel"}
       \/ wpc[w] = "register" /\ isCont[w]
       \/ wpc[w] \in {"panic", "panicCleanup", "done"} /\ w \in wedged
  /\ (wpc[w] = "cleanupChk") => (seen[w] = Entry(k, w))

SlotOwned ==
  \A s \in Sessions : activeTurns[s] # NoEntry =>
    LET e == activeTurns[s]
    IN  /\ e.owner \in Msgs /\ SessionOf[e.owner] = s
        /\ HoldsEntry(e.kind, e.owner)

(* A message that was not received has no worker.                          *)
Fresh == \A m \in Msgs : (fate[m] = "inbox") => (wpc[m] = "none")

DispatchInv == TypeOK /\ TokensMatchWorkers /\ Fresh /\ OwnsSlot /\ SlotOwned

-----------------------------------------------------------------------------
(***************************************************************************)
(* Tokens.  Holders(f) are the workers that hold a token when their        *)
(* program counters are f.                                                 *)
(***************************************************************************)
Holders(f) == {m \in Msgs : f[m] \in TokenPCs}

(* One worker's step changes the number of token holders by what its own   *)
(* program counter says (the send and the receive on workerSem).           *)
LEMMA HolderMoves ==
  ASSUME NEW f \in [Msgs -> WorkerPCs], NEW w \in Msgs, NEW pc \in WorkerPCs
  PROVE  LET g == [f EXCEPT ![w] = pc]
             n == Cardinality(Holders(f))
         IN  /\ n \in Nat
             /\ (f[w] \in TokenPCs <=> pc \in TokenPCs)
                  => Cardinality(Holders(g)) = n
             /\ f[w] \notin TokenPCs /\ pc \in TokenPCs
                  => Cardinality(Holders(g)) = n + 1
             /\ f[w] \in TokenPCs /\ pc \notin TokenPCs
                  => n >= 1 /\ Cardinality(Holders(g)) = n - 1
<1> DEFINE g == [f EXCEPT ![w] = pc]
<1>1. IsFiniteSet(Holders(f))
  BY DispatchAssumption, FS_Subset DEF Holders
<1>a. Cardinality(Holders(f)) \in Nat
  BY <1>1, FS_CardinalityType
<1>2. CASE f[w] \in TokenPCs <=> pc \in TokenPCs
  <2>1. Holders(g) = Holders(f)
    BY SMTT(40), <1>2 DEF Holders
  <2> QED
    BY <1>a, <1>2, <2>1
<1>3. CASE f[w] \notin TokenPCs /\ pc \in TokenPCs
  <2>1. Holders(g) = Holders(f) \cup {w} /\ w \notin Holders(f)
    BY <1>3 DEF Holders
  <2>2. Cardinality(Holders(f) \cup {w}) = Cardinality(Holders(f)) + 1
    BY <1>1, <2>1, FS_AddElement
  <2> QED
    BY <1>a, <1>3, <2>1, <2>2
<1>4. CASE f[w] \in TokenPCs /\ pc \notin TokenPCs
  <2>1. Holders(g) = Holders(f) \ {w} /\ w \in Holders(f)
    BY SMTT(40), <1>4 DEF Holders
  <2>2. Cardinality(Holders(f) \ {w}) = Cardinality(Holders(f)) - 1
    BY <1>1, <2>1, FS_RemoveElement
  <2>3. Cardinality(Holders(f) \ {w}) \in Nat
    BY <1>1, FS_Subset, FS_CardinalityType
  <2>4. Cardinality(Holders(f)) >= 1
    BY <1>a, <2>2, <2>3
  <2>5. Cardinality(Holders(g)) = Cardinality(Holders(f)) - 1
    BY <2>1, <2>2
  <2> QED
    BY <1>a, <1>4, <2>4, <2>5
<1> QED
  BY SMTT(40), <1>2, <1>3, <1>4

-----------------------------------------------------------------------------
(***************************************************************************)
(* Type correctness and the token count.  workerSem - 1 is a natural       *)
(* number only because the worker that gives a token back holds one, so    *)
(* the two are proved together.                                            *)
(***************************************************************************)

(* What a dequeue takes are messages, and it leaves a queue of messages.   *)
LEMMA DequeuedType ==
  ASSUME steering \in [Sessions -> Seq(Msgs)], NEW s \in Sessions
  PROVE  /\ SteeringMsgs(s) \subseteq Msgs
         /\ steering[s] # << >> =>
              Dequeued(s) \subseteq Msgs /\ Remaining(s) \in Seq(Msgs)
  BY DispatchAssumption DEF SteeringMsgs, Dequeued, Remaining

(* A step of the receive loop keeps the types and leaves tokens alone.     *)
LEMMA LoopType ==
  ASSUME TypeOK, LoopNext \/ Shutdown
  PROVE  TypeOK' /\ workerSem' = workerSem
<1> USE DispatchAssumption DEF TypeOK, turnVars, ghosts, Settle, Goto, LoopAt,
      LoopRecv, StopDone, loop
<1>a. {"inbox", "held", "claimed", "queued", "settled"} \subseteq Fates
  BY DEF Fates
<1>b. /\ {"recv", "enqueue", "stopClear", "stopLook", "stopAbort",
          "stopRecheck", "stopMark"} = LoopPCs
      /\ "sem" \in WorkerPCs
  BY DEF LoopPCs, WorkerPCs
<1>1. ASSUME NEW m \in Msgs, Receive(m)
      PROVE  TypeOK' /\ workerSem' = workerSem
  <2>1. CASE Claim(m)
    BY <1>1, <2>1, <1>a, <1>b DEF Receive, Claim, SetSlot, Entry, Entries
  <2>2. CASE FindBusy(m)
    BY <1>1, <2>2, <1>a, <1>b DEF Receive, FindBusy
  <2> QED
    BY <1>1, <2>1, <2>2 DEF Receive
<1>2. CASE Enqueue
  <2>1. loopMsg \in Msgs /\ SessionOf[loopMsg] \in Sessions
    BY <1>2 DEF Enqueue
  <2>2. Append(steering[SessionOf[loopMsg]], loopMsg) \in Seq(Msgs)
    BY <2>1
  <2>3. steering' \in [Sessions -> Seq(Msgs)]
    BY <1>2, <2>1, <2>2 DEF Enqueue
  <2>4. fate' \in [Msgs -> Fates]
    BY <1>2, <1>a DEF Enqueue
  <2> QED
    BY <1>2, <1>b, <2>3, <2>4 DEF Enqueue
<1>3. CASE StopClear
  BY <1>3, <1>a, <1>b, DequeuedType DEF StopClear
<1>4. CASE StopLook
  <2>1. loopPC' \in LoopPCs /\ loopMsg' \in Msgs \cup {None}
    BY <1>4, <1>b DEF StopLook
  <2>2. cleared' \in BOOLEAN /\ (loopPC' # "recv" => loopMsg' \in Msgs)
    BY <1>4 DEF StopLook
  <2>3. fate' \in [Msgs -> Fates]
    BY <1>4, <1>a DEF StopLook
  <2> QED
    BY <1>4, <2>1, <2>2, <2>3 DEF StopLook
<1>5. CASE StopAbort
  <2>1. \A e \in Entries : e.owner \in Msgs
    BY DEF Entries
  <2>2. Slot(loopMsg).kind = "turn" => Slot(loopMsg).owner \in Msgs
    BY <1>5, <2>1 DEF StopAbort, Slot, NoEntry
  <2>3. loopPC' \in LoopPCs /\ loopMsg' \in Msgs \cup {None}
    BY <1>5, <1>b DEF StopAbort
  <2>4. cleared' \in BOOLEAN /\ (loopPC' # "recv" => loopMsg' \in Msgs)
    BY <1>5 DEF StopAbort
  <2>5. fate' \in [Msgs -> Fates]
    BY <1>5, <1>a DEF StopAbort
  <2>6. hardAbort' \subseteq Msgs
    BY <1>5, <2>2 DEF StopAbort
  <2> QED
    BY <1>5, <2>3, <2>4, <2>5, <2>6 DEF StopAbort
<1>6. CASE StopRecheck
  <2>1. loopPC' \in LoopPCs /\ loopMsg' \in Msgs \cup {None}
    BY <1>6, <1>b DEF StopRecheck
  <2>2. cleared' \in BOOLEAN /\ (loopPC' # "recv" => loopMsg' \in Msgs)
    BY <1>6 DEF StopRecheck
  <2>3. fate' \in [Msgs -> Fates]
    BY <1>6, <1>a DEF StopRecheck
  <2> QED
    BY <1>6, <2>1, <2>2, <2>3 DEF StopRecheck
<1>7. CASE StopMark
  BY <1>7, <1>a, <1>b DEF StopMark
<1>8. CASE Shutdown
  BY <1>8 DEF Shutdown
<1> QED
  BY <1>1, <1>2, <1>3, <1>4, <1>5, <1>6, <1>7, <1>8 DEF LoopNext

(* A step of a worker keeps the types; the count of tokens is the next     *)
(* lemma's.                                                                *)
LEMMA WorkerType ==
  ASSUME TypeOK, NEW w \in Msgs, WorkerNext(w), workerSem' \in Nat
  PROVE  TypeOK'
<1> USE DispatchAssumption DEF TypeOK, turnVars, ghosts, Settle, Goto, loop
<1>a. {"claimed", "batch", "settled"} \subseteq Fates
  BY DEF Fates
<1>b. WorkerPCs = {"none", "sem", "gate", "unclaim", "process", "procAbort",
        "register", "takeStop", "poll", "run", "final", "clear", "clearDel",
        "drain", "cont", "contDeq", "exit", "cleanup", "cleanupChk",
        "cleanupDel", "panic", "panicCleanup", "done"}
  BY DEF WorkerPCs
<1>c. SessionOf[w] \in Sessions /\ batch[w] \subseteq Msgs
  OBVIOUS
<1>d. \A k \in {"claim", "cont", "turn"} : Entry(k, w) \in Entries
  BY DEF Entry, Entries
<1>e. \A s \in Sessions : activeTurns[s].kind = "turn" =>
                            activeTurns[s].owner \in Msgs
  BY DEF Entries, NoEntry
<1>f. \A pc \in {"drain", "exit", "panic"} : EndTurn(w, pc) => TypeOK'
  BY <1>a, <1>b, <1>c DEF EndTurn
<1>1. CASE AcquireSlot(w)
  BY <1>1, <1>a, <1>b, <1>c
     DEF AcquireSlot
<1>2. CASE AbandonClaim(w)
  BY <1>2, <1>a, <1>b, <1>c, <1>d
     DEF AbandonClaim, SetSlot
<1>3. CASE GateStop(w)
  BY <1>3, <1>a, <1>b, <1>c
     DEF GateStop, FallToStop
<1>4. CASE GatePass(w)
  BY <1>4, <1>a, <1>b, <1>c
     DEF GatePass
<1>5. CASE Unclaim(w)
  BY <1>5, <1>a, <1>b, <1>c, <1>d
     DEF Unclaim, SetSlot
<1>6. CASE ProcessWithoutTurn(w)
  <2>1. wpc' \in [Msgs -> WorkerPCs]
    BY <1>6, <1>b DEF ProcessWithoutTurn
  <2>2. fate' \in [Msgs -> Fates]
    BY <1>6, <1>a DEF ProcessWithoutTurn
  <2> QED
    BY <1>6, <2>1, <2>2 DEF ProcessWithoutTurn
<1>7. CASE ProcessStop(w)
  BY <1>7, <1>a, <1>b, <1>c, DequeuedType
     DEF ProcessStop
<1>8. CASE ProcessStopAbort(w)
  BY <1>8, <1>a, <1>b, <1>c, <1>e
     DEF ProcessStopAbort, Slot
<1>9. CASE ProcessTurn(w)
  BY <1>9, <1>a, <1>b, <1>c
     DEF ProcessTurn
<1>10. CASE RegisterFails(w)
  BY <1>10, <1>a, <1>b, <1>c
     DEF RegisterFails
<1>11. CASE Register(w)
  BY <1>11, <1>a, <1>b, <1>c, <1>d
     DEF Register, SetSlot
<1>12. CASE TakeStop(w)
  BY <1>12, <1>a, <1>b, <1>c
     DEF TakeStop, FallToStop
<1>13. CASE InitialPoll(w)
  <2>1. CASE TakeSteering(w)
    BY <1>13, <2>1, <1>a, <1>b, <1>c, DequeuedType DEF InitialPoll, TakeSteering
  <2>2. CASE UNCHANGED <<steering, batch, fate>>
    BY <1>13, <2>2, <1>b DEF InitialPoll
  <2> QED
    BY <1>13, <2>1, <2>2 DEF InitialPoll
<1>14. CASE ToolPoll(w)
  BY <1>14, <1>a, <1>b, <1>c, DequeuedType
     DEF ToolPoll, TakeSteering
<1>15. CASE TurnAborts(w)
  BY <1>15, <1>f DEF TurnAborts
<1>16. CASE TurnFails(w)
  BY <1>16, <1>f DEF TurnFails
<1>17. CASE LastAbortCheck(w)
  BY <1>17, <1>a, <1>b, <1>c
     DEF LastAbortCheck
<1>18. CASE TurnAnswers(w)
  BY <1>18, <1>f DEF TurnAnswers
<1>19. CASE TurnPanics(w)
  BY <1>19, <1>f DEF TurnPanics
<1>20. CASE ClearCheck(w)
  <2>1. CASE Slot(w) = Entry("turn", w)
    BY <1>20, <2>1, <1>b DEF ClearCheck
  <2>2. CASE Slot(w) # Entry("turn", w)
    <3>1. Returned(w) /\ UNCHANGED <<activeTurns, steering, pendingStops,
            workerSem, loop, batch, seen, fate, ghosts, ctxDone>>
      BY <1>20, <2>2 DEF ClearCheck
    <3>2. wpc' \in [Msgs -> WorkerPCs]
      BY <3>1, <1>b DEF Returned
    <3>3. isCont' \in [Msgs -> BOOLEAN]
      BY <3>1 DEF Returned
    <3>4. onReturn' \in [Msgs -> {"drain", "exit", "panic"}]
      BY <3>1 DEF Returned
    <3> QED
      BY <3>1, <3>2, <3>3, <3>4 DEF Returned
  <2> QED
    BY <2>1, <2>2
<1>21. CASE ClearDelete(w)
  BY <1>21, <1>a, <1>b, <1>c, <1>d
     DEF ClearDelete, Returned, SetSlot
<1>22. CASE DrainMore(w)
  BY <1>22, <1>a, <1>b, <1>c
     DEF DrainMore
<1>23. CASE DrainEnds(w)
  BY <1>23, <1>a, <1>b, <1>c
     DEF DrainEnds
<1>24. CASE ContinueClaim(w)
  BY <1>24, <1>a, <1>b, <1>c, <1>d
     DEF ContinueClaim, SetSlot
<1>25. CASE ContinueBusy(w)
  BY <1>25, <1>a, <1>b, <1>c
     DEF ContinueBusy
<1>26. CASE ContinueDequeue(w)
  BY <1>26, <1>a, <1>b, <1>c, DequeuedType
     DEF ContinueDequeue
<1>27. CASE ContinueEmpty(w)
  BY <1>27, <1>a, <1>b, <1>c, <1>d
     DEF ContinueEmpty, SetSlot
<1>28. CASE ReleaseToken(w)
  BY <1>28, <1>a, <1>b, <1>c
     DEF ReleaseToken
<1>29. CASE ProcessPanics(w)
  BY <1>29, <1>a, <1>b, <1>c
     DEF ProcessPanics
<1>30. CASE CleanupLoad(w)
  <2>1. Slot(w) \in Entries \cup {NoEntry}
    BY <1>c DEF Slot
  <2>2. wpc' \in [Msgs -> WorkerPCs]
    <3>1. \E pc \in {"cleanupChk", "done"} : wpc' = [wpc EXCEPT ![w] = pc]
      BY <1>30 DEF CleanupLoad
    <3> QED
      BY <3>1, <1>b
  <2>3. seen' \in [Msgs -> Entries \cup {NoEntry}]
    BY <1>30, <2>1 DEF CleanupLoad
  <2> QED
    BY <1>30, <2>2, <2>3 DEF CleanupLoad
<1>31. CASE PanicCleanupLoad(w)
  BY <1>31, <1>a, <1>b, <1>c
     DEF PanicCleanupLoad
<1>32. CASE CleanupDelete(w)
  BY <1>32, <1>a, <1>b, <1>c, <1>d
     DEF CleanupDelete, SetSlot
<1>33. CASE CleanupCheck(w)
  BY <1>33, <1>b DEF CleanupCheck
<1>34. CASE ContinueFails(w)
  <2>1. activeTurns' \in [Sessions -> Entries \cup {NoEntry}]
    BY <1>34 DEF ContinueFails, SetSlot
  <2>2. steering' \in [Sessions -> Seq(Msgs)]
    <3>1. \/ steering' = steering
          \/ /\ steering[SessionOf[w]] # << >>
             /\ steering' = [steering EXCEPT ![SessionOf[w]] =
                                          Remaining(SessionOf[w])]
      BY <1>34 DEF ContinueFails
    <3>2. steering[SessionOf[w]] # << >> => Remaining(SessionOf[w]) \in Seq(Msgs)
      BY <1>c, DequeuedType
    <3> QED
      BY <3>1, <3>2, <1>c
  <2>3. fate' \in [Msgs -> Fates]
    BY <1>34, <1>a DEF ContinueFails
  <2>4. wpc' \in [Msgs -> WorkerPCs]
    BY <1>34, <1>b DEF ContinueFails
  <2> QED
    BY <1>34, <2>1, <2>2, <2>3, <2>4 DEF ContinueFails
<1> QED
  BY <1>1, <1>2, <1>3, <1>4, <1>5, <1>6, <1>7, <1>8, <1>9, <1>10, <1>11,
     <1>12, <1>13, <1>14, <1>15, <1>16, <1>17, <1>18, <1>19, <1>20, <1>21,
     <1>22, <1>23, <1>24, <1>25, <1>26, <1>27, <1>28, <1>29, <1>30, <1>31,
     <1>32, <1>33, <1>34 DEF WorkerNext, TurnNext

(* Only the send and the receive on workerSem change the number of token   *)
(* holders, each by one, and the receive finds a token in the channel.     *)
LEMMA WorkerTokens ==
  ASSUME TypeOK, TokensMatchWorkers, NEW w \in Msgs, WorkerNext(w)
  PROVE  TokensMatchWorkers' /\ workerSem' \in Nat
<1> USE DEF TypeOK
<1>1. workerSem = Cardinality(Holders(wpc)) /\ workerSem <= MaxWorkers
  BY DEF TokensMatchWorkers, Holders
<1>2. SUFFICES /\ workerSem' = Cardinality(Holders(wpc'))
               /\ workerSem' <= MaxWorkers
               /\ workerSem' \in Nat
  BY DEF TokensMatchWorkers, Holders
<1>3. CASE AcquireSlot(w)
  <2>1. wpc' = [wpc EXCEPT ![w] = "gate"] /\ wpc[w] = "sem"
    BY <1>3 DEF AcquireSlot, Goto
  <2>2. "gate" \in TokenPCs /\ "sem" \notin TokenPCs /\ "gate" \in WorkerPCs
    BY DEF TokenPCs, WorkerPCs
  <2>3. Cardinality(Holders(wpc')) = Cardinality(Holders(wpc)) + 1
    BY <2>1, <2>2, HolderMoves
  <2> QED
    BY <1>1, <1>3, <2>3, DispatchAssumption DEF AcquireSlot
<1>4. CASE ReleaseToken(w)
  <2>1. PICK pc \in {"cleanup", "panicCleanup"} :
               wpc' = [wpc EXCEPT ![w] = pc]
    BY <1>4 DEF ReleaseToken, Goto
  <2>2. wpc[w] \in TokenPCs /\ pc \notin TokenPCs /\ pc \in WorkerPCs
    BY <1>4 DEF ReleaseToken, TokenPCs, WorkerPCs
  <2>3. /\ Cardinality(Holders(wpc')) = Cardinality(Holders(wpc)) - 1
        /\ Cardinality(Holders(wpc)) >= 1
    BY <2>1, <2>2, HolderMoves
  <2> QED
    BY <1>1, <1>4, <2>3, DispatchAssumption DEF ReleaseToken
<1>5. ASSUME ~AcquireSlot(w), ~ReleaseToken(w)
      PROVE  /\ workerSem' = workerSem
             /\ Cardinality(Holders(wpc')) = Cardinality(Holders(wpc))
  <2> DEFINE Keeps(pc) == /\ wpc' = [wpc EXCEPT ![w] = pc]
                          /\ (wpc[w] \in TokenPCs <=> pc \in TokenPCs)
  <2>0. ASSUME NEW pc \in WorkerPCs, Keeps(pc)
        PROVE  Cardinality(Holders(wpc')) = Cardinality(Holders(wpc))
    <3>1. /\ wpc \in [Msgs -> WorkerPCs]
          /\ wpc' = [wpc EXCEPT ![w] = pc]
          /\ (wpc[w] \in TokenPCs <=> pc \in TokenPCs)
      BY <2>0
    <3> HIDE DEF Keeps
    <3> QED
      BY <3>1, HolderMoves
  <2>1. SUFFICES \E pc \in WorkerPCs : workerSem' = workerSem /\ Keeps(pc)
    <3> HIDE DEF Keeps
    <3> QED
      BY <2>0
  <2>2. CASE AbandonClaim(w)
    BY <2>2 DEF AbandonClaim, Goto, TokenPCs, WorkerPCs
  <2>3. CASE GateStop(w)
    BY <2>3 DEF GateStop, Goto, TokenPCs, WorkerPCs
  <2>4. CASE GatePass(w)
    BY <2>4 DEF GatePass, Goto, TokenPCs, WorkerPCs
  <2>5. CASE Unclaim(w)
    BY <2>5 DEF Unclaim, Goto, TokenPCs, WorkerPCs
  <2>6. CASE ProcessWithoutTurn(w)
    BY <2>6 DEF ProcessWithoutTurn, Goto, TokenPCs, WorkerPCs
  <2>7. CASE ProcessStop(w)
    BY <2>7 DEF ProcessStop, Goto, TokenPCs, WorkerPCs
  <2>8. CASE ProcessStopAbort(w)
    BY <2>8 DEF ProcessStopAbort, Goto, TokenPCs, WorkerPCs
  <2>9. CASE ProcessTurn(w)
    BY <2>9 DEF ProcessTurn, Goto, TokenPCs, WorkerPCs
  <2>10. CASE RegisterFails(w)
    BY <2>10 DEF RegisterFails, Goto, TokenPCs, WorkerPCs
  <2>11. CASE Register(w)
    BY <2>11 DEF Register, Goto, TokenPCs, WorkerPCs
  <2>12. CASE TakeStop(w)
    BY <2>12 DEF TakeStop, Goto, TokenPCs, WorkerPCs
  <2>13. CASE InitialPoll(w)
    BY <2>13 DEF InitialPoll, Goto, TokenPCs, WorkerPCs
  <2>14. CASE ToolPoll(w)
    BY <2>14 DEF ToolPoll, Goto, TokenPCs, WorkerPCs
  <2>15. CASE TurnAborts(w)
    BY <2>15 DEF TurnAborts, EndTurn, Goto, TokenPCs, WorkerPCs
  <2>16. CASE TurnFails(w)
    BY <2>16 DEF TurnFails, EndTurn, Goto, TokenPCs, WorkerPCs
  <2>17. CASE LastAbortCheck(w)
    BY <2>17 DEF LastAbortCheck, Goto, TokenPCs, WorkerPCs
  <2>18. CASE TurnAnswers(w)
    BY <2>18 DEF TurnAnswers, EndTurn, Goto, TokenPCs, WorkerPCs
  <2>19. CASE TurnPanics(w)
    BY <2>19 DEF TurnPanics, EndTurn, Goto, TokenPCs, WorkerPCs
  <2>20. CASE ClearCheck(w)
    BY <2>20 DEF ClearCheck, Returned, Goto, TokenPCs, WorkerPCs
  <2>21. CASE ClearDelete(w)
    BY <2>21 DEF ClearDelete, Returned, Goto, TokenPCs, WorkerPCs
  <2>22. CASE DrainMore(w)
    BY <2>22 DEF DrainMore, Goto, TokenPCs, WorkerPCs
  <2>23. CASE DrainEnds(w)
    BY <2>23 DEF DrainEnds, Goto, TokenPCs, WorkerPCs
  <2>24. CASE ContinueClaim(w)
    BY <2>24 DEF ContinueClaim, Goto, TokenPCs, WorkerPCs
  <2>25. CASE ContinueBusy(w)
    BY <2>25 DEF ContinueBusy, Goto, TokenPCs, WorkerPCs
  <2>26. CASE ContinueDequeue(w)
    BY <2>26 DEF ContinueDequeue, Goto, TokenPCs, WorkerPCs
  <2>27. CASE ContinueEmpty(w)
    BY <2>27 DEF ContinueEmpty, Goto, TokenPCs, WorkerPCs
  <2>28. CASE ProcessPanics(w)
    BY <2>28 DEF ProcessPanics, Goto, TokenPCs, WorkerPCs
  <2>29. CASE CleanupLoad(w)
    BY <2>29 DEF CleanupLoad, Goto, TokenPCs, WorkerPCs
  <2>30. CASE PanicCleanupLoad(w)
    BY <2>30 DEF PanicCleanupLoad, Goto, TokenPCs, WorkerPCs
  <2>31. CASE CleanupDelete(w)
    BY <2>31 DEF CleanupDelete, Goto, TokenPCs, WorkerPCs
  <2>32. CASE CleanupCheck(w)
    BY <2>32 DEF CleanupCheck, Goto, TokenPCs, WorkerPCs
  <2>33. CASE ContinueFails(w)
    BY <2>33 DEF ContinueFails, Goto, TokenPCs, WorkerPCs
  <2> QED
    BY <1>5, <2>2, <2>3, <2>4, <2>5, <2>6, <2>7, <2>8, <2>9, <2>10, <2>11,
       <2>12, <2>13, <2>14, <2>15, <2>16, <2>17, <2>18, <2>19, <2>20,
       <2>21, <2>22, <2>23, <2>24, <2>25, <2>26, <2>27, <2>28, <2>29,
       <2>30, <2>31, <2>32, <2>33 DEF WorkerNext, TurnNext
<1> QED
  BY <1>1, <1>3, <1>4, <1>5

-----------------------------------------------------------------------------
(***************************************************************************)
(* Who holds a session's entry.                                            *)
(***************************************************************************)

(* What a step of worker w leaves alone: the other workers, the entries of *)
(* the other sessions, the histories; and it never puts a message back.    *)
Frame(w) ==
  /\ wpc[w] # "none"
  /\ \A v \in Msgs \ {w} : /\ wpc'[v] = wpc[v] /\ isCont'[v] = isCont[v]
                            /\ seen'[v] = seen[v]
  /\ \A s \in Sessions \ {SessionOf[w]} : activeTurns'[s] = activeTurns[s]
  /\ stolen \subseteq stolen' /\ wedged \subseteq wedged'
  /\ \A m \in Msgs : (fate'[m] = "inbox") => (fate[m] = "inbox")

(* Every step of a worker keeps to its frame.                              *)
LEMMA WorkerFrame ==
  ASSUME TypeOK, NEW w \in Msgs, WorkerNext(w)
  PROVE  Frame(w)
<1> USE DispatchAssumption DEF TypeOK, turnVars, ghosts, Settle, Goto, Frame
<1>1. CASE AcquireSlot(w)
  BY <1>1 DEF AcquireSlot
<1>2. CASE AbandonClaim(w)
  BY <1>2 DEF AbandonClaim, SetSlot
<1>3. CASE GateStop(w)
  BY <1>3 DEF GateStop, FallToStop
<1>4. CASE GatePass(w)
  BY <1>4 DEF GatePass
<1>5. CASE Unclaim(w)
  BY <1>5 DEF Unclaim, SetSlot
<1>6. CASE ProcessWithoutTurn(w)
  BY <1>6 DEF ProcessWithoutTurn
<1>7. CASE ProcessStop(w)
  BY <1>7 DEF ProcessStop
<1>8. CASE ProcessStopAbort(w)
  BY <1>8 DEF ProcessStopAbort
<1>9. CASE ProcessTurn(w)
  BY <1>9 DEF ProcessTurn
<1>10. CASE RegisterFails(w)
  BY <1>10 DEF RegisterFails
<1>11. CASE Register(w)
  BY <1>11 DEF Register, SetSlot
<1>12. CASE TakeStop(w)
  BY <1>12 DEF TakeStop, FallToStop
<1>13. CASE InitialPoll(w)
  BY <1>13 DEF InitialPoll, TakeSteering
<1>14. CASE ToolPoll(w)
  BY <1>14 DEF ToolPoll, TakeSteering
<1>15. CASE TurnAborts(w)
  BY <1>15 DEF TurnAborts, EndTurn
<1>16. CASE TurnFails(w)
  BY <1>16 DEF TurnFails, EndTurn
<1>17. CASE LastAbortCheck(w)
  BY <1>17 DEF LastAbortCheck
<1>18. CASE TurnAnswers(w)
  BY <1>18 DEF TurnAnswers, EndTurn
<1>19. CASE TurnPanics(w)
  BY <1>19 DEF TurnPanics, EndTurn
<1>20. CASE ClearCheck(w)
  BY <1>20 DEF ClearCheck, Returned
<1>21. CASE ClearDelete(w)
  BY <1>21 DEF ClearDelete, Returned, SetSlot
<1>22. CASE DrainMore(w)
  BY <1>22 DEF DrainMore
<1>23. CASE DrainEnds(w)
  BY <1>23 DEF DrainEnds
<1>24. CASE ContinueClaim(w)
  BY <1>24 DEF ContinueClaim, SetSlot
<1>25. CASE ContinueBusy(w)
  BY <1>25 DEF ContinueBusy
<1>26. CASE ContinueDequeue(w)
  BY <1>26 DEF ContinueDequeue
<1>27. CASE ContinueEmpty(w)
  BY <1>27 DEF ContinueEmpty, SetSlot
<1>28. CASE ReleaseToken(w)
  BY <1>28 DEF ReleaseToken
<1>29. CASE ProcessPanics(w)
  BY <1>29 DEF ProcessPanics
<1>30. CASE CleanupLoad(w)
  BY <1>30 DEF CleanupLoad
<1>31. CASE PanicCleanupLoad(w)
  BY <1>31 DEF PanicCleanupLoad
<1>32. CASE CleanupDelete(w)
  BY <1>32 DEF CleanupDelete, SetSlot
<1>33. CASE CleanupCheck(w)
  BY <1>33 DEF CleanupCheck
<1>34. CASE ContinueFails(w)
  BY <1>34 DEF ContinueFails, SetSlot
<1> QED
  BY <1>1, <1>2, <1>3, <1>4, <1>5, <1>6, <1>7, <1>8, <1>9, <1>10, <1>11,
     <1>12, <1>13, <1>14, <1>15, <1>16, <1>17, <1>18, <1>19, <1>20, <1>21,
     <1>22, <1>23, <1>24, <1>25, <1>26, <1>27, <1>28, <1>29, <1>30, <1>31,
     <1>32, <1>33, <1>34 DEF WorkerNext, TurnNext

(* A step that leaves the entry alone, and after which w is where it holds *)
(* the entry only if it was before.                                        *)
Stay(w) ==
  /\ activeTurns' = activeTurns /\ stolen' = stolen
  /\ ByClaim(w)' => ByClaim(w)
  /\ ByCont(w)'  => ByCont(w)
  /\ ByTurn(w)'  => ByTurn(w)
  /\ \A k \in {"claim", "cont", "turn"} :
       Slot(w) = Entry(k, w) /\ HoldsEntry(k, w) => HoldsEntry(k, w)'

(* Such a step keeps the ownership of entries.                             *)
LEMMA StayOwns ==
  ASSUME TypeOK, OwnsSlot, SlotOwned, NEW w \in Msgs, Frame(w), Stay(w)
  PROVE  OwnsSlot' /\ SlotOwned'
<1>1. OwnsSlot'
  <2> SUFFICES ASSUME NEW v \in Msgs, SessionOf[v] \notin stolen'
               PROVE  /\ ByClaim(v)' => Slot(v)' = Entry("claim", v)
                      /\ ByCont(v)'  => Slot(v)' = Entry("cont", v)
                      /\ ByTurn(v)'  => Slot(v)' = Entry("turn", v)
    BY DEF OwnsSlot, Entry
  <2>1. /\ ByClaim(v)' => ByClaim(v)
        /\ ByCont(v)'  => ByCont(v)
        /\ ByTurn(v)'  => ByTurn(v)
    BY DEF Frame, Stay, ByClaim, ByCont, ByTurn
  <2>2. Slot(v)' = Slot(v) /\ SessionOf[v] \notin stolen
    BY DEF Stay, Slot
  <2> QED
    BY <2>1, <2>2 DEF OwnsSlot
<1>2. SlotOwned'
  <2> SUFFICES ASSUME NEW s \in Sessions, activeTurns'[s] # NoEntry,
                      NEW k, NEW v, activeTurns'[s].kind = k,
                      activeTurns'[s].owner = v
               PROVE  v \in Msgs /\ SessionOf[v] = s /\ HoldsEntry(k, v)'
    BY DEF SlotOwned, HoldsEntry
  <2>1. activeTurns[s] = activeTurns'[s]
    BY DEF Stay
  <2>2. v \in Msgs /\ SessionOf[v] = s /\ HoldsEntry(k, v)
    BY <2>1 DEF SlotOwned
  <2>3. CASE v = w
    <3>1. Slot(w) = Entry(k, w) /\ k \in {"claim", "cont", "turn"}
      BY <2>1, <2>2, <2>3 DEF TypeOK, Entries, Entry, Slot
    <3> QED
      BY <2>2, <2>3, <3>1 DEF Stay
  <2>4. CASE v # w
    <3>1. /\ wpc'[v] = wpc[v] /\ isCont'[v] = isCont[v] /\ seen'[v] = seen[v]
          /\ wedged \subseteq wedged'
      BY <2>2, <2>4 DEF Frame
    <3> QED
      BY <2>2, <3>1 DEF HoldsEntry
  <2> QED
    BY <2>3, <2>4
<1> QED
  BY <1>1, <1>2

(* A step that stores e for w's session: no other worker held the entry,   *)
(* and afterwards w holds exactly e.                                       *)
Puts(w, e) ==
  /\ activeTurns' = [activeTurns EXCEPT ![SessionOf[w]] = e]
  /\ SessionOf[w] \notin stolen' => Slot(w) = NoEntry \/ Slot(w).owner = w
  /\ ByClaim(w)' => e = Entry("claim", w)
  /\ ByCont(w)'  => e = Entry("cont", w)
  /\ ByTurn(w)'  => e = Entry("turn", w)
  /\ e # NoEntry => e.owner = w /\ HoldsEntry(e.kind, w)'

(* So does a step that stores or deletes an entry of its own.              *)
LEMMA PutsOwns ==
  ASSUME TypeOK, OwnsSlot, SlotOwned, NEW w \in Msgs, NEW e,
         \A v \in Msgs \ {w} : /\ wpc'[v] = wpc[v] /\ isCont'[v] = isCont[v]
                               /\ seen'[v] = seen[v],
         stolen \subseteq stolen', wedged \subseteq wedged', Puts(w, e)
  PROVE  OwnsSlot' /\ SlotOwned'
<1>0. SessionOf[w] \in Sessions
  BY DispatchAssumption
<1>1. OwnsSlot'
  <2> SUFFICES ASSUME NEW v \in Msgs, SessionOf[v] \notin stolen'
               PROVE  /\ ByClaim(v)' => Slot(v)' = Entry("claim", v)
                      /\ ByCont(v)'  => Slot(v)' = Entry("cont", v)
                      /\ ByTurn(v)'  => Slot(v)' = Entry("turn", v)
    BY DEF OwnsSlot, Entry
  <2>1. CASE v = w
    BY <1>0, <2>1 DEF TypeOK, Puts, Slot
  <2>2. CASE v # w
    <3>1. /\ ByClaim(v)' => ByClaim(v)
          /\ ByCont(v)'  => ByCont(v)
          /\ ByTurn(v)'  => ByTurn(v)
      BY <2>2 DEF ByClaim, ByCont, ByTurn
    <3>2. /\ ByClaim(v)' => Slot(v) = Entry("claim", v)
          /\ ByCont(v)'  => Slot(v) = Entry("cont", v)
          /\ ByTurn(v)'  => Slot(v) = Entry("turn", v)
      BY <3>1 DEF OwnsSlot
    <3>3. CASE SessionOf[v] # SessionOf[w]
      BY <3>2, <3>3, <1>0, DispatchAssumption DEF TypeOK, Puts, Slot
    <3>4. CASE SessionOf[v] = SessionOf[w]
      <4>1. Slot(w) = NoEntry \/ Slot(w).owner = w
        BY <3>4 DEF Puts
      <4>2. \A k \in {"claim", "cont", "turn"} : Slot(v) # Entry(k, v)
        BY <4>1, <3>4, <2>2, DispatchAssumption DEF Slot, Entry, NoEntry
      <4> QED
        BY <4>2, <3>2
    <3> QED
      BY <3>3, <3>4
  <2> QED
    BY <2>1, <2>2
<1>2. SlotOwned'
  <2> SUFFICES ASSUME NEW s \in Sessions, activeTurns'[s] # NoEntry,
                      NEW k, NEW v, activeTurns'[s].kind = k,
                      activeTurns'[s].owner = v
               PROVE  v \in Msgs /\ SessionOf[v] = s /\ HoldsEntry(k, v)'
    BY DEF SlotOwned, HoldsEntry
  <2>1. CASE s = SessionOf[w]
    <3>1. activeTurns'[s] = e /\ e # NoEntry
      BY <1>0, <2>1 DEF TypeOK, Puts
    <3>2. v = w /\ HoldsEntry(e.kind, w)'
      BY <3>1 DEF Puts
    <3>3. k = e.kind
      BY <3>1
    <3> QED
      BY <2>1, <3>2, <3>3
  <2>2. CASE s # SessionOf[w]
    <3>1. activeTurns'[s] = activeTurns[s]
      BY <2>2 DEF TypeOK, Puts
    <3>2. v \in Msgs /\ SessionOf[v] = s /\ HoldsEntry(k, v)
      BY <3>1 DEF SlotOwned
    <3>3. wpc'[v] = wpc[v] /\ isCont'[v] = isCont[v] /\ seen'[v] = seen[v]
      BY <2>2, <3>2
    <3> QED
      BY <3>2, <3>3 DEF HoldsEntry
  <2> QED
    BY <2>1, <2>2
<1> QED
  BY <1>1, <1>2

(* The entry of a session: a message's, or none.                           *)
LEMMA SlotEntry ==
  ASSUME TypeOK, NEW w \in Msgs, Slot(w).owner \in {w, None}
  PROVE  Slot(w) = NoEntry \/ Slot(w).owner = w
<1>1. Slot(w) \in Entries \cup {NoEntry}
  BY DispatchAssumption DEF TypeOK, Slot
<1> QED
  BY <1>1, DispatchAssumption DEF Entries, NoEntry

(* Every step of a worker leaves the entry alone, or puts or deletes an    *)
(* entry that is its own, or owns up to the theft (CleanupDelete).         *)
LEMMA WorkerOwns ==
  ASSUME TypeOK, OwnsSlot, SlotOwned, NEW w \in Msgs, WorkerNext(w)
  PROVE  OwnsSlot' /\ SlotOwned'
<1>a. Frame(w)
  BY WorkerFrame
<1>b. SUFFICES \/ Stay(w)
               \/ Puts(w, NoEntry)
               \/ Puts(w, Entry("turn", w))
               \/ Puts(w, Entry("cont", w))
  BY <1>a, StayOwns, PutsOwns DEF Frame
<1>c. /\ wpc \in [Msgs -> WorkerPCs] /\ isCont \in [Msgs -> BOOLEAN]
      /\ onReturn \in [Msgs -> {"drain", "exit", "panic"}]
      /\ seen \in [Msgs -> Entries \cup {NoEntry}]
  BY DEF TypeOK
<1> USE DEF ByClaim, ByCont, ByTurn, HoldsEntry, TurnPCs, Goto, ghosts,
      turnVars
<1>1. CASE AcquireSlot(w)
  BY <1>1, <1>c DEF Stay, AcquireSlot
<1>2. CASE GateStop(w)
  BY <1>2, <1>c DEF Stay, GateStop, FallToStop
<1>3. CASE GatePass(w)
  BY <1>3, <1>c DEF Stay, GatePass
<1>4. CASE ProcessWithoutTurn(w)
  BY <1>4, <1>c DEF Stay, ProcessWithoutTurn
<1>5. CASE ProcessStop(w)
  BY <1>5, <1>c DEF Stay, ProcessStop
<1>6. CASE ProcessStopAbort(w)
  BY <1>6, <1>c DEF Stay, ProcessStopAbort
<1>7. CASE ProcessTurn(w)
  BY <1>7, <1>c DEF Stay, ProcessTurn
<1>8. CASE RegisterFails(w)
  BY <1>8, <1>c DEF Stay, RegisterFails
<1>9. CASE TakeStop(w)
  BY <1>9, <1>c DEF Stay, TakeStop, FallToStop
<1>10. CASE InitialPoll(w)
  BY <1>10, <1>c DEF Stay, InitialPoll, TakeSteering
<1>11. CASE ToolPoll(w)
  BY <1>11, <1>c DEF Stay, ToolPoll, TakeSteering
<1>12. CASE TurnAborts(w)
  BY <1>12, <1>c DEF Stay, TurnAborts, EndTurn
<1>13. CASE TurnFails(w)
  BY <1>13, <1>c DEF Stay, TurnFails, EndTurn
<1>14. CASE LastAbortCheck(w)
  BY <1>14, <1>c DEF Stay, LastAbortCheck
<1>15. CASE TurnAnswers(w)
  BY <1>15, <1>c DEF Stay, TurnAnswers, EndTurn
<1>16. CASE TurnPanics(w)
  BY <1>16, <1>c DEF Stay, TurnPanics, EndTurn
<1>17. CASE ClearCheck(w)
  BY <1>17, <1>c DEF Stay, ClearCheck, Returned
<1>18. CASE DrainMore(w)
  BY <1>18, <1>c DEF Stay, DrainMore
<1>19. CASE DrainEnds(w)
  BY <1>19, <1>c DEF Stay, DrainEnds
<1>20. CASE ContinueBusy(w)
  BY <1>20, <1>c DEF Stay, ContinueBusy
<1>21. CASE ContinueDequeue(w)
  BY <1>21, <1>c DEF Stay, ContinueDequeue
<1>22. CASE ReleaseToken(w)
  BY <1>22, <1>c DEF Stay, ReleaseToken
<1>23. CASE ProcessPanics(w)
  BY <1>23, <1>c DEF Stay, ProcessPanics
<1>24. CASE CleanupLoad(w)
  BY <1>24, <1>c DEF Stay, CleanupLoad, IsPending, Entry
<1>25. CASE PanicCleanupLoad(w)
  BY <1>25, <1>c DEF Stay, PanicCleanupLoad
<1>26. CASE AbandonClaim(w)
  <2>1. SessionOf[w] \notin stolen => Slot(w).owner = w
    BY <1>26 DEF AbandonClaim, OwnsSlot, Entry
  <2> QED
    BY <1>26, <1>c, <2>1 DEF Puts, AbandonClaim, SetSlot
<1>27. CASE Unclaim(w)
  <2>1. SessionOf[w] \notin stolen => Slot(w).owner = w
    BY <1>27 DEF Unclaim, OwnsSlot, Entry
  <2> QED
    BY <1>27, <1>c, <2>1 DEF Puts, Unclaim, SetSlot
<1>28. CASE Register(w)
  <2>1. SessionOf[w] \notin stolen => Slot(w).owner = w
    BY <1>28 DEF Register, OwnsSlot, Entry
  <2> QED
    BY <1>28, <1>c, <2>1 DEF Puts, Register, SetSlot, Entry
<1>29. CASE ClearDelete(w)
  <2>1. SessionOf[w] \notin stolen => Slot(w).owner = w
    BY <1>29 DEF ClearDelete, OwnsSlot, Entry
  <2> QED
    BY <1>29, <1>c, <2>1 DEF Puts, ClearDelete, SetSlot, Returned
<1>30. CASE ContinueClaim(w)
  BY <1>30, <1>c DEF Puts, ContinueClaim, SetSlot, Entry
<1>31. CASE ContinueEmpty(w)
  <2>1. SessionOf[w] \notin stolen => Slot(w).owner = w
    BY <1>31 DEF ContinueEmpty, OwnsSlot, Entry
  <2> QED
    BY <1>31, <1>c, <2>1 DEF Puts, ContinueEmpty, SetSlot
<1>32. CASE CleanupDelete(w)
  <2>1. SessionOf[w] \notin stolen' => Slot(w) = NoEntry \/ Slot(w).owner = w
    BY <1>32, SlotEntry DEF CleanupDelete
  <2> QED
    BY <1>32, <1>c, <2>1 DEF Puts, CleanupDelete, SetSlot
<1>33. CASE CleanupCheck(w)
  BY <1>33, <1>c DEF Stay, CleanupCheck
<1>34. CASE ContinueFails(w)
  <2>1. SessionOf[w] \notin stolen => Slot(w).owner = w
    BY <1>34 DEF ContinueFails, OwnsSlot, Entry
  <2> QED
    BY <1>34, <1>c, <2>1 DEF Puts, ContinueFails, SetSlot
<1> QED
  BY <1>1, <1>2, <1>3, <1>4, <1>5, <1>6, <1>7, <1>8, <1>9, <1>10, <1>11,
     <1>12, <1>13, <1>14, <1>15, <1>16, <1>17, <1>18, <1>19, <1>20, <1>21,
     <1>22, <1>23, <1>24, <1>25, <1>26, <1>27, <1>28, <1>29, <1>30, <1>31,
     <1>32, <1>33, <1>34 DEF WorkerNext, TurnNext

(* The receive loop stores an entry only where it finds none.              *)
LEMMA LoopOwns ==
  ASSUME TypeOK, Fresh, OwnsSlot, SlotOwned, LoopNext \/ Shutdown
  PROVE  Fresh' /\ OwnsSlot' /\ SlotOwned' /\ Holders(wpc') = Holders(wpc)
<1>1. ASSUME NEW m \in Msgs, Receive(m), Claim(m)
      PROVE  Fresh' /\ OwnsSlot' /\ SlotOwned' /\ Holders(wpc') = Holders(wpc)
  <2>1. wpc[m] = "none" /\ wpc' = [wpc EXCEPT ![m] = "sem"]
    BY <1>1 DEF Receive, Claim, Goto, Fresh
  <2>2. UNCHANGED <<isCont, seen, stolen, wedged>>
    BY <1>1 DEF Receive, turnVars, ghosts
  <2>3. fate' = [v \in Msgs |-> IF v \in {m} THEN "claimed" ELSE fate[v]]
    BY <1>1 DEF Claim, Settle
  <2>4. Puts(m, Entry("claim", m))
    BY <1>1, <2>1 DEF Claim, Puts, SetSlot, Entry, ByClaim, ByCont, ByTurn,
       HoldsEntry, TurnPCs, TypeOK
  <2>5. OwnsSlot' /\ SlotOwned'
    BY <2>1, <2>2, <2>4, PutsOwns DEF TypeOK
  <2>6. Fresh'
    BY <2>1, <2>3 DEF Fresh, TypeOK
  <2>7. Holders(wpc') = Holders(wpc)
    BY <2>1 DEF Holders, TokenPCs, TypeOK
  <2> QED
    BY <2>5, <2>6, <2>7
<1>2. ASSUME ~\E m \in Msgs : Receive(m) /\ Claim(m)
      PROVE  /\ UNCHANGED <<activeTurns, wpc, isCont, seen, stolen, wedged>>
             /\ \A m \in Msgs : (fate'[m] = "inbox") => (fate[m] = "inbox")
  <2> USE DEF turnVars, ghosts, Settle
  <2>1. CASE \E m \in Msgs : Receive(m)
    BY <1>2, <2>1 DEF Receive, FindBusy
  <2>2. CASE Enqueue
    BY <2>2 DEF Enqueue
  <2>3. CASE StopClear
    BY <2>3 DEF StopClear
  <2>4. CASE StopLook
    BY <2>4 DEF StopLook, StopDone
  <2>5. CASE StopAbort
    BY <2>5 DEF StopAbort, StopDone
  <2>6. CASE StopRecheck
    BY <2>6 DEF StopRecheck, StopDone
  <2>7. CASE StopMark
    BY <2>7 DEF StopMark, StopDone
  <2>8. CASE Shutdown
    BY <2>8 DEF Shutdown
  <2> QED
    BY <2>1, <2>2, <2>3, <2>4, <2>5, <2>6, <2>7, <2>8 DEF LoopNext
<1>3. ASSUME UNCHANGED <<activeTurns, wpc, isCont, seen, stolen, wedged>>,
             \A m \in Msgs : (fate'[m] = "inbox") => (fate[m] = "inbox")
      PROVE  Fresh' /\ OwnsSlot' /\ SlotOwned' /\ Holders(wpc') = Holders(wpc)
  BY <1>3 DEF Fresh, OwnsSlot, SlotOwned, HoldsEntry, ByClaim, ByCont, ByTurn,
     Slot
<1> QED
  BY <1>1, <1>2, <1>3

-----------------------------------------------------------------------------
(***************************************************************************)
(* Where the messages are.                                                 *)
(***************************************************************************)
ClaimPCs == {"sem", "gate", "process", "procAbort"}
BatchPCs == {"register", "takeStop", "poll", "run", "final"}

Once(q) == \A i, j \in 1..Len(q) : q[i] = q[j] => i = j

(* fate[m] says where m is, and m is there and nowhere else: the place of  *)
(* a message determines its fate as well as its fate its place.            *)
Accounted ==
  /\ \A m \in Msgs : (fate[m] = "held") <=> (loopPC # "recv" /\ loopMsg = m)
  /\ \A m \in Msgs : (fate[m] = "claimed") <=> (wpc[m] \in ClaimPCs)
  /\ \A m \in Msgs : (fate[m] = "queued") <=> (m \in SteeringMsgs(SessionOf[m]))
  /\ \A s \in Sessions : Once(steering[s]) /\ \A m \in SteeringMsgs(s) : SessionOf[m] = s
  /\ \A m \in Msgs : (fate[m] = "batch") <=> (\E v \in Msgs : m \in batch[v])
  /\ \A v \in Msgs : batch[v] # {} => wpc[v] \in BatchPCs
  /\ \A v, w \in Msgs : v # w => batch[v] \cap batch[w] = {}

(* A dequeue takes messages off the queue, and what remains is once.       *)
LEMMA DequeueSplits ==
  ASSUME steering \in [Sessions -> Seq(Msgs)], NEW s \in Sessions,
         steering[s] # << >>, Once(steering[s])
  PROVE  /\ Dequeued(s) \subseteq SteeringMsgs(s)
         /\ {Remaining(s)[i] : i \in 1..Len(Remaining(s))} = SteeringMsgs(s) \ Dequeued(s)
         /\ Once(Remaining(s))
<1>1. PICK q \in Seq(Msgs) : q = steering[s]
  OBVIOUS
<1>2. CASE DrainAll
  <2>1. Dequeued(s) = SteeringMsgs(s) /\ Remaining(s) = << >> /\ Len(Remaining(s)) = 0
    BY <1>2 DEF Dequeued, Remaining
  <2> QED
    BY <2>1 DEF Once
<1>3. CASE ~DrainAll
  <2>1. /\ Dequeued(s) = {q[1]} /\ Remaining(s) = Tail(q)
        /\ SteeringMsgs(s) = {q[i] : i \in 1..Len(q)}
    BY <1>1, <1>3 DEF Dequeued, Remaining, SteeringMsgs
  <2>2. /\ Len(q) \in Nat \ {0} /\ Len(Tail(q)) = Len(q) - 1
        /\ \A i \in 1..Len(Tail(q)) : Tail(q)[i] = q[i + 1] /\ i + 1 \in 2..Len(q)
        /\ \A i \in 2..Len(q) : i - 1 \in 1..Len(Tail(q)) /\ Tail(q)[i - 1] = q[i]
        /\ 1 \in 1..Len(q) /\ \A i \in 1..Len(q) : i = 1 \/ i \in 2..Len(q)
    BY <1>1
  <2>3. \A i, j \in 1..Len(q) : q[i] = q[j] => i = j
    BY <1>1 DEF Once
  <2>4. \A i \in 2..Len(q) : i \in 1..Len(q) /\ q[i] # q[1]
    <3>1. \A i \in 2..Len(q) : i \in 1..Len(q) /\ i # 1
      BY <2>2
    <3> QED
      BY <2>2, <2>3, <3>1
  <2>5. ASSUME NEW i \in 1..Len(Tail(q))
        PROVE  Tail(q)[i] \in {q[k] : k \in 1..Len(q)} \ {q[1]}
    <3>1. i + 1 \in 2..Len(q) /\ i + 1 \in 1..Len(q) /\ Tail(q)[i] = q[i + 1] /\ q[i + 1] # q[1]
      BY <2>2, <2>4
    <3> QED
      BY <3>1
  <2>6. ASSUME NEW k \in 1..Len(q), q[k] # q[1]
        PROVE  q[k] \in {Tail(q)[i] : i \in 1..Len(Tail(q))}
    <3>1. k - 1 \in 1..Len(Tail(q)) /\ Tail(q)[k - 1] = q[k]
      BY <2>2, <2>6
    <3> QED
      BY <3>1
  <2>7. Once(Tail(q))
    <3> SUFFICES ASSUME NEW i \in 1..Len(Tail(q)), NEW j \in 1..Len(Tail(q)),
                        Tail(q)[i] = Tail(q)[j]
                 PROVE  i = j
      BY DEF Once
    <3>1. i + 1 = j + 1
      BY <2>2, <2>3, <2>4
    <3> QED
      BY <2>2, <3>1
  <2>8. {Tail(q)[i] : i \in 1..Len(Tail(q))} = {q[i] : i \in 1..Len(q)} \ {q[1]}
    BY <2>5, <2>6
  <2>9. q[1] \in {q[i] : i \in 1..Len(q)}
    BY <2>2
  <2> QED
    BY <2>1, <2>7, <2>8, <2>9
<1> QED
  BY <1>2, <1>3

(* What every step of worker w is, for the messages: those of M come to f, *)
(* the queues lose them, and w's turn gets them or loses them.             *)
Moved(w, M, f) ==
  /\ M \subseteq Msgs /\ Settle(M, f) /\ UNCHANGED loop
  /\ \A m \in M : \/ m = w /\ fate[m] = "claimed"
                  \/ fate[m] = "queued"
                  \/ f = "settled" /\ m \in batch[w]
  /\ \A v \in Msgs \ {w} : wpc'[v] = wpc[v] /\ batch'[v] = batch[v]
  /\ \A s \in Sessions : Once(steering'[s]) /\ SteeringMsgs(s)' = SteeringMsgs(s) \ M
  /\ wpc'[w] \in ClaimPCs <=> wpc[w] \in ClaimPCs /\ w \notin M
  /\ \/ f = "settled" /\ batch'[w] = batch[w] \ M
     \/ f = "batch" /\ batch'[w] = batch[w] \cup M
  /\ batch'[w] # {} => wpc'[w] \in BatchPCs

LEMMA MovedKeeps ==
  ASSUME TypeOK, Accounted, NEW w \in Msgs, NEW M, NEW f, Moved(w, M, f)
  PROVE  Accounted'
<1>0. /\ \A m \in Msgs : fate'[m] = IF m \in M THEN f ELSE fate[m]
      /\ f \in {"settled", "batch"} /\ M \subseteq Msgs
      /\ \A v \in Msgs : batch[v] \subseteq Msgs
      /\ \A v \in Msgs \ {w} : wpc'[v] = wpc[v] /\ batch'[v] = batch[v]
      /\ loopPC' = loopPC /\ loopMsg' = loopMsg
      /\ \A m \in Msgs : SessionOf[m] \in Sessions
  BY DispatchAssumption DEF Moved, Settle, TypeOK, loop
<1>1. \A m \in M : /\ fate[m] \in {"claimed", "queued", "batch"}
                   /\ fate[m] = "claimed" => m = w
                   /\ fate[m] = "batch" => f = "settled" /\ m \in batch[w]
  <2> SUFFICES ASSUME NEW m \in M
               PROVE  /\ fate[m] \in {"claimed", "queued", "batch"}
                      /\ fate[m] = "claimed" => m = w
                      /\ fate[m] = "batch" => f = "settled" /\ m \in batch[w]
    OBVIOUS
  <2>1. m \in Msgs
    BY <1>0
  <2>2. \/ m = w /\ fate[m] = "claimed"
        \/ fate[m] = "queued"
        \/ f = "settled" /\ m \in batch[w]
    BY DEF Moved
  <2>3. m \in batch[w] => fate[m] = "batch"
    BY <2>1 DEF Accounted
  <2> QED
    BY <2>2, <2>3
<1>2. \A m \in Msgs : (fate'[m] = "held") <=> (loopPC' # "recv" /\ loopMsg' = m)
  BY <1>0, <1>1 DEF Accounted
<1>3. \A m \in Msgs : (fate'[m] = "claimed") <=> (wpc'[m] \in ClaimPCs)
  <2> SUFFICES ASSUME NEW m \in Msgs PROVE (fate'[m] = "claimed") <=> (wpc'[m] \in ClaimPCs)
    OBVIOUS
  <2>1. (fate[m] = "claimed") <=> (wpc[m] \in ClaimPCs)
    BY DEF Accounted
  <2>2. CASE m = w
    BY <1>0, <2>1, <2>2 DEF Moved
  <2>3. CASE m # w
    BY <1>0, <1>1, <2>1, <2>3
  <2> QED
    BY <2>2, <2>3
<1>4. \A m \in Msgs : (fate'[m] = "queued") <=> (m \in SteeringMsgs(SessionOf[m])')
  <2>1. \A m \in Msgs : SteeringMsgs(SessionOf[m])' = SteeringMsgs(SessionOf[m]) \ M
    <3>1. \A s \in Sessions : SteeringMsgs(s)' = SteeringMsgs(s) \ M
      BY DEF Moved
    <3>2. SessionOf' = SessionOf
      OBVIOUS
    <3> QED
      BY <1>0, <3>1
  <2> QED
    BY <1>0, <2>1 DEF Accounted
<1>5. \A s \in Sessions : Once(steering'[s]) /\ \A m \in SteeringMsgs(s)' : SessionOf[m] = s
  BY DEF Moved, Accounted
<1>6. /\ \A m \in Msgs : (fate'[m] = "batch") <=> (\E v \in Msgs : m \in batch'[v])
      /\ \A v \in Msgs : v # w => batch'[v] \cap batch'[w] = {}
  <2>1. /\ \A m \in Msgs : (fate[m] = "batch") <=> (\E v \in Msgs : m \in batch[v])
        /\ \A u, v \in Msgs : u # v => batch[u] \cap batch[v] = {}
    BY DEF Accounted
  <2>2. CASE f = "settled" /\ batch'[w] = batch[w] \ M
    <3>1. \A v \in Msgs : batch'[v] = batch[v] \ M
      <4>1. \A v \in Msgs \ {w} : batch[v] \cap M = {}
        BY <1>0, <1>1, <2>1
      <4> QED
        BY <1>0, <2>2, <4>1
    <3> QED
      BY <1>0, <2>1, <2>2, <3>1
  <2>3. CASE f = "batch" /\ batch'[w] = batch[w] \cup M
    <3>1. \A v \in Msgs : batch[v] \cap M = {}
      BY <1>0, <1>1, <2>1, <2>3
    <3>2. ASSUME NEW m \in Msgs
          PROVE  (fate'[m] = "batch") <=> (\E v \in Msgs : m \in batch'[v])
      <4>1. CASE m \in M
        BY <1>0, <2>3, <4>1
      <4>2. CASE m \notin M
        <5>1. \A v \in Msgs : m \in batch'[v] <=> m \in batch[v]
          BY <1>0, <2>3, <4>2
        <5> QED
          BY <1>0, <2>1, <4>2, <5>1
      <4> QED
        BY <4>1, <4>2
    <3>3. ASSUME NEW v \in Msgs, v # w PROVE batch'[v] \cap batch'[w] = {}
      BY <1>0, <2>1, <2>3, <3>1, <3>3
    <3> QED
      BY <3>2, <3>3
  <2> QED
    BY <2>2, <2>3 DEF Moved
<1>7. \A v \in Msgs : batch'[v] # {} => wpc'[v] \in BatchPCs
  BY <1>0 DEF Moved, Accounted
<1>8. \A u, v \in Msgs : u # v => batch'[u] \cap batch'[v] = {}
  BY <1>0, <1>6 DEF Accounted
<1> QED
  BY <1>2, <1>3, <1>4, <1>5, <1>6, <1>7, <1>8 DEF Accounted

(* Steps that move no message, ...                                         *)
LEMMA Idles ==
  ASSUME TypeOK, Accounted, NEW w \in Msgs, NEW pc, wpc' = [wpc EXCEPT ![w] = pc],
         UNCHANGED <<fate, steering, batch, loopPC, loopMsg, cleared>>,
         pc \in ClaimPCs <=> wpc[w] \in ClaimPCs,
         wpc[w] \in BatchPCs => pc \in BatchPCs
  PROVE  Moved(w, {}, "settled")
<1>1. Settle({}, "settled") /\ UNCHANGED loop
  BY DEF TypeOK, Settle, loop
<1>2. /\ \A v \in Msgs \ {w} : wpc'[v] = wpc[v] /\ batch'[v] = batch[v]
      /\ wpc'[w] = pc /\ batch'[w] = batch[w]
  BY DEF TypeOK
<1>3. \A s \in Sessions : Once(steering'[s]) /\ SteeringMsgs(s)' = SteeringMsgs(s) \ {}
  BY DEF Accounted, SteeringMsgs
<1> QED
  BY <1>1, <1>2, <1>3 DEF Moved, Accounted

(* ... settle the message that a worker claimed the session for, ...       *)
LEMMA SettlesOwn ==
  ASSUME TypeOK, Accounted, NEW w \in Msgs, NEW pc, wpc' = [wpc EXCEPT ![w] = pc],
         wpc[w] \in ClaimPCs, pc \notin ClaimPCs, Settle({w}, "settled"),
         UNCHANGED <<steering, loopPC, loopMsg, cleared>>,
         batch' \in {batch, [batch EXCEPT ![w] = {}]}
  PROVE  Moved(w, {w}, "settled")
<1>1. fate[w] = "claimed" /\ batch[w] = {}
  BY DEF Accounted, ClaimPCs, BatchPCs
<1>2. /\ \A v \in Msgs \ {w} : wpc'[v] = wpc[v] /\ batch'[v] = batch[v]
      /\ wpc'[w] = pc /\ batch'[w] = {}
  BY <1>1 DEF TypeOK
<1>3. \A s \in Sessions : Once(steering'[s]) /\ SteeringMsgs(s)' = SteeringMsgs(s) \ {w}
  <2>1. \A s \in Sessions : w \notin SteeringMsgs(s)
    BY <1>1 DEF Accounted
  <2> QED
    BY <2>1 DEF Accounted, SteeringMsgs
<1> QED
  BY <1>1, <1>2, <1>3 DEF Moved, loop

(* ... settle the messages of the turn, ...                                *)
LEMMA EndsBatch ==
  ASSUME TypeOK, Accounted, NEW w \in Msgs, NEW pc, wpc' = [wpc EXCEPT ![w] = pc],
         wpc[w] \notin ClaimPCs, pc \notin ClaimPCs, Settle(batch[w], "settled"),
         UNCHANGED <<steering, loopPC, loopMsg, cleared>>, batch' = [batch EXCEPT ![w] = {}]
  PROVE  Moved(w, batch[w], "settled")
<1>1. /\ \A v \in Msgs \ {w} : wpc'[v] = wpc[v] /\ batch'[v] = batch[v]
      /\ wpc'[w] = pc /\ batch'[w] = {} /\ batch[w] \subseteq Msgs
  BY DEF TypeOK
<1>2. \A s \in Sessions : Once(steering'[s]) /\ SteeringMsgs(s)' = SteeringMsgs(s) \ batch[w]
  <2>1. \A m \in batch[w] : fate[m] = "batch"
    BY <1>1 DEF Accounted
  <2>2. \A s \in Sessions : SteeringMsgs(s) \cap batch[w] = {}
    BY <1>1, <2>1 DEF Accounted
  <2> QED
    BY <2>2 DEF Accounted, SteeringMsgs
<1> QED
  BY <1>1, <1>2 DEF Moved, loop

(* ... or take messages off the queue, to drop them or to run them.        *)
LEMMA Dequeues ==
  ASSUME TypeOK, Accounted, NEW w \in Msgs, NEW pc, wpc' = [wpc EXCEPT ![w] = pc],
         pc \in ClaimPCs <=> wpc[w] \in ClaimPCs, wpc[w] \in BatchPCs => pc \in BatchPCs,
         NEW M, NEW q, M \subseteq SteeringMsgs(SessionOf[w]),
         steering' = [steering EXCEPT ![SessionOf[w]] = q], Once(q),
         {q[i] : i \in 1..Len(q)} = SteeringMsgs(SessionOf[w]) \ M,
         NEW f, Settle(M, f), UNCHANGED <<loopPC, loopMsg, cleared>>,
         \/ f = "settled" /\ batch' = batch
         \/ f = "batch" /\ batch' = [batch EXCEPT ![w] = @ \cup M] /\ pc \in BatchPCs
  PROVE  Moved(w, M, f)
<1>1. SessionOf[w] \in Sessions /\ M \subseteq Msgs
  BY DispatchAssumption, DequeuedType DEF TypeOK
<1>2. \A m \in M : fate[m] = "queued" /\ SessionOf[m] = SessionOf[w]
  BY <1>1 DEF Accounted
<1>3. \A v \in Msgs \ {w} : wpc'[v] = wpc[v] /\ batch'[v] = batch[v]
  BY DEF TypeOK
<1>4. ASSUME NEW s \in Sessions
      PROVE  Once(steering'[s]) /\ SteeringMsgs(s)' = SteeringMsgs(s) \ M
  <2>1. CASE s = SessionOf[w]
    <3>1. steering'[s] = q
      BY <2>1 DEF TypeOK
    <3>2. SteeringMsgs(s)' = {q[i] : i \in 1..Len(q)}
      BY <3>1 DEF SteeringMsgs
    <3> QED
      BY <2>1, <3>1, <3>2
  <2>2. CASE s # SessionOf[w]
    <3>1. steering'[s] = steering[s]
      BY <2>2 DEF TypeOK
    <3>2. SteeringMsgs(s) \cap M = {}
      BY <1>2, <2>2 DEF Accounted
    <3> QED
      BY <3>1, <3>2 DEF SteeringMsgs, Accounted
  <2> QED
    BY <2>1, <2>2
<1>5. w \notin M \/ wpc[w] \notin ClaimPCs
  BY <1>2 DEF Accounted
<1>6. wpc'[w] = pc
  BY DEF TypeOK
<1>7. \/ f = "settled" /\ batch'[w] = batch[w] \ M
      \/ f = "batch" /\ batch'[w] = batch[w] \cup M
  <2>1. batch[w] \cap M = {}
    BY <1>1, <1>2 DEF Accounted
  <2> QED
    BY <2>1 DEF TypeOK
<1>8. batch'[w] # {} => wpc'[w] \in BatchPCs
  BY <1>6 DEF Accounted
<1> QED
  BY <1>1, <1>2, <1>3, <1>4, <1>5, <1>6, <1>7, <1>8 DEF Moved, loop

(* Every step of a worker is one of these.                                 *)
LEMMA WorkerAccounts ==
  ASSUME TypeOK, Accounted, NEW w \in Msgs, WorkerNext(w)
  PROVE  Accounted'
<1> DEFINE s == SessionOf[w]
<1> USE DEF Goto, turnVars, loop
<1>a. s \in Sessions /\ DOMAIN wpc = Msgs /\ onReturn[w] \in {"drain", "exit", "panic"}
  BY DispatchAssumption DEF TypeOK
<1>b. ASSUME NEW pc, wpc' = [wpc EXCEPT ![w] = pc],
             UNCHANGED <<fate, steering, batch, loopPC, loopMsg, cleared>>,
             pc \in ClaimPCs <=> wpc[w] \in ClaimPCs,
             wpc[w] \in BatchPCs => pc \in BatchPCs
      PROVE  Accounted'
  <2>1. Moved(w, {}, "settled")
    BY <1>b, Idles
  <2> QED
    BY <2>1, MovedKeeps
<1>c. ASSUME NEW pc, wpc' = [wpc EXCEPT ![w] = pc],
             wpc[w] \in ClaimPCs, pc \notin ClaimPCs, Settle({w}, "settled"),
             UNCHANGED <<steering, loopPC, loopMsg, cleared>>,
             batch' \in {batch, [batch EXCEPT ![w] = {}]}
      PROVE  Accounted'
  <2>1. Moved(w, {w}, "settled")
    BY <1>c, SettlesOwn
  <2> QED
    BY <2>1, MovedKeeps
<1>d. ASSUME NEW pc, wpc' = [wpc EXCEPT ![w] = pc],
             wpc[w] \notin ClaimPCs, pc \notin ClaimPCs, Settle(batch[w], "settled"),
             UNCHANGED <<steering, loopPC, loopMsg, cleared>>, batch' = [batch EXCEPT ![w] = {}]
      PROVE  Accounted'
  <2>1. Moved(w, batch[w], "settled")
    BY <1>d, EndsBatch
  <2> QED
    BY <2>1, MovedKeeps
<1>e. ASSUME NEW pc, wpc' = [wpc EXCEPT ![w] = pc], wpc[w] \notin ClaimPCs, pc \notin ClaimPCs,
             wpc[w] \in BatchPCs => pc \in BatchPCs,
             steering[s] # << >>, steering' = [steering EXCEPT ![s] = Remaining(s)],
             NEW f, Settle(Dequeued(s), f), UNCHANGED <<loopPC, loopMsg, cleared>>,
             \/ f = "settled" /\ batch' = batch
             \/ f = "batch" /\ batch' = [batch EXCEPT ![w] = @ \cup Dequeued(s)] /\ pc \in BatchPCs
      PROVE  Accounted'
  <2>1. PICK M, q : M = Dequeued(s) /\ q = Remaining(s)
    OBVIOUS
  <2>2. /\ M \subseteq SteeringMsgs(s) /\ Once(q)
        /\ {q[i] : i \in 1..Len(q)} = SteeringMsgs(s) \ M
    BY <1>a, <1>e, <2>1, DequeueSplits DEF TypeOK, Accounted
  <2>3. Moved(w, M, f)
    BY <1>e, <2>1, <2>2, Dequeues
  <2> QED
    BY <2>3, MovedKeeps
<1>f. ASSUME NEW pc \in {"drain", "exit", "panic"}, EndTurn(w, pc),
             wpc[w] \in {"takeStop", "poll", "run", "final"}
      PROVE  Accounted'
  BY <1>d, <1>f DEF EndTurn, ClaimPCs
<1>g. CASE /\ wpc[w] \in {"clear", "clearDel"} /\ Returned(w)
           /\ UNCHANGED <<fate, steering, batch, loopPC, loopMsg, cleared>>
  BY <1>a, <1>b, <1>g DEF Returned, ClaimPCs, BatchPCs
<1> USE DEF ClaimPCs, BatchPCs
<1>1. CASE AcquireSlot(w)
  BY <1>1, <1>b DEF AcquireSlot
<1>2. CASE AbandonClaim(w)
  BY <1>2, <1>c DEF AbandonClaim
<1>3. CASE GateStop(w)
  BY <1>3, <1>c DEF GateStop
<1>4. CASE GatePass(w)
  BY <1>4, <1>b DEF GatePass
<1>5. CASE Unclaim(w)
  BY <1>5, <1>b DEF Unclaim
<1>6. CASE ProcessWithoutTurn(w)
  BY <1>6, <1>c DEF ProcessWithoutTurn
<1>7. CASE ProcessStop(w)
  <2>1. PICK M, q : M = SteeringMsgs(s) /\ q = << >>
    OBVIOUS
  <2>2. Once(q) /\ {q[i] : i \in 1..Len(q)} = SteeringMsgs(s) \ M
    BY <2>1 DEF Once
  <2>3. /\ wpc' = [wpc EXCEPT ![w] = "procAbort"] /\ wpc[w] = "process"
        /\ Settle(M, "settled") /\ steering' = [steering EXCEPT ![s] = q]
        /\ UNCHANGED <<loopPC, loopMsg, cleared, batch>>
    BY <1>7, <2>1 DEF ProcessStop
  <2>4. Moved(w, M, "settled")
    BY <2>1, <2>2, <2>3, Dequeues
  <2> QED
    BY <2>4, MovedKeeps
<1>8. CASE ProcessStopAbort(w)
  BY <1>8, <1>c DEF ProcessStopAbort
<1>9. CASE ProcessTurn(w)
  <2>1. /\ wpc[w] = "process" /\ wpc' = [wpc EXCEPT ![w] = "register"]
        /\ batch' = [batch EXCEPT ![w] = {w}] /\ Settle({w}, "batch")
        /\ UNCHANGED <<steering, loopPC, loopMsg, cleared>>
    BY <1>9 DEF ProcessTurn
  <2>2. fate[w] = "claimed" /\ batch[w] = {}
    BY <2>1 DEF Accounted
  <2>3. /\ \A v \in Msgs \ {w} : wpc'[v] = wpc[v] /\ batch'[v] = batch[v]
        /\ wpc'[w] = "register" /\ batch'[w] = batch[w] \cup {w}
    BY <2>1, <2>2 DEF TypeOK
  <2>4. \A t \in Sessions : Once(steering'[t]) /\ SteeringMsgs(t)' = SteeringMsgs(t) \ {w}
    <3>1. \A t \in Sessions : w \notin SteeringMsgs(t)
      BY <2>2 DEF Accounted
    <3> QED
      BY <2>1, <3>1 DEF Accounted, SteeringMsgs
  <2>5. Moved(w, {w}, "batch")
    BY <2>1, <2>2, <2>3, <2>4 DEF Moved
  <2> QED
    BY <2>5, MovedKeeps
<1>10. CASE RegisterFails(w)
  BY <1>10, <1>d DEF RegisterFails
<1>11. CASE Register(w)
  BY <1>11, <1>b DEF Register
<1>12. CASE TakeStop(w)
  BY <1>12, <1>b DEF TakeStop
<1>13. CASE InitialPoll(w)
  <2>1. CASE TakeSteering(w)
    BY <1>13, <1>e, <2>1 DEF InitialPoll, TakeSteering
  <2>2. CASE UNCHANGED <<steering, batch, fate>>
    BY <1>13, <1>b, <2>2 DEF InitialPoll
  <2> QED
    BY <1>13, <2>1, <2>2 DEF InitialPoll
<1>14. CASE ToolPoll(w)
  <2>1. wpc' = [wpc EXCEPT ![w] = "run"] /\ wpc[w] = "run"
    BY <1>14, <1>a DEF ToolPoll, TypeOK
  <2> QED
    BY <1>14, <1>e, <2>1 DEF ToolPoll, TakeSteering
<1>15. CASE TurnAborts(w)
  BY <1>15, <1>f DEF TurnAborts
<1>16. CASE TurnFails(w)
  BY <1>16, <1>f DEF TurnFails
<1>17. CASE LastAbortCheck(w)
  BY <1>17, <1>b DEF LastAbortCheck
<1>18. CASE TurnAnswers(w)
  BY <1>18, <1>f DEF TurnAnswers
<1>19. CASE TurnPanics(w)
  BY <1>19, <1>f DEF TurnPanics
<1>20. CASE ClearCheck(w)
  <2>1. batch[w] = {} /\ wpc[w] = "clear"
    BY <1>20 DEF ClearCheck, Accounted
  <2> QED
    BY <1>20, <1>b, <1>g, <2>1 DEF ClearCheck
<1>21. CASE ClearDelete(w)
  BY <1>21, <1>g DEF ClearDelete
<1>22. CASE DrainMore(w)
  BY <1>22, <1>b DEF DrainMore
<1>23. CASE DrainEnds(w)
  BY <1>23, <1>b DEF DrainEnds
<1>24. CASE ContinueClaim(w)
  BY <1>24, <1>b DEF ContinueClaim
<1>25. CASE ContinueBusy(w)
  BY <1>25, <1>b DEF ContinueBusy
<1>26. CASE ContinueDequeue(w)
  <2>1. batch[w] = {}
    BY <1>26 DEF ContinueDequeue, Accounted
  <2>2. batch' = [batch EXCEPT ![w] = @ \cup Dequeued(s)]
    BY <1>26, <2>1 DEF ContinueDequeue
  <2> QED
    BY <1>26, <1>e, <2>2 DEF ContinueDequeue
<1>27. CASE ContinueEmpty(w)
  BY <1>27, <1>b DEF ContinueEmpty
<1>28. CASE ReleaseToken(w)
  BY <1>28, <1>b DEF ReleaseToken
<1>29. CASE ProcessPanics(w)
  <2>1. CASE wpc[w] = "process"
    BY <1>29, <1>c, <2>1 DEF ProcessPanics
  <2>2. CASE wpc[w] # "process"
    BY <1>29, <1>d, <2>2 DEF ProcessPanics
  <2> QED
    BY <2>1, <2>2
<1>30. CASE CleanupLoad(w)
  BY <1>30, <1>b DEF CleanupLoad
<1>31. CASE PanicCleanupLoad(w)
  BY <1>31, <1>b DEF PanicCleanupLoad
<1>32. CASE CleanupDelete(w)
  BY <1>32, <1>b DEF CleanupDelete
<1>33. CASE CleanupCheck(w)
  BY <1>33, <1>b DEF CleanupCheck
<1>34. CASE ContinueFails(w)
  <2>1. CASE UNCHANGED <<steering, fate>>
    BY <1>34, <1>b, <2>1 DEF ContinueFails
  <2>2. CASE /\ steering[s] # << >> /\ Settle(Dequeued(s), "settled")
             /\ steering' = [steering EXCEPT ![s] = Remaining(s)]
    BY <1>34, <1>e, <2>2 DEF ContinueFails
  <2> QED
    BY <1>34, <2>1, <2>2 DEF ContinueFails
<1> QED
  BY <1>1, <1>2, <1>3, <1>4, <1>5, <1>6, <1>7, <1>8, <1>9, <1>10, <1>11,
     <1>12, <1>13, <1>14, <1>15, <1>16, <1>17, <1>18, <1>19, <1>20, <1>21,
     <1>22, <1>23, <1>24, <1>25, <1>26, <1>27, <1>28, <1>29, <1>30, <1>31,
     <1>32, <1>33, <1>34 DEF WorkerNext, TurnNext

(* A step of the receive loop moves the message it holds, receives one, or *)
(* empties a queue.                                                        *)
LEMMA LoopAccounts ==
  ASSUME TypeOK, Fresh, Accounted, LoopNext \/ Shutdown
  PROVE  Accounted'
<1> USE DEF LoopAt, LoopRecv, StopDone, Goto, turnVars, loop
<1>0. /\ loopPC # "recv" => loopMsg \in Msgs /\ fate[loopMsg] = "held"
      /\ \A m \in Msgs : SessionOf[m] \in Sessions
      /\ fate \in [Msgs -> Fates] /\ wpc \in [Msgs -> WorkerPCs]
  BY DispatchAssumption DEF TypeOK, Accounted
<1>1. ASSUME NEW m \in Msgs, Receive(m) PROVE Accounted'
  <2>1. /\ loopPC = "recv" /\ fate[m] = "inbox" /\ wpc[m] = "none"
        /\ UNCHANGED <<steering, batch>>
    BY <1>1 DEF Receive, Fresh
  <2>2. \A n \in Msgs : fate[n] # "held"
    BY <2>1 DEF Accounted
  <2>3. \A v \in Msgs : batch[v] # {} => v # m
    BY <2>1 DEF Accounted, BatchPCs
  <2>4. CASE Claim(m)
    <3>1. /\ wpc' = [wpc EXCEPT ![m] = "sem"] /\ UNCHANGED <<loopPC, loopMsg>>
          /\ \A n \in Msgs : fate'[n] = IF n = m THEN "claimed" ELSE fate[n]
      BY <2>4 DEF Claim, Settle
    <3>2. \A n \in Msgs : wpc'[n] = IF n = m THEN "sem" ELSE wpc[n]
      BY <1>0, <3>1
    <3> QED
      BY <2>1, <2>2, <2>3, <3>1, <3>2 DEF Accounted, SteeringMsgs, ClaimPCs
  <2>5. CASE FindBusy(m)
    <3>1. /\ wpc' = wpc /\ loopPC' # "recv" /\ loopMsg' = m
          /\ \A n \in Msgs : fate'[n] = IF n = m THEN "held" ELSE fate[n]
      BY <2>5 DEF FindBusy, Settle
    <3> QED
      BY <2>1, <2>2, <3>1 DEF Accounted, SteeringMsgs, ClaimPCs
  <2> QED
    BY <1>1, <2>4, <2>5 DEF Receive
<1>2. ASSUME loopPC # "recv", loopPC' = "recv", Settle({loopMsg}, "settled"),
             UNCHANGED <<steering, batch, wpc>>
      PROVE  Accounted'
  <2>1. \A n \in Msgs : fate'[n] = IF n = loopMsg THEN "settled" ELSE fate[n]
    BY <1>2 DEF Settle
  <2> QED
    BY <1>0, <1>2, <2>1 DEF Accounted, SteeringMsgs
<1>3. ASSUME loopPC # "recv", loopPC' # "recv", loopMsg' = loopMsg,
             UNCHANGED <<fate, steering, batch, wpc>>
      PROVE  Accounted'
  BY <1>3 DEF Accounted, SteeringMsgs
<1>4. CASE Enqueue
  <2>1. /\ loopPC = "enqueue" /\ loopPC' = "recv" /\ UNCHANGED <<batch, wpc>>
    BY <1>4 DEF Enqueue
  <2>2. CASE Settle({loopMsg}, "settled") /\ UNCHANGED steering
    BY <1>2, <2>1, <2>2
  <2>3. CASE /\ steering' = [steering EXCEPT ![SessionOf[loopMsg]] = Append(@, loopMsg)]
             /\ Settle({loopMsg}, "queued")
    <3>1. PICK m \in Msgs, s \in Sessions, q \in Seq(Msgs) :
            m = loopMsg /\ s = SessionOf[m] /\ q = steering[s]
      BY <1>0, <2>1 DEF TypeOK
    <3>2. /\ \A n \in Msgs : fate'[n] = IF n = m THEN "queued" ELSE fate[n]
          /\ steering'[s] = Append(q, m)
          /\ \A t \in Sessions \ {s} : steering'[t] = steering[t]
      BY <2>3, <3>1 DEF Settle, TypeOK
    <3>3. /\ Len(Append(q, m)) = Len(q) + 1 /\ Len(q) \in Nat
          /\ \A i \in 1..Len(q) : Append(q, m)[i] = q[i]
          /\ Append(q, m)[Len(q) + 1] = m
          /\ 1..(Len(q) + 1) = (1..Len(q)) \cup {Len(q) + 1}
      OBVIOUS
    <3>4. fate[m] = "held" /\ \A t \in Sessions : m \notin SteeringMsgs(t)
      BY <1>0, <2>1, <3>1 DEF Accounted
    <3>5. \A i \in 1..Len(q) : q[i] # m
      BY <3>1, <3>4 DEF SteeringMsgs
    <3>6. Once(Append(q, m))
      BY <3>1, <3>3, <3>5 DEF Once, Accounted
    <3>7. {Append(q, m)[i] : i \in 1..Len(Append(q, m))} = {q[i] : i \in 1..Len(q)} \cup {m}
      BY <3>3
    <3>8. SteeringMsgs(s)' = SteeringMsgs(s) \cup {m}
      BY <3>1, <3>2, <3>7 DEF SteeringMsgs
    <3>9. \A t \in Sessions \ {s} : SteeringMsgs(t)' = SteeringMsgs(t)
      BY <3>2 DEF SteeringMsgs
    <3>10. \A n \in Msgs : (fate'[n] = "queued") <=> (n \in SteeringMsgs(SessionOf[n])')
      <4> SUFFICES ASSUME NEW n \in Msgs
                   PROVE  (fate'[n] = "queued") <=> (n \in SteeringMsgs(SessionOf[n])')
        OBVIOUS
      <4>1. PICK t \in Sessions : t = SessionOf[n]
        BY <1>0
      <4>2. (fate[n] = "queued") <=> (n \in SteeringMsgs(t))
        BY <4>1 DEF Accounted
      <4>3. (fate'[n] = "queued") <=> (n \in SteeringMsgs(t)')
        BY <3>1, <3>2, <3>8, <3>9, <4>1, <4>2
      <4> QED
        BY <4>1, <4>3
    <3>11. \A t \in Sessions :
             Once(steering'[t]) /\ \A n \in SteeringMsgs(t)' : SessionOf[n] = t
      <4> SUFFICES ASSUME NEW t \in Sessions
                   PROVE  Once(steering'[t]) /\ \A n \in SteeringMsgs(t)' : SessionOf[n] = t
        OBVIOUS
      <4>1. Once(steering[t]) /\ \A n \in SteeringMsgs(t) : SessionOf[n] = t
        BY DEF Accounted
      <4>2. CASE t = s
        <5>1. Once(steering'[t])
          BY <3>2, <3>6, <4>2
        <5>2. SteeringMsgs(t)' = SteeringMsgs(t) \cup {m}
          BY <3>8, <4>2
        <5> QED
          BY <3>1, <4>1, <4>2, <5>1, <5>2
      <4>3. CASE t # s
        <5>1. steering'[t] = steering[t]
          BY <3>2, <4>3
        <5>2. SteeringMsgs(t)' = SteeringMsgs(t)
          BY <3>9, <4>3
        <5>3. Once(steering'[t])
          BY <4>1, <5>1
        <5> QED
          BY <4>1, <5>2, <5>3
      <4> QED
        BY <4>2, <4>3
    <3> QED
      BY <1>0, <2>1, <3>1, <3>2, <3>4, <3>10, <3>11 DEF Accounted
  <2> QED
    BY <1>4, <2>2, <2>3 DEF Enqueue
<1>5. CASE StopClear
  <2>1. PICK s \in Sessions, M \in SUBSET Msgs : s = SessionOf[loopMsg] /\ M = SteeringMsgs(s)
    BY <1>0, <1>5, DequeuedType DEF StopClear, TypeOK
  <2>2. /\ \A n \in Msgs : fate'[n] = IF n \in M THEN "settled" ELSE fate[n]
        /\ steering'[s] = << >> /\ \A t \in Sessions \ {s} : steering'[t] = steering[t]
        /\ loopPC # "recv" /\ loopPC' # "recv" /\ loopMsg' = loopMsg
        /\ UNCHANGED <<batch, wpc>>
    BY <1>5, <2>1 DEF StopClear, Settle, TypeOK
  <2>3. \A n \in M : fate[n] = "queued" /\ SessionOf[n] = s
    BY <2>1 DEF Accounted
  <2>4. SteeringMsgs(s)' = {} /\ \A t \in Sessions \ {s} : SteeringMsgs(t)' = SteeringMsgs(t)
    BY <2>2 DEF SteeringMsgs
  <2>5. \A n \in Msgs : (fate'[n] = "queued") <=> (n \in SteeringMsgs(SessionOf[n])')
    <3> SUFFICES ASSUME NEW n \in Msgs
                 PROVE  (fate'[n] = "queued") <=> (n \in SteeringMsgs(SessionOf[n])')
      OBVIOUS
    <3>1. PICK t \in Sessions : t = SessionOf[n]
      BY <1>0
    <3>2. (fate[n] = "queued") <=> (n \in SteeringMsgs(t))
      BY <3>1 DEF Accounted
    <3>3. (fate'[n] = "queued") <=> (n \in SteeringMsgs(t)')
      BY <2>1, <2>2, <2>3, <2>4, <3>1, <3>2
    <3> QED
      BY <3>1, <3>3
  <2>6. \A t \in Sessions :
          Once(steering'[t]) /\ \A n \in SteeringMsgs(t)' : SessionOf[n] = t
    BY <2>2, <2>4 DEF Accounted, Once
  <2> QED
    BY <2>2, <2>3, <2>5, <2>6 DEF Accounted
<1>6. CASE StopLook
  BY <1>2, <1>3, <1>6 DEF StopLook
<1>7. CASE StopAbort
  BY <1>2, <1>3, <1>7 DEF StopAbort
<1>8. CASE StopRecheck
  BY <1>2, <1>3, <1>8 DEF StopRecheck
<1>9. CASE StopMark
  BY <1>2, <1>9 DEF StopMark
<1>10. CASE Shutdown
  BY <1>10 DEF Shutdown, Accounted, SteeringMsgs
<1> QED
  BY <1>1, <1>4, <1>5, <1>6, <1>7, <1>8, <1>9, <1>10 DEF LoopNext

LEMMA NextAccounts == DispatchInv /\ Accounted /\ [Next]_vars => Accounted'
<1> SUFFICES ASSUME DispatchInv, Accounted, [Next]_vars PROVE Accounted'
  OBVIOUS
<1>1. CASE LoopNext \/ Shutdown
  BY <1>1, LoopAccounts DEF DispatchInv
<1>2. ASSUME NEW w \in Msgs, WorkerNext(w) PROVE Accounted'
  BY <1>2, WorkerAccounts DEF DispatchInv
<1>3. CASE UNCHANGED vars
  BY <1>3 DEF vars, loop, turnVars, Accounted, SteeringMsgs
<1>4. CASE Idle
  BY <1>3, <1>4 DEF Idle
<1> QED
  BY <1>1, <1>2, <1>3, <1>4 DEF Next

-----------------------------------------------------------------------------
(***************************************************************************)
(* The inductive invariant and the theorems.                               *)
(***************************************************************************)
(* The dispatcher starts with no entry, no token and no worker.            *)
LEMMA InitInv == Init => DispatchInv
<1> SUFFICES ASSUME Init PROVE DispatchInv
  OBVIOUS
<1> USE DispatchAssumption DEF Init
<1>1. TypeOK
  <2>1. << >> \in Seq(Msgs)
    OBVIOUS
  <2>2. steering \in [Sessions -> Seq(Msgs)]
    BY <2>1
  <2>3. wpc \in [Msgs -> WorkerPCs] /\ fate \in [Msgs -> Fates]
    BY DEF WorkerPCs, Fates
  <2>4. loopPC \in LoopPCs /\ (loopPC # "recv" => loopMsg \in Msgs)
    BY DEF LoopPCs
  <2> QED
    BY <2>2, <2>3, <2>4 DEF TypeOK
<1>2. TokensMatchWorkers
  <2>1. {w \in Msgs : wpc[w] \in TokenPCs} = {}
    BY DEF TokenPCs
  <2>2. workerSem = 0 /\ 0 <= MaxWorkers
    OBVIOUS
  <2>3. Cardinality({w \in Msgs : wpc[w] \in TokenPCs}) = 0
    BY <2>1, FS_EmptySet
  <2> QED
    BY <2>2, <2>3 DEF TokensMatchWorkers
<1>3. Fresh /\ OwnsSlot /\ SlotOwned
  BY DEF Fresh, OwnsSlot, SlotOwned, ByClaim, ByCont, ByTurn, TurnPCs
<1> QED
  BY <1>1, <1>2, <1>3 DEF DispatchInv

(* Every step of the loop or of a worker keeps the inductive invariant.    *)
LEMMA NextInv == DispatchInv /\ [Next]_vars => DispatchInv'
<1> SUFFICES ASSUME DispatchInv, [Next]_vars PROVE DispatchInv'
  OBVIOUS
<1> USE DEF DispatchInv
<1>1. CASE LoopNext \/ Shutdown
  <2>1. TypeOK' /\ workerSem' = workerSem
    BY <1>1, LoopType
  <2>2. Fresh' /\ OwnsSlot' /\ SlotOwned' /\ Holders(wpc') = Holders(wpc)
    BY <1>1, LoopOwns
  <2>3. TokensMatchWorkers'
    BY <2>1, <2>2 DEF TokensMatchWorkers, Holders
  <2> QED
    BY <2>1, <2>2, <2>3
<1>2. ASSUME NEW w \in Msgs, WorkerNext(w)
      PROVE  DispatchInv'
  <2>1. TokensMatchWorkers' /\ workerSem' \in Nat
    BY <1>2, WorkerTokens
  <2>2. TypeOK'
    BY <1>2, <2>1, WorkerType
  <2>3. OwnsSlot' /\ SlotOwned'
    BY <1>2, WorkerOwns
  <2>4. Fresh'
    BY <1>2, WorkerFrame DEF Fresh, Frame
  <2> QED
    BY <2>1, <2>2, <2>3, <2>4
<1>3. CASE UNCHANGED vars
  BY <1>3 DEF vars, loop, TypeOK, TokensMatchWorkers, Fresh, OwnsSlot,
     SlotOwned, HoldsEntry, ByClaim, ByCont, ByTurn, Slot
<1>4. CASE Idle
  BY <1>3, <1>4 DEF Idle
<1> QED
  BY <1>1, <1>2, <1>3, <1>4 DEF Next

(* The inductive invariant: each entry of activeTurnStates and each token  *)
(* of workerSem is accounted for by the program counter of its worker.     *)
THEOREM Invariance == Spec => []DispatchInv
<1> QED
  BY InitInv, NextInv, PTL DEF Spec

(* Every variable of the dispatcher keeps its type; in particular the      *)
(* receive on workerSem in a worker's deferred function never finds the    *)
(* channel empty (agent.go:362).                                           *)
THEOREM TypeCorrect == Spec => []TypeOK
<1>1. DispatchInv => TypeOK
  BY DEF DispatchInv
<1> QED
  BY <1>1, Invariance, PTL

(* For any number of messages and any capacity, the channel holds one      *)
(* token for each worker between its send and its receive, and never more  *)
(* than max_parallel_turns.                                                *)
THEOREM TokensCorrect == Spec => []TokensMatchWorkers
<1>1. DispatchInv => TokensMatchWorkers
  BY DEF DispatchInv
<1> QED
  BY <1>1, Invariance, PTL

(* Two turns of one session never overlap while no exit cleanup has        *)
(* deleted an entry of that session that was not its own.                  *)
THEOREM SerialTurns == Spec => []OneTurnUnlessStolen
<1>1. DispatchInv => OneTurnUnlessStolen
  <2> SUFFICES ASSUME DispatchInv, NEW v \in Msgs, NEW w \in Msgs,
                      SessionOf[v] = SessionOf[w], SessionOf[v] \notin stolen,
                      wpc[v] \in TurnPCs, wpc[w] \in TurnPCs
               PROVE  v = w
    BY DEF OneTurnUnlessStolen
  <2>1. Slot(v) = Entry("turn", v) /\ Slot(w) = Entry("turn", w)
    BY DEF DispatchInv, OwnsSlot, ByTurn
  <2> QED
    BY <2>1 DEF Slot, Entry
<1> QED
  BY <1>1, Invariance, PTL

(* No session is left with an entry whose worker is gone, so its later     *)
(* messages are not queued for nobody; the exception is a worker that      *)
(* panicked inside Continue.                                               *)
THEOREM NoOrphanEntry == Spec => []EntryHasLiveOwner
<1>1. DispatchInv => EntryHasLiveOwner
  <2> SUFFICES ASSUME DispatchInv, NEW s \in Sessions, activeTurns[s] # NoEntry
               PROVE  \/ wpc[activeTurns[s].owner] \notin {"none", "done"}
                      \/ /\ activeTurns[s].kind = "cont"
                         /\ activeTurns[s].owner \in wedged
    BY DEF EntryHasLiveOwner
  <2>1. activeTurns[s].kind \in {"claim", "cont", "turn"}
    BY DEF DispatchInv, TypeOK, Entries
  <2>2. HoldsEntry(activeTurns[s].kind, activeTurns[s].owner)
    BY DEF DispatchInv, SlotOwned
  <2> QED
    BY <2>1, <2>2 DEF HoldsEntry, TurnPCs
<1> QED
  BY <1>1, Invariance, PTL

LEMMA InitAccounts == Init => Accounted
<1> SUFFICES ASSUME Init PROVE Accounted
  OBVIOUS
<1>1. \A s \in Sessions : steering[s] = << >> /\ SteeringMsgs(s) = {} /\ Once(steering[s])
  BY DEF Init, SteeringMsgs, Once
<1>2. \A m \in Msgs : SessionOf[m] \in Sessions
  BY DispatchAssumption
<1> QED
  BY <1>1, <1>2 DEF Init, Accounted, ClaimPCs, BatchPCs

(* No message is lost or answered twice between the receive loop, the      *)
(* claim of its session, the steering queue and a turn                     *)
(* (enqueueSteeringMessage, the dequeues, Continue, /stop): it is in the   *)
(* one place its fate names.                                               *)
THEOREM NoMessageLost == Spec => []EveryMessageAccounted
<1>1. TypeOK /\ Accounted => EveryMessageAccounted
  <2> SUFFICES ASSUME TypeOK, Accounted PROVE EveryMessageAccounted
    OBVIOUS
  <2>1. ASSUME NEW m \in Msgs
        PROVE  /\ (fate[m] = "held") => (loopMsg = m)
               /\ (fate[m] = "claimed") => wpc[m] \in {"sem", "gate", "process", "procAbort"}
               /\ (fate[m] = "queued") =>
                    \E i \in 1..Len(steering[SessionOf[m]]) : steering[SessionOf[m]][i] = m
    BY DEF Accounted, ClaimPCs, SteeringMsgs
  <2>2. ASSUME NEW m \in Msgs, fate[m] = "batch"
        PROVE  \E w \in Msgs : m \in batch[w] /\ wpc[w] \in TurnPCs \cup {"register"}
    BY <2>2 DEF Accounted, BatchPCs, TurnPCs
  <2>3. ASSUME NEW s \in Sessions, NEW i \in 1..Len(steering[s])
        PROVE  /\ fate[steering[s][i]] = "queued" /\ SessionOf[steering[s][i]] = s
               /\ \A j \in 1..Len(steering[s]) : steering[s][i] = steering[s][j] => i = j
    <3>1. steering[s] \in Seq(Msgs)
      BY DEF TypeOK
    <3>2. steering[s][i] \in Msgs /\ steering[s][i] \in SteeringMsgs(s)
      BY <3>1 DEF SteeringMsgs
    <3>3. SessionOf[steering[s][i]] = s /\ Once(steering[s])
      BY <3>2 DEF Accounted
    <3>4. fate[steering[s][i]] = "queued"
      BY <3>2, <3>3 DEF Accounted
    <3> QED
      BY <3>3, <3>4 DEF Once
  <2>4. \A v, w \in Msgs : v # w => batch[v] \cap batch[w] = {}
    BY DEF Accounted
  <2> QED
    BY <2>1, <2>2, <2>3, <2>4 DEF EveryMessageAccounted
<1>2. DispatchInv => TypeOK
  BY DEF DispatchInv
<1> QED
  BY <1>1, <1>2, InitAccounts, NextAccounts, InitInv, NextInv, PTL DEF Spec
=============================================================================
