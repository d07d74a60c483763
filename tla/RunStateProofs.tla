--------------------------- MODULE RunStateProofs ---------------------------
(***************************************************************************)
(* Proofs about RunState, for any number of clients, dreamers, listeners   *)
(* and retries.                                                            *)
(*                                                                         *)
(* The argument: a refcount is the number of its holders, so an idle       *)
(* engine has none; the engine holds a cancel function only for the dream  *)
(* that runs and only while no model call does; and a model call that      *)
(* takes it away stays inside its bit until it has called it.  What is in  *)
(* a subscriber's channel, or was taken from it last, is the mode of now.  *)
(***************************************************************************)
EXTENDS RunState, FiniteSetTheorems, TLAPS

Inside(f, b) == {c \in Clients : BitOf[c] = b /\ f[c] \in InsidePCs}

ClientCounts == \A b \in ClientBits : counts[b] = Cardinality(Inside(cpc, b))

DreamCount ==
  /\ OneDream
  /\ (\E d \in Dreamers : dpc[d] = "dream") => counts["dream"] = 1
  /\ (\A d \in Dreamers : dpc[d] # "dream") => counts["dream"] = 0

CancelHeld ==
  dreamCancel # None => dpc[dreamCancel] = "dream" /\ counts["inference"] = 0

(* A dream can still be cancelled, is cancelled, or will be. *)
Cancellable ==
  \A d \in Dreamers : dpc[d] = "dream" =>
    \/ d = dreamCancel
    \/ d \in cancelled
    \/ \E c \in Clients : cpc[c] = "cancel" /\ toCancel[c] = d

Cancelling ==
  \A c \in Clients : cpc[c] = "cancel" =>
    BitOf[c] = "inference" /\ toCancel[c] \in Dreamers

(* What is in a subscriber's channel is the current mode.                  *)
ChanCurrent ==
  /\ \A x \in Listeners : Mode = IF chan[x] = Empty THEN last[x] ELSE chan[x]
  /\ \A c \in Clients : cpc[c] = "wait" =>
       chan[c] = Mode \/ (chan[c] = Empty /\ Suspended)

EngineInv ==
  /\ TypeOK
  /\ ClientCounts
  /\ DreamCount
  /\ CancelHeld
  /\ Cancellable
  /\ Cancelling

-----------------------------------------------------------------------------
(* One client's move changes the holders of its bit by what its program    *)
(* counter says and those of the other bits not at all.                    *)
LEMMA InsideMoves ==
  ASSUME NEW f \in [Clients -> ClientPCs], NEW c \in Clients, NEW pc \in ClientPCs
  PROVE  LET g == [f EXCEPT ![c] = pc]
         IN  /\ \A b \in ClientBits : Cardinality(Inside(f, b)) \in Nat
             /\ \A b \in ClientBits \ {BitOf[c]} : Inside(g, b) = Inside(f, b)
             /\ (f[c] \in InsidePCs <=> pc \in InsidePCs) =>
                  Inside(g, BitOf[c]) = Inside(f, BitOf[c])
             /\ f[c] \notin InsidePCs /\ pc \in InsidePCs =>
                  Cardinality(Inside(g, BitOf[c])) = Cardinality(Inside(f, BitOf[c])) + 1
             /\ f[c] \in InsidePCs /\ pc \notin InsidePCs =>
                  /\ Cardinality(Inside(g, BitOf[c])) = Cardinality(Inside(f, BitOf[c])) - 1
                  /\ Cardinality(Inside(f, BitOf[c])) # 0
<1> DEFINE g == [f EXCEPT ![c] = pc]
           h == BitOf[c]
<1>1. \A b \in ClientBits : IsFiniteSet(Inside(f, b)) /\ Cardinality(Inside(f, b)) \in Nat
  BY RunStateAssumption, FS_Subset, FS_CardinalityType DEF Inside
<1>2. g[c] = pc /\ \A x \in Clients \ {c} : g[x] = f[x]
  OBVIOUS
<1>3. h \in ClientBits
  BY RunStateAssumption
<1>4. \A b \in ClientBits \ {h} : Inside(g, b) = Inside(f, b)
  BY <1>2 DEF Inside
<1>5. ASSUME f[c] \in InsidePCs <=> pc \in InsidePCs PROVE Inside(g, h) = Inside(f, h)
  BY <1>2, <1>5 DEF Inside
<1>6. ASSUME f[c] \notin InsidePCs, pc \in InsidePCs
      PROVE  Cardinality(Inside(g, h)) = Cardinality(Inside(f, h)) + 1
  <2>1. Inside(g, h) = Inside(f, h) \cup {c} /\ c \notin Inside(f, h)
    BY <1>2, <1>6 DEF Inside
  <2> QED BY <1>1, <1>3, <2>1, FS_AddElement
<1>7. ASSUME f[c] \in InsidePCs, pc \notin InsidePCs
      PROVE  /\ Cardinality(Inside(g, h)) = Cardinality(Inside(f, h)) - 1
             /\ Cardinality(Inside(f, h)) # 0
  <2>1. Inside(g, h) = Inside(f, h) \ {c} /\ c \in Inside(f, h)
    BY <1>2, <1>7 DEF Inside
  <2>2. Cardinality(Inside(f, h)) # 0
    BY <1>1, <1>3, <2>1, FS_EmptySet
  <2> QED BY <1>1, <1>3, <2>1, <2>2, FS_RemoveElement
<1> QED BY <1>1, <1>4, <1>5, <1>6, <1>7

(* What SetCount leaves behind. *)
LEMMA SetCountFacts ==
  ASSUME TypeOK, NEW b \in Bits, NEW n \in Nat, SetCount(b, n)
  PROVE  /\ counts' \in [Bits -> Nat] /\ counts'[b] = n
         /\ \A a \in Bits \ {b} : counts'[a] = counts[a]
         /\ chan' \in [Clients \cup Listeners -> Modes \cup {Empty}]
         /\ \A x \in Clients \cup Listeners :
              chan'[x] = IF Subscribed(x) /\ Mode' # Mode THEN Mode' ELSE chan[x]
<1>1. counts' = [counts EXCEPT ![b] = n]
  BY DEF SetCount
<1>2. chan' = [x \in Clients \cup Listeners |->
                 IF Subscribed(x) /\ Mode' # Mode THEN Mode' ELSE chan[x]]
  BY <1>1 DEF SetCount, Notify, Mode
<1>3. Mode' \in Modes
  BY DEF Mode, ModeOf, Modes
<1> QED BY <1>1, <1>2, <1>3 DEF TypeOK

(* An idle engine has no holder of any bit. *)
LEMMA IdleMeansZero ==
  ASSUME TypeOK, Idle PROVE \A b \in Bits : counts[b] = 0
BY DEF TypeOK, Idle, Mode, ModeOf

LEMMA BitFacts ==
  /\ ClientBits \subseteq Bits
  /\ \A c \in Clients : BitOf[c] \in ClientBits
  /\ {"dream", "suspended", "throttled"} \subseteq Bits
  /\ {"dream", "suspended", "throttled"} \cap ClientBits = {}
  /\ "inference" \in ClientBits
BY RunStateAssumption DEF Bits, ClientBits

(* A client inside its bit is counted in it. *)
LEMMA HeldIsCounted ==
  ASSUME EngineInv, NEW c \in Clients, cpc[c] \in InsidePCs
  PROVE  counts[BitOf[c]] \in Nat \ {0}
<1>1. cpc \in [Clients -> ClientPCs] /\ BitOf[c] \in ClientBits
  BY BitFacts DEF EngineInv, TypeOK
<1>2. "idle" \in ClientPCs /\ "idle" \notin InsidePCs
  BY DEF ClientPCs, InsidePCs
<1>3. Cardinality(Inside(cpc, BitOf[c])) \in Nat \ {0}
  BY <1>1, <1>2, InsideMoves
<1> QED BY <1>1, <1>3 DEF EngineInv, ClientCounts

-----------------------------------------------------------------------------
(* The engine at startup is of the right type. *)
LEMMA StartType == Init => TypeOK
<1> SUFFICES ASSUME Init PROVE TypeOK
  OBVIOUS
<1>1. counts \in [Bits -> Nat] /\ dreamCancel \in Dreamers \cup {None}
  BY DEF Init
<1>2. cpc \in [Clients -> ClientPCs] /\ toCancel \in [Clients -> Dreamers \cup {None}]
  BY DEF Init, ClientPCs
<1>3. dpc \in [Dreamers -> DreamerPCs] /\ timers \in [Dreamers -> Nat]
  BY DEF Init, DreamerPCs
<1>4. /\ chan \in [Clients \cup Listeners -> Modes \cup {Empty}]
      /\ last \in [Listeners -> Modes \cup {Empty}]
  BY DEF Init, Modes
<1>5. enabled \in BOOLEAN /\ pending \subseteq Evolvers /\ cancelled \subseteq Dreamers
      /\ closed \subseteq Dreamers
  BY Zenon DEF Init
<1> QED BY <1>1, <1>2, <1>3, <1>4, <1>5 DEF TypeOK

(* The steps of a client keep the types; the release finds its bit counted.*)
LEMMA ClientType ==
  ASSUME EngineInv, NEW c \in Clients, ClientNext(c) PROVE TypeOK'
<1> USE DEF EngineInv, At, clientVars, dreamerVars
<1>0. TypeOK /\ BitOf[c] \in Bits /\ counts[BitOf[c]] \in Nat
  BY BitFacts DEF TypeOK
<1>1. CASE Snapshot(c)
  BY <1>0, <1>1 DEF Snapshot, TypeOK, ClientPCs
<1>2. CASE Enter(c)
  <2>1. SetCount(BitOf[c], counts[BitOf[c]] + 1)
    BY <1>2 DEF Enter
  <2>3. counts[BitOf[c]] + 1 \in Nat
    BY <1>0
  <2>2. counts' \in [Bits -> Nat] /\ chan' \in [Clients \cup Listeners -> Modes \cup {Empty}]
    BY <1>0, <2>1, <2>3, SetCountFacts
  <2> QED BY <1>0, <1>2, <2>2 DEF Enter, TypeOK, ClientPCs
<1>3. CASE CallCancel(c)
  BY <1>0, <1>3 DEF CallCancel, TypeOK, ClientPCs, Cancelling
<1>4. CASE Leave(c)
  <2>1. CASE cpc[c] = "held" /\ SetCount(BitOf[c], counts[BitOf[c]] - 1)
    <3>1. counts[BitOf[c]] # 0
      BY <2>1, HeldIsCounted DEF InsidePCs
    <3>2. counts[BitOf[c]] - 1 \in Nat
      BY <1>0, <3>1
    <3>3. counts' \in [Bits -> Nat] /\ chan' \in [Clients \cup Listeners -> Modes \cup {Empty}]
      BY <1>0, <2>1, <3>2, SetCountFacts
    <3> QED BY <1>0, <1>4, <3>3 DEF Leave, TypeOK, ClientPCs
  <2>2. CASE cpc[c] = "free" /\ UNCHANGED <<counts, chan>>
    BY <1>0, <1>4, <2>2 DEF Leave, TypeOK, ClientPCs
  <2> QED BY <1>4, <2>1, <2>2 DEF Leave
<1>5. CASE Refused(c)
  BY <1>0, <1>5 DEF Refused, TypeOK, ClientPCs
<1>6. CASE Subscribe(c)
  <2>1. Mode \in Modes
    BY DEF Mode, ModeOf, Modes
  <2> QED BY <1>0, <1>6, <2>1 DEF Subscribe, TypeOK, ClientPCs
<1>7. CASE Wake(c) \/ WaitEnds(c)
  BY <1>0, <1>7 DEF Wake, WaitEnds, TypeOK, ClientPCs
<1> QED BY <1>1, <1>2, <1>3, <1>4, <1>5, <1>6, <1>7 DEF ClientNext

(* The steps of a dreamer keep the types.                                  *)
LEMMA DreamerType ==
  ASSUME EngineInv, NEW d \in Dreamers, DreamerNext(d) PROVE TypeOK'
<1> USE DEF EngineInv, DAt, clientVars, dreamerVars
<1>0. TypeOK
  OBVIOUS
<1>1. CASE Trigger(d)
  BY <1>0, <1>1 DEF Trigger, Triggers, TypeOK, DreamerPCs
<1>2. CASE Retrigger(d)
  <2>1. timers' \in [Dreamers -> Nat]
    BY <1>0, <1>2 DEF Retrigger, TypeOK
  <2> QED BY <1>0, <1>2, <2>1 DEF Retrigger, Triggers, TypeOK, DreamerPCs
<1>3. CASE WindowRun(d) \/ WindowOver(d)
  BY <1>0, <1>3 DEF WindowRun, WindowOver, TypeOK, DreamerPCs
<1>4. CASE EnterDream(d)
  <2>1. counts' \in [Bits -> Nat] /\ chan' \in [Clients \cup Listeners -> Modes \cup {Empty}]
    BY <1>0, <1>4, BitFacts, SetCountFacts DEF EnterDream
  <2> QED BY <1>0, <1>4, <2>1 DEF EnterDream, TypeOK, DreamerPCs
<1>5. CASE RefuseDream(d)
  <2>1. timers' \in [Dreamers -> Nat]
    BY <1>0, <1>5 DEF RefuseDream, TypeOK
  <2> QED BY <1>0, <1>5, <2>1 DEF RefuseDream, TypeOK, DreamerPCs
<1>6. CASE ReleaseDream(d)
  <2>1. counts' \in [Bits -> Nat] /\ chan' \in [Clients \cup Listeners -> Modes \cup {Empty}]
    BY <1>0, <1>6, BitFacts, SetCountFacts DEF ReleaseDream
  <2> QED BY <1>0, <1>6, <2>1 DEF ReleaseDream, TypeOK, DreamerPCs
<1>7. CASE EndRun(d)
  BY <1>0, <1>7 DEF EndRun, TypeOK, DreamerPCs
<1>8. CASE CloseBridge(d) \/ NewBridge(d)
  BY <1>0, <1>8 DEF CloseBridge, NewBridge, TypeOK
<1> QED BY <1>1, <1>2, <1>3, <1>4, <1>5, <1>6, <1>7, <1>8 DEF DreamerNext

(* The steps of the watchdogs set the suspended or the throttled bit. *)
LEMMA WatchdogSets ==
  ASSUME WatchdogNext
  PROVE  /\ \E b \in {"suspended", "throttled"}, n \in {0, 1} : SetCount(b, n)
         /\ UNCHANGED <<dreamCancel, clientVars, dreamerVars, last>>
BY DEF WatchdogNext, Suspend, Resume, Throttle, Unthrottle

(* Every step keeps the types. *)
LEMMA TypeNext == EngineInv /\ [Next]_vars => TypeOK'
<1> SUFFICES ASSUME EngineInv, [Next]_vars PROVE TypeOK'
  OBVIOUS
<1>0. TypeOK
  BY DEF EngineInv
<1>1. ASSUME NEW x \in Listeners, Publish(x) PROVE TypeOK'
  BY <1>0, <1>1 DEF Publish, TypeOK, clientVars, dreamerVars
<1>2. CASE WatchdogNext
  <2>1. PICK b \in {"suspended", "throttled"}, n \in {0, 1} : SetCount(b, n)
    BY <1>2, WatchdogSets
  <2>2. counts' \in [Bits -> Nat] /\ chan' \in [Clients \cup Listeners -> Modes \cup {Empty}]
    BY <1>0, <2>1, BitFacts, SetCountFacts
  <2> QED BY <1>0, <1>2, <2>2, WatchdogSets DEF TypeOK, clientVars, dreamerVars
<1>3. CASE SwapEngine
  BY <1>0, <1>3 DEF SwapEngine, TypeOK, dreamerVars
<1>4. CASE UNCHANGED vars
  BY <1>0, <1>4 DEF TypeOK, vars, clientVars, dreamerVars
<1> QED BY <1>1, <1>2, <1>3, <1>4, ClientType, DreamerType DEF Next

-----------------------------------------------------------------------------
(* What a client does to the refcounts: nothing to a bit that is not its   *)
(* own, and to its own one what it does to the holders.                    *)
LEMMA ClientMove ==
  ASSUME EngineInv, NEW c \in Clients, ClientNext(c)
  PROVE  /\ \A b \in Bits \ {BitOf[c]} : counts'[b] = counts[b]
         /\ \E pc \in ClientPCs :
              /\ cpc' = [cpc EXCEPT ![c] = pc]
              /\ \/ (cpc[c] \in InsidePCs <=> pc \in InsidePCs) /\ UNCHANGED counts
                 \/ /\ cpc[c] \notin InsidePCs /\ pc \in InsidePCs
                    /\ counts'[BitOf[c]] = counts[BitOf[c]] + 1
                    /\ Enter(c)
                 \/ /\ cpc[c] \in InsidePCs /\ pc \notin InsidePCs
                    /\ counts'[BitOf[c]] = counts[BitOf[c]] - 1
<1> USE DEF At
<1>0. TypeOK /\ BitOf[c] \in Bits /\ counts[BitOf[c]] \in Nat
  BY BitFacts DEF EngineInv, TypeOK
<1>1. CASE Snapshot(c) \/ CallCancel(c) \/ Refused(c)
  BY <1>0, <1>1 DEF Snapshot, CallCancel, Refused, TypeOK, ClientPCs, InsidePCs
<1>2. CASE Subscribe(c) \/ Wake(c) \/ WaitEnds(c)
  <2>1. CASE UNCHANGED cpc /\ cpc[c] = "wait"
    BY <1>0, <1>2, <2>1 DEF Subscribe, Wake, WaitEnds, TypeOK, ClientPCs, InsidePCs
  <2>2. CASE At(c, "wait") \/ At(c, "idle")
    BY <1>0, <1>2, <2>2 DEF Subscribe, Wake, WaitEnds, TypeOK, ClientPCs, InsidePCs
  <2> QED BY <1>2, <2>1, <2>2 DEF Subscribe, Wake, WaitEnds
<1>3. CASE Enter(c)
  <2>1. SetCount(BitOf[c], counts[BitOf[c]] + 1) /\ counts[BitOf[c]] + 1 \in Nat
    BY <1>0, <1>3 DEF Enter
  <2>2. /\ counts'[BitOf[c]] = counts[BitOf[c]] + 1
        /\ \A b \in Bits \ {BitOf[c]} : counts'[b] = counts[b]
    BY <1>0, <2>1, SetCountFacts
  <2>3. cpc[c] = "enter" /\ (At(c, "cancel") \/ At(c, "held"))
    BY <1>3 DEF Enter
  <2> QED BY <1>3, <2>2, <2>3 DEF ClientPCs, InsidePCs
<1>4. CASE Leave(c)
  <2>1. CASE cpc[c] = "held" /\ SetCount(BitOf[c], counts[BitOf[c]] - 1)
    <3>1. counts[BitOf[c]] - 1 \in Nat
      BY <2>1, HeldIsCounted DEF InsidePCs
    <3>2. /\ counts'[BitOf[c]] = counts[BitOf[c]] - 1
          /\ \A b \in Bits \ {BitOf[c]} : counts'[b] = counts[b]
      BY <1>0, <2>1, <3>1, SetCountFacts
    <3>3. At(c, "idle")
      BY <1>4 DEF Leave
    <3> QED BY <2>1, <3>2, <3>3 DEF ClientPCs, InsidePCs
  <2>2. CASE cpc[c] = "free" /\ UNCHANGED <<counts, chan>>
    BY <1>4, <2>2 DEF Leave, ClientPCs, InsidePCs
  <2> QED BY <1>4, <2>1, <2>2 DEF Leave
<1> QED BY <1>1, <1>2, <1>3, <1>4 DEF ClientNext

(* What a dreamer does: it enters an idle engine, releases the dream, or   *)
(* changes neither the refcounts nor who is dreaming.                      *)
LEMMA DreamerMove ==
  ASSUME EngineInv, NEW d \in Dreamers, DreamerNext(d)
  PROVE  /\ UNCHANGED clientVars
         /\ \A b \in Bits \ {"dream"} : counts'[b] = counts[b]
         /\ \/ /\ \A b \in Bits : counts[b] = 0
               /\ counts'["dream"] = 1 /\ dreamCancel' = d
               /\ dpc' = [dpc EXCEPT ![d] = "dream"]
            \/ /\ dpc[d] = "dream"
               /\ counts'["dream"] = 0 /\ dreamCancel' = None
               /\ dpc' = [dpc EXCEPT ![d] = "end"]
            \/ /\ UNCHANGED <<counts, dreamCancel>> /\ cancelled \subseteq cancelled'
               /\ \A e \in Dreamers : dpc'[e] = "dream" <=> dpc[e] = "dream"
<1> USE DEF DAt
<1>0. TypeOK /\ "dream" \in Bits
  BY BitFacts DEF EngineInv
<1>1. CASE EnterDream(d)
  <2>1. SetCount("dream", 1)
    BY <1>1 DEF EnterDream
  <2>2. counts'["dream"] = 1 /\ \A b \in Bits \ {"dream"} : counts'[b] = counts[b]
    BY <1>0, <2>1, SetCountFacts
  <2>3. \A b \in Bits : counts[b] = 0
    BY <1>0, <1>1, IdleMeansZero DEF EnterDream
  <2> QED BY <1>1, <2>2, <2>3 DEF EnterDream
<1>2. CASE ReleaseDream(d)
  <2>1. SetCount("dream", 0)
    BY <1>2 DEF ReleaseDream
  <2>2. counts'["dream"] = 0 /\ \A b \in Bits \ {"dream"} : counts'[b] = counts[b]
    BY <1>0, <2>1, SetCountFacts
  <2> QED BY <1>2, <2>2 DEF ReleaseDream
<1>3. CASE Trigger(d) \/ Retrigger(d)
  <2>1. (dpc[d] = "idle" /\ dpc' = [dpc EXCEPT ![d] = "run"]) \/ UNCHANGED dpc
    BY <1>3 DEF Trigger, Retrigger, Triggers
  <2>2. \A e \in Dreamers : dpc'[e] = "dream" <=> dpc[e] = "dream"
    BY <1>0, <2>1 DEF TypeOK
  <2> QED BY <1>3, <2>2 DEF Trigger, Retrigger
<1>4. CASE WindowRun(d) \/ WindowOver(d)
  <2>1. \A e \in Dreamers : dpc'[e] = "dream" <=> dpc[e] = "dream"
    BY <1>0, <1>4 DEF WindowRun, WindowOver, TypeOK
  <2> QED BY <1>4, <2>1 DEF WindowRun, WindowOver
<1>5. CASE RefuseDream(d) \/ EndRun(d)
  <2>1. \A e \in Dreamers : dpc'[e] = "dream" <=> dpc[e] = "dream"
    BY <1>0, <1>5 DEF RefuseDream, EndRun, TypeOK
  <2> QED BY <1>5, <2>1 DEF RefuseDream, EndRun
<1>6. CASE CloseBridge(d) \/ NewBridge(d)
  BY <1>6 DEF CloseBridge, NewBridge
<1> QED BY <1>1, <1>2, <1>3, <1>4, <1>5, <1>6 DEF DreamerNext

(* The other steps: watchdogs, publishers and reloads of the engine leave  *)
(* clients, dreamers and the bits they hold alone.                         *)
LEMMA OtherMove ==
  ASSUME EngineInv,
         \/ \E x \in Listeners : Publish(x)
         \/ WatchdogNext \/ SwapEngine \/ UNCHANGED vars
  PROVE  /\ UNCHANGED <<dreamCancel, cpc, toCancel, dpc, cancelled>>
         /\ \A b \in ClientBits \cup {"dream"} : counts'[b] = counts[b]
<1>1. CASE WatchdogNext
  <2>1. PICK b \in {"suspended", "throttled"}, n \in {0, 1} : SetCount(b, n)
    BY <1>1, WatchdogSets
  <2>2. \A a \in Bits \ {b} : counts'[a] = counts[a]
    BY <2>1, BitFacts, SetCountFacts DEF EngineInv
  <2>3. \A a \in ClientBits \cup {"dream"} : a \in Bits /\ a # b
    BY BitFacts
  <2> QED BY <1>1, <2>2, <2>3, WatchdogSets DEF clientVars, dreamerVars
<1>2. CASE (\E x \in Listeners : Publish(x)) \/ SwapEngine \/ UNCHANGED vars
  BY <1>2 DEF Publish, SwapEngine, vars, clientVars, dreamerVars
<1> QED BY <1>1, <1>2

-----------------------------------------------------------------------------
(* The refcounts of the clients' bits follow their holders. *)
LEMMA CountsNext == EngineInv /\ [Next]_vars => ClientCounts'
<1> SUFFICES ASSUME EngineInv, [Next]_vars PROVE ClientCounts'
  OBVIOUS
<1>0. cpc \in [Clients -> ClientPCs] /\ ClientCounts
  BY DEF EngineInv, TypeOK
<1>1. ASSUME UNCHANGED cpc, \A b \in ClientBits : counts'[b] = counts[b]
      PROVE  ClientCounts'
  BY <1>0, <1>1 DEF ClientCounts
<1>2. ASSUME NEW c \in Clients, ClientNext(c) PROVE ClientCounts'
  <2>1. PICK pc \in ClientPCs :
          /\ cpc' = [cpc EXCEPT ![c] = pc]
          /\ \/ (cpc[c] \in InsidePCs <=> pc \in InsidePCs) /\ UNCHANGED counts
             \/ /\ cpc[c] \notin InsidePCs /\ pc \in InsidePCs
                /\ counts'[BitOf[c]] = counts[BitOf[c]] + 1
             \/ /\ cpc[c] \in InsidePCs /\ pc \notin InsidePCs
                /\ counts'[BitOf[c]] = counts[BitOf[c]] - 1
    BY <1>2, ClientMove
  <2>2. \A b \in ClientBits \ {BitOf[c]} : counts'[b] = counts[b]
    BY <1>2, ClientMove, BitFacts
  <2>3. BitOf[c] \in ClientBits
    BY BitFacts
  <2>4. \A b \in ClientBits \ {BitOf[c]} : counts'[b] = Cardinality(Inside(cpc', b))
    BY <1>0, <2>1, <2>2, InsideMoves DEF ClientCounts
  <2>5. counts'[BitOf[c]] = Cardinality(Inside(cpc', BitOf[c]))
    BY <1>0, <2>1, <2>3, InsideMoves DEF ClientCounts
  <2> QED BY <2>4, <2>5 DEF ClientCounts
<1>3. ASSUME NEW d \in Dreamers, DreamerNext(d) PROVE ClientCounts'
  BY <1>1, <1>3, DreamerMove, BitFacts DEF clientVars
<1> QED BY <1>1, <1>2, <1>3, OtherMove DEF Next

(* The dream bit follows the dream, and no second dream begins.            *)
LEMMA DreamNext == EngineInv /\ [Next]_vars => DreamCount'
<1> SUFFICES ASSUME EngineInv, [Next]_vars PROVE DreamCount'
  OBVIOUS
<1>0. TypeOK /\ DreamCount
  BY DEF EngineInv
<1>1. ASSUME \A e \in Dreamers : dpc'[e] = "dream" <=> dpc[e] = "dream",
             counts'["dream"] = counts["dream"]
      PROVE  DreamCount'
  BY <1>0, <1>1 DEF DreamCount, OneDream
<1>2. ASSUME NEW c \in Clients, ClientNext(c) PROVE DreamCount'
  <2>1. counts'["dream"] = counts["dream"]
    BY <1>2, ClientMove, BitFacts
  <2>2. UNCHANGED dpc
    BY <1>2 DEF ClientNext, Snapshot, Enter, CallCancel, Leave, Refused, Subscribe, Wake,
                WaitEnds, dreamerVars
  <2> QED BY <1>1, <2>1, <2>2
<1>3. ASSUME NEW d \in Dreamers, DreamerNext(d) PROVE DreamCount'
  <2>1. CASE /\ \A b \in Bits : counts[b] = 0
             /\ counts'["dream"] = 1
             /\ dpc' = [dpc EXCEPT ![d] = "dream"]
    <3>1. \A e \in Dreamers : dpc[e] # "dream"
      BY <1>0, <2>1, BitFacts DEF DreamCount
    <3> QED BY <1>0, <2>1, <3>1 DEF TypeOK, DreamCount, OneDream
  <2>2. CASE /\ dpc[d] = "dream" /\ counts'["dream"] = 0
             /\ dpc' = [dpc EXCEPT ![d] = "end"]
    <3>1. \A e \in Dreamers : dpc'[e] # "dream"
      BY <1>0, <2>2 DEF TypeOK, DreamCount, OneDream
    <3> QED BY <2>2, <3>1 DEF DreamCount, OneDream
  <2>3. CASE /\ UNCHANGED counts
             /\ \A e \in Dreamers : dpc'[e] = "dream" <=> dpc[e] = "dream"
    BY <1>1, <2>3
  <2> QED BY <1>3, <2>1, <2>2, <2>3, DreamerMove
<1> QED BY <1>1, <1>2, <1>3, OtherMove DEF Next

(* What a client does to the cancel function: an inference takes it along. *)
LEMMA ClientCancels ==
  ASSUME EngineInv, NEW c \in Clients, ClientNext(c)
  PROVE  /\ UNCHANGED dpc
         /\ \/ /\ UNCHANGED <<dreamCancel, cancelled, toCancel>>
               /\ \A x \in Clients : cpc'[x] = "cancel" <=> cpc[x] = "cancel"
               /\ \/ dreamCancel = None \/ UNCHANGED counts
                  \/ BitOf[c] # "inference" \/ cpc[c] = "held"
            \/ /\ BitOf[c] = "inference" /\ cpc[c] = "enter" /\ cpc'[c] = "cancel"
               /\ dreamCancel \in Dreamers /\ dreamCancel' = None
               /\ toCancel' = [toCancel EXCEPT ![c] = dreamCancel]
               /\ UNCHANGED cancelled
               /\ \A x \in Clients \ {c} : cpc'[x] = cpc[x]
            \/ /\ cpc[c] = "cancel" /\ cpc'[c] = "held"
               /\ cancelled' = cancelled \cup {toCancel[c]}
               /\ UNCHANGED dreamCancel
               /\ \A x \in Clients \ {c} : cpc'[x] = cpc[x] /\ toCancel'[x] = toCancel[x]
<1>0. TypeOK
  BY DEF EngineInv
<1> USE DEF At, clientVars, dreamerVars
<1>1. CASE Snapshot(c) \/ Refused(c) \/ Subscribe(c) \/ Wake(c) \/ WaitEnds(c)
  <2>1. UNCHANGED <<dreamCancel, cancelled, toCancel, dpc, counts>>
    BY <1>1 DEF Snapshot, Refused, Subscribe, Wake, WaitEnds
  <2>2. \A x \in Clients : cpc'[x] = "cancel" <=> cpc[x] = "cancel"
    BY <1>0, <1>1 DEF Snapshot, Refused, Subscribe, Wake, WaitEnds, TypeOK
  <2> QED BY <2>1, <2>2
<1>2. CASE Leave(c)
  <2>1. /\ UNCHANGED <<dreamCancel, cancelled, toCancel, dpc>>
        /\ UNCHANGED counts \/ cpc[c] = "held"
    BY <1>2 DEF Leave
  <2>2. \A x \in Clients : cpc'[x] = "cancel" <=> cpc[x] = "cancel"
    BY <1>0, <1>2 DEF Leave, TypeOK
  <2> QED BY <2>1, <2>2
<1>3. CASE Enter(c)
  <2>1. CASE BitOf[c] = "inference" /\ dreamCancel # None
    BY <1>0, <1>3, <2>1 DEF Enter, TypeOK
  <2>2. CASE ~(BitOf[c] = "inference" /\ dreamCancel # None)
    BY <1>0, <1>3, <2>2 DEF Enter, TypeOK
  <2> QED BY <2>1, <2>2
<1>4. CASE CallCancel(c)
  BY <1>0, <1>4 DEF CallCancel, TypeOK
<1> QED BY <1>1, <1>2, <1>3, <1>4 DEF ClientNext

(* The cancel function in the engine is that of the running dream, and no  *)
(* model call is in progress; once taken it stays on the way to its call.  *)
LEMMA CancelNext ==
  EngineInv /\ [Next]_vars => CancelHeld' /\ Cancellable' /\ Cancelling'
<1> SUFFICES ASSUME EngineInv, [Next]_vars
             PROVE  CancelHeld' /\ Cancellable' /\ Cancelling'
  OBVIOUS
<1>0. TypeOK /\ DreamCount /\ CancelHeld /\ Cancellable /\ Cancelling /\ None \notin Dreamers
  BY RunStateAssumption DEF EngineInv
<1>1. ASSUME NEW c \in Clients, ClientNext(c)
      PROVE  CancelHeld' /\ Cancellable' /\ Cancelling'
  <2>1. CASE /\ UNCHANGED <<dreamCancel, cancelled, toCancel, dpc>>
             /\ \A x \in Clients : cpc'[x] = "cancel" <=> cpc[x] = "cancel"
             /\ \/ dreamCancel = None \/ UNCHANGED counts
                \/ BitOf[c] # "inference" \/ cpc[c] = "held"
    <3>1. CancelHeld'
      <4>1. SUFFICES ASSUME dreamCancel # None PROVE counts'["inference"] = 0
        BY <1>0, <2>1 DEF CancelHeld
      <4>2. counts["inference"] = 0
        BY <1>0, <4>1 DEF CancelHeld
      <4>3. BitOf[c] = "inference" => cpc[c] # "held"
        BY <4>2, HeldIsCounted DEF InsidePCs
      <4>4. BitOf[c] # "inference" => counts'["inference"] = counts["inference"]
        BY <1>1, ClientMove, BitFacts
      <4> QED BY <2>1, <4>1, <4>2, <4>3, <4>4
    <3>2. Cancellable' /\ Cancelling'
      BY <1>0, <2>1 DEF Cancellable, Cancelling
    <3> QED BY <3>1, <3>2
  <2>2. CASE /\ BitOf[c] = "inference" /\ cpc[c] = "enter" /\ cpc'[c] = "cancel"
             /\ dreamCancel \in Dreamers /\ dreamCancel' = None
             /\ toCancel' = [toCancel EXCEPT ![c] = dreamCancel]
             /\ UNCHANGED <<cancelled, dpc>>
             /\ \A x \in Clients \ {c} : cpc'[x] = cpc[x]
    <3>1. toCancel'[c] = dreamCancel /\ \A x \in Clients \ {c} : toCancel'[x] = toCancel[x]
      BY <1>0, <2>2 DEF TypeOK
    <3>2. CancelHeld'
      BY <2>2 DEF CancelHeld
    <3>3. Cancellable'
      BY <1>0, <2>2, <3>1 DEF Cancellable
    <3>4. Cancelling'
      BY <1>0, <2>2, <3>1 DEF Cancelling
    <3> QED BY <3>2, <3>3, <3>4
  <2>3. CASE /\ cpc[c] = "cancel" /\ cpc'[c] = "held"
             /\ cancelled' = cancelled \cup {toCancel[c]}
             /\ UNCHANGED <<dreamCancel, dpc>>
             /\ \A x \in Clients \ {c} : cpc'[x] = cpc[x] /\ toCancel'[x] = toCancel[x]
    <3>1. counts'["inference"] = counts["inference"] \/ dreamCancel = None
      <4>1. counts["inference"] # 0
        BY <1>0, <2>3, HeldIsCounted DEF Cancelling, InsidePCs
      <4> QED BY <1>0, <4>1 DEF CancelHeld
    <3>2. CancelHeld'
      BY <1>0, <2>3, <3>1 DEF CancelHeld
    <3>3. Cancellable' /\ Cancelling'
      BY <1>0, <2>3 DEF Cancellable, Cancelling
    <3> QED BY <3>2, <3>3
  <2> QED BY <1>1, <2>1, <2>2, <2>3, ClientCancels
<1>2. ASSUME NEW d \in Dreamers, DreamerNext(d)
      PROVE  CancelHeld' /\ Cancellable' /\ Cancelling'
  <2>0. UNCHANGED <<cpc, toCancel>> /\ counts'["inference"] = counts["inference"]
    BY <1>2, DreamerMove, BitFacts DEF clientVars
  <2>1. Cancelling'
    BY <1>0, <2>0 DEF Cancelling
  <2>2. CASE /\ \A b \in Bits : counts[b] = 0
             /\ dreamCancel' = d
             /\ dpc' = [dpc EXCEPT ![d] = "dream"]
    <3>1. \A e \in Dreamers : dpc[e] # "dream"
      BY <1>0, <2>2, BitFacts DEF DreamCount
    <3>2. dpc'[d] = "dream" /\ \A e \in Dreamers \ {d} : dpc'[e] # "dream"
      BY <1>0, <2>2, <3>1 DEF TypeOK
    <3>3. counts["inference"] = 0
      BY <2>2, BitFacts
    <3> QED BY <2>0, <2>1, <2>2, <3>2, <3>3 DEF CancelHeld, Cancellable
  <2>3. CASE /\ dpc[d] = "dream" /\ dreamCancel' = None
             /\ dpc' = [dpc EXCEPT ![d] = "end"]
    <3>1. \A e \in Dreamers : dpc'[e] # "dream"
      BY <1>0, <2>3 DEF TypeOK, DreamCount, OneDream
    <3> QED BY <2>1, <2>3, <3>1 DEF CancelHeld, Cancellable
  <2>4. CASE /\ UNCHANGED dreamCancel /\ cancelled \subseteq cancelled'
             /\ \A e \in Dreamers : dpc'[e] = "dream" <=> dpc[e] = "dream"
    <3>1. CancelHeld'
      BY <1>0, <2>0, <2>4 DEF CancelHeld, TypeOK
    <3>2. Cancellable'
      BY <1>0, <2>0, <2>4 DEF Cancellable
    <3> QED BY <2>1, <3>1, <3>2
  <2> QED BY <1>2, <2>2, <2>3, <2>4, DreamerMove
<1>3. ASSUME UNCHANGED <<dreamCancel, cpc, toCancel, dpc, cancelled>>,
             counts'["inference"] = counts["inference"]
      PROVE  CancelHeld' /\ Cancellable' /\ Cancelling'
  BY <1>0, <1>3 DEF CancelHeld, Cancellable, Cancelling
<1> QED BY <1>1, <1>2, <1>3, OtherMove, BitFacts DEF Next

(* The inductive invariant. *)
THEOREM EngineInvariance == Spec => []EngineInv
<1>1. Init => EngineInv
  <2> SUFFICES ASSUME Init PROVE EngineInv
    OBVIOUS
  <2>1. ClientCounts
    <3>1. \A b \in ClientBits : counts[b] = 0 /\ Inside(cpc, b) = {}
      BY BitFacts DEF Init, Inside, InsidePCs
    <3> QED BY <3>1, FS_EmptySet DEF ClientCounts
  <2>2. DreamCount
    BY BitFacts DEF Init, DreamCount, OneDream
  <2>3. CancelHeld /\ Cancellable /\ Cancelling
    BY DEF Init, CancelHeld, Cancellable, Cancelling
  <2> QED BY <2>1, <2>2, <2>3, StartType DEF EngineInv
<1>2. EngineInv /\ [Next]_vars => EngineInv'
  BY TypeNext, CountsNext, DreamNext, CancelNext DEF EngineInv
<1> QED BY <1>1, <1>2, PTL DEF Spec

-----------------------------------------------------------------------------
(* Type correctness: among the rest, no release (Engine.leave) finds its   *)
(* counter at zero and clamps it.                                          *)
THEOREM EngineTypeCorrect == Spec => []TypeOK
BY EngineInvariance, PTL DEF EngineInv

(* Every refcount is the number of its holders, through any number of      *)
(* reloads between an entry and the release bound to it (rsSnapshot).      *)
THEOREM RefcountsExact == Spec => []CountsMatchHolders
<1>1. EngineInv => CountsMatchHolders
  <2> SUFFICES ASSUME EngineInv PROVE CountsMatchHolders
    OBVIOUS
  <2> DEFINE Dreaming == {d \in Dreamers : dpc[d] = "dream"}
  <2>1. counts["dream"] = Cardinality(Dreaming)
    <3>1. CASE \E d \in Dreamers : dpc[d] = "dream"
      <4>1. PICK d \in Dreamers : dpc[d] = "dream"
        BY <3>1
      <4>2. Dreaming = {d}
        BY <4>1 DEF EngineInv, DreamCount, OneDream
      <4> QED BY <4>1, <4>2, FS_Singleton DEF EngineInv, DreamCount
    <3>2. CASE \A d \in Dreamers : dpc[d] # "dream"
      <4>1. Dreaming = {}
        BY <3>2
      <4> QED BY <3>2, <4>1, FS_EmptySet DEF EngineInv, DreamCount
    <3> QED BY <3>1, <3>2
  <2> QED BY <2>1 DEF EngineInv, ClientCounts, Inside, CountsMatchHolders
<1> QED BY EngineInvariance, <1>1, PTL

(* TryEnterDream never lets a second dream begin, not even after a model   *)
(* call took the first one's cancel function and its goroutine lives on.   *)
THEOREM NoSecondDream == Spec => []OneDream
BY EngineInvariance, PTL DEF EngineInv, DreamCount

(* A dream under a model call is cancelled, or the call that preempted it  *)
(* in TryEnter has its cancel function in hand.                            *)
THEOREM DreamsArePreempted == Spec => []InferencePreempts
<1>1. EngineInv => InferencePreempts
  <2> SUFFICES ASSUME EngineInv, NEW d \in Dreamers, counts["inference"] > 0,
                      dpc[d] = "dream", d \notin cancelled
               PROVE  \E c \in Clients : cpc[c] = "cancel" /\ toCancel[c] = d
    BY DEF InferencePreempts
  <2>1. d # None
    BY RunStateAssumption
  <2>2. dreamCancel # d
    BY <2>1 DEF EngineInv, CancelHeld
  <2> QED BY <2>2 DEF EngineInv, Cancellable
<1> QED BY EngineInvariance, <1>1, PTL

(* While the engine is suspended TryEnter and TryEnterDream let nobody in. *)
THEOREM NoEntryWhileSuspended == Spec => SuspendedVetoes
<1>1. EngineInv /\ [Next]_vars =>
        [\A b \in {"inference", "toolexec", "dream"} :
           Suspended => counts'[b] <= counts[b]]_vars
  <2> SUFFICES ASSUME EngineInv, [Next]_vars, Suspended,
                      NEW b \in {"inference", "toolexec", "dream"}
               PROVE  counts'[b] <= counts[b]
    BY DEF Suspended
  <2>0. /\ counts[b] \in Nat /\ counts["suspended"] # 0
        /\ b \in ClientBits \cup {"dream"} /\ b # "reflex"
        /\ b \in Bits /\ "suspended" \in Bits
    BY DEF EngineInv, TypeOK, Bits, ClientBits, Suspended
  <2>1. ASSUME NEW c \in Clients, ClientNext(c) PROVE counts'[b] <= counts[b]
    <3>1. CASE b # BitOf[c]
      BY <2>0, <2>1, <3>1, ClientMove
    <3>2. CASE b = BitOf[c]
      <4>1. ~Enter(c)
        BY <2>0, <3>2 DEF Enter
      <4> QED BY <2>0, <2>1, <3>2, <4>1, ClientMove
    <3> QED BY <3>1, <3>2
  <2>2. ASSUME NEW d \in Dreamers, DreamerNext(d) PROVE counts'[b] <= counts[b]
    <3>1. counts'[b] = counts[b] \/ counts'[b] = 0
      BY <2>0, <2>2, DreamerMove
    <3> QED BY <2>0, <3>1
  <2>3. ASSUME counts'[b] = counts[b] PROVE counts'[b] <= counts[b]
    BY <2>0, <2>3
  <2> QED BY <2>0, <2>1, <2>2, <2>3, OtherMove DEF Next
<1> QED BY EngineInvariance, <1>1, PTL DEF Spec, SuspendedVetoes

-----------------------------------------------------------------------------
(* No mode looks like an empty channel. *)
LEMMA ModeFacts == Mode # Empty /\ (Suspended <=> "suspended" \in Mode)
<1>1. "empty" \notin Bits /\ "suspended" \in Bits
  BY DEF Bits, ClientBits
<1> QED BY <1>1 DEF Mode, ModeOf, Empty, Suspended

(* A change of a refcount leaves no subscriber behind (the channel of size *)
(* one is drained and filled again under the lock).                        *)
LEMMA SetCountNotifies ==
  ASSUME EngineInv, ChanCurrent, NEW b \in Bits, NEW n \in Nat, SetCount(b, n),
         UNCHANGED last, \A c \in Clients : cpc'[c] = "wait" => cpc[c] = "wait"
  PROVE  ChanCurrent'
<1>1. \A x \in Clients \cup Listeners :
        chan'[x] = IF Subscribed(x) /\ Mode' # Mode THEN Mode' ELSE chan[x]
  BY SetCountFacts DEF EngineInv
<1>2. Mode' # Empty /\ (Suspended' <=> "suspended" \in Mode')
  <2>1. "empty" \notin Bits /\ "suspended" \in Bits
    BY DEF Bits, ClientBits
  <2> QED BY <2>1 DEF Mode, ModeOf, Empty, Suspended
<1>3. ASSUME NEW x \in Listeners
      PROVE  (Mode = IF chan[x] = Empty THEN last[x] ELSE chan[x])'
  <2>1. chan'[x] = IF Mode' # Mode THEN Mode' ELSE chan[x]
    BY <1>1 DEF Subscribed
  <2> QED BY <1>2, <2>1 DEF ChanCurrent
<1>4. ASSUME NEW c \in Clients, cpc'[c] = "wait"
      PROVE  (chan[c] = Mode \/ (chan[c] = Empty /\ Suspended))'
  <2>1. chan'[c] = IF Mode' # Mode THEN Mode' ELSE chan[c]
    BY <1>1, <1>4 DEF Subscribed
  <2>2. Mode' = Mode => (Suspended' <=> Suspended)
    BY <1>2, ModeFacts
  <2> QED BY <1>4, <2>1, <2>2 DEF ChanCurrent
<1> QED BY <1>3, <1>4 DEF ChanCurrent

(* The same for a step that touches neither refcounts nor channels.        *)
LEMMA QuietStep ==
  ASSUME ChanCurrent, UNCHANGED <<counts, chan, last>>,
         \A c \in Clients : cpc'[c] = "wait" => cpc[c] = "wait"
  PROVE  ChanCurrent'
BY DEF ChanCurrent, Mode, Suspended

(* What is buffered for a subscriber, or was taken last, is the mode.      *)
LEMMA ChanNext == EngineInv /\ ChanCurrent /\ [Next]_vars => ChanCurrent'
<1> SUFFICES ASSUME EngineInv, ChanCurrent, [Next]_vars PROVE ChanCurrent'
  OBVIOUS
<1>0. TypeOK /\ Clients \cap Listeners = {}
  BY RunStateAssumption DEF EngineInv
<1> USE DEF At, clientVars, dreamerVars
<1>1. ASSUME NEW c \in Clients, Snapshot(c) \/ CallCancel(c) \/ Refused(c)
      PROVE  ChanCurrent'
  <2>1. \A x \in Clients : cpc'[x] = "wait" => cpc[x] = "wait"
    BY <1>0, <1>1 DEF Snapshot, CallCancel, Refused, TypeOK
  <2> QED BY <1>1, <2>1, QuietStep DEF Snapshot, CallCancel, Refused
<1>2. ASSUME NEW c \in Clients, Enter(c) PROVE ChanCurrent'
  <2>1. \A x \in Clients : cpc'[x] = "wait" => cpc[x] = "wait"
    BY <1>0, <1>2 DEF Enter, TypeOK
  <2>2. BitOf[c] \in Bits /\ counts[BitOf[c]] + 1 \in Nat
    BY <1>0, BitFacts DEF TypeOK
  <2> QED BY <1>2, <2>1, <2>2, SetCountNotifies DEF Enter
<1>3. ASSUME NEW c \in Clients, Leave(c) PROVE ChanCurrent'
  <2>1. \A x \in Clients : cpc'[x] = "wait" => cpc[x] = "wait"
    BY <1>0, <1>3 DEF Leave, TypeOK
  <2>2. CASE cpc[c] = "held" /\ SetCount(BitOf[c], counts[BitOf[c]] - 1)
    <3>1. BitOf[c] \in Bits /\ counts[BitOf[c]] - 1 \in Nat
      BY <2>2, HeldIsCounted, BitFacts DEF InsidePCs
    <3> QED BY <1>3, <2>1, <2>2, <3>1, SetCountNotifies DEF Leave
  <2>3. CASE UNCHANGED <<counts, chan>>
    BY <1>3, <2>1, <2>3, QuietStep DEF Leave
  <2> QED BY <1>3, <2>2, <2>3 DEF Leave
<1>4. ASSUME NEW c \in Clients, Subscribe(c) \/ Wake(c) \/ WaitEnds(c)
      PROVE  ChanCurrent'
  <2>1. UNCHANGED <<counts, last>> /\ \A x \in (Clients \cup Listeners) \ {c} : chan'[x] = chan[x]
    BY <1>0, <1>4 DEF Subscribe, Wake, WaitEnds, TypeOK
  <2>2. \A x \in Clients \ {c} : cpc'[x] = cpc[x]
    BY <1>0, <1>4 DEF Subscribe, Wake, WaitEnds, TypeOK
  <2>3. cpc'[c] = "wait" => chan'[c] = Mode \/ (chan'[c] = Empty /\ Suspended)
    <3>1. CASE Subscribe(c)
      BY <1>0, <3>1 DEF Subscribe, TypeOK
    <3>2. CASE Wake(c)
      <4>1. chan[c] = Mode
        BY <3>2 DEF Wake, ChanCurrent
      <4>2. chan'[c] = Empty
        BY <1>0, <3>2 DEF Wake, TypeOK
      <4>3. "suspended" \notin chan[c] => cpc'[c] = "idle"
        BY <1>0, <3>2 DEF Wake, TypeOK
      <4> QED BY <4>1, <4>2, <4>3, ModeFacts
    <3>3. CASE WaitEnds(c)
      BY <1>0, <3>3 DEF WaitEnds, TypeOK
    <3> QED BY <1>4, <3>1, <3>2, <3>3
  <2>4. Mode' = Mode /\ Suspended' = Suspended
    BY <2>1 DEF Mode, Suspended
  <2> QED BY <1>0, <2>1, <2>2, <2>3, <2>4 DEF ChanCurrent
<1>5. ASSUME NEW d \in Dreamers, DreamerNext(d) PROVE ChanCurrent'
  <2>1. UNCHANGED <<cpc, last>>
    BY <1>5 DEF DreamerNext, Trigger, Retrigger, WindowRun, WindowOver, EnterDream,
                RefuseDream, ReleaseDream, EndRun, CloseBridge, NewBridge
  <2>2. UNCHANGED <<counts, chan>> \/ \E n \in {0, 1} : SetCount("dream", n)
    BY <1>5 DEF DreamerNext, Trigger, Retrigger, WindowRun, WindowOver, EnterDream,
                RefuseDream, ReleaseDream, EndRun, CloseBridge, NewBridge
  <2>3. CASE UNCHANGED <<counts, chan>>
    BY <2>1, <2>3, QuietStep
  <2>4. CASE \E n \in {0, 1} : SetCount("dream", n)
    BY <2>1, <2>4, SetCountNotifies, BitFacts
  <2> QED BY <2>2, <2>3, <2>4
<1>6. CASE WatchdogNext
  BY <1>6, WatchdogSets, SetCountNotifies, BitFacts
<1>7. ASSUME NEW x \in Listeners, Publish(x) PROVE ChanCurrent'
  <2>1. /\ UNCHANGED <<counts, cpc>>
        /\ \A y \in (Clients \cup Listeners) \ {x} : chan'[y] = chan[y]
        /\ \A y \in Listeners \ {x} : last'[y] = last[y]
        /\ chan[x] # Empty /\ chan'[x] = Empty /\ last'[x] = chan[x]
    BY <1>0, <1>7 DEF Publish, TypeOK
  <2>2. Mode' = Mode /\ Suspended' = Suspended
    BY <2>1 DEF Mode, Suspended
  <2> QED BY <1>0, <2>1, <2>2 DEF ChanCurrent
<1>8. CASE SwapEngine \/ UNCHANGED vars
  BY <1>8, QuietStep DEF SwapEngine, vars
<1> QED BY <1>1, <1>2, <1>3, <1>4, <1>5, <1>6, <1>7, <1>8 DEF Next, ClientNext

(* A publisher or a waiting call that has emptied its channel is up to     *)
(* date with the mode: Subscribe and noteTransitionLocked lose no change.  *)
THEOREM SubscribersUpToDate == Spec => []NoStaleListener
<1>1. Init => ChanCurrent
  <2> SUFFICES ASSUME Init PROVE ChanCurrent
    OBVIOUS
  <2>1. Mode = {} /\ Empty # {}
    BY DEF Init, Mode, ModeOf, Empty
  <2>2. \A x \in Listeners : chan[x] = {}
    BY DEF Init
  <2>3. \A c \in Clients : cpc[c] # "wait"
    BY DEF Init
  <2> QED BY <2>1, <2>2, <2>3 DEF ChanCurrent
<1>2. ChanCurrent => NoStaleListener
  BY ModeFacts DEF ChanCurrent, NoStaleListener
<1> QED BY EngineInvariance, ChanNext, <1>1, <1>2, PTL DEF Spec
=============================================================================
