-------------------------- MODULE MessageBusProofs --------------------------
(***************************************************************************)
(* Proofs about MessageBus, for any number of publish calls, streams and   *)
(* closers.                                                                *)
(*                                                                         *)
(* The argument: the wait group counts the publish calls under way, only   *)
(* one caller of Close runs its body, and once it has seen the counter at  *)
(* zero the counter stays there, because the flag it had set before turns  *)
(* every new call away.                                                    *)
(***************************************************************************)
EXTENDS MessageBus, FiniteSetTheorems, TLAPS

Flying(f) == {m \in Msgs : f[m] \in InFlight}

WgCounts == wg = Cardinality(Flying(ppc))

(* The caller inside closeOnce; the others are idle, blocked or done.      *)
Closing == {"begin", "wait", "close", "drain"}
OneCloser ==
  /\ \A c \in Closers : cpc[c] \in Closing => once = c
  /\ \A c \in Closers : cpc[c] \in {"blocked", "done"} => once # None
  /\ \A c \in Closers : cpc[c] = "done" => cpc[once] = "done"
  /\ once # None => cpc[once] \in Closing \cup {"done"}

(* How far the body of Close has come. *)
Past(S) == once # None /\ cpc[once] \in S
Progress ==
  /\ Past({"wait"}) => closed
  /\ Past({"close", "drain", "done"}) => closed /\ Flying(ppc) = {}
  /\ chanClosed # {} => Past({"close", "drain", "done"})
  /\ Past({"drain"}) => chanClosed = Streams
  /\ Past({"done"}) => \A s \in Streams : queue[s] = << >>

BusInv == TypeOK /\ WgCounts /\ OneCloser /\ Progress

-----------------------------------------------------------------------------
(* The set of calls under way is finite, and a call that enters or leaves  *)
(* changes its size by one (wg.Add and wg.Done).                           *)
LEMMA FlyingMoves ==
  ASSUME NEW f \in [Msgs -> PublishPCs], NEW m \in Msgs, NEW pc \in PublishPCs
  PROVE  LET g == [f EXCEPT ![m] = pc]
         IN  /\ IsFiniteSet(Flying(f)) /\ Cardinality(Flying(f)) \in Nat
             /\ f[m] \in InFlight /\ pc \in InFlight => Flying(g) = Flying(f)
             /\ f[m] \notin InFlight /\ pc \notin InFlight => Flying(g) = Flying(f)
             /\ f[m] \notin InFlight /\ pc \in InFlight =>
                  Cardinality(Flying(g)) = Cardinality(Flying(f)) + 1
             /\ f[m] \in InFlight /\ pc \notin InFlight =>
                  /\ Cardinality(Flying(g)) = Cardinality(Flying(f)) - 1
                  /\ Cardinality(Flying(f)) # 0
<1> DEFINE g == [f EXCEPT ![m] = pc]
<1>1. IsFiniteSet(Msgs)
  BY BusAssumption
<1>2. IsFiniteSet(Flying(f)) /\ Cardinality(Flying(f)) \in Nat
  BY <1>1, FS_Subset, FS_CardinalityType DEF Flying
<1>3. g[m] = pc /\ \A n \in Msgs \ {m} : g[n] = f[n]
  OBVIOUS
<1>4. CASE f[m] \in InFlight /\ pc \in InFlight
  BY <1>2, <1>3, <1>4 DEF Flying
<1>5. CASE f[m] \notin InFlight /\ pc \notin InFlight
  BY <1>2, <1>3, <1>5 DEF Flying
<1>6. CASE f[m] \notin InFlight /\ pc \in InFlight
  <2>1. Flying(g) = Flying(f) \cup {m} /\ m \notin Flying(f)
    BY <1>3, <1>6 DEF Flying
  <2> QED
    BY <1>2, <1>6, <2>1, FS_AddElement
<1>7. CASE f[m] \in InFlight /\ pc \notin InFlight
  <2>1. Flying(g) = Flying(f) \ {m} /\ m \in Flying(f)
    BY <1>3, <1>7 DEF Flying
  <2>2. Cardinality(Flying(f)) # 0
    BY <1>2, <2>1, FS_EmptySet
  <2> QED
    BY <1>2, <1>7, <2>1, <2>2, FS_RemoveElement
<1> QED
  BY <1>4, <1>5, <1>6, <1>7

(* Appending a message to a channel and taking its head keep its type.     *)
LEMMA QueueSteps ==
  ASSUME NEW q \in Seq(Msgs)
  PROVE  /\ \A m \in Msgs : Append(q, m) \in Seq(Msgs)
         /\ q # << >> => Head(q) \in Msgs /\ Tail(q) \in Seq(Msgs)
OBVIOUS

(* A wait group at zero means that no publish call is under way. *)
LEMMA ZeroMeansQuiet == BusInv /\ wg = 0 => Flying(ppc) = {}
<1> SUFFICES ASSUME BusInv, wg = 0 PROVE Flying(ppc) = {}
  OBVIOUS
<1>1. IsFiniteSet(Flying(ppc))
  BY BusAssumption, FS_Subset DEF Flying
<1> QED
  BY <1>1, FS_EmptySet DEF BusInv, WgCounts

-----------------------------------------------------------------------------
(* A fresh bus (NewMessageBus) is of the right type. *)
LEMMA TypeInit == Init => TypeOK
<1> SUFFICES ASSUME Init PROVE TypeOK
  OBVIOUS
<1>1. << >> \in Seq(Msgs)
  OBVIOUS
<1>2. queue \in [Streams -> Seq(Msgs)] /\ got \in [Streams -> Seq(Msgs)]
  BY <1>1 DEF Init
<1>3. ppc \in [Msgs -> PublishPCs] /\ cpc \in [Closers -> ClosePCs]
  BY DEF Init, PublishPCs, ClosePCs
<1>4. wg \in Nat
  BY DEF Init
<1>5. /\ drained \subseteq Msgs /\ receiving \subseteq Streams /\ closed \in BOOLEAN
      /\ chanClosed \subseteq Streams /\ once \in Closers \cup {None}
  BY Zenon DEF Init
<1> QED BY <1>2, <1>3, <1>4, <1>5 DEF TypeOK

(* Every step keeps the types; wg.Done finds the counter above zero.       *)
LEMMA TypeNext == BusInv /\ [Next]_vars => TypeOK'
<1> SUFFICES ASSUME BusInv, [Next]_vars PROVE TypeOK'
  OBVIOUS
<1> USE BusAssumption DEF BusInv, TypeOK, PAt, CAt
<1>1. ASSUME NEW m \in Msgs, EnterPublish(m) \/ RefusePublish(m) \/ SendCancelled(m)
      PROVE  TypeOK'
  <2>1. CASE EnterPublish(m)
    BY <2>1 DEF EnterPublish, PublishPCs
  <2>2. CASE RefusePublish(m)
    BY <2>2 DEF RefusePublish, PublishPCs
  <2>3. CASE SendCancelled(m)
    BY <2>3 DEF SendCancelled, PublishPCs
  <2> QED BY <1>1, <2>1, <2>2, <2>3
<1>2. ASSUME NEW m \in Msgs, Send(m) PROVE TypeOK'
  <2>1. queue' \in [Streams -> Seq(Msgs)]
    BY <1>2, QueueSteps DEF Send
  <2> QED BY <1>2, <2>1 DEF Send, PublishPCs
<1>3. ASSUME NEW m \in Msgs, SendClosed(m) PROVE TypeOK'
  BY <1>3, <1>1 DEF SendClosed
<1>4. ASSUME NEW m \in Msgs, LeavePublish(m) PROVE TypeOK'
  <2>1. wg # 0
    <3>1. ppc[m] \in InFlight
      BY <1>4 DEF LeavePublish, InFlight
    <3> QED BY <3>1, FlyingMoves DEF WgCounts, PublishPCs, InFlight
  <2> QED BY <1>4, <2>1 DEF LeavePublish, PublishPCs
<1>5. ASSUME NEW s \in Streams, Receive(s) PROVE TypeOK'
  <2>1. queue' \in [Streams -> Seq(Msgs)] /\ got' \in [Streams -> Seq(Msgs)]
    BY <1>5, QueueSteps DEF Receive
  <2> QED BY <1>5, <2>1 DEF Receive
<1>6. ASSUME NEW s \in Streams, ReceiverStops(s) PROVE TypeOK'
  BY <1>6 DEF ReceiverStops
<1>7. ASSUME NEW c \in Closers, CallClose(c) \/ MarkClosed(c) \/ WaitPublishers(c) \/ CloseReturns(c)
      PROVE  TypeOK'
  BY <1>7 DEF CallClose, MarkClosed, WaitPublishers, CloseReturns, ClosePCs
<1>8. ASSUME NEW c \in Closers, NEW s \in Streams, CloseChan(c, s) PROVE TypeOK'
  BY <1>8 DEF CloseChan, ClosePCs
<1>9. ASSUME NEW c \in Closers, NEW s \in Streams, Drain(c, s) PROVE TypeOK'
  <2>1. queue' \in [Streams -> Seq(Msgs)] /\ Head(queue[s]) \in Msgs
    BY <1>9, QueueSteps DEF Drain
  <2> QED BY <1>9, <2>1 DEF Drain
<1>10. CASE UNCHANGED vars
  BY <1>10 DEF vars
<1> QED
  BY <1>1, <1>2, <1>3, <1>4, <1>5, <1>6, <1>7, <1>8, <1>9, <1>10
  DEF Next, PublishNext, CloseNext

(* The counter follows the calls. *)
LEMMA CountNext == BusInv /\ [Next]_vars => WgCounts'
<1> SUFFICES ASSUME BusInv, [Next]_vars PROVE WgCounts'
  OBVIOUS
<1>0. ppc \in [Msgs -> PublishPCs] /\ wg = Cardinality(Flying(ppc))
  BY DEF BusInv, TypeOK, WgCounts
<1>1. ASSUME NEW m \in Msgs, NEW pc \in PublishPCs, ppc' = [ppc EXCEPT ![m] = pc],
             \/ ppc[m] \in InFlight /\ pc \in InFlight /\ wg' = wg
             \/ ppc[m] \notin InFlight /\ pc \notin InFlight /\ wg' = wg
             \/ ppc[m] \notin InFlight /\ pc \in InFlight /\ wg' = wg + 1
             \/ ppc[m] \in InFlight /\ pc \notin InFlight /\ wg' = wg - 1
      PROVE  WgCounts'
  BY <1>0, <1>1, FlyingMoves DEF WgCounts
<1>2. ASSUME NEW m \in Msgs, EnterPublish(m) PROVE WgCounts'
  BY <1>1, <1>2 DEF EnterPublish, PAt, InFlight, PublishPCs
<1>3. ASSUME NEW m \in Msgs, RefusePublish(m) PROVE WgCounts'
  BY <1>1, <1>3 DEF RefusePublish, PAt, InFlight, PublishPCs
<1>4. ASSUME NEW m \in Msgs, Send(m) PROVE WgCounts'
  BY <1>1, <1>4 DEF Send, PAt, InFlight, PublishPCs
<1>5. ASSUME NEW m \in Msgs, SendCancelled(m) PROVE WgCounts'
  BY <1>1, <1>5 DEF SendCancelled, PAt, InFlight, PublishPCs
<1>6. ASSUME NEW m \in Msgs, LeavePublish(m) PROVE WgCounts'
  <2>1. CASE ppc[m] = "sent"
    BY <1>1, <1>6, <2>1 DEF LeavePublish, PAt, InFlight, PublishPCs
  <2>2. CASE ppc[m] = "failed"
    BY <1>1, <1>6, <2>2 DEF LeavePublish, PAt, InFlight, PublishPCs
  <2> QED BY <1>6, <2>1, <2>2 DEF LeavePublish
<1>7. CASE UNCHANGED <<ppc, wg>>
  BY <1>7 DEF BusInv, WgCounts
<1> QED
  BY <1>2, <1>3, <1>4, <1>5, <1>6, <1>7
  DEF Next, PublishNext, CloseNext, SendClosed, Receive, ReceiverStops, CallClose,
      MarkClosed, WaitPublishers, CloseChan, Drain, CloseReturns, vars

(* The order in which callers pass through Close. *)
LEMMA CloserNext == BusInv /\ [Next]_vars => OneCloser'
<1> SUFFICES ASSUME BusInv, [Next]_vars PROVE OneCloser'
  OBVIOUS
<1> USE BusAssumption DEF BusInv, TypeOK, OneCloser, Closing, CAt
<1>1. ASSUME NEW c \in Closers, CallClose(c) PROVE OneCloser'
  BY <1>1 DEF CallClose
<1>2. ASSUME NEW c \in Closers, MarkClosed(c) \/ WaitPublishers(c) PROVE OneCloser'
  BY <1>2 DEF MarkClosed, WaitPublishers
<1>3. ASSUME NEW c \in Closers, NEW s \in Streams, CloseChan(c, s) PROVE OneCloser'
  BY <1>3 DEF CloseChan
<1>4. ASSUME NEW c \in Closers, CloseReturns(c) PROVE OneCloser'
  BY <1>4 DEF CloseReturns
<1>5. CASE UNCHANGED <<once, cpc>>
  BY <1>5
<1> QED
  BY <1>1, <1>2, <1>3, <1>4, <1>5
  DEF Next, PublishNext, CloseNext, EnterPublish, RefusePublish, Send, SendCancelled,
      SendClosed, LeavePublish, Receive, ReceiverStops, Drain, vars

(* How far the body of Close has come, and what holds from there on. *)
LEMMA ProgressNext == BusInv /\ [Next]_vars => Progress'
<1> SUFFICES ASSUME BusInv, [Next]_vars PROVE Progress'
  OBVIOUS
<1> USE BusAssumption DEF BusInv, TypeOK, OneCloser, Closing, Progress, Past, CAt, PAt
<1>1. ASSUME NEW m \in Msgs, EnterPublish(m) PROVE Progress'
  BY <1>1 DEF EnterPublish
<1>2. ASSUME NEW m \in Msgs, RefusePublish(m) PROVE Progress'
  BY <1>2 DEF RefusePublish, Flying, InFlight
<1>3. ASSUME NEW m \in Msgs, Send(m) \/ SendCancelled(m) \/ LeavePublish(m)
      PROVE  Progress'
  <2>1. m \in Flying(ppc)
    BY <1>3 DEF Send, SendCancelled, LeavePublish, Flying, InFlight
  <2> QED BY <1>3, <2>1 DEF Send, SendCancelled, LeavePublish
<1>4. ASSUME NEW s \in Streams, Receive(s) PROVE Progress'
  BY <1>4 DEF Receive
<1>5. ASSUME NEW s \in Streams, ReceiverStops(s) PROVE Progress'
  BY <1>5 DEF ReceiverStops
<1>6. ASSUME NEW c \in Closers, CallClose(c) PROVE Progress'
  BY <1>6 DEF CallClose
<1>7. ASSUME NEW c \in Closers, MarkClosed(c) PROVE Progress'
  BY <1>7 DEF MarkClosed
<1>8. ASSUME NEW c \in Closers, WaitPublishers(c) PROVE Progress'
  BY <1>8, ZeroMeansQuiet DEF WaitPublishers
<1>9. ASSUME NEW c \in Closers, NEW s \in Streams, CloseChan(c, s) PROVE Progress'
  BY <1>9 DEF CloseChan
<1>10. ASSUME NEW c \in Closers, NEW s \in Streams, Drain(c, s) PROVE Progress'
  BY <1>10 DEF Drain
<1>11. ASSUME NEW c \in Closers, CloseReturns(c) PROVE Progress'
  BY <1>11 DEF CloseReturns
<1>12. CASE UNCHANGED vars
  BY <1>12 DEF vars
<1> QED
  BY <1>1, <1>2, <1>3, <1>4, <1>5, <1>6, <1>7, <1>8, <1>9, <1>10, <1>11, <1>12
  DEF Next, PublishNext, CloseNext, SendClosed

(* The inductive invariant. *)
THEOREM BusInvariance == Spec => []BusInv
<1>1. Init => BusInv
  <2> SUFFICES ASSUME Init PROVE BusInv
    OBVIOUS
  <2>1. WgCounts
    <3>1. Flying(ppc) = {}
      BY DEF Init, Flying, InFlight
    <3> QED BY <3>1, FS_EmptySet DEF Init, WgCounts
  <2>2. OneCloser /\ Progress
    BY DEF Init, OneCloser, Closing, Progress, Past
  <2> QED BY <2>1, <2>2, TypeInit DEF BusInv
<1>2. BusInv /\ [Next]_vars => BusInv'
  BY TypeNext, CountNext, CloserNext, ProgressNext DEF BusInv
<1> QED BY <1>1, <1>2, PTL DEF Spec

-----------------------------------------------------------------------------
(* Type correctness, for every set of calls, streams and closers; that wg  *)
(* is a natural number says that wg.Done never finds the counter at zero.  *)
THEOREM BusTypeCorrect == Spec => []TypeOK
BY BusInvariance, PTL DEF BusInv

(* Channels are closed only after the wait group was seen at zero.         *)
LEMMA QuietWhenClosed == BusInv => NoSendOnClosed
BY DEF BusInv, Progress, Past, NoSendOnClosed, Flying, InFlight

(* No publish call is in its select when its channel is closed, so that    *)
(* close(mb.inbound) after wg.Wait can make no sender panic.               *)
THEOREM NeverSendsOnClosed == Spec => []NoSendOnClosed
BY BusInvariance, QuietWhenClosed, PTL

(* After any Close has returned, also one that only waited for closeOnce,  *)
(* no publish call is under way and no message is left in a channel.       *)
THEOREM CloseLeavesNothing == Spec => []ClosedMeansEmpty
<1>1. BusInv => ClosedMeansEmpty
  BY DEF BusInv, OneCloser, Progress, Past, ClosedMeansEmpty, Flying, InFlight
<1> QED BY BusInvariance, <1>1, PTL

(* The bus implements the bounded mailboxes: a successful send posts, a    *)
(* receive takes, draining discards, and nobody posts to a shut box.       *)
THEOREM BusImplementsMailbox == Spec => MailSpec
<1>1. Init => Mail!Init
  BY DEF Init, Mail!Init, Accepted
<1>2. ASSUME BusInv, [Next]_vars
      PROVE  [Mail!Next]_<<{m \in Msgs : ppc[m] \in Accepted}, queue, got, chanClosed>>
  <2> DEFINE P(f) == {m \in Msgs : f[m] \in Accepted}
             mail == <<P(ppc), queue, got, chanClosed>>
  <2> USE <1>2
  <2>0. TypeOK /\ NoSendOnClosed
    BY QuietWhenClosed DEF BusInv
  <2>1. ASSUME NEW m \in Msgs, EnterPublish(m) \/ RefusePublish(m) \/ SendCancelled(m)
               \/ LeavePublish(m)
        PROVE  UNCHANGED mail
    <3>1. P(ppc') = P(ppc)
      BY <2>0, <2>1 DEF EnterPublish, RefusePublish, SendCancelled, LeavePublish, PAt,
                        TypeOK, Accepted
    <3> QED BY <2>1, <3>1 DEF EnterPublish, RefusePublish, SendCancelled, LeavePublish
  <2>2. ASSUME NEW m \in Msgs, Send(m) PROVE Mail!Post(m)
    <3>1. P(ppc') = P(ppc) \cup {m} /\ m \notin P(ppc)
      BY <2>0, <2>2 DEF Send, PAt, TypeOK, Accepted
    <3>2. StreamOf[m] \notin chanClosed
      BY <2>0, <2>2 DEF Send, NoSendOnClosed
    <3> QED BY <2>2, <3>1, <3>2 DEF Send, Mail!Post
  <2>3. ASSUME NEW s \in Streams, Receive(s) PROVE Mail!Take(s)
    BY <2>3 DEF Receive, Mail!Take
  <2>4. ASSUME NEW c \in Closers, NEW s \in Streams, Drain(c, s) PROVE Mail!Discard(s)
    <3>1. chanClosed = Streams
      BY <2>4, BusAssumption DEF Drain, BusInv, OneCloser, Closing, Progress, Past
    <3> QED BY <2>4, <3>1 DEF Drain, Mail!Discard
  <2>5. ASSUME NEW c \in Closers, NEW s \in Streams, CloseChan(c, s) PROVE Mail!Shut(s)
    BY <2>5 DEF CloseChan, Mail!Shut
  <2>6. ASSUME \/ \E s \in Streams : ReceiverStops(s)
               \/ \E c \in Closers : CallClose(c) \/ MarkClosed(c) \/ WaitPublishers(c)
                                     \/ CloseReturns(c)
               \/ UNCHANGED vars
        PROVE  UNCHANGED mail
    BY <2>6 DEF ReceiverStops, CallClose, MarkClosed, WaitPublishers, CloseReturns, vars
  <2> QED
    BY <2>1, <2>2, <2>3, <2>4, <2>5, <2>6
    DEF Next, PublishNext, CloseNext, SendClosed, Mail!Next
<1> QED BY <1>1, <1>2, BusInvariance, PTL DEF Spec, MailSpec, Mail!Spec

-----------------------------------------------------------------------------
(***************************************************************************)
(* Where the accepted messages are.                                        *)
(***************************************************************************)
Once(q) == \A i, j \in 1..Len(q) : q[i] = q[j] => i = j

(* What has passed through a stream is there once, was published on it and *)
(* accepted, and is not drained; and what was accepted is somewhere.       *)
Placed ==
  /\ \A s \in Streams :
       /\ Once(got[s]) /\ Once(queue[s])
       /\ Elems(got[s]) \cap Elems(queue[s]) = {}
       /\ \A m \in Elems(got[s]) \cup Elems(queue[s]) :
            StreamOf[m] = s /\ ppc[m] \in Accepted /\ m \notin drained
  /\ \A m \in drained : ppc[m] \in Accepted
  /\ \A m \in Msgs :
       ppc[m] \in Accepted =>
         m \in Elems(got[StreamOf[m]]) \cup Elems(queue[StreamOf[m]]) \cup drained

(* What appending a message and removing the first one do to a queue in    *)
(* which each message is at most once.                                     *)
LEMMA OnceAppend ==
  ASSUME NEW q \in Seq(Msgs), NEW m \in Msgs
  PROVE  /\ Elems(Append(q, m)) = Elems(q) \cup {m}
         /\ Once(q) /\ m \notin Elems(q) => Once(Append(q, m))
<1>1. /\ Len(Append(q, m)) = Len(q) + 1 /\ Len(q) \in Nat
      /\ \A i \in 1..Len(q) : Append(q, m)[i] = q[i]
      /\ Append(q, m)[Len(q) + 1] = m
  OBVIOUS
<1>2. 1..Len(Append(q, m)) = (1..Len(q)) \cup {Len(q) + 1}
  BY <1>1
<1> QED
  BY <1>1, <1>2 DEF Elems, Once

LEMMA OnceTail ==
  ASSUME NEW q \in Seq(Msgs), q # << >>
  PROVE  /\ Elems(q) = {Head(q)} \cup Elems(Tail(q))
         /\ Once(q) => Once(Tail(q)) /\ Head(q) \notin Elems(Tail(q))
<1>1. /\ Len(q) \in Nat \ {0} /\ Len(Tail(q)) = Len(q) - 1 /\ Head(q) = q[1]
      /\ \A i \in 1..Len(Tail(q)) : Tail(q)[i] = q[i + 1]
  OBVIOUS
<1>2. \A i \in 2..Len(q) : i - 1 \in 1..Len(Tail(q)) /\ q[i] = Tail(q)[i - 1]
  BY <1>1
<1>3. Elems(q) = {Head(q)} \cup Elems(Tail(q))
  <2>1. ASSUME NEW i \in 1..Len(q) PROVE q[i] \in {Head(q)} \cup Elems(Tail(q))
    <3>1. i = 1 \/ i \in 2..Len(q)
      BY <1>1
    <3> QED
      BY <1>1, <1>2, <3>1 DEF Elems
  <2>2. ASSUME NEW i \in 1..Len(Tail(q)) PROVE Tail(q)[i] \in Elems(q)
    <3>1. i + 1 \in 1..Len(q)
      BY <1>1
    <3> QED
      BY <1>1, <3>1 DEF Elems
  <2>3. Head(q) \in Elems(q)
    BY <1>1 DEF Elems
  <2> QED
    BY <2>1, <2>2, <2>3 DEF Elems
<1>4. ASSUME Once(q) PROVE Once(Tail(q)) /\ Head(q) \notin Elems(Tail(q))
  <2>1. ASSUME NEW i \in 1..Len(Tail(q)), NEW j \in 1..Len(Tail(q)), Tail(q)[i] = Tail(q)[j]
        PROVE  i = j
    <3>1. i + 1 \in 1..Len(q) /\ j + 1 \in 1..Len(q) /\ q[i + 1] = q[j + 1]
      BY <1>1, <2>1
    <3>2. i + 1 = j + 1
      BY <1>4, <3>1 DEF Once
    <3> QED
      BY <3>2
  <2>2. ASSUME NEW i \in 1..Len(Tail(q)) PROVE Tail(q)[i] # Head(q)
    <3>1. i + 1 \in 1..Len(q) /\ 1 \in 1..Len(q) /\ i + 1 # 1
      BY <1>1
    <3> QED
      BY <1>1, <1>4, <3>1 DEF Once
  <2> QED
    BY <2>1, <2>2 DEF Once, Elems
<1> QED
  BY <1>3, <1>4

(* Two queues of messages, each once and none in both, are one when put    *)
(* after each other.                                                       *)
LEMMA OnceConcat ==
  ASSUME NEW g \in Seq(Msgs), NEW q \in Seq(Msgs),
         Once(g), Once(q), Elems(g) \cap Elems(q) = {}
  PROVE  Once(g \o q) /\ Elems(g \o q) = Elems(g) \cup Elems(q)
<1>1. /\ Len(g) \in Nat /\ Len(q) \in Nat /\ Len(g \o q) = Len(g) + Len(q)
      /\ \A i \in 1..Len(g) : (g \o q)[i] = g[i]
      /\ \A i \in 1..Len(q) : (g \o q)[Len(g) + i] = q[i]
  OBVIOUS
<1>2. \A i \in 1..Len(g \o q) :
        \/ i \in 1..Len(g) /\ (g \o q)[i] = g[i]
        \/ i - Len(g) \in 1..Len(q) /\ (g \o q)[i] = q[i - Len(g)]
  <2> SUFFICES ASSUME NEW i \in 1..Len(g \o q), i \notin 1..Len(g)
               PROVE  i - Len(g) \in 1..Len(q) /\ (g \o q)[i] = q[i - Len(g)]
    BY <1>1
  <2>1. i - Len(g) \in 1..Len(q) /\ i = Len(g) + (i - Len(g))
    BY <1>1
  <2> QED
    BY <1>1, <2>1
<1>3. ASSUME NEW i \in 1..Len(g \o q), NEW j \in 1..Len(g \o q), (g \o q)[i] = (g \o q)[j]
      PROVE  i = j
  <2>1. CASE i \in 1..Len(g) /\ j \in 1..Len(g)
    BY <1>1, <1>3, <2>1 DEF Once
  <2>2. CASE i \notin 1..Len(g) /\ j \notin 1..Len(g)
    <3>1. i - Len(g) = j - Len(g)
      BY <1>2, <1>3, <2>2 DEF Once
    <3> QED
      BY <1>1, <3>1
  <2>3. CASE i \in 1..Len(g) /\ j \notin 1..Len(g)
    <3>1. (g \o q)[i] \in Elems(g)
      BY <1>1, <2>3 DEF Elems
    <3>2. (g \o q)[j] \in Elems(q)
      BY <1>2, <2>3 DEF Elems
    <3> QED
      BY <1>3, <3>1, <3>2
  <2>4. CASE i \notin 1..Len(g) /\ j \in 1..Len(g)
    <3>1. (g \o q)[i] \in Elems(q)
      BY <1>2, <2>4 DEF Elems
    <3>2. (g \o q)[j] \in Elems(g)
      BY <1>1, <2>4 DEF Elems
    <3> QED
      BY <1>3, <3>1, <3>2
  <2> QED
    BY <2>1, <2>2, <2>3, <2>4
<1>4. Elems(g \o q) \subseteq Elems(g) \cup Elems(q)
  BY <1>2 DEF Elems
<1>5. ASSUME NEW i \in 1..Len(g) PROVE g[i] \in Elems(g \o q)
  <2>1. i \in 1..Len(g \o q)
    BY <1>1
  <2> QED
    BY <1>1, <2>1 DEF Elems
<1>6. ASSUME NEW i \in 1..Len(q) PROVE q[i] \in Elems(g \o q)
  <2>1. Len(g) + i \in 1..Len(g \o q)
    BY <1>1
  <2> QED
    BY <1>1, <2>1 DEF Elems
<1>7. Elems(g) \subseteq Elems(g \o q) /\ Elems(q) \subseteq Elems(g \o q)
  BY <1>5, <1>6 DEF Elems
<1>8. Once(g \o q)
  BY <1>3 DEF Once
<1> QED
  BY <1>4, <1>7, <1>8

LEMMA PlacedNext == BusInv /\ Placed /\ [Next]_vars => Placed'
<1> SUFFICES ASSUME BusInv, Placed, [Next]_vars PROVE Placed'
  OBVIOUS
<1>0. /\ ppc \in [Msgs -> PublishPCs]
      /\ queue \in [Streams -> Seq(Msgs)] /\ got \in [Streams -> Seq(Msgs)]
      /\ drained \subseteq Msgs /\ StreamOf \in [Msgs -> Streams]
  BY BusAssumption DEF BusInv, TypeOK
<1>1. ASSUME NEW m \in Msgs, EnterPublish(m) \/ RefusePublish(m) \/ SendCancelled(m)
                           \/ LeavePublish(m)
      PROVE  Placed'
  <2>1. queue' = queue /\ got' = got /\ drained' = drained
    BY <1>1 DEF EnterPublish, RefusePublish, SendCancelled, LeavePublish
  <2>2. \A n \in Msgs : ppc'[n] \in Accepted <=> ppc[n] \in Accepted
    BY <1>0, <1>1 DEF EnterPublish, RefusePublish, SendCancelled, LeavePublish, PAt, Accepted
  <2>3. \A s \in Streams : Elems(got[s]) \cup Elems(queue[s]) \subseteq Msgs
    BY <1>0 DEF Elems
  <2> QED
    BY <1>0, <2>1, <2>2, <2>3 DEF Placed
<1>2. ASSUME NEW m \in Msgs, Send(m) PROVE Placed'
  <2> DEFINE s == StreamOf[m]
  <2>1. /\ got' = got /\ drained' = drained /\ s \in Streams
        /\ queue' = [queue EXCEPT ![s] = Append(queue[s], m)]
        /\ ppc' = [ppc EXCEPT ![m] = "sent"] /\ ppc[m] = "sending"
    BY <1>0, <1>2 DEF Send, PAt
  <2>2. \A t \in Streams : m \notin Elems(got[t]) \cup Elems(queue[t])
    BY <2>1 DEF Placed, Accepted
  <2>3. m \notin drained
    BY <2>1 DEF Placed, Accepted
  <2>4. /\ Elems(queue'[s]) = Elems(queue[s]) \cup {m}
        /\ Once(queue'[s])
    BY <1>0, <2>1, <2>2, OnceAppend DEF Placed
  <2>5. \A t \in Streams \ {s} : queue'[t] = queue[t]
    BY <1>0, <2>1
  <2>6. ppc'[m] \in Accepted /\ \A n \in Msgs \ {m} : ppc'[n] = ppc[n]
    BY <1>0, <2>1 DEF Accepted
  <2>7. \A t \in Streams : Elems(got[t]) \cup Elems(queue[t]) \subseteq Msgs
    BY <1>0 DEF Elems
  <2> HIDE DEF s
  <2>8. ASSUME NEW t \in Streams
        PROVE  /\ Once(got'[t]) /\ Once(queue'[t])
               /\ Elems(got'[t]) \cap Elems(queue'[t]) = {}
               /\ \A n \in Elems(got'[t]) \cup Elems(queue'[t]) :
                    StreamOf[n] = t /\ ppc'[n] \in Accepted /\ n \notin drained'
    <3>1. CASE t = s
      <4>1. StreamOf[m] = s
        BY DEF s
      <4>2. /\ Once(got[t]) /\ Elems(got[t]) \cap Elems(queue[t]) = {}
            /\ \A n \in Elems(got[t]) \cup Elems(queue[t]) :
                 StreamOf[n] = t /\ ppc[n] \in Accepted /\ n \notin drained
        BY DEF Placed
      <4>3. Elems(queue'[t]) = Elems(queue[t]) \cup {m} /\ Once(queue'[t])
        BY <2>4, <3>1
      <4>4. ASSUME NEW n \in Elems(got[t]) \cup Elems(queue[t])
            PROVE  StreamOf[n] = t /\ ppc'[n] \in Accepted /\ n \notin drained
        <5>1. n \in Msgs \ {m}
          BY <2>2, <2>7
        <5> QED
          BY <2>6, <4>2, <5>1
      <4>5. Elems(got'[t]) = Elems(got[t]) /\ Once(got'[t])
        BY <2>1, <4>2
      <4>6. Elems(got'[t]) \cap Elems(queue'[t]) = {}
        BY <2>2, <4>2, <4>3, <4>5
      <4>7. ASSUME NEW n \in Elems(got'[t]) \cup Elems(queue'[t])
            PROVE  StreamOf[n] = t /\ ppc'[n] \in Accepted /\ n \notin drained'
        <5>1. CASE n = m
          BY <2>1, <2>3, <2>6, <3>1, <4>1, <5>1
        <5>2. CASE n # m
          BY <2>1, <4>3, <4>4, <4>5, <5>2
        <5> QED
          BY <5>1, <5>2
      <4> QED
        BY <4>3, <4>5, <4>6, <4>7
    <3>2. CASE t # s
      BY <2>1, <2>2, <2>5, <2>6, <2>7, <3>2 DEF Placed
    <3> QED
      BY <3>1, <3>2
  <2>9. \A n \in drained' : ppc'[n] \in Accepted
    BY <1>0, <2>1, <2>3, <2>6 DEF Placed
  <2>10. ASSUME NEW n \in Msgs, ppc'[n] \in Accepted
         PROVE  n \in Elems(got'[StreamOf[n]]) \cup Elems(queue'[StreamOf[n]]) \cup drained'
    <3>1. CASE n = m
      BY <2>4, <3>1 DEF s
    <3>2. CASE n # m
      <4>1. n \in Elems(got[StreamOf[n]]) \cup Elems(queue[StreamOf[n]]) \cup drained
        BY <2>6, <2>10, <3>2 DEF Placed
      <4>2. Elems(queue[StreamOf[n]]) \subseteq Elems(queue'[StreamOf[n]])
        BY <1>0, <2>4, <2>5
      <4> QED
        BY <2>1, <4>1, <4>2
    <3> QED
      BY <3>1, <3>2
  <2> QED
    BY <2>8, <2>9, <2>10 DEF Placed
<1>3. ASSUME NEW s \in Streams, Receive(s) PROVE Placed'
  <2>1. /\ queue[s] # << >> /\ drained' = drained /\ ppc' = ppc
        /\ got'[s] = Append(got[s], Head(queue[s])) /\ queue'[s] = Tail(queue[s])
        /\ \A t \in Streams \ {s} : got'[t] = got[t] /\ queue'[t] = queue[t]
    BY <1>0, <1>3 DEF Receive
  <2>2. /\ Elems(queue[s]) = {Head(queue[s])} \cup Elems(Tail(queue[s]))
        /\ Once(Tail(queue[s])) /\ Head(queue[s]) \notin Elems(Tail(queue[s]))
    BY <1>0, <2>1, OnceTail DEF Placed
  <2>3. Head(queue[s]) \in Msgs
    BY <1>0, <2>1, QueueSteps
  <2>4. Elems(Append(got[s], Head(queue[s]))) = Elems(got[s]) \cup {Head(queue[s])}
    BY <1>0, <2>3, OnceAppend
  <2>5. Once(Append(got[s], Head(queue[s])))
    <3>1. Once(got[s]) /\ Head(queue[s]) \notin Elems(got[s])
      BY <2>2 DEF Placed
    <3> QED
      BY <1>0, <2>3, <3>1, OnceAppend
  <2>6. ASSUME NEW t \in Streams
        PROVE  /\ Once(got'[t]) /\ Once(queue'[t])
               /\ Elems(got'[t]) \cap Elems(queue'[t]) = {}
               /\ Elems(got'[t]) \cup Elems(queue'[t]) = Elems(got[t]) \cup Elems(queue[t])
    <3>1. CASE t = s
      <4>1. Once(got'[t]) /\ Once(queue'[t])
        BY <2>1, <2>2, <2>5, <3>1
      <4>2. Elems(got[t]) \cap Elems(queue[t]) = {}
        BY DEF Placed
      <4>3. /\ Elems(got'[t]) = Elems(got[t]) \cup {Head(queue[t])}
            /\ Elems(queue'[t]) = Elems(Tail(queue[t]))
            /\ Elems(queue[t]) = {Head(queue[t])} \cup Elems(Tail(queue[t]))
            /\ Head(queue[t]) \notin Elems(Tail(queue[t]))
        BY <2>1, <2>2, <2>4, <3>1
      <4>4. Elems(got'[t]) \cap Elems(queue'[t]) = {}
        BY <4>2, <4>3
      <4> QED
        BY <4>1, <4>3, <4>4
    <3>2. CASE t # s
      BY <2>1, <3>2 DEF Placed
    <3> QED
      BY <3>1, <3>2
  <2> QED
    BY <1>0, <2>1, <2>6 DEF Placed
<1>4. ASSUME NEW c \in Closers, NEW s \in Streams, Drain(c, s) PROVE Placed'
  <2>1. /\ queue[s] # << >> /\ drained' = drained \cup {Head(queue[s])} /\ ppc' = ppc
        /\ got' = got /\ queue'[s] = Tail(queue[s])
        /\ \A t \in Streams \ {s} : queue'[t] = queue[t]
    BY <1>0, <1>4 DEF Drain
  <2>2. /\ Elems(queue[s]) = {Head(queue[s])} \cup Elems(Tail(queue[s]))
        /\ Once(Tail(queue[s])) /\ Head(queue[s]) \notin Elems(Tail(queue[s]))
    BY <1>0, <2>1, OnceTail DEF Placed
  <2>3. Head(queue[s]) \in Elems(queue[s]) /\ StreamOf[Head(queue[s])] = s
    BY <2>2 DEF Placed
  <2>4. ASSUME NEW t \in Streams
        PROVE  /\ Once(got'[t]) /\ Once(queue'[t])
               /\ Elems(got'[t]) \cap Elems(queue'[t]) = {}
               /\ Elems(got'[t]) \cup Elems(queue'[t]) \subseteq Elems(got[t]) \cup Elems(queue[t])
               /\ Head(queue[s]) \notin Elems(got'[t]) \cup Elems(queue'[t])
               /\ Elems(got[t]) \cup Elems(queue[t]) \subseteq
                    Elems(got'[t]) \cup Elems(queue'[t]) \cup {Head(queue[s])}
    <3>1. CASE t = s
      BY <2>1, <2>2, <2>3, <3>1 DEF Placed
    <3>2. CASE t # s
      BY <2>1, <2>3, <3>2 DEF Placed
    <3> QED
      BY <3>1, <3>2
  <2>5. \A m \in drained' : ppc'[m] \in Accepted
    BY <2>1, <2>3 DEF Placed
  <2>6. ASSUME NEW m \in Msgs, ppc'[m] \in Accepted
        PROVE  m \in Elems(got'[StreamOf[m]]) \cup Elems(queue'[StreamOf[m]]) \cup drained'
    BY <1>0, <2>1, <2>4, <2>6 DEF Placed
  <2>7. ASSUME NEW t \in Streams, NEW m \in Elems(got'[t]) \cup Elems(queue'[t])
        PROVE  StreamOf[m] = t /\ ppc'[m] \in Accepted /\ m \notin drained'
    BY <2>1, <2>4, <2>7 DEF Placed
  <2> QED
    BY <2>4, <2>5, <2>6, <2>7 DEF Placed
<1>5. CASE UNCHANGED <<ppc, queue, got, drained>>
  BY <1>5 DEF Placed
<1> QED
  BY <1>1, <1>2, <1>3, <1>4, <1>5
  DEF Next, PublishNext, CloseNext, SendClosed, ReceiverStops, CallClose, MarkClosed,
      WaitPublishers, CloseChan, CloseReturns, vars

(* A message whose publish succeeded is in one place and once, one whose   *)
(* publish failed is nowhere (publish, Close's drain, the receivers).      *)
THEOREM NeverTwice == Spec => []AcceptedOnce
<1>1. Init => Placed
  BY BusAssumption DEF Init, Placed, Once, Elems, Accepted
<1>2. ASSUME BusInv, Placed PROVE AcceptedOnce
  <2>0. queue \in [Streams -> Seq(Msgs)] /\ got \in [Streams -> Seq(Msgs)]
    BY <1>2 DEF BusInv, TypeOK
  <2>1. ASSUME NEW m \in Msgs
        PROVE  ppc[m] \in Accepted <=>
                 m \in Elems(got[StreamOf[m]]) \cup Elems(queue[StreamOf[m]]) \cup drained
    BY <1>2, BusAssumption DEF Placed
  <2>2. ASSUME NEW s \in Streams
        PROVE  Once(got[s] \o queue[s]) /\ Elems(got[s] \o queue[s]) \cap drained = {}
    <3>1. /\ Once(got[s]) /\ Once(queue[s]) /\ Elems(got[s]) \cap Elems(queue[s]) = {}
          /\ \A m \in Elems(got[s]) \cup Elems(queue[s]) : m \notin drained
      BY <1>2 DEF Placed
    <3>2. Elems(got[s] \o queue[s]) = Elems(got[s]) \cup Elems(queue[s])
      BY <2>0, <3>1, OnceConcat
    <3>3. Once(got[s] \o queue[s])
      BY <2>0, <3>1, OnceConcat
    <3> QED
      BY <3>1, <3>2, <3>3
  <2> QED
    BY <2>1, <2>2 DEF AcceptedOnce, Once
<1>3. BusInv /\ Placed /\ [Next]_vars => Placed'
  BY PlacedNext
<1> QED
  BY <1>1, <1>2, <1>3, BusInvariance, PTL DEF Spec
=============================================================================
