------------------------ MODULE ChannelManagerProofs ------------------------
(***************************************************************************)
(* Proofs about ChannelManager, for any channels, replies, destinations,   *)
(* queues and reloads: a channel that no reload has disturbed keeps its    *)
(* worker and gets its replies in order.                                   *)
(*                                                                         *)
(* The tables say nothing of other channels' objects (Named), the          *)
(* goroutine of a reload takes nothing from a channel that is enabled and  *)
(* undisturbed (TidyOk), and nothing is closed or canceled before its time *)
(* (Early).  For the order: such a channel never has a second worker at    *)
(* work (Single), because a channel that is enabled again was removed      *)
(* before (Off), so that its replies pass through one line (Line).         *)
(***************************************************************************)
EXTENDS ChannelManager, TLAPS

Known(i) == i[2] <= made[i[1]]

(* The tables hold a channel's own objects, which have been built; so have *)
(* those that were ever started or whose queue was closed.                 *)
Named ==
  /\ \A n \in Names :
       /\ channels[n] # None => channels[n][1] = n /\ Known(channels[n])
       /\ workers[n] # None => workers[n][1] = n /\ Known(workers[n])
  /\ \A i \in started \cup shut : Known(i)
  /\ \A r \in 1 .. MaxReloads : \A i \in tidy[r].put : Known(i)

Early ==
  /\ phase = "new" =>
       /\ started = {} /\ shut = {} /\ holder = None
       /\ \A r \in 1 .. MaxReloads : tidy[r] = Nothing
       /\ \A n \in on : channels[n] # None
  /\ phase \in {"new", "up"} => canceled = {}

TidyOk ==
  /\ \A r \in 1 .. MaxReloads :
       /\ \A n \in tidy[r].remove : n \notin on \ disturbed
       /\ \A i \in tidy[r].put : i[1] \in on \ disturbed => channels[i[1]] = i
  /\ \A r \in 1 .. MaxReloads, n \in Names : holder = <<r, n>> => n \in tidy[r].remove

InHands ==
  /\ dpc = "send" => next > 1
  /\ \A i \in Instances : wpc[i] \in {"wait", "send"} => cur[i] # None

ManagerInv == TypeOK /\ Named /\ Early /\ TidyOk /\ InHands /\ StartedHaveWorkers

-----------------------------------------------------------------------------
LEMMA ManagerStarts == Init => ManagerInv
<1> SUFFICES ASSUME Init PROVE ManagerInv
  OBVIOUS
<1> USE ChannelAssumption, NoneAssumption DEF Init
<1>0. \A n \in Names : <<n, 1>> \in Instances
  BY DEF Instances
<1>e. << >> \in Seq(Replies)
  OBVIOUS
<1>1. TypeOK
  <2>1. /\ phase \in {"new", "up", "stopping", "stopped", "failed"}
        /\ on \subseteq Names /\ disturbed \subseteq Names
        /\ started \subseteq Instances /\ shut \subseteq Instances
        /\ canceled \subseteq Contexts /\ crashed \in BOOLEAN
    OBVIOUS
  <2>2. made \in [Names -> 0 .. MaxBuilt]
    BY SMT
  <2>3. /\ channels \in [Names -> Instances \cup {None}]
        /\ workers \in [Names -> Instances \cup {None}]
    BY <1>0
  <2>4. /\ wpc \in [Instances -> {"none", "idle", "wait", "send", "ended"}]
        /\ cur \in [Instances -> Replies \cup {None}]
        /\ queue \in [Instances -> Seq(Replies)] /\ sent \in Seq(Replies)
    BY <1>e
  <2>5. ctx \in [Instances -> Contexts] /\ reloads \in 0 .. MaxReloads
    BY DEF Contexts
  <2>6. tidy \in [1 .. MaxReloads -> [remove : SUBSET Names, put : SUBSET Instances]]
    BY DEF Nothing
  <2>7. /\ holder \in {None} \cup ((1 .. MaxReloads) \X Names)
        /\ next \in 1 .. Last + 1 /\ dpc \in {"off", "recv", "send", "ended"}
        /\ dworker \in Instances \cup {None}
    OBVIOUS
  <2> QED
    BY <2>1, <2>2, <2>3, <2>4, <2>5, <2>6, <2>7 DEF TypeOK
<1>2. Named
  BY <1>0 DEF Named, Known, Nothing
<1>3. Early
  BY <1>0 DEF Early
<1>4. TidyOk
  <2>1. \A r \in 1 .. MaxReloads : tidy[r].remove = {} /\ tidy[r].put = {}
    BY DEF Nothing
  <2>2. \A r \in 1 .. MaxReloads, n \in Names : holder # <<r, n>>
    <3>1. \A r \in 1 .. MaxReloads, n \in Names : <<r, n>> \in (1 .. MaxReloads) \X Names
      OBVIOUS
    <3> QED
      BY <3>1
  <2> QED
    BY <2>1, <2>2 DEF TidyOk
<1>5. InHands /\ StartedHaveWorkers
  BY DEF InHands, StartedHaveWorkers
<1> QED
  BY <1>1, <1>2, <1>3, <1>4, <1>5 DEF ManagerInv

LEMMA ManagerStarted ==
  ASSUME ManagerInv, NEW up \in SUBSET Names, StartAll(up)
  PROVE  ManagerInv'
<1> USE ChannelAssumption, NoneAssumption DEF ManagerInv, StartAll, Free
<1>0. \A n \in up : channels[n] \in Instances
  BY DEF TypeOK, Early
<1>1. TypeOK'
  BY <1>0, SMTT(30) DEF TypeOK, Contexts
<1>2. Named'
  BY <1>0 DEF Named, Known, Early, TypeOK
<1>3. Early'
  BY DEF Early
<1>4. TidyOk'
  BY DEF TidyOk
<1>5. InHands'
  BY <1>0 DEF InHands, TypeOK
<1>6. \A n \in on : channels[n] \in started' => n \in up
  <2>1. \A n \in on : channels[n] # None /\ channels[n][1] = n
    BY DEF Named, TypeOK, Early
  <2>2. \A m \in up : channels[m][1] = m
    BY <2>1
  <2> QED
    BY <2>1, <2>2
<1>7. StartedHaveWorkers'
  BY <1>0, <1>6 DEF StartedHaveWorkers, Early, TypeOK
<1> QED
  BY <1>1, <1>2, <1>3, <1>4, <1>5, <1>7

(* StopAll and its end. *)
LEMMA ManagerStopped ==
  ASSUME ManagerInv, StopAll \/ AllStopped
  PROVE  ManagerInv'
<1> USE ChannelAssumption, NoneAssumption
    DEF ManagerInv, StopAll, AllStopped, Free, tables, delivery, Working
<1>b. crashed' \in BOOLEAN
  BY Zenon DEF TypeOK
<1>1. TypeOK'
  BY <1>b, SMTT(30) DEF TypeOK, Contexts
<1>2. Named'
  <2>1. \A i \in started' \cup shut' : i[2] <= made[i[1]]
    BY DEF Named, Known
  <2> QED
    BY <2>1 DEF Named, Known
<1>3. Early' /\ TidyOk' /\ InHands' /\ StartedHaveWorkers'
  BY DEF Early, TidyOk, InHands, StartedHaveWorkers
<1> QED
  BY <1>1, <1>2, <1>3

-----------------------------------------------------------------------------
LEMMA ManagerReloaded ==
  ASSUME ManagerInv,
         NEW target \in SUBSET Names, NEW changed \in SUBSET Names,
         NEW up \in SUBSET Names, Reload(target, changed, up)
  PROVE  ManagerInv'
<1> DEFINE removed == (on \ target) \cup changed
           added   == (target \ on) \cup changed
           fresh   == {Built(n) : n \in up}
<1> USE ChannelAssumption, NoneAssumption DEF ManagerInv
<1>0. /\ phase = "up" /\ Free /\ phase' = phase /\ holder' = holder
      /\ changed \subseteq on \cap target /\ up \subseteq added
      /\ reloads < MaxReloads /\ reloads' = reloads + 1
      /\ \A n \in added : Built(n) \in Instances
      /\ on' = target
      /\ canceled' = canceled /\ shut' = shut
      /\ UNCHANGED <<cur, queue, sent, next, dpc, dworker>>
  BY DEF Reload, KeepContexts, Removed, Added
<1>1. /\ made' = [n \in Names |-> IF n \in added THEN made[n] + 1 ELSE made[n]]
      /\ channels' = [n \in Names |-> IF n \in added THEN Built(n) ELSE channels[n]]
      /\ workers' = [n \in Names |-> IF n \in up THEN Built(n) ELSE workers[n]]
      /\ started' = (started \ {channels[n] : n \in removed}) \cup fresh
  BY DEF Reload, Removed, Added
<1>2. /\ wpc' = [i \in Instances |-> IF i \in fresh THEN "idle" ELSE wpc[i]]
      /\ ctx' = [i \in Instances |-> IF i \in fresh THEN reloads + 1 ELSE ctx[i]]
      /\ tidy' = [tidy EXCEPT ![reloads + 1] = [remove |-> removed, put |-> fresh]]
      /\ disturbed' = disturbed \cup changed \cup {n \in removed \cup added : Pending(n)}
  BY DEF Reload, Removed, Added
<1>b. crashed' \in BOOLEAN
  BY Zenon DEF Reload, Removed, Added
<1> HIDE DEF removed, added, fresh
<1>3. added \subseteq Names /\ removed \subseteq Names /\ up \subseteq Names
  BY DEF added, removed, TypeOK
<1>4. fresh \subseteq Instances
  BY <1>0 DEF fresh
<1>5. \A n \in Names : n \in added => made[n] + 1 \in 1 .. MaxBuilt
  BY <1>0, <1>3 DEF Built, Instances, TypeOK
<1>6. reloads + 1 \in 1 .. MaxReloads /\ reloads' \in 0 .. MaxReloads
  BY <1>0 DEF TypeOK
<1>7. TypeOK'
  <2>1. made' \in [Names -> 0 .. MaxBuilt]
    BY <1>1, <1>5 DEF TypeOK
  <2>2. /\ channels' \in [Names -> Instances \cup {None}]
        /\ workers' \in [Names -> Instances \cup {None}]
    BY <1>0, <1>1, <1>3 DEF TypeOK
  <2>3. /\ started' \subseteq Instances
        /\ wpc' \in [Instances -> {"none", "idle", "wait", "send", "ended"}]
    BY <1>1, <1>2, <1>4 DEF TypeOK
  <2>4. ctx' \in [Instances -> Contexts]
    BY <1>2, <1>6 DEF TypeOK, Contexts
  <2>5. tidy' \in [1 .. MaxReloads -> [remove : SUBSET Names, put : SUBSET Instances]]
    BY <1>2, <1>3, <1>4, <1>6 DEF TypeOK
  <2>6. disturbed' \subseteq Names
    BY <1>2, <1>3 DEF TypeOK
  <2> QED
    BY <1>0, <1>b, <1>6, <2>1, <2>2, <2>3, <2>4, <2>5, <2>6 DEF TypeOK
(* An object that was known before is known, and no new one was. *)
<1>8. \A i \in Instances : Known(i) => Known(i)' /\ i \notin fresh
  BY <1>0, <1>1, <1>3, SMTT(30) DEF Known, Instances, TypeOK, fresh, Built
<1>9. \A n \in added : Built(n)[1] = n /\ Built(n)[2] <= made'[n]
  <2> SUFFICES ASSUME NEW n \in added PROVE Built(n)[1] = n /\ Built(n)[2] <= made'[n]
    OBVIOUS
  <2>1. made'[n] = made[n] + 1 /\ made[n] \in Nat
    BY <1>1, <1>3 DEF TypeOK
  <2>2. Built(n)[1] = n /\ Built(n)[2] = made[n] + 1
    BY DEF Built
  <2> QED
    BY <2>1, <2>2
<1>g. \A n \in Names : made[n] \in Nat /\ made'[n] \in Nat /\ made[n] <= made'[n]
  BY <1>1 DEF TypeOK
<1>10. Named'
  <2>1. \A n \in Names :
          /\ channels'[n] # None => channels'[n][1] = n /\ Known(channels[n])'
          /\ workers'[n] # None => workers'[n][1] = n /\ Known(workers[n])'
    <3> SUFFICES ASSUME NEW n \in Names
                 PROVE  /\ channels'[n] # None => channels'[n][1] = n /\ Known(channels[n])'
                        /\ workers'[n] # None => workers'[n][1] = n /\ Known(workers[n])'
      OBVIOUS
    <3>0. \A i \in Instances : i[2] \in Nat
      BY DEF Instances
    <3>1. channels[n] # None => channels[n][1] = n /\ channels[n][2] <= made'[n]
      BY <1>g, <3>0 DEF Named, Known, TypeOK
    <3>2. workers[n] # None => workers[n][1] = n /\ workers[n][2] <= made'[n]
      BY <1>g, <3>0 DEF Named, Known, TypeOK
    <3>3. n \in added => Built(n)[1] = n /\ Built(n)[2] <= made'[n]
      BY <1>9
    <3> QED
      BY <1>0, <1>1, <3>1, <3>2, <3>3 DEF Known
  <2>2. \A i \in started' \cup shut' : i[2] <= made'[i[1]]
    <3>1. \A i \in fresh : i[2] <= made'[i[1]]
      BY <1>0, <1>9 DEF fresh
    <3>2. \A i \in started \cup shut : i[2] <= made'[i[1]]
      BY <1>8 DEF Named, Known, TypeOK
    <3> QED
      BY <1>0, <1>1, <3>1, <3>2
  <2>3. \A r \in 1 .. MaxReloads : \A i \in tidy'[r].put : i[2] <= made'[i[1]]
    <3> SUFFICES ASSUME NEW r \in 1 .. MaxReloads, NEW i \in tidy'[r].put
                 PROVE  i[2] <= made'[i[1]]
      OBVIOUS
    <3>1. CASE r = reloads + 1
      <4>1. i \in fresh
        BY <1>2, <1>6, <3>1 DEF TypeOK
      <4> QED
        BY <1>0, <1>9, <4>1 DEF fresh
    <3>2. CASE r # reloads + 1
      <4>1. i \in tidy[r].put /\ i \in Instances
        BY <1>2, <3>2 DEF TypeOK
      <4> QED
        BY <1>8, <4>1 DEF Named, Known
    <3> QED
      BY <3>1, <3>2
  <2> QED
    BY <2>1, <2>2, <2>3 DEF Named, Known
<1>11. Early'
  BY <1>0 DEF Early
<1>12. \A n \in Names : n \in target \ disturbed' /\ n \in removed \cup added =>
         ~Pending(n) /\ n \notin removed /\ n \in up \cup (added \ up)
  BY <1>2, <1>3 DEF removed, added
<1>13. TidyOk'
  <2>1. ASSUME NEW r \in 1 .. MaxReloads
        PROVE  /\ \A n \in tidy'[r].remove : n \notin target \ disturbed'
               /\ \A i \in tidy'[r].put : i[1] \in target \ disturbed' => channels'[i[1]] = i
    <3>1. CASE r = reloads + 1
      <4>1. tidy'[r].remove = removed /\ tidy'[r].put = fresh
        BY <1>2, <1>6, <3>1 DEF TypeOK
      <4>2. \A n \in removed : n \notin target \ disturbed'
        BY <1>2 DEF removed
      <4>3. \A n \in up : channels'[Built(n)[1]] = Built(n)
        BY <1>0, <1>1, <1>3, <1>9
      <4>4. \A i \in fresh : channels'[i[1]] = i
        BY <4>3 DEF fresh
      <4> QED
        BY <4>1, <4>2, <4>4
    <3>2. CASE r # reloads + 1
      <4>1. tidy'[r] = tidy[r]
        BY <1>2, <3>2 DEF TypeOK
      <4>2. tidy[r].remove \subseteq Names /\ tidy[r].put \subseteq Instances
        BY DEF TypeOK
      <4>3. ASSUME NEW n \in tidy[r].remove
            PROVE  n \notin target \ disturbed'
        <5>1. Pending(n)
          BY DEF Pending
        <5>2. n \notin on \ disturbed
          BY DEF TidyOk
        <5>3. n \in target /\ n \notin on => n \in added
          BY DEF added
        <5> QED
          BY <1>2, <5>1, <5>2, <5>3
      <4>4. ASSUME NEW i \in tidy[r].put, i[1] \in target \ disturbed'
            PROVE  channels'[i[1]] = i
        <5>1. Pending(i[1]) /\ i[1] \in Names
          BY <4>2 DEF Pending, Instances
        <5>2. i[1] \notin added
          BY <1>2, <4>4, <5>1
        <5>3. i[1] \in on \ disturbed
          BY <1>2, <4>4, <5>2 DEF added
        <5>4. channels[i[1]] = i
          BY <5>3 DEF TidyOk
        <5> QED
          BY <1>1, <5>1, <5>2, <5>4
      <4> QED
        BY <4>1, <4>3, <4>4
    <3> QED
      BY <3>1, <3>2
  <2>2. \A r \in 1 .. MaxReloads, n \in Names : holder' = <<r, n>> => n \in tidy'[r].remove
    <3>1. \A r \in 1 .. MaxReloads, n \in Names : <<r, n>> \in (1 .. MaxReloads) \X Names
      OBVIOUS
    <3> QED
      BY <1>0, <3>1 DEF Free
  <2> QED
    BY <1>0, <2>1, <2>2 DEF TidyOk
<1>14. InHands'
  BY <1>0, <1>2 DEF InHands
<1>15. ASSUME ~crashed', NEW n \in on' \ disturbed', channels'[n] \in started'
       PROVE  /\ workers'[n] = channels'[n]
              /\ wpc'[workers'[n]] # "ended"
              /\ workers'[n] \notin shut'
              /\ ctx'[workers'[n]] \notin canceled'
  <2>0. n \in Names /\ canceled' = {}
    BY <1>0, <1>15 DEF Early, TypeOK
  <2>1. CASE n \in added
    <3>1. channels'[n] = Built(n)
      BY <1>1, <2>0, <2>1
    <3>2. Built(n) \in Instances /\ ~Known(Built(n))
      BY <1>0, <2>0, <2>1 DEF Built, Known, TypeOK
    <3>3. Built(n) \notin started /\ Built(n) \notin shut
      BY <3>2 DEF Named
    <3>4. Built(n) \in fresh
      BY <1>1, <1>15, <3>1, <3>3
    <3>5. n \in up
      BY <3>4 DEF fresh, Built
    <3> QED
      BY <1>0, <1>1, <1>2, <2>0, <3>1, <3>2, <3>3, <3>4, <3>5
  <2>2. CASE n \notin added
    <3>1. /\ n \notin up /\ n \in on \ disturbed
          /\ channels'[n] = channels[n] /\ workers'[n] = workers[n]
      BY <1>0, <1>1, <1>2, <1>15, <2>0, <2>2 DEF added
    <3>2. channels[n] \in Instances /\ channels[n] \notin fresh
      <4>1. channels[n] \in Instances
        BY <1>7, <1>15, <3>1 DEF TypeOK
      <4>2. Known(channels[n])
        BY <2>0, <4>1 DEF Named
      <4> QED
        BY <1>8, <4>1, <4>2
    <3>3. channels[n] \in started
      BY <1>1, <1>15, <3>1, <3>2
    <3>4. /\ workers[n] = channels[n] /\ wpc[workers[n]] # "ended"
          /\ workers[n] \notin shut
      BY <1>0, <3>1, <3>3 DEF StartedHaveWorkers, Free
    <3> QED
      BY <1>0, <1>2, <2>0, <3>1, <3>2, <3>4
  <2> QED
    BY <2>1, <2>2
<1>16. StartedHaveWorkers'
  BY <1>15 DEF StartedHaveWorkers
<1> QED
  BY <1>7, <1>10, <1>11, <1>13, <1>14, <1>16

-----------------------------------------------------------------------------
LEMMA ManagerUnregisters ==
  ASSUME ManagerInv, NEW r \in 1 .. MaxReloads, NEW n \in Names, Unregister(r, n)
  PROVE  ManagerInv'
<1> USE ChannelAssumption, NoneAssumption DEF ManagerInv
<1>0. /\ holder = None /\ n \in tidy[r].remove
      /\ workers' = workers /\ UNCHANGED <<phase, on, made, ctx, reloads, disturbed,
             started, wpc, cur, queue, sent, canceled, next, dpc, dworker, crashed>>
  BY DEF Unregister, Free, Frame, delivery
<1>1. n \notin on \ disturbed
  BY <1>0 DEF TidyOk
<1>2. channels' = channels \/ channels' = [channels EXCEPT ![n] = None]
  BY DEF Unregister
<1>3. /\ shut' = shut \/ (workers[n] # None /\ shut' = shut \cup {workers[n]})
      /\ holder' = None \/ (holder' = <<r, n>> /\ tidy' = tidy)
  <2>1. CASE workers[n] = None \/ workers[n] \in shut
    BY <1>0, <2>1 DEF Unregister
  <2>2. CASE workers[n] # None /\ workers[n] \notin shut
    BY <1>0, <2>2 DEF Unregister
  <2> QED
    BY <2>1, <2>2
<1>4. \/ tidy' = tidy
      \/ tidy' = [tidy EXCEPT ![r] = Nothing]
      \/ tidy' = [tidy EXCEPT ![r].remove = @ \ {n}]
  BY DEF Unregister
<1>5. \A q \in 1 .. MaxReloads :
        tidy'[q].remove \subseteq tidy[q].remove /\ tidy'[q].put \subseteq tidy[q].put
  <2>1. CASE tidy' = [tidy EXCEPT ![r] = Nothing]
    BY <2>1 DEF TypeOK, Nothing
  <2>2. CASE tidy' = [tidy EXCEPT ![r].remove = @ \ {n}]
    BY <2>2 DEF TypeOK
  <2> QED
    BY <1>4, <2>1, <2>2
<1>6. tidy' \in [1 .. MaxReloads -> [remove : SUBSET Names, put : SUBSET Instances]]
  <2>1. CASE tidy' = [tidy EXCEPT ![r].remove = @ \ {n}]
    <3>1. tidy[r] \in [remove : SUBSET Names, put : SUBSET Instances]
      BY DEF TypeOK
    <3>2. tidy'[r] = [tidy[r] EXCEPT !.remove = @ \ {n}]
      BY <2>1 DEF TypeOK
    <3>3. tidy'[r] \in [remove : SUBSET Names, put : SUBSET Instances]
      BY <3>1, <3>2
    <3>4. tidy' = [tidy EXCEPT ![r] = tidy'[r]]
      BY <2>1, <3>2 DEF TypeOK
    <3> QED
      BY <3>3, <3>4 DEF TypeOK
  <2>2. CASE tidy' = [tidy EXCEPT ![r] = Nothing]
    BY <2>2 DEF TypeOK, Nothing
  <2> QED
    BY <1>4, <2>1, <2>2 DEF TypeOK
<1>7. TypeOK'
  <2>1. channels' \in [Names -> Instances \cup {None}]
    BY <1>2 DEF TypeOK
  <2>3. shut' \subseteq Instances
    BY <1>3 DEF TypeOK
  <2>2. holder' \in {None} \cup ((1 .. MaxReloads) \X Names)
    BY <1>3
  <2> QED
    BY <1>0, <1>6, <2>1, <2>2, <2>3 DEF TypeOK
<1>8. \A m \in Names : channels'[m] = None \/ channels'[m] = channels[m]
  BY <1>2 DEF TypeOK
<1>9. Named'
  <2>1. \A i \in shut' : i[2] <= made[i[1]]
    BY <1>3 DEF Named, Known
  <2> QED
    BY <1>0, <1>5, <1>8, <2>1 DEF Named, Known
<1>10. Early'
  BY <1>0 DEF Early, Nothing
<1>11. \A m \in Names \ {n} : channels'[m] = channels[m]
  BY <1>2 DEF TypeOK
<1>12. TidyOk'
  <2>1. ASSUME NEW q \in 1 .. MaxReloads, NEW i \in tidy'[q].put, i[1] \in on \ disturbed
        PROVE  channels'[i[1]] = i
    <3>1. i \in tidy[q].put /\ i[1] \in Names \ {n}
      BY <1>1, <1>5, <2>1 DEF TypeOK
    <3> QED
      BY <1>11, <2>1, <3>1 DEF TidyOk
  <2>2. \A q \in 1 .. MaxReloads, m \in Names : holder' = <<q, m>> => m \in tidy'[q].remove
    <3> SUFFICES ASSUME NEW q \in 1 .. MaxReloads, NEW m \in Names, holder' = <<q, m>>
                 PROVE  m \in tidy'[q].remove
      OBVIOUS
    <3>1. <<q, m>> \in (1 .. MaxReloads) \X Names
      OBVIOUS
    <3>2. q = r /\ m = n /\ tidy' = tidy
      BY <1>3, <3>1
    <3> QED
      BY <1>0, <3>2
  <2> QED
    BY <1>0, <1>5, <2>1, <2>2 DEF TidyOk
<1>13. InHands'
  BY <1>0 DEF InHands
<1>14. StartedHaveWorkers'
  <2> SUFFICES ASSUME phase = "up", ~crashed, NEW m \in on \ disturbed,
                      channels'[m] \in started
               PROVE  /\ workers[m] = channels'[m] /\ wpc[workers[m]] # "ended"
                      /\ workers[m] \notin shut' /\ ctx[workers[m]] \notin canceled
    BY <1>0 DEF StartedHaveWorkers
  <2>1. m \in Names \ {n} /\ channels'[m] = channels[m]
    BY <1>1, <1>11 DEF TypeOK
  <2>2. /\ workers[m] = channels[m] /\ wpc[workers[m]] # "ended"
        /\ workers[m] \notin shut /\ ctx[workers[m]] \notin canceled
    BY <2>1 DEF StartedHaveWorkers
  <2>3. workers[m] # None
    BY <2>1, <2>2 DEF TypeOK
  <2>4. workers[n] # None => workers[m] # workers[n]
    BY <2>1, <2>3 DEF Named
  <2> QED
    BY <1>3, <2>1, <2>2, <2>4
<1> QED
  BY <1>7, <1>9, <1>10, <1>12, <1>13, <1>14

LEMMA ManagerUnregistered ==
  ASSUME ManagerInv, NEW r \in 1 .. MaxReloads, NEW n \in Names, Unregistered(r, n)
  PROVE  ManagerInv'
<1> USE ChannelAssumption, NoneAssumption DEF ManagerInv
<1>0. /\ holder = <<r, n>> /\ holder' = None /\ shut' = shut
      /\ UNCHANGED <<phase, on, made, ctx, reloads, disturbed,
             started, wpc, cur, queue, sent, canceled, next, dpc, dworker, crashed>>
  BY DEF Unregistered, Frame, delivery
<1>1. n \notin on \ disturbed
  BY <1>0 DEF TidyOk
<1>2. /\ channels' = [channels EXCEPT ![n] = None]
      /\ workers' = [workers EXCEPT ![n] = None]
      /\ tidy' = [tidy EXCEPT ![r].remove = @ \ {n}]
  BY DEF Unregistered
<1>3. \A q \in 1 .. MaxReloads :
        tidy'[q].remove \subseteq tidy[q].remove /\ tidy'[q].put = tidy[q].put
  BY <1>2 DEF TypeOK
<1>4. tidy' \in [1 .. MaxReloads -> [remove : SUBSET Names, put : SUBSET Instances]]
  <2>1. CASE tidy' = [tidy EXCEPT ![r].remove = @ \ {n}]
    <3>1. tidy[r] \in [remove : SUBSET Names, put : SUBSET Instances]
      BY DEF TypeOK
    <3>2. tidy'[r] = [tidy[r] EXCEPT !.remove = @ \ {n}]
      BY <2>1 DEF TypeOK
    <3>3. tidy'[r] \in [remove : SUBSET Names, put : SUBSET Instances]
      BY <3>1, <3>2
    <3>4. tidy' = [tidy EXCEPT ![r] = tidy'[r]]
      BY <2>1, <3>2 DEF TypeOK
    <3> QED
      BY <3>3, <3>4 DEF TypeOK
  <2> QED
    BY <1>2, <2>1
<1>5. TypeOK'
  <2>1. /\ channels' \in [Names -> Instances \cup {None}]
        /\ workers' \in [Names -> Instances \cup {None}]
    BY <1>2 DEF TypeOK
  <2> QED
    BY <1>0, <1>4, <2>1 DEF TypeOK
<1>6. \A m \in Names \ {n} : channels'[m] = channels[m] /\ workers'[m] = workers[m]
  BY <1>2 DEF TypeOK
<1>7. channels'[n] = None /\ workers'[n] = None
  BY <1>2 DEF TypeOK
<1>8. Named'
  <2>1. \A m \in Names : /\ channels'[m] \in {None, channels[m]}
                         /\ workers'[m] \in {None, workers[m]}
    BY <1>6, <1>7
  <2> QED
    BY <1>0, <1>3, <2>1 DEF Named, Known
<1>9. Early'
  <2>1. phase # "new"
    <3>1. <<r, n>> \in (1 .. MaxReloads) \X Names
      OBVIOUS
    <3> QED
      BY <1>0, <3>1 DEF Early
  <2> QED
    BY <1>0, <2>1 DEF Early
<1>10. TidyOk'
  <2>1. \A q \in 1 .. MaxReloads, m \in Names : holder' # <<q, m>>
    <3>1. \A q \in 1 .. MaxReloads, m \in Names : <<q, m>> \in (1 .. MaxReloads) \X Names
      OBVIOUS
    <3> QED
      BY <1>0, <3>1
  <2>2. ASSUME NEW q \in 1 .. MaxReloads, NEW i \in tidy'[q].put, i[1] \in on \ disturbed
        PROVE  channels'[i[1]] = i
    <3>1. i \in tidy[q].put /\ i[1] \in Names \ {n}
      BY <1>1, <1>3, <2>2 DEF TypeOK
    <3> QED
      BY <1>6, <2>2, <3>1 DEF TidyOk
  <2> QED
    BY <1>0, <1>3, <2>1, <2>2 DEF TidyOk
<1>11. InHands'
  BY <1>0 DEF InHands
<1>12. StartedHaveWorkers'
  <2>1. \A m \in on \ disturbed :
          m \in Names \ {n} /\ channels'[m] = channels[m] /\ workers'[m] = workers[m]
    BY <1>1, <1>6 DEF TypeOK
  <2> QED
    BY <1>0, <2>1 DEF StartedHaveWorkers
<1> QED
  BY <1>5, <1>8, <1>9, <1>10, <1>11, <1>12

LEMMA ManagerRegisters ==
  ASSUME ManagerInv, NEW r \in 1 .. MaxReloads, NEW i \in Instances, Register(r, i)
  PROVE  ManagerInv'
<1> USE ChannelAssumption, NoneAssumption DEF ManagerInv
<1>0. /\ holder = None /\ i \in tidy[r].put
      /\ UNCHANGED <<workers, shut, holder, phase, on, made, ctx, reloads, disturbed,
             started, wpc, cur, queue, sent, canceled, next, dpc, dworker, crashed>>
  BY DEF Register, Free, Frame, delivery
<1>1. /\ channels' = [channels EXCEPT ![i[1]] = i]
      /\ tidy' = [tidy EXCEPT ![r].put = @ \ {i}]
      /\ i[1] \in Names
  BY DEF Register, Instances
<1>2. \A q \in 1 .. MaxReloads :
        tidy'[q].remove = tidy[q].remove /\ tidy'[q].put \subseteq tidy[q].put
  BY <1>1 DEF TypeOK
<1>3. tidy' \in [1 .. MaxReloads -> [remove : SUBSET Names, put : SUBSET Instances]]
  <2>1. CASE tidy' = [tidy EXCEPT ![r].put = @ \ {i}]
    <3>1. tidy[r] \in [remove : SUBSET Names, put : SUBSET Instances]
      BY DEF TypeOK
    <3>2. tidy'[r] = [tidy[r] EXCEPT !.put = @ \ {i}]
      BY <2>1 DEF TypeOK
    <3>3. tidy'[r] \in [remove : SUBSET Names, put : SUBSET Instances]
      BY <3>1, <3>2
    <3>4. tidy' = [tidy EXCEPT ![r] = tidy'[r]]
      BY <2>1, <3>2 DEF TypeOK
    <3> QED
      BY <3>3, <3>4 DEF TypeOK
  <2> QED
    BY <1>1, <2>1
<1>4. TypeOK'
  <2>1. channels' \in [Names -> Instances \cup {None}]
    BY <1>1 DEF TypeOK
  <2> QED
    BY <1>0, <1>3, <2>1 DEF TypeOK
<1>5. /\ channels'[i[1]] = i
      /\ \A m \in Names \ {i[1]} : channels'[m] = channels[m]
  BY <1>1 DEF TypeOK
(* It is there already, unless the channel is disturbed. *)
<1>6. \A m \in on \ disturbed : channels'[m] = channels[m]
  <2>1. i[1] \in on \ disturbed => channels[i[1]] = i
    BY <1>0 DEF TidyOk
  <2>2. on \subseteq Names
    BY DEF TypeOK
  <2> QED
    BY <1>5, <2>1, <2>2
<1>7. Named'
  <2>1. \A m \in Names : channels'[m] = channels[m] \/ (m = i[1] /\ channels'[m] = i)
    BY <1>5
  <2> QED
    BY <1>0, <1>2, <2>1 DEF Named, Known
<1>8. Early'
  <2>1. phase # "new"
    BY <1>0 DEF Early, Nothing
  <2> QED
    BY <1>0, <2>1 DEF Early
<1>9. TidyOk'
  BY <1>0, <1>2, <1>6 DEF TidyOk
<1>10. InHands'
  BY <1>0 DEF InHands
<1>11. StartedHaveWorkers'
  BY <1>0, <1>6 DEF StartedHaveWorkers
<1> QED
  BY <1>4, <1>7, <1>8, <1>9, <1>10, <1>11

-----------------------------------------------------------------------------
LEMMA ManagerDispatches ==
  ASSUME ManagerInv, Dispatch
  PROVE  ManagerInv'
<1> USE ChannelAssumption, NoneAssumption DEF ManagerInv
<1>0. /\ ~crashed
      /\ UNCHANGED <<phase, on, made, channels, workers, ctx, reloads, disturbed,
             started, wpc, cur, sent, shut, canceled, tidy, holder>>
  BY DEF Dispatch, Receive, Enqueue, EnqueueClosed, DispatcherEnds, DispatcherOnly, tables
<1>1. /\ queue' \in [Instances -> Seq(Replies)] /\ next' \in 1 .. Last + 1
      /\ dpc' \in {"off", "recv", "send", "ended"} /\ dworker' \in Instances \cup {None}
      /\ crashed' \in BOOLEAN /\ (dpc' = "send" => next' > 1)
  <2>1. CASE Receive
    <3>1. Dest[next] \in Names /\ next + 1 \in 2 .. Last + 1
      BY <2>1 DEF Receive, TypeOK
    <3>2. crashed' \in BOOLEAN
      BY <2>1, Zenon DEF Receive, TypeOK
    <3> QED
      BY <2>1, <3>1, <3>2 DEF Receive, TypeOK
  <2>2. CASE Enqueue
    <3>1. next - 1 \in Replies /\ (dworker \in Instances => queue[dworker] \in Seq(Replies))
      BY <2>2 DEF Enqueue, InHands, TypeOK, Replies
    <3>2. dworker \in Instances => Append(queue[dworker], next - 1) \in Seq(Replies)
      BY <3>1
    <3>3. queue' \in [Instances -> Seq(Replies)]
      BY <2>2, <3>2 DEF Enqueue, TypeOK
    <3>4. crashed' \in BOOLEAN
      BY <2>2, Zenon DEF Enqueue, TypeOK
    <3> QED
      BY <2>2, <3>3, <3>4 DEF Enqueue, TypeOK
  <2>3. CASE EnqueueClosed
    BY <2>3 DEF EnqueueClosed, TypeOK, InHands
  <2>4. CASE DispatcherEnds
    <3>1. crashed' \in BOOLEAN
      BY <2>4, Zenon DEF DispatcherEnds, TypeOK
    <3> QED
      BY <2>4, <3>1 DEF DispatcherEnds, TypeOK
  <2> QED
    BY <2>1, <2>2, <2>3, <2>4 DEF Dispatch
<1>2. TypeOK'
  BY <1>0, <1>1 DEF TypeOK
<1>3. Named' /\ Early'
  BY <1>0 DEF Named, Known, Early
<1>4. TidyOk'
  BY <1>0 DEF TidyOk
<1>5. InHands'
  BY <1>0, <1>1 DEF InHands
<1>6. StartedHaveWorkers'
  BY <1>0 DEF StartedHaveWorkers
<1> QED
  BY <1>2, <1>3, <1>4, <1>5, <1>6

LEMMA ManagerWorks ==
  ASSUME ManagerInv, NEW i \in Instances, Work(i)
  PROVE  ManagerInv'
<1> USE ChannelAssumption, NoneAssumption DEF ManagerInv
<1>0. UNCHANGED <<phase, on, made, channels, workers, ctx, reloads, disturbed,
                  started, shut, canceled, tidy, holder, next, dpc, dworker, crashed>>
  BY DEF Work, Take, WorkerEnds, Admit, Deliver, GiveUp, WorkerOnly, tables
<1>1. /\ wpc' \in [Instances -> {"none", "idle", "wait", "send", "ended"}]
      /\ \A j \in Instances \ {i} : wpc'[j] = wpc[j] /\ cur'[j] = cur[j]
      /\ cur' \in [Instances -> Replies \cup {None}]
      /\ queue' \in [Instances -> Seq(Replies)] /\ sent' \in Seq(Replies)
      /\ wpc'[i] \in {"wait", "send"} => cur'[i] # None
      /\ wpc'[i] = "ended" =>
           wpc[i] = "ended" \/ i \in shut \/ ctx[i] \in canceled
  <2>1. CASE Take(i)
    <3>1. queue[i] \in Seq(Replies) /\ queue[i] # << >>
      BY <2>1 DEF Take, TypeOK
    <3>2. Head(queue[i]) \in Replies /\ Tail(queue[i]) \in Seq(Replies)
      BY <3>1
    <3>3. Head(queue[i]) # None
      BY <3>2 DEF Replies
    <3> QED
      BY <2>1, <3>2, <3>3 DEF Take, TypeOK
  <2>2. CASE WorkerEnds(i)
    BY <2>2 DEF WorkerEnds, TypeOK
  <2>3. CASE Admit(i)
    BY <2>3 DEF Admit, TypeOK, InHands
  <2>4. CASE Deliver(i)
    <3>1. cur[i] \in Replies
      BY <2>4 DEF Deliver, TypeOK, InHands
    <3>2. Append(sent, cur[i]) \in Seq(Replies)
      BY <3>1 DEF TypeOK
    <3> QED
      BY <2>4, <3>2 DEF Deliver, TypeOK
  <2>5. CASE GiveUp(i)
    BY <2>5 DEF GiveUp, TypeOK
  <2> QED
    BY <2>1, <2>2, <2>3, <2>4, <2>5 DEF Work
<1>2. TypeOK'
  BY <1>0, <1>1 DEF TypeOK
<1>3. Named' /\ Early'
  BY <1>0 DEF Named, Known, Early
<1>4. TidyOk'
  BY <1>0 DEF TidyOk
<1>5. InHands'
  BY <1>0, <1>1 DEF InHands
<1>6. StartedHaveWorkers'
  BY <1>0, <1>1 DEF StartedHaveWorkers, TypeOK
<1> QED
  BY <1>2, <1>3, <1>4, <1>5, <1>6

-----------------------------------------------------------------------------
LEMMA ManagerStep ==
  ASSUME ManagerInv, [Next]_vars
  PROVE  ManagerInv'
<1>1. CASE \E up \in SUBSET Names : StartAll(up)
  BY <1>1, ManagerStarted
<1>2. CASE \E target, changed, up \in SUBSET Names : Reload(target, changed, up)
  BY <1>2, ManagerReloaded
<1>3. CASE StopAll \/ AllStopped
  BY <1>3, ManagerStopped
<1>4. CASE \E r \in 1 .. MaxReloads : Tidy(r)
  BY <1>4, ManagerUnregisters, ManagerUnregistered, ManagerRegisters DEF Tidy
<1>5. CASE Dispatch
  BY <1>5, ManagerDispatches
<1>6. CASE \E i \in Instances : Work(i)
  BY <1>6, ManagerWorks
<1>7. CASE UNCHANGED vars
  BY <1>7 DEF vars, tables, delivery, ManagerInv, TypeOK, Named, Known, Early, TidyOk,
              InHands, StartedHaveWorkers
<1> QED
  BY <1>1, <1>2, <1>3, <1>4, <1>5, <1>6, <1>7 DEF Next

LEMMA ManagerInvariant == Spec => []ManagerInv
<1> QED
  BY ManagerStarts, ManagerStep, PTL DEF Spec

(* The tables, the queues and the points of the goroutines have their      *)
(* types; in particular a worker always has a reply in its hands when it   *)
(* sends one, and the dispatcher one when it enqueues (runWorker and       *)
(* dispatchLoop).                                                          *)
THEOREM ManagerTypeCorrect == Spec => []TypeOK
<1>1. ManagerInv => TypeOK
  BY DEF ManagerInv
<1> QED
  BY <1>1, ManagerInvariant, PTL

(* Whatever reloads do to other channels, and however their goroutines     *)
(* interleave with them, a started channel that none of them has changed   *)
(* keeps its worker, its queue and its context (Reload, UnregisterChannel, *)
(* RegisterChannel).                                                       *)
THEOREM WorkersSurviveReloads == Spec => []StartedHaveWorkers
<1>1. ManagerInv => StartedHaveWorkers
  BY DEF ManagerInv
<1> QED
  BY <1>1, ManagerInvariant, PTL

-----------------------------------------------------------------------------
(***************************************************************************)
(* The order of the replies.                                               *)
(***************************************************************************)
Alive(i) == wpc[i] \in {"idle", "wait", "send"}
InHand(i) == dpc = "send" /\ dworker = i

(* A worker whose queue is closed is gone from the table, or about to be.  *)
ShutOk ==
  \A n \in Names : workers[n] # None /\ workers[n] \in shut =>
    phase \in {"stopping", "stopped"} \/ \E r \in 1 .. MaxReloads : holder = <<r, n>>

(* A worker of a channel that is not enabled has yet to be removed.        *)
Off ==
  /\ \A r \in 1 .. MaxReloads : r > reloads => tidy[r] = Nothing
  /\ phase = "up" =>
       \A n \in Names \ (on \cup disturbed) : workers[n] # None =>
         \E r \in 1 .. MaxReloads : n \in tidy[r].remove

(* A worker that has not begun has nothing, and none has begun before it   *)
(* was built.                                                              *)
Unborn ==
  /\ \A i \in Instances :
       /\ wpc[i] = "none" => queue[i] = << >> /\ cur[i] = None /\ dworker # i
       /\ phase = "new" \/ ~Known(i) => wpc[i] = "none"
  /\ \A n \in Names : workers[n] # None => wpc[workers[n]] # "none"

(* An undisturbed channel has no worker at work but the one in the table.  *)
Single == \A i \in Instances : Alive(i) /\ i[1] \notin disturbed => workers[i[1]] = i

(* Replies are in the hands of their channel's workers, and have left the  *)
(* bus.                                                                    *)
Addressed ==
  /\ dpc = "send" => dworker # None /\ Dest[next - 1] = dworker[1]
  /\ \A i \in Instances :
       /\ cur[i] # None => Dest[cur[i]] = i[1] /\ cur[i] < next
       /\ \A p \in 1 .. Len(queue[i]) : Dest[queue[i][p]] = i[1] /\ queue[i][p] < next
  /\ \A j \in 1 .. Len(sent) : sent[j] < next

(* From the sent replies of a channel over the one in its worker's hands   *)
(* and the queue to the one the dispatcher is about to enqueue, they rise. *)
Line(i) ==
  /\ \A j \in 1 .. Len(sent) : Dest[sent[j]] = i[1] =>
       /\ cur[i] # None => sent[j] < cur[i]
       /\ \A p \in 1 .. Len(queue[i]) : sent[j] < queue[i][p]
       /\ InHand(i) => sent[j] < next - 1
  /\ cur[i] # None =>
       /\ \A p \in 1 .. Len(queue[i]) : cur[i] < queue[i][p]
       /\ InHand(i) => cur[i] < next - 1
  /\ \A p \in 1 .. Len(queue[i]) :
       /\ \A q \in 1 .. Len(queue[i]) : p < q => queue[i][p] < queue[i][q]
       /\ InHand(i) => queue[i][p] < next - 1

InLine == \A i \in Instances : Alive(i) /\ i[1] \notin disturbed => Line(i)

OrderInv ==
  ManagerInv /\ ShutOk /\ Off /\ Unborn /\ Single /\ Addressed /\ InLine /\ RepliesInOrder

LEMMA LineKept ==
  ASSUME NEW i \in Instances, Line(i),
         cur'[i] = cur[i], queue'[i] = queue[i], sent' = sent,
         InHand(i)' => InHand(i) /\ next' = next
  PROVE  Line(i)'
BY DEF Line

LEMMA EmptyLine ==
  ASSUME NEW i \in Instances, cur'[i] = None, queue'[i] = << >>, ~InHand(i)'
  PROVE  Line(i)'
BY DEF Line

(* A step that moves no reply, when it disturbs no channel more and begins *)
(* only workers with nothing in their queues.                              *)
LEMMA NothingMoves ==
  ASSUME OrderInv, UNCHANGED <<cur, queue, sent, next, dworker>>,
         dpc' = "send" => dpc = "send",
         disturbed \subseteq disturbed',
         \A i \in Instances : Alive(i)' =>
           Alive(i) \/ (cur[i] = None /\ queue[i] = << >> /\ dworker # i)
  PROVE  Addressed' /\ InLine' /\ RepliesInOrder'
<1>1. Addressed'
  BY DEF OrderInv, Addressed
<1>2. RepliesInOrder'
  BY DEF OrderInv, RepliesInOrder
<1>3. ASSUME NEW i \in Instances, Alive(i)', i[1] \notin disturbed' PROVE Line(i)'
  <2>1. CASE Alive(i)
    <3>1. Line(i)
      BY <1>3, <2>1 DEF OrderInv, InLine
    <3> QED
      BY <3>1, LineKept DEF InHand
  <2>2. CASE cur[i] = None /\ queue[i] = << >> /\ dworker # i
    BY <2>2, EmptyLine DEF InHand
  <2> QED
    BY <1>3, <2>1, <2>2
<1>4. InLine'
  BY <1>3 DEF InLine
<1> QED
  BY <1>1, <1>2, <1>4

LEMMA OrderStarts == Init => OrderInv
<1> SUFFICES ASSUME Init PROVE OrderInv
  OBVIOUS
<1>1. ManagerInv
  BY ManagerStarts
<1>2. /\ \A n \in Names : workers[n] = None
      /\ \A i \in Instances : wpc[i] = "none" /\ cur[i] = None /\ queue[i] = << >>
      /\ \A r \in 1 .. MaxReloads : tidy[r] = Nothing
      /\ phase = "new" /\ dpc = "off" /\ dworker = None /\ sent = << >>
  BY DEF Init
<1>3. \A i \in Instances : i # None
  BY NoneAssumption
<1>4. ShutOk /\ Off
  BY <1>2 DEF ShutOk, Off
<1>5. Unborn /\ Single /\ InLine
  BY <1>2, <1>3 DEF Unborn, Single, InLine, Alive
<1>6. Addressed /\ RepliesInOrder
  BY <1>2 DEF Addressed, RepliesInOrder
<1> QED
  BY <1>1, <1>4, <1>5, <1>6 DEF OrderInv

LEMMA OrderStarted ==
  ASSUME OrderInv, NEW up \in SUBSET Names, StartAll(up)
  PROVE  OrderInv'
<1>0. ManagerInv /\ TypeOK /\ Named /\ Early /\ ShutOk /\ Off /\ Unborn /\ Single
  BY DEF OrderInv, ManagerInv
<1>1. ManagerInv'
  BY <1>0, ManagerStarted
<1>2. /\ phase = "new" /\ phase' \in {"up", "failed"} /\ up \subseteq on
      /\ started' = {channels[n] : n \in up}
      /\ workers' = [n \in Names |-> IF n \in up THEN channels[n] ELSE None]
      /\ wpc' = [i \in Instances |-> IF i \in started' THEN "idle" ELSE "none"]
      /\ dpc' \in {dpc, "recv"}
      /\ UNCHANGED <<on, made, reloads, disturbed, cur, queue, sent, shut, tidy, holder, next,
                     dworker>>
  BY DEF StartAll
<1>3. \A n \in up : channels[n] \in Instances /\ channels[n] # None
                    /\ channels[n][1] = n /\ Known(channels[n])
  BY <1>0, <1>2, NoneAssumption DEF Early, Named, TypeOK
<1>4. \A i \in Instances : wpc[i] = "none" /\ queue[i] = << >> /\ cur[i] = None /\ dworker # i
  BY <1>0, <1>2 DEF Unborn
<1>5. Addressed' /\ InLine' /\ RepliesInOrder'
  BY <1>2, <1>4, NothingMoves
<1>6. ShutOk'
  BY <1>0, <1>2 DEF ShutOk, Early
<1>7. Off'
  BY <1>0, <1>2 DEF Off, TypeOK
<1>8. Unborn'
  <2>1. \A i \in Instances : wpc'[i] # "none" => Known(i)'
    BY <1>2, <1>3 DEF Known
  <2>2. \A n \in Names : workers'[n] # None => wpc'[workers'[n]] # "none"
    BY <1>2, <1>3
  <2> QED
    BY <1>2, <1>4, <2>1, <2>2 DEF Unborn
<1>9. Single'
  <2>1. \A i \in Instances : i \in started' => i[1] \in Names /\ workers'[i[1]] = i
    BY <1>2, <1>3
  <2> QED
    BY <1>2, <2>1 DEF Single, Alive
<1> QED
  BY <1>1, <1>5, <1>6, <1>7, <1>8, <1>9 DEF OrderInv

LEMMA OrderStopped ==
  ASSUME OrderInv, StopAll \/ AllStopped
  PROVE  OrderInv'
<1>0. ManagerInv /\ TypeOK /\ ShutOk /\ Off /\ Unborn /\ Single
  BY DEF OrderInv, ManagerInv
<1>1. ManagerInv'
  BY <1>0, ManagerStopped
<1>2. /\ phase' \in {"stopping", "stopped"} /\ phase # "new"
      /\ UNCHANGED <<on, made, workers, wpc, reloads, disturbed, cur, queue, sent, tidy, next,
                     dpc, dworker, holder>>
  BY DEF StopAll, AllStopped, tables, delivery
<1>3. Addressed' /\ InLine' /\ RepliesInOrder'
  BY <1>2, NothingMoves DEF Alive
<1>4. ShutOk' /\ Off' /\ Unborn' /\ Single'
  BY <1>0, <1>2 DEF ShutOk, Off, Unborn, Single, Alive, Known
<1> QED
  BY <1>1, <1>3, <1>4 DEF OrderInv

LEMMA OrderReloaded ==
  ASSUME OrderInv,
         NEW target \in SUBSET Names, NEW changed \in SUBSET Names,
         NEW up \in SUBSET Names, Reload(target, changed, up)
  PROVE  OrderInv'
<1> DEFINE removed == (on \ target) \cup changed
           added   == (target \ on) \cup changed
           fresh   == {Built(n) : n \in up}
<1>0. ManagerInv /\ TypeOK /\ Named /\ ShutOk /\ Off /\ Unborn /\ Single
  BY DEF OrderInv, ManagerInv
<1>1. ManagerInv'
  BY <1>0, ManagerReloaded
<1>2. /\ phase = "up" /\ Free /\ phase' = phase
      /\ changed \subseteq on \cap target /\ up \subseteq added /\ added \subseteq Names
      /\ reloads < MaxReloads /\ reloads' = reloads + 1
      /\ \A n \in added : Built(n) \in Instances
      /\ on' = target
      /\ UNCHANGED <<cur, queue, sent, next, dpc, dworker, shut, holder>>
  BY <1>0 DEF Reload, Removed, Added, TypeOK
<1>3. /\ made' = [n \in Names |-> IF n \in added THEN made[n] + 1 ELSE made[n]]
      /\ workers' = [n \in Names |-> IF n \in up THEN Built(n) ELSE workers[n]]
      /\ wpc' = [i \in Instances |-> IF i \in fresh THEN "idle" ELSE wpc[i]]
      /\ tidy' = [tidy EXCEPT ![reloads + 1] = [remove |-> removed, put |-> fresh]]
      /\ disturbed' = disturbed \cup changed \cup {n \in removed \cup added : Pending(n)}
  BY DEF Reload, Removed, Added
<1> HIDE DEF removed, added, fresh
<1>4. \A n \in added : made[n] \in Nat /\ made'[n] = made[n] + 1
  BY <1>2, <1>3 DEF TypeOK, OrderInv, ManagerInv
<1>5. \A n \in up : /\ Built(n) \in Instances /\ Built(n)[1] = n
                    /\ ~Known(Built(n)) /\ Built(n)[2] <= made'[n]
  <2> SUFFICES ASSUME NEW n \in up
               PROVE  /\ Built(n) \in Instances /\ Built(n)[1] = n
                      /\ ~Known(Built(n)) /\ Built(n)[2] <= made'[n]
    OBVIOUS
  <2>1. made[n] \in Nat /\ made'[n] = made[n] + 1 /\ Built(n) \in Instances
    BY <1>2, <1>4
  <2>2. Built(n)[1] = n /\ Built(n)[2] = made[n] + 1
    BY DEF Built
  <2> QED
    BY <2>1, <2>2 DEF Known
<1>6. \A i \in fresh : /\ i \in Instances /\ ~Known(i) /\ Known(i)' /\ i[1] \in up
                       /\ i = Built(i[1])
  BY <1>5 DEF fresh, Known
<1>7. \A i \in Instances : Known(i) => Known(i)'
  <2>1. \A i \in Instances : i[1] \in Names /\ i[2] \in Nat
    BY DEF Instances
  <2>2. \A n \in Names : made[n] \in Nat /\ made'[n] \in Nat /\ made[n] <= made'[n]
    BY <1>0, <1>3 DEF TypeOK
  <2> QED
    BY <2>1, <2>2 DEF Known
<1>8. \A i \in fresh : wpc[i] = "none" /\ cur[i] = None /\ queue[i] = << >> /\ dworker # i
  BY <1>0, <1>6 DEF Unborn
<1>9. Addressed' /\ InLine' /\ RepliesInOrder'
  <2>1. \A i \in Instances : Alive(i)' =>
          Alive(i) \/ (cur[i] = None /\ queue[i] = << >> /\ dworker # i)
    BY <1>3, <1>8 DEF Alive
  <2> QED
    BY <1>2, <1>3, <2>1, NothingMoves
<1>10. ShutOk'
  <2>1. \A n \in Names : workers[n] # None => workers[n] \notin shut
    <3>1. \A r \in 1 .. MaxReloads, n \in Names : holder # <<r, n>>
      <4>1. \A r \in 1 .. MaxReloads, n \in Names : <<r, n>> \in (1 .. MaxReloads) \X Names
        OBVIOUS
      <4> QED
        BY <1>2, <4>1, NoneAssumption DEF Free
    <3> QED
      BY <1>0, <1>2, <3>1 DEF ShutOk
  <2>2. \A n \in up : Built(n) \notin shut
    BY <1>0, <1>5 DEF Named
  <2> QED
    BY <1>2, <1>3, <2>1, <2>2 DEF ShutOk
<1>11. reloads \in Nat /\ reloads + 1 \in 1 .. MaxReloads
  BY <1>0, <1>2, ChannelAssumption DEF TypeOK
<1>12. /\ tidy'[reloads + 1].remove = removed /\ tidy[reloads + 1] = Nothing
       /\ \A r \in 1 .. MaxReloads : r # reloads + 1 => tidy'[r] = tidy[r]
  BY <1>0, <1>3, <1>11 DEF TypeOK, Off
<1>13. Off'
  <2>1. \A r \in 1 .. MaxReloads : r > reloads' => tidy'[r] = Nothing
    BY <1>0, <1>2, <1>11, <1>12 DEF Off
  <2>2. ASSUME NEW n \in Names \ (target \cup disturbed'), workers'[n] # None
        PROVE  \E r \in 1 .. MaxReloads : n \in tidy'[r].remove
    <3>1. CASE n \in on
      <4>1. n \in removed
        BY <2>2, <3>1 DEF removed
      <4> QED
        BY <1>11, <1>12, <4>1
    <3>2. CASE n \notin on
      <4>1. n \notin added /\ n \notin up /\ workers[n] # None /\ n \notin disturbed
        BY <1>2, <1>3, <2>2, <3>2 DEF added
      <4>2. PICK r \in 1 .. MaxReloads : n \in tidy[r].remove
        BY <1>0, <1>2, <3>2, <4>1 DEF Off
      <4>3. r # reloads + 1
        BY <1>12, <4>2 DEF Nothing
      <4> QED
        BY <1>12, <4>2, <4>3
    <3> QED
      BY <3>1, <3>2
  <2> QED
    BY <1>2, <2>1, <2>2 DEF Off
<1>14. Unborn'
  <2>1. ASSUME NEW i \in Instances
        PROVE  /\ wpc'[i] = "none" => queue[i] = << >> /\ cur[i] = None /\ dworker # i
               /\ ~Known(i)' => wpc'[i] = "none"
    BY <1>0, <1>3, <1>6, <1>7 DEF Unborn
  <2>2. \A n \in Names : workers'[n] # None => wpc'[workers'[n]] # "none"
    <3> SUFFICES ASSUME NEW n \in Names, workers'[n] # None PROVE wpc'[workers'[n]] # "none"
      OBVIOUS
    <3>1. CASE n \in up
      <4>1. workers'[n] = Built(n) /\ Built(n) \in fresh /\ Built(n) \in Instances
        BY <1>3, <1>5, <3>1 DEF fresh
      <4> QED
        BY <1>3, <4>1
    <3>2. CASE n \notin up
      <4>1. workers'[n] = workers[n] /\ workers[n] \in Instances /\ wpc[workers[n]] # "none"
        BY <1>0, <1>3, <3>2 DEF TypeOK, Unborn
      <4> QED
        BY <1>3, <4>1
    <3> QED
      BY <3>1, <3>2
  <2> QED
    BY <1>2, <2>1, <2>2 DEF Unborn
<1>15. Single'
  <2> SUFFICES ASSUME NEW i \in Instances, Alive(i)', i[1] \notin disturbed'
               PROVE  workers'[i[1]] = i
    BY DEF Single
  <2>0. i[1] \in Names
    BY DEF Instances
  <2>1. CASE i \in fresh
    BY <1>3, <1>6, <2>0, <2>1
  <2>2. CASE i \notin fresh
    <3>1. workers[i[1]] = i
      BY <1>0, <1>3, <2>2 DEF Single, Alive
    <3>2. i[1] \notin up
      <4>1. SUFFICES ASSUME i[1] \in up PROVE FALSE
        OBVIOUS
      <4>2. i[1] \notin on /\ i[1] \notin disturbed /\ ~Pending(i[1])
        BY <1>2, <1>3, <4>1 DEF added
      <4>3. i # None
        BY NoneAssumption
      <4>4. \E r \in 1 .. MaxReloads : i[1] \in tidy[r].remove
        BY <1>0, <1>2, <2>0, <3>1, <4>2, <4>3 DEF Off
      <4> QED
        BY <4>2, <4>4 DEF Pending
    <3> QED
      BY <1>3, <2>0, <3>1, <3>2
  <2> QED
    BY <2>1, <2>2
<1> QED
  BY <1>1, <1>9, <1>10, <1>13, <1>14, <1>15 DEF OrderInv

LEMMA OrderUnregisters ==
  ASSUME OrderInv, NEW r \in 1 .. MaxReloads, NEW n \in Names, Unregister(r, n)
  PROVE  OrderInv'
<1>0. ManagerInv /\ TypeOK /\ Named /\ ShutOk /\ Off /\ Unborn /\ Single
  BY DEF OrderInv, ManagerInv
<1>1. ManagerInv'
  BY <1>0, ManagerUnregisters
<1>2. /\ holder = None /\ n \in tidy[r].remove
      /\ UNCHANGED <<phase, on, made, workers, reloads, disturbed, wpc, cur, queue, sent, next,
                     dpc, dworker>>
  BY DEF Unregister, Free, Frame, delivery
<1>3. Addressed' /\ InLine' /\ RepliesInOrder'
  BY <1>2, NothingMoves DEF Alive
<1>4. \A m \in Names : workers[m] # None /\ workers[m] \in shut => phase \in {"stopping", "stopped"}
  <2>1. \A q \in 1 .. MaxReloads, m \in Names : <<q, m>> \in (1 .. MaxReloads) \X Names
    OBVIOUS
  <2> QED
    BY <1>0, <1>2, <2>1, NoneAssumption DEF ShutOk
<1>5. ShutOk'
  <2>1. CASE shut' = shut
    BY <1>2, <1>4, <2>1 DEF ShutOk
  <2>2. CASE workers[n] # None /\ shut' = shut \cup {workers[n]} /\ holder' = <<r, n>>
    <3>1. \A m \in Names \ {n} : workers[m] # None => workers[m] # workers[n]
      BY <1>0, <2>2 DEF Named
    <3> QED
      BY <1>2, <1>4, <2>2, <3>1 DEF ShutOk
  <2> QED
    BY <2>1, <2>2 DEF Unregister
<1>6. \/ workers[n] = None /\ tidy' = [tidy EXCEPT ![r].remove = @ \ {n}]
      \/ /\ workers[n] # None /\ workers[n] \in shut
         /\ tidy' = [tidy EXCEPT ![r] = Nothing]
      \/ tidy' = tidy
  BY DEF Unregister
<1>7. \A q \in 1 .. MaxReloads : q > reloads => q # r
  BY <1>0, <1>2 DEF Off, Nothing
<1>8. Off'
  <2>1. CASE workers[n] = None /\ tidy' = [tidy EXCEPT ![r].remove = @ \ {n}]
    <3>1. \A q \in 1 .. MaxReloads : /\ q # r => tidy'[q] = tidy[q]
                                     /\ tidy[q].remove \ {n} \subseteq tidy'[q].remove
      BY <1>0, <2>1 DEF TypeOK
    <3>2. \A q \in 1 .. MaxReloads : q > reloads' => tidy'[q] = Nothing
      BY <1>0, <1>2, <1>7, <3>1 DEF Off
    <3>3. phase' = "up" => \A m \in Names \ (on' \cup disturbed') : workers'[m] # None =>
             \E q \in 1 .. MaxReloads : m \in tidy'[q].remove
      BY <1>0, <1>2, <2>1, <3>1 DEF Off
    <3> QED
      BY <3>2, <3>3 DEF Off
  <2>2. CASE /\ workers[n] # None /\ workers[n] \in shut
             /\ tidy' = [tidy EXCEPT ![r] = Nothing]
    <3>1. phase # "up"
      BY <1>4, <2>2
    <3>2. \A q \in 1 .. MaxReloads : q > reloads => tidy'[q] = Nothing
      BY <1>0, <2>2 DEF TypeOK, Off
    <3> QED
      BY <1>2, <3>1, <3>2 DEF Off
  <2>3. CASE tidy' = tidy
    BY <1>0, <1>2, <2>3 DEF Off
  <2> QED
    BY <1>6, <2>1, <2>2, <2>3
<1>9. Unborn' /\ Single'
  BY <1>0, <1>2 DEF Unborn, Single, Alive, Known
<1> QED
  BY <1>1, <1>3, <1>5, <1>8, <1>9 DEF OrderInv

LEMMA OrderUnregistered ==
  ASSUME OrderInv, NEW r \in 1 .. MaxReloads, NEW n \in Names, Unregistered(r, n)
  PROVE  OrderInv'
<1>0. ManagerInv /\ TypeOK /\ Named /\ TidyOk /\ ShutOk /\ Off /\ Unborn /\ Single
  BY DEF OrderInv, ManagerInv
<1>1. ManagerInv'
  BY <1>0, ManagerUnregistered
<1>2. /\ holder = <<r, n>> /\ holder' = None /\ shut' = shut
      /\ wpc[workers[n]] = "ended"
      /\ workers' = [workers EXCEPT ![n] = None]
      /\ tidy' = [tidy EXCEPT ![r].remove = @ \ {n}]
      /\ UNCHANGED <<phase, on, made, reloads, disturbed, wpc, cur, queue, sent, next,
                     dpc, dworker>>
  BY DEF Unregistered, Frame, delivery
<1>3. Addressed' /\ InLine' /\ RepliesInOrder'
  BY <1>2, NothingMoves DEF Alive
<1>4. workers'[n] = None /\ \A m \in Names \ {n} : workers'[m] = workers[m]
  BY <1>0, <1>2 DEF TypeOK
<1>5. ShutOk'
  <2>1. \A q \in 1 .. MaxReloads, m \in Names \ {n} : holder # <<q, m>>
    BY <1>2
  <2> QED
    BY <1>0, <1>2, <1>4, <2>1 DEF ShutOk
<1>6. n \in tidy[r].remove
  BY <1>0, <1>2 DEF TidyOk
<1>7. Off'
  <2>1. \A q \in 1 .. MaxReloads : /\ q # r => tidy'[q] = tidy[q]
                                   /\ tidy[q].remove \ {n} \subseteq tidy'[q].remove
    BY <1>0, <1>2 DEF TypeOK
  <2>2. \A q \in 1 .. MaxReloads : q > reloads => q # r
    BY <1>0, <1>6 DEF Off, Nothing
  <2>3. \A q \in 1 .. MaxReloads : q > reloads' => tidy'[q] = Nothing
    BY <1>0, <1>2, <2>1, <2>2 DEF Off
  <2>4. phase' = "up" => \A m \in Names \ (on' \cup disturbed') : workers'[m] # None =>
           \E q \in 1 .. MaxReloads : m \in tidy'[q].remove
    BY <1>0, <1>2, <1>4, <2>1 DEF Off
  <2> QED
    BY <2>3, <2>4 DEF Off
<1>8. Unborn'
  BY <1>0, <1>2, <1>4 DEF Unborn, Known
<1>9. Single'
  <2> SUFFICES ASSUME NEW i \in Instances, Alive(i), i[1] \notin disturbed
               PROVE  workers'[i[1]] = i
    BY <1>2 DEF Single, Alive
  <2>1. i[1] \in Names /\ workers[i[1]] = i
    BY <1>0 DEF Single, Instances
  <2>2. i[1] # n
    BY <1>2, <2>1 DEF Alive
  <2> QED
    BY <1>4, <2>1, <2>2
<1> QED
  BY <1>1, <1>3, <1>5, <1>7, <1>8, <1>9 DEF OrderInv

LEMMA OrderRegisters ==
  ASSUME OrderInv, NEW r \in 1 .. MaxReloads, NEW i \in Instances, Register(r, i)
  PROVE  OrderInv'
<1>0. ManagerInv /\ TypeOK /\ ShutOk /\ Off /\ Unborn /\ Single
  BY DEF OrderInv, ManagerInv
<1>1. ManagerInv'
  BY <1>0, ManagerRegisters
<1>2. /\ i \in tidy[r].put /\ tidy' = [tidy EXCEPT ![r].put = @ \ {i}]
      /\ UNCHANGED <<phase, on, made, workers, shut, holder, reloads, disturbed, wpc, cur, queue,
                     sent, next, dpc, dworker>>
  BY DEF Register, Frame, delivery
<1>3. Addressed' /\ InLine' /\ RepliesInOrder'
  BY <1>2, NothingMoves DEF Alive
<1>4. Off'
  <2>1. \A q \in 1 .. MaxReloads : /\ q # r => tidy'[q] = tidy[q]
                                   /\ tidy'[q].remove = tidy[q].remove
    BY <1>0, <1>2 DEF TypeOK
  <2>2. \A q \in 1 .. MaxReloads : q > reloads => q # r
    BY <1>0, <1>2 DEF Off, Nothing
  <2> QED
    BY <1>0, <1>2, <2>1, <2>2 DEF Off
<1>5. ShutOk' /\ Unborn' /\ Single'
  BY <1>0, <1>2 DEF ShutOk, Unborn, Single, Alive, Known
<1> QED
  BY <1>1, <1>3, <1>4, <1>5 DEF OrderInv

-----------------------------------------------------------------------------
LEMMA OrderDispatches ==
  ASSUME OrderInv, Dispatch
  PROVE  OrderInv'
<1>0. /\ ManagerInv /\ TypeOK /\ Named /\ InHands /\ ShutOk /\ Off /\ Unborn /\ Single
      /\ Addressed /\ InLine /\ RepliesInOrder
  BY DEF OrderInv, ManagerInv
<1>1. ManagerInv'
  BY <1>0, ManagerDispatches
<1>2. UNCHANGED <<phase, on, made, channels, workers, reloads, disturbed, wpc, cur, sent, shut,
                  tidy, holder>>
  BY DEF Dispatch, Receive, Enqueue, EnqueueClosed, DispatcherEnds, DispatcherOnly, tables
<1>3. ShutOk' /\ Off' /\ Single' /\ RepliesInOrder'
  BY <1>0, <1>2 DEF ShutOk, Off, Single, Alive, RepliesInOrder
<1>4. ASSUME Unborn', Addressed', InLine' PROVE OrderInv'
  BY <1>1, <1>3, <1>4 DEF OrderInv
<1>t. /\ next \in Nat /\ cur \in [Instances -> Replies \cup {None}]
      /\ \A i \in Instances : queue[i] \in Seq(Replies) /\ Len(queue[i]) \in Nat
      /\ sent \in Seq(Replies) /\ Replies \subseteq Nat
  BY <1>0, ChannelAssumption DEF TypeOK, Replies
<1>5. CASE Receive
  <2> DEFINE n == Dest[next]
  <2>1. /\ dpc = "recv" /\ next' = next + 1 /\ queue' = queue
        /\ \/ /\ channels[n] # None /\ workers[n] # None
              /\ dpc' = "send" /\ dworker' = workers[n]
           \/ dpc' = dpc /\ dworker' = dworker
    BY <1>5 DEF Receive
  <2>2. n \in Names
    BY <1>0, <1>5, ChannelAssumption DEF Receive, TypeOK
  <2>3. next' - 1 = next
    BY <1>t, <2>1
  <2>4. Addressed'
    <3>1. dpc' = "send" => dworker' # None /\ Dest[next' - 1] = dworker'[1]
      BY <1>0, <2>1, <2>2, <2>3 DEF Named
    <3>2. \A x \in Replies : x < next => x < next'
      BY <1>t, <2>1
    <3>3. ASSUME NEW i \in Instances
          PROVE  /\ cur'[i] # None => Dest[cur'[i]] = i[1] /\ cur'[i] < next'
                 /\ \A p \in 1 .. Len(queue'[i]) : Dest[queue'[i][p]] = i[1] /\ queue'[i][p] < next'
      <4>1. \A p \in 1 .. Len(queue[i]) : queue[i][p] \in Replies
        BY <1>t
      <4> QED
        BY <1>0, <1>2, <1>t, <2>1, <3>2, <4>1 DEF Addressed
    <3>4. \A j \in 1 .. Len(sent') : sent'[j] < next'
      <4>1. \A j \in 1 .. Len(sent) : sent[j] \in Replies
        BY <1>t
      <4> QED
        BY <1>0, <1>2, <3>2, <4>1 DEF Addressed
    <3> QED
      BY <3>1, <3>3, <3>4 DEF Addressed
  <2>5. Unborn'
    BY <1>0, <1>2, <2>1, <2>2 DEF Unborn, Known
  <2>6. ASSUME NEW i \in Instances, Alive(i), i[1] \notin disturbed PROVE Line(i)'
    <3>1. Line(i)
      BY <1>0, <2>6 DEF InLine
    <3>2. /\ \A j \in 1 .. Len(sent) : sent[j] < next
          /\ cur[i] # None => cur[i] < next
          /\ \A p \in 1 .. Len(queue[i]) : queue[i][p] < next
      BY <1>0 DEF Addressed
    <3> QED
      BY <1>2, <2>1, <2>3, <3>1, <3>2 DEF Line
  <2>7. InLine'
    BY <1>2, <2>6 DEF InLine, Alive
  <2> QED
    BY <1>4, <2>4, <2>5, <2>7
<1>6. CASE Enqueue
  <2> DEFINE d == dworker
             q == queue[d]
  <2>1. /\ dpc = "send" /\ dpc' = "recv" /\ dworker' = None /\ next' = next
        /\ queue' = [queue EXCEPT ![d] = Append(@, next - 1)]
    BY <1>6 DEF Enqueue
  <2>2. d \in Instances /\ Dest[next - 1] = d[1] /\ wpc[d] # "none"
    BY <1>0, <2>1 DEF Addressed, TypeOK, Unborn
  <2>3. next - 1 \in Replies /\ next - 1 < next
    <3>1. next \in 1 .. Last + 1 /\ next > 1 /\ Last \in Nat
      BY <1>0, <2>1, ChannelAssumption DEF InHands, TypeOK
    <3> QED
      BY <3>1 DEF Replies
  <2>4. /\ queue'[d] = Append(q, next - 1)
        /\ \A i \in Instances \ {d} : queue'[i] = queue[i]
    BY <1>0, <2>1, <2>2 DEF TypeOK
  <2>5. q \in Seq(Replies) /\ Len(q) \in Nat
    BY <1>t, <2>2
  <2> HIDE DEF d, q
  <2>6. /\ Len(queue'[d]) = Len(q) + 1 /\ queue'[d][Len(q) + 1] = next - 1
        /\ \A p \in 1 .. Len(q) : queue'[d][p] = q[p]
    BY <2>3, <2>4, <2>5
  <2>7. Addressed'
    <3>1. \A p \in 1 .. Len(q) : Dest[q[p]] = d[1] /\ q[p] < next
      BY <1>0, <2>2 DEF Addressed, q
    <3>2. \A p \in 1 .. Len(queue'[d]) : Dest[queue'[d][p]] = d[1] /\ queue'[d][p] < next
      <4> SUFFICES ASSUME NEW p \in 1 .. Len(queue'[d])
                   PROVE  Dest[queue'[d][p]] = d[1] /\ queue'[d][p] < next
        OBVIOUS
      <4>1. p \in 1 .. Len(q) \/ p = Len(q) + 1
        BY <2>5, <2>6
      <4> QED
        BY <2>2, <2>3, <2>6, <3>1, <4>1
    <3> QED
      BY <1>0, <1>2, <2>1, <2>4, <3>2 DEF Addressed
  <2>8. Unborn'
    <3>1. \A i \in Instances : i # None
      BY NoneAssumption
    <3>2. \A i \in Instances : wpc[i] = "none" => queue'[i] = queue[i]
      BY <2>2, <2>4
    <3> QED
      BY <1>0, <1>2, <2>1, <3>1, <3>2 DEF Unborn, Known
  <2>9. \A i \in Instances : ~InHand(i)'
    BY <2>1 DEF InHand
  <2>10. ASSUME NEW i \in Instances, Alive(i), i[1] \notin disturbed PROVE Line(i)'
    <3>0. Line(i)
      BY <1>0, <2>10 DEF InLine
    <3>1. CASE i # d
      <4>1. cur'[i] = cur[i] /\ queue'[i] = queue[i] /\ sent' = sent
        BY <1>2, <2>4, <3>1
      <4> QED
        BY <2>9, <3>0, <4>1, LineKept
    <3>2. CASE i = d
      <4>1. InHand(i)
        BY <2>1, <3>2 DEF InHand, d
      <4>2. /\ \A j \in 1 .. Len(sent) : Dest[sent[j]] = i[1] =>
                 /\ cur[i] # None => sent[j] < cur[i]
                 /\ \A p \in 1 .. Len(q) : sent[j] < q[p]
                 /\ sent[j] < next - 1
            /\ cur[i] # None =>
                 /\ \A p \in 1 .. Len(q) : cur[i] < q[p]
                 /\ cur[i] < next - 1
            /\ \A p \in 1 .. Len(q) :
                 /\ \A k \in 1 .. Len(q) : p < k => q[p] < q[k]
                 /\ q[p] < next - 1
        BY <3>0, <3>2, <4>1 DEF Line, q
      <4>3. \A p \in 1 .. Len(queue'[i]) :
              \/ p \in 1 .. Len(q) /\ queue'[i][p] = q[p]
              \/ p = Len(q) + 1 /\ queue'[i][p] = next - 1
        BY <2>5, <2>6, <3>2
      <4>4. \A p, k \in 1 .. Len(queue'[i]) : p < k => queue'[i][p] < queue'[i][k]
        <5> SUFFICES ASSUME NEW p \in 1 .. Len(queue'[i]), NEW k \in 1 .. Len(queue'[i]), p < k
                     PROVE  queue'[i][p] < queue'[i][k]
          OBVIOUS
        <5>1. p \in 1 .. Len(q) /\ queue'[i][p] = q[p]
          BY <2>5, <2>6, <3>2, <4>3
        <5> QED
          BY <4>2, <4>3, <5>1
      <4>5. \A j \in 1 .. Len(sent) : Dest[sent[j]] = i[1] =>
              /\ cur[i] # None => sent[j] < cur[i]
              /\ \A p \in 1 .. Len(queue'[i]) : sent[j] < queue'[i][p]
        BY <4>2, <4>3
      <4>6. cur[i] # None => \A p \in 1 .. Len(queue'[i]) : cur[i] < queue'[i][p]
        BY <4>2, <4>3
      <4> QED
        BY <1>2, <2>9, <4>4, <4>5, <4>6 DEF Line
    <3> QED
      BY <3>1, <3>2
  <2>11. InLine'
    BY <1>2, <2>10 DEF InLine, Alive
  <2> QED
    BY <1>4, <2>7, <2>8, <2>11
<1>7. CASE EnqueueClosed
  <2>1. UNCHANGED <<queue, next, dpc, dworker>>
    BY <1>7 DEF EnqueueClosed
  <2>2. Addressed' /\ InLine'
    BY <1>2, <2>1, NothingMoves DEF Alive
  <2>3. Unborn'
    BY <1>0, <1>2, <2>1 DEF Unborn, Known
  <2> QED
    BY <1>4, <2>2, <2>3
<1>8. CASE DispatcherEnds
  <2>1. dpc' = "ended" /\ dworker' = None /\ UNCHANGED <<queue, next>>
    BY <1>8 DEF DispatcherEnds
  <2>2. Addressed'
    BY <1>0, <1>2, <2>1 DEF Addressed
  <2>3. Unborn'
    <3>1. \A i \in Instances : i # None
      BY NoneAssumption
    <3> QED
      BY <1>0, <1>2, <2>1, <3>1 DEF Unborn, Known
  <2>4. ASSUME NEW i \in Instances, Alive(i), i[1] \notin disturbed PROVE Line(i)'
    <3>1. Line(i)
      BY <1>0, <2>4 DEF InLine
    <3> QED
      BY <1>2, <2>1, <3>1, LineKept DEF InHand
  <2>5. InLine'
    BY <1>2, <2>4 DEF InLine, Alive
  <2> QED
    BY <1>4, <2>2, <2>3, <2>5
<1> QED
  BY <1>5, <1>6, <1>7, <1>8 DEF Dispatch

(* A worker moves: what it holds of an undisturbed channel is in line.     *)
LEMMA OrderWorks ==
  ASSUME OrderInv, NEW i \in Instances, Work(i)
  PROVE  OrderInv'
<1>0. /\ ManagerInv /\ TypeOK /\ InHands /\ ShutOk /\ Off /\ Unborn /\ Single
      /\ Addressed /\ InLine /\ RepliesInOrder
  BY DEF OrderInv, ManagerInv
<1>1. ManagerInv'
  BY <1>0, ManagerWorks
<1>2. UNCHANGED <<phase, on, made, workers, reloads, disturbed, shut, tidy, holder, next, dpc,
                  dworker>>
  BY DEF Work, Take, WorkerEnds, Admit, Deliver, GiveUp, WorkerOnly, tables
<1>3. /\ Alive(i) /\ wpc[i] # "none" /\ wpc'[i] # "none"
      /\ \A k \in Instances \ {i} : wpc'[k] = wpc[k] /\ cur'[k] = cur[k] /\ queue'[k] = queue[k]
  BY <1>0 DEF Work, Take, WorkerEnds, Admit, Deliver, GiveUp, Alive, TypeOK
<1>4. ShutOk' /\ Off' /\ Single'
  BY <1>0, <1>2, <1>3 DEF ShutOk, Off, Single, Alive
<1>5. Unborn'
  <2>1. \A k \in Instances : wpc'[k] = "none" => k # i
    BY <1>3
  <2>2. \A n \in Names : workers[n] # None => wpc'[workers[n]] # "none"
    BY <1>0, <1>3 DEF Unborn, TypeOK
  <2>3. Known(i) /\ phase # "new"
    BY <1>0, <1>3 DEF Unborn
  <2> QED
    BY <1>0, <1>2, <1>3, <2>1, <2>2, <2>3 DEF Unborn, Known
<1>6. ASSUME RepliesInOrder', Addressed',
             \A k \in Instances : Alive(k) /\ k[1] \notin disturbed => Line(k)'
      PROVE  OrderInv'
  <2>1. InLine'
    BY <1>2, <1>3, <1>6 DEF InLine, Alive
  <2> QED
    BY <1>1, <1>4, <1>5, <1>6, <2>1 DEF OrderInv
<1>t. /\ queue[i] \in Seq(Replies) /\ sent \in Seq(Replies) /\ cur[i] \in Replies \cup {None}
      /\ Len(sent) \in Nat /\ Len(queue[i]) \in Nat
  BY <1>0 DEF TypeOK
<1>7. \A k \in Instances \ {i} : Alive(k) /\ k[1] \notin disturbed /\ sent' = sent => Line(k)'
  <2> SUFFICES ASSUME NEW k \in Instances \ {i}, Alive(k), k[1] \notin disturbed, sent' = sent
               PROVE  Line(k)'
    OBVIOUS
  <2>1. Line(k) /\ cur'[k] = cur[k] /\ queue'[k] = queue[k]
    BY <1>0, <1>3 DEF InLine
  <2> QED
    BY <1>2, <2>1, LineKept DEF InHand
<1>8. i[1] \notin disturbed => Line(i)
  BY <1>0, <1>3 DEF InLine
<1>9. CASE Take(i)
  <2>1. /\ cur'[i] = Head(queue[i]) /\ queue'[i] = Tail(queue[i]) /\ queue[i] # << >>
        /\ sent' = sent
    BY <1>0, <1>9 DEF Take, TypeOK
  <2>2. /\ Len(queue[i]) \in Nat \ {0} /\ cur'[i] = queue[i][1]
        /\ Len(queue'[i]) = Len(queue[i]) - 1
        /\ \A p \in 1 .. Len(queue'[i]) : /\ p + 1 \in 1 .. Len(queue[i])
                                          /\ queue'[i][p] = queue[i][p + 1]
    BY <1>t, <2>1
  <2>3. 1 \in 1 .. Len(queue[i])
    BY <2>2
  <2>4. Addressed'
    <3>1. \A p \in 1 .. Len(queue'[i]) : Dest[queue'[i][p]] = i[1] /\ queue'[i][p] < next
      BY <1>0, <2>2 DEF Addressed
    <3>2. Dest[cur'[i]] = i[1] /\ cur'[i] < next
      BY <1>0, <2>2, <2>3 DEF Addressed
    <3>3. ASSUME NEW k \in Instances
          PROVE  /\ cur'[k] # None => Dest[cur'[k]] = k[1] /\ cur'[k] < next
                 /\ \A p \in 1 .. Len(queue'[k]) : Dest[queue'[k][p]] = k[1] /\ queue'[k][p] < next
      <4>1. CASE k = i
        BY <3>1, <3>2, <4>1
      <4>2. CASE k # i
        BY <1>0, <1>3, <4>2 DEF Addressed
      <4> QED
        BY <4>1, <4>2
    <3>4. \A j \in 1 .. Len(sent') : sent'[j] < next
      BY <1>0, <2>1 DEF Addressed
    <3> QED
      BY <1>0, <1>2, <3>3, <3>4 DEF Addressed
  <2>5. ASSUME i[1] \notin disturbed PROVE Line(i)'
    <3>1. Line(i) /\ (InHand(i)' <=> InHand(i)) /\ next' = next
      BY <1>2, <1>8, <2>5 DEF InHand
    <3>2. \A j \in 1 .. Len(sent) : Dest[sent[j]] = i[1] =>
            /\ sent[j] < cur'[i]
            /\ \A p \in 1 .. Len(queue'[i]) : sent[j] < queue'[i][p]
            /\ InHand(i) => sent[j] < next - 1
      BY <2>2, <2>3, <3>1 DEF Line
    <3>3. /\ \A p \in 1 .. Len(queue'[i]) : cur'[i] < queue'[i][p]
          /\ InHand(i) => cur'[i] < next - 1
      <4>1. \A p \in 1 .. Len(queue'[i]) : 1 < p + 1
        BY <2>2
      <4> QED
        BY <2>2, <2>3, <3>1, <4>1 DEF Line
    <3>4. \A p \in 1 .. Len(queue'[i]) :
            /\ \A k \in 1 .. Len(queue'[i]) : p < k => queue'[i][p] < queue'[i][k]
            /\ InHand(i) => queue'[i][p] < next - 1
      <4>1. \A p, k \in 1 .. Len(queue'[i]) : p < k => p + 1 < k + 1
        BY <2>2
      <4> QED
        BY <2>2, <3>1, <4>1 DEF Line
    <3> QED
      BY <2>1, <3>1, <3>2, <3>3, <3>4 DEF Line
  <2>6. RepliesInOrder'
    BY <1>0, <1>2, <2>1 DEF RepliesInOrder
  <2> QED
    BY <1>6, <1>7, <2>1, <2>4, <2>5, <2>6
<1>10. CASE WorkerEnds(i) \/ Admit(i)
  <2>1. cur' = cur /\ queue' = queue /\ sent' = sent
    BY <1>10 DEF WorkerEnds, Admit
  <2>2. Addressed' /\ RepliesInOrder'
    BY <1>0, <1>2, <2>1 DEF Addressed, RepliesInOrder
  <2>3. i[1] \notin disturbed => Line(i)'
    BY <1>2, <1>8, <2>1, LineKept DEF InHand
  <2> QED
    BY <1>6, <1>7, <2>1, <2>2, <2>3
<1>11. CASE GiveUp(i)
  <2>1. cur'[i] = None /\ queue' = queue /\ sent' = sent
    BY <1>0, <1>11 DEF GiveUp, TypeOK
  <2>2. Addressed' /\ RepliesInOrder'
    BY <1>0, <1>2, <1>3, <2>1 DEF Addressed, RepliesInOrder
  <2>3. i[1] \notin disturbed => Line(i)'
    BY <1>2, <1>8, <2>1 DEF Line, InHand
  <2> QED
    BY <1>6, <1>7, <2>1, <2>2, <2>3
<1>12. CASE Deliver(i)
  <2> DEFINE x == cur[i]
  <2>1. /\ sent' = Append(sent, x) /\ cur'[i] = None /\ queue' = queue
        /\ wpc[i] = "send"
    BY <1>0, <1>12 DEF Deliver, TypeOK
  <2>2. x \in Replies /\ Dest[x] = i[1] /\ x < next /\ x # None
    BY <1>0, <1>t, <2>1 DEF InHands, Addressed
  <2> HIDE DEF x
  <2>3. /\ Len(sent') = Len(sent) + 1 /\ sent'[Len(sent) + 1] = x
        /\ \A j \in 1 .. Len(sent) : sent'[j] = sent[j]
    BY <1>t, <2>1, <2>2
  <2>4. \A j \in 1 .. Len(sent') : \/ j \in 1 .. Len(sent) /\ sent'[j] = sent[j]
                                   \/ j = Len(sent) + 1 /\ sent'[j] = x
    BY <1>t, <2>3
  <2>5. Addressed'
    <3>1. \A j \in 1 .. Len(sent') : sent'[j] < next
      BY <1>0, <2>2, <2>4 DEF Addressed
    <3>2. \A k \in Instances : cur'[k] # None => cur'[k] = cur[k]
      BY <1>3, <2>1
    <3> QED
      BY <1>0, <1>2, <2>1, <3>1, <3>2 DEF Addressed
  <2>6. i[1] \notin disturbed =>
          \A j \in 1 .. Len(sent) : Dest[sent[j]] = i[1] => sent[j] < x
    BY <1>8, <2>2 DEF Line, x
  <2>7. RepliesInOrder'
    <3> SUFFICES ASSUME NEW j \in 1 .. Len(sent'), NEW k \in 1 .. Len(sent'), j < k,
                        Dest[sent'[j]] = Dest[sent'[k]], Dest[sent'[j]] \notin disturbed
                 PROVE  sent'[j] < sent'[k]
      BY <1>2 DEF RepliesInOrder
    <3>1. j \in 1 .. Len(sent) /\ sent'[j] = sent[j]
      BY <1>t, <2>3, <2>4
    <3>2. CASE k \in 1 .. Len(sent)
      BY <1>0, <2>3, <3>1, <3>2 DEF RepliesInOrder
    <3>3. CASE k = Len(sent) + 1
      BY <2>2, <2>3, <2>6, <3>1, <3>3
    <3> QED
      BY <2>4, <3>2, <3>3
  <2>8. i[1] \notin disturbed => Line(i)'
    <3> SUFFICES ASSUME i[1] \notin disturbed PROVE Line(i)'
      OBVIOUS
    <3>1. Line(i) /\ (InHand(i)' <=> InHand(i)) /\ next' = next
      BY <1>2, <1>8 DEF InHand
    <3>2. \A j \in 1 .. Len(sent') : Dest[sent'[j]] = i[1] =>
            /\ \A p \in 1 .. Len(queue[i]) : sent'[j] < queue[i][p]
            /\ InHand(i) => sent'[j] < next - 1
      BY <2>2, <2>4, <3>1 DEF Line, x
    <3> QED
      BY <2>1, <3>1, <3>2 DEF Line
  <2>9. ASSUME NEW k \in Instances \ {i}, Alive(k), k[1] \notin disturbed PROVE Line(k)'
    <3>1. k[1] # i[1]
      BY <1>0, <1>3, <2>9 DEF Single
    <3>2. Line(k) /\ cur'[k] = cur[k] /\ (InHand(k)' <=> InHand(k)) /\ next' = next
      BY <1>0, <1>2, <1>3, <2>9 DEF InLine, InHand
    <3>3. \A j \in 1 .. Len(sent') : Dest[sent'[j]] = k[1] =>
            j \in 1 .. Len(sent) /\ sent'[j] = sent[j]
      BY <2>2, <2>4, <3>1
    <3> QED
      BY <2>1, <3>2, <3>3 DEF Line
  <2> QED
    BY <1>6, <2>5, <2>7, <2>8, <2>9
<1> QED
  BY <1>9, <1>10, <1>11, <1>12 DEF Work

LEMMA OrderStep ==
  ASSUME OrderInv, [Next]_vars
  PROVE  OrderInv'
<1>1. CASE \E up \in SUBSET Names : StartAll(up)
  BY <1>1, OrderStarted
<1>2. CASE \E target, changed, up \in SUBSET Names : Reload(target, changed, up)
  BY <1>2, OrderReloaded
<1>3. CASE StopAll \/ AllStopped
  BY <1>3, OrderStopped
<1>4. CASE \E r \in 1 .. MaxReloads : Tidy(r)
  BY <1>4, OrderUnregisters, OrderUnregistered, OrderRegisters DEF Tidy
<1>5. CASE Dispatch
  BY <1>5, OrderDispatches
<1>6. CASE \E i \in Instances : Work(i)
  BY <1>6, OrderWorks
<1>7. CASE UNCHANGED vars
  <2>1. ManagerInv'
    BY <1>7, ManagerStep DEF OrderInv
  <2>2. Addressed' /\ InLine' /\ RepliesInOrder'
    BY <1>7, NothingMoves DEF vars, tables, delivery, Alive
  <2>3. ShutOk' /\ Off' /\ Unborn' /\ Single'
    BY <1>7 DEF OrderInv, vars, tables, delivery, ShutOk, Off, Unborn, Single, Alive, Known
  <2> QED
    BY <2>1, <2>2, <2>3 DEF OrderInv
<1> QED
  BY <1>1, <1>2, <1>3, <1>4, <1>5, <1>6, <1>7 DEF Next

(* The replies of a channel that no reload has disturbed arrive in the     *)
(* order in which they left the bus, whatever sends fail and whatever      *)
(* reloads do to other channels: it never has two workers at work          *)
(* (dispatchLoop, runWorker).                                              *)
THEOREM RepliesArriveInOrder == Spec => []RepliesInOrder
<1>1. OrderInv => RepliesInOrder
  BY DEF OrderInv
<1> QED
  BY <1>1, OrderStarts, OrderStep, PTL DEF Spec
=============================================================================
