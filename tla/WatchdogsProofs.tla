-------------------------- MODULE WatchdogsProofs --------------------------
(***************************************************************************)
(* Proofs about Watchdogs, for sustain windows of any length and any       *)
(* number of reloads.                                                      *)
(*                                                                         *)
(* The argument: an open window is never older than the run of readings    *)
(* that keeps it open, because every reading that ends the run closes the  *)
(* window as well; and what the refcount holds beyond the running watchdog *)
(* was counted when a reload dropped it.                                   *)
(***************************************************************************)
EXTENDS Watchdogs, TLAPS

(* Every window is inside its run of readings. *)
WindowsInside ==
  /\ fullSince <= calm
  /\ underSince <= pressed
  /\ aboveSince <= easy
  /\ belowSince <= busy

WatchInv == TypeOK /\ ThrottleHeldOnce /\ WindowsInside

(* What Later, OrNow and PollsSince do: both kinds of counter advance with *)
(* a poll and stop at the same place.                                      *)
LEMMA CounterFacts ==
  ASSUME NEW x \in Sinces, NEW n \in Sinces, x <= n, NEW R, NEW r
  PROVE  /\ Later(x) \in Sinces /\ OrNow(Later(x)) \in Sinces
         /\ PollsSince(R, r, n) \in Sinces
         /\ 0 \in Sinces /\ 0 <= PollsSince(R, r, n)
         /\ r \notin R => /\ Later(x) <= PollsSince(R, r, n)
                          /\ OrNow(Later(x)) <= PollsSince(R, r, n)
BY WatchdogsAssumption DEF Sinces, Later, OrNow, PollsSince

(* The two watchdogs at startup. *)
LEMMA WatchInit == Init => WatchInv
<1> SUFFICES ASSUME Init PROVE WatchInv
  OBVIOUS
<1>1. 0 \in Sinces
  BY WatchdogsAssumption DEF Sinces
<1>2. /\ suspended \in BOOLEAN /\ local \in BOOLEAN /\ thrRunning \in BOOLEAN
      /\ thrOn \in BOOLEAN /\ beat \in BOOLEAN
  BY Zenon DEF Init
<1>3. TypeOK
  BY <1>1, <1>2 DEF Init, TypeOK, Readings
<1> QED BY <1>1, <1>3 DEF Init, WatchInv, ThrottleHeldOnce, WindowsInside, Sinces

(* One poll of the memory guard: types, windows, and what it takes to move *)
(* the Suspended bit.                                                      *)
LEMMA GuardStep ==
  ASSUME WatchInv, NEW r \in Readings, GuardPoll(r)
  PROVE  /\ WatchInv'
         /\ ~suspended /\ suspended' => calm' > Sustain
         /\ suspended /\ ~suspended' => pressed' > Sustain
<1>0. /\ TypeOK /\ WindowsInside /\ ThrottleHeldOnce
      /\ fullSince \in Sinces /\ calm \in Sinces /\ fullSince <= calm
      /\ underSince \in Sinces /\ pressed \in Sinces /\ underSince <= pressed
      /\ Sustain \in Nat
  BY WatchdogsAssumption DEF WatchInv, TypeOK, WindowsInside
<1> DEFINE calm1 == PollsSince({"low", "band"}, r, calm)
           pressed1 == PollsSince({"high", "band"}, r, pressed)
<1>1. calm' = calm1 /\ pressed' = pressed1
  BY DEF GuardPoll
<1>2. /\ calm1 \in Sinces /\ pressed1 \in Sinces /\ 0 \in Sinces
      /\ 0 <= calm1 /\ 0 <= pressed1
      /\ Later(fullSince) \in Sinces /\ OrNow(Later(fullSince)) \in Sinces
      /\ Later(underSince) \in Sinces /\ OrNow(Later(underSince)) \in Sinces
      /\ r \in {"high", "error"} =>
           Later(fullSince) <= calm1 /\ OrNow(Later(fullSince)) <= calm1
      /\ r \in {"low", "error"} =>
           Later(underSince) <= pressed1 /\ OrNow(Later(underSince)) <= pressed1
  BY <1>0, CounterFacts
<1>3. /\ fullSince' \in Sinces /\ underSince' \in Sinces
      /\ fullSince' <= calm' /\ underSince' <= pressed'
      /\ local' \in BOOLEAN /\ suspended' \in BOOLEAN
      /\ ~suspended /\ suspended' => calm' > Sustain
      /\ suspended /\ ~suspended' => pressed' > Sustain
  <2>1. CASE r = "high" /\ PollHigh
    <3>1. /\ fullSince' = OrNow(Later(fullSince)) /\ underSince' = 0
      BY <2>1 DEF PollHigh
    <3>2. local' \in BOOLEAN /\ suspended' \in BOOLEAN
      BY <1>0, <2>1 DEF PollHigh, SetSuspended, TypeOK
    <3>3. suspended' # suspended => Sustained(fullSince') /\ suspended'
      BY <1>0, <2>1, <3>1 DEF PollHigh, SetSuspended, TypeOK
    <3> QED BY <1>0, <1>1, <1>2, <2>1, <3>1, <3>2, <3>3 DEF Sustained, Sinces, TypeOK
  <2>2. CASE r = "band" /\ PollBand
    BY <1>0, <1>1, <1>2, <2>2 DEF PollBand, TypeOK
  <2>3. CASE r = "low" /\ PollLow
    <3>1. /\ fullSince' = 0
          /\ underSince' \in {Later(underSince), OrNow(Later(underSince))}
      BY <2>3 DEF PollLow
    <3>2. local' \in BOOLEAN /\ suspended' \in BOOLEAN
      BY <1>0, <2>3 DEF PollLow, SetSuspended, TypeOK
    <3>3. suspended' # suspended => Sustained(underSince') /\ ~suspended'
      BY <1>0, <2>3 DEF PollLow, SetSuspended, TypeOK
    <3> QED BY <1>0, <1>1, <1>2, <2>3, <3>1, <3>2, <3>3 DEF Sustained, Sinces, TypeOK
  <2>4. CASE r = "error" /\ PollError
    BY <1>0, <1>1, <1>2, <2>4 DEF PollError, TypeOK
  <2> QED BY <2>1, <2>2, <2>3, <2>4 DEF GuardPoll
<1>4. UNCHANGED <<throttled, guard, thrVars, leaked>> /\ psi' = r /\ beat' = ~beat
  BY DEF GuardPoll
<1>5. beat' \in BOOLEAN
  BY <1>4, Zenon
<1>6. TypeOK'
  BY <1>0, <1>1, <1>2, <1>3, <1>4, <1>5 DEF TypeOK, thrVars
<1> QED BY <1>0, <1>3, <1>4, <1>6 DEF WatchInv, ThrottleHeldOnce, WindowsInside, thrVars

(* One poll of the CPU watchdog: its Dec takes back exactly what its Inc   *)
(* has added, and the floor of the refcount is never needed.               *)
LEMMA ThrottleStep ==
  ASSUME WatchInv, NEW r \in Readings, ThrottlePoll(r)
  PROVE  /\ WatchInv'
         /\ throttled' > throttled => easy' > Sustain
         /\ throttled' < throttled => busy' > Sustain
<1>0. /\ TypeOK /\ WindowsInside /\ ThrottleHeldOnce
      /\ aboveSince \in Sinces /\ easy \in Sinces /\ aboveSince <= easy
      /\ belowSince \in Sinces /\ busy \in Sinces /\ belowSince <= busy
      /\ throttled \in Nat /\ leaked \in Nat /\ thrOn \in BOOLEAN /\ Sustain \in Nat
  BY WatchdogsAssumption DEF WatchInv, TypeOK, WindowsInside
<1> DEFINE easy1 == PollsSince({"low", "band"}, r, easy)
           busy1 == PollsSince({"high", "band"}, r, busy)
<1>1. easy' = easy1 /\ busy' = busy1
  BY DEF ThrottlePoll
<1>2. /\ easy1 \in Sinces /\ busy1 \in Sinces /\ 0 \in Sinces
      /\ 0 <= easy1 /\ 0 <= busy1
      /\ Later(aboveSince) \in Sinces /\ OrNow(Later(aboveSince)) \in Sinces
      /\ Later(belowSince) \in Sinces /\ OrNow(Later(belowSince)) \in Sinces
      /\ r \in {"high", "error"} =>
           Later(aboveSince) <= easy1 /\ OrNow(Later(aboveSince)) <= easy1
      /\ r \in {"low", "error"} =>
           Later(belowSince) <= busy1 /\ OrNow(Later(belowSince)) <= busy1
  BY <1>0, CounterFacts
<1>3. /\ aboveSince' \in Sinces /\ aboveSince' <= easy1
      /\ belowSince' \in Sinces /\ belowSince' <= busy1
  BY <1>2 DEF ThrottlePoll, Windows, Readings
<1>4. Toggle(r)
  BY DEF ThrottlePoll
<1>5. /\ throttled' \in Nat /\ thrOn' \in BOOLEAN
      /\ throttled' = leaked + (IF thrOn' THEN 1 ELSE 0)
      /\ throttled' > throttled => Sustained(aboveSince')
      /\ throttled' < throttled => Sustained(belowSince')
  <2>1. CASE throttled' = throttled + 1 /\ thrOn' = TRUE /\ ~thrOn /\ Sustained(aboveSince')
    BY <1>0, <2>1 DEF ThrottleHeldOnce
  <2>2. CASE /\ thrOn /\ Sustained(belowSince') /\ thrOn' = FALSE
             /\ throttled' = IF throttled > 0 THEN throttled - 1 ELSE 0
    <3>1. throttled = leaked + 1
      BY <1>0, <2>2 DEF ThrottleHeldOnce
    <3>2. throttled' = leaked
      BY <1>0, <2>2, <3>1
    <3>3. ~(throttled' > throttled) /\ throttled' \in Nat
      BY <1>0, <3>1, <3>2
    <3>4. throttled' = leaked + (IF thrOn' THEN 1 ELSE 0) /\ thrOn' \in BOOLEAN
      <4>1. (IF thrOn' THEN 1 ELSE 0) = 0 /\ thrOn' \in BOOLEAN
        BY <2>2, Zenon
      <4> QED BY <1>0, <3>2, <4>1
    <3>5. Sustained(belowSince')
      BY <2>2
    <3> QED BY <3>3, <3>4, <3>5
  <2>3. CASE UNCHANGED <<throttled, thrOn>>
    BY <1>0, <2>3 DEF ThrottleHeldOnce
  <2> QED BY <1>4, <2>1, <2>2, <2>3 DEF Toggle
<1>6. UNCHANGED <<suspended, guardVars, thrRunning, leaked>> /\ steal' = r /\ beat' = ~beat
  BY DEF ThrottlePoll
<1>7. beat' \in BOOLEAN
  BY <1>6, Zenon
<1>8. TypeOK'
  BY <1>0, <1>1, <1>2, <1>3, <1>5, <1>6, <1>7 DEF TypeOK, guardVars
<1>9. WatchInv'
  BY <1>0, <1>1, <1>3, <1>5, <1>6, <1>8 DEF WatchInv, ThrottleHeldOnce, WindowsInside, guardVars
<1> QED BY <1>0, <1>1, <1>2, <1>3, <1>5, <1>9 DEF Sustained, Sinces

(* A reload: windows and flags start afresh, the engine's bits stay.       *)
LEMMA InstallStep ==
  ASSUME WatchInv, Install
  PROVE  WatchInv' /\ UNCHANGED <<suspended, throttled>>
<1>1. 0 \in Sinces /\ TypeOK
  BY WatchdogsAssumption DEF WatchInv, Sinces
<1>2. local' \in BOOLEAN /\ thrRunning' \in BOOLEAN /\ thrOn' \in BOOLEAN
  BY Zenon DEF Install
<1>3. TypeOK'
  BY <1>1, <1>2 DEF Install, TypeOK
<1> QED BY <1>1, <1>3 DEF Install, WatchInv, TypeOK, ThrottleHeldOnce, WindowsInside, Sinces

(* The inductive invariant. *)
THEOREM WatchInvariance == Spec => []WatchInv
<1>1. WatchInv /\ [Next]_vars => WatchInv'
  <2> SUFFICES ASSUME WatchInv, [Next]_vars PROVE WatchInv'
    OBVIOUS
  <2>1. CASE UNCHANGED vars
    BY <2>1 DEF WatchInv, TypeOK, ThrottleHeldOnce, WindowsInside, vars, guardVars, thrVars
  <2> QED BY <2>1, GuardStep, ThrottleStep, InstallStep DEF Next
<1> QED BY <1>1, WatchInit, PTL DEF Spec

(* Type correctness, for every length of the sustain windows. *)
THEOREM WatchTypeCorrect == Spec => []TypeOK
BY WatchInvariance, PTL DEF WatchInv

(* The refcount of Throttled is what the running watchdog has added, which *)
(* is at most one, and one for every watchdog stopped while it was on.     *)
THEOREM ThrottledAccounted == Spec => []ThrottleHeldOnce
BY WatchInvariance, PTL DEF WatchInv

(* Guard.pollOnce moves the Suspended bit only after a whole window.       *)
THEOREM SuspensionSustained == Spec => SuspensionIsSustained
<1>1. WatchInv /\ [Next]_vars =>
        [/\ ~suspended /\ suspended' => calm' > Sustain
         /\ suspended /\ ~suspended' => pressed' > Sustain]_vars
  BY GuardStep, InstallStep DEF Next, ThrottlePoll
<1> QED BY WatchInvariance, <1>1, PTL DEF Spec, SuspensionIsSustained

(* throttlePollOnce moves the Throttled count only after a whole window.   *)
THEOREM ThrottleSustained == Spec => ThrottleIsSustained
<1>1. WatchInv /\ [Next]_vars =>
        [/\ throttled' > throttled => easy' > Sustain
         /\ throttled' < throttled => busy' > Sustain]_vars
  <2> SUFFICES ASSUME WatchInv, Next
               PROVE  /\ throttled' > throttled => easy' > Sustain
                      /\ throttled' < throttled => busy' > Sustain
    OBVIOUS
  <2>1. throttled \in Nat
    BY DEF WatchInv, TypeOK
  <2>2. CASE UNCHANGED throttled
    BY <2>1, <2>2
  <2> QED BY <2>2, ThrottleStep, InstallStep DEF Next, GuardPoll
<1> QED BY WatchInvariance, <1>1, PTL DEF Spec, ThrottleIsSustained

(* Both watchdogs at once, under any readings and reloads, for every       *)
(* length of the windows.                                                  *)
THEOREM MovesSustained == Spec => MovesAreSustained
BY SuspensionSustained, ThrottleSustained DEF MovesAreSustained
=============================================================================
