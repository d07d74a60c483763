----------------------------- MODULE Watchdogs -----------------------------
(***************************************************************************)
(* The two watchdogs that drive the engine's Suspended and Throttled bits: *)
(* the memory guard (Guard.pollOnce, on PSI readings) and the CPU-credit   *)
(* watchdog (throttlePollOnce, on steal ratios), and the configuration     *)
(* reloads that stop them and start new ones on the same engine.           *)
(*                                                                         *)
(* Time is counted in polls.  A "since" is 0 for Go's zero time and        *)
(* otherwise one more than the number of polls that have passed since.     *)
(* A watchdog that is stopped polls no more: the one poll that its select  *)
(* may still make when the tick and the end are both ready is left out.    *)
(***************************************************************************)
EXTENDS Naturals

CONSTANTS
  Sustain,      \* polls in a sustain window (PSISustainSecs, throttleSustain)
  MaxThrottled  \* bound: the refcount at which no further reload happens

ASSUME WatchdogsAssumption ==
  /\ Sustain \in Nat \ {0}
  /\ MaxThrottled \in Nat \ {0}

VARIABLES
  suspended,   \* the Suspended bit of the process-wide engine
  throttled,   \* the refcount of its Throttled bit
  guard,       \* the running memory guard: none, or on an engine, or on nil
  local,       \* its suspendedLocally
  fullSince, underSince,   \* its sustain windows
  thrRunning,  \* the CPU watchdog is running
  thrOn,       \* its local "on"
  aboveSince, belowSince,  \* its sustain windows
  psi,         \* the last PSI reading, and the last steal ratio
  steal,
  calm,        \* history: polls since the last PSI reading below "high"
  pressed,     \* history: polls since the last one that was not "low"
  easy, busy,  \* history: the same for the steal ratio
  leaked,      \* history: counts of Throttled whose watchdog is gone
  beat         \* changes at every poll, so that each poll is a step

guardVars == <<guard, local, fullSince, underSince, psi, calm, pressed>>
thrVars   == <<thrRunning, thrOn, aboveSince, belowSince, steal, easy, busy>>
vars == <<suspended, throttled, guardVars, thrVars, leaked, beat>>

(* A reading is above the upper threshold, below the lower one, between    *)
(* the two, or missing.                                                    *)
Readings == {"high", "band", "low", "error"}
Sinces == 0..(Sustain + 1)

(* One more poll after x; windows longer than Sustain are all alike. *)
Later(x)     == IF x \in 1..Sustain THEN x + 1 ELSE x
(* The time x if it is set, and now if not. *)
OrNow(x)     == IF x = 0 THEN 1 ELSE x
Sustained(x) == x = Sustain + 1

(* The polls since a reading of R, given that there were n before it. *)
PollsSince(R, r, n) ==
  IF r \in R THEN 0 ELSE IF n <= Sustain THEN n + 1 ELSE n

TypeOK ==
  /\ suspended \in BOOLEAN
  /\ throttled \in Nat
  /\ guard \in {"none", "engine", "nil"}
  /\ local \in BOOLEAN
  /\ {fullSince, underSince, aboveSince, belowSince} \subseteq Sinces
  /\ thrRunning \in BOOLEAN /\ thrOn \in BOOLEAN
  /\ psi \in Readings /\ steal \in Readings
  /\ {calm, pressed, easy, busy} \subseteq Sinces
  /\ leaked \in Nat
  /\ beat \in BOOLEAN

Init ==
  /\ suspended = FALSE /\ throttled = 0
  /\ guard = "none" /\ local = FALSE
  /\ fullSince = 0 /\ underSince = 0
  /\ thrRunning = FALSE /\ thrOn = FALSE
  /\ aboveSince = 0 /\ belowSince = 0
  /\ psi = "low" /\ steal = "low"
  /\ calm = 0 /\ pressed = 0 /\ easy = 0 /\ busy = 0
  /\ leaked = 0
  /\ beat = FALSE

-----------------------------------------------------------------------------
(***************************************************************************)
(* The memory guard.                                                       *)
(***************************************************************************)

(* Mutation: the guard asks its own flag, which a reload has reset. *)
GuardSuspendedLocally == local

(* Guard.suspended: the engine's bit, or its own flag without an engine.   *)
GuardSuspended == IF guard = "engine" THEN suspended ELSE local

SetSuspended(b) ==
  /\ local' = b
  /\ suspended' = IF guard = "engine" THEN b ELSE suspended

(* Inside the hysteresis band both windows are closed. *)
PollBand ==
  /\ fullSince' = 0 /\ underSince' = 0
  /\ UNCHANGED <<suspended, local>>

PollHigh ==
  LET since == OrNow(Later(fullSince))
  IN  /\ fullSince' = since /\ underSince' = 0
      /\ IF Sustained(since) /\ ~GuardSuspended THEN SetSuspended(TRUE)
         ELSE UNCHANGED <<suspended, local>>

(* The window of a recovery opens only while suspended. *)
PollLow ==
  LET since == OrNow(Later(underSince))
  IN  /\ fullSince' = 0
      /\ IF GuardSuspended
         THEN /\ underSince' = since
              /\ IF Sustained(since) THEN SetSuspended(FALSE)
                 ELSE UNCHANGED <<suspended, local>>
         ELSE /\ underSince' = Later(underSince)
              /\ UNCHANGED <<suspended, local>>

(* A failed read changes nothing, but time passes. *)
PollError ==
  /\ fullSince' = Later(fullSince) /\ underSince' = Later(underSince)
  /\ UNCHANGED <<suspended, local>>

GuardPoll(r) ==
  /\ guard # "none"
  /\ beat' = ~beat
  /\ psi' = r
  /\ calm' = PollsSince({"low", "band"}, r, calm)
  /\ pressed' = PollsSince({"high", "band"}, r, pressed)
  /\ \/ r = "high"  /\ PollHigh
     \/ r = "band"  /\ PollBand
     \/ r = "low"   /\ PollLow
     \/ r = "error" /\ PollError
  /\ UNCHANGED <<throttled, guard, thrVars, leaked>>

-----------------------------------------------------------------------------
(***************************************************************************)
(* The CPU watchdog.                                                       *)
(***************************************************************************)
(* Mutation: the dead zone closes neither window. *)
WindowsLax(r) ==
  /\ aboveSince' = CASE r = "high" -> OrNow(Later(aboveSince))
                     [] r = "low"  -> 0
                     [] OTHER      -> Later(aboveSince)
  /\ belowSince' = CASE r = "low"  -> OrNow(Later(belowSince))
                     [] r = "high" -> 0
                     [] OTHER      -> Later(belowSince)

(* Each direction's window is closed by a ratio that is not its own; a     *)
(* failed read closes none.                                                *)
Windows(r) ==
  /\ aboveSince' = CASE r = "high"  -> OrNow(Later(aboveSince))
                     [] r = "error" -> Later(aboveSince)
                     [] OTHER       -> 0
  /\ belowSince' = CASE r = "low"   -> OrNow(Later(belowSince))
                     [] r = "error" -> Later(belowSince)
                     [] OTHER       -> 0

(* Mutation: a recovered watchdog gives back what it does not hold.        *)
ToggleUnmatched(r) ==
  \/ /\ r = "high" /\ ~thrOn /\ Sustained(aboveSince')
     /\ throttled' = throttled + 1 /\ thrOn' = TRUE
  \/ /\ r = "low" /\ Sustained(belowSince')
     /\ throttled' = throttled - 1 /\ thrOn' = FALSE
  \/ /\ ~(r = "high" /\ ~thrOn /\ Sustained(aboveSince'))
     /\ ~(r = "low" /\ Sustained(belowSince'))
     /\ UNCHANGED <<throttled, thrOn>>

(* Inc and Dec of Throttled, Dec with its floor of 0. *)
Toggle(r) ==
  \/ /\ r = "high" /\ ~thrOn /\ Sustained(aboveSince')
     /\ throttled' = throttled + 1 /\ thrOn' = TRUE
  \/ /\ r = "low" /\ thrOn /\ Sustained(belowSince')
     /\ throttled' = IF throttled > 0 THEN throttled - 1 ELSE 0
     /\ thrOn' = FALSE
  \/ /\ ~(r = "high" /\ ~thrOn /\ Sustained(aboveSince'))
     /\ ~(r = "low" /\ thrOn /\ Sustained(belowSince'))
     /\ UNCHANGED <<throttled, thrOn>>

ThrottlePoll(r) ==
  /\ thrRunning
  /\ beat' = ~beat
  /\ steal' = r
  /\ easy' = PollsSince({"low", "band"}, r, easy)
  /\ busy' = PollsSince({"high", "band"}, r, busy)
  /\ Windows(r)
  /\ Toggle(r)
  /\ UNCHANGED <<suspended, guardVars, thrRunning, leaked>>

-----------------------------------------------------------------------------
(***************************************************************************)
(* Startup and reload: the running watchdogs are stopped, and new ones are *)
(* started as the configuration says, on the engine as it is.  A watchdog  *)
(* whose first read fails stays down.                                      *)
(***************************************************************************)
Install ==
  /\ throttled < MaxThrottled
  /\ guard' \in {"none", "engine", "nil"}
  /\ local' = FALSE
  /\ fullSince' = 0 /\ underSince' = 0 /\ calm' = 0 /\ pressed' = 0
  /\ thrRunning' \in BOOLEAN
  /\ (guard' = "nil") => ~thrRunning'
  /\ thrOn' = FALSE
  /\ aboveSince' = 0 /\ belowSince' = 0 /\ easy' = 0 /\ busy' = 0
  /\ leaked' = IF thrOn THEN leaked + 1 ELSE leaked
  /\ UNCHANGED <<suspended, throttled, psi, steal, beat>>

Next ==
  \/ \E r \in Readings : GuardPoll(r)
  \/ \E r \in Readings : ThrottlePoll(r)
  \/ Install

(* The tickers tick. *)
Fairness ==
  /\ WF_vars(\E r \in Readings : GuardPoll(r))
  /\ WF_vars(\E r \in Readings : ThrottlePoll(r))

Spec == Init /\ [][Next]_vars /\ Fairness

-----------------------------------------------------------------------------
(***************************************************************************)
(* Properties.                                                             *)
(***************************************************************************)

(* Suspended is set only when no PSI reading of a whole sustain window was *)
(* below the threshold, and cleared only when none was outside the         *)
(* recovery range: spikes and dips that come and go never add up           *)
(* (memguard.go:281).                                                      *)
SuspensionIsSustained ==
  [][/\ ~suspended /\ suspended' => calm' > Sustain
     /\ suspended /\ ~suspended' => pressed' > Sustain]_vars

(* The same for Throttled (throttle.go:30).                                *)
ThrottleIsSustained ==
  [][/\ throttled' > throttled => easy' > Sustain
     /\ throttled' < throttled => busy' > Sustain]_vars

(* Neither watchdog moves its bit before a whole window has passed that    *)
(* says so, also across the reloads that replace them both.                *)
MovesAreSustained == SuspensionIsSustained /\ ThrottleIsSustained

ReloadsForever == []<><<Install>>_vars

(* A guard that polls clears a suspension that is no longer warranted,     *)
(* also one that a guard before it has set.                                *)
GuardResumes ==
  ReloadsForever \/ (<>[](guard = "engine" /\ psi = "low") => <>[](~suspended))

(* The running watchdog holds Throttled once when it is on; the rest of    *)
(* the refcount was left behind by watchdogs that a reload stopped.        *)
ThrottleHeldOnce == throttled = leaked + (IF thrOn THEN 1 ELSE 0)

(* The watchdog "clears it once the steal ratio recovers" (mode.go:47-50). *)
(* Does not hold: a reload while the watchdog is on leaves the bit on.     *)
ThrottleRecovers ==
  ReloadsForever \/ (<>[](thrRunning /\ steal = "low") => <>[](throttled = 0))
=============================================================================
