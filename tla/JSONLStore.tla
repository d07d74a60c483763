----------------------------- MODULE JSONLStore -----------------------------
(***************************************************************************)
(* The store of the conversations.  A session is two files: its messages,  *)
(* one line each, and its metadata, with the number of lines that are      *)
(* logically truncated.  A method holds the lock of the session's shard    *)
(* and makes one or two durable writes; it may fail, or the process may    *)
(* die, before or between them.  The metadata file and a rewritten message *)
(* file are replaced atomically; an append is not.                         *)
(*                                                                         *)
(* Two keys never share a file (sanitizeKey may map two keys to one name), *)
(* and the line count, timestamps, scope and alias names of the metadata   *)
(* are left out: no method of the store reads them to decide anything.     *)
(***************************************************************************)
EXTENDS Naturals, Sequences, FiniteSets

CONSTANTS
  Keys,      \* the sessions
  Rank,      \* their order as strings
  Shard,     \* the lock of each (sessionLock)
  Aliases,   \* pairs <<canonical key, alias>> that PromoteAliasHistory is given
  Callers,   \* goroutines that use the store
  Msgs,      \* the messages of a behaviour, each added once
  Torn,      \* a line that does not parse
  None,
  MaxCalls,  \* bound on the calls of a behaviour
  MaxFaults  \* bound on its failed writes and crashes

Shards == {Shard[k] : k \in Keys}
Lines  == Msgs \cup {Torn}
Ops    == {"add", "summary", "truncate", "set", "compact", "promote"}

(* msg, hist, keep: what the call is given; hist also the history that a   *)
(* compaction or a promotion is about to write; old: the file it replaces. *)
Call == [op : Ops, key : Keys, alias : Keys \cup {None},
         msg : Msgs \cup {None}, keep : Nat, hist : Seq(Msgs), flag : BOOLEAN,
         pc : {"lock", "first", "second"}, old : Seq(Lines), oldOpen : BOOLEAN]

ASSUME StoreAssumption ==
  /\ Rank \in [Keys -> Nat]
  /\ \A k, l \in Keys : Rank[k] = Rank[l] => k = l
  /\ Aliases \subseteq {pair \in Keys \X Keys : pair[1] # pair[2]}
  /\ Torn \notin Msgs
  /\ None \notin Callers
  /\ None \notin Keys
  /\ None \notin Call
  /\ {MaxCalls, MaxFaults} \subseteq Nat

VARIABLES
  lines,    \* per session, the lines of its message file
  open,     \* the sessions whose last line has no line feed
  skip,     \* per session, the truncated lines (SessionMeta.Skip)
  summary,  \* the sessions whose metadata has a summary
  holder,   \* per shard, the caller that holds its lock
  call,     \* per caller, its call
  calls,
  faults,
  (* History. *)
  added,    \* the messages that were given to the store
  expect,   \* per session, the messages it was told to keep, in order
  faulty,   \* the sessions a method of which failed or was cut off
  hurt      \* those of them in one of the ways that no method makes up for

vars == <<lines, open, skip, summary, holder, call, calls, faults, added, expect,
          faulty, hurt>>
files == <<lines, open, skip, summary>>

TypeOK ==
  /\ lines \in [Keys -> Seq(Lines)]
  /\ open \subseteq Keys
  /\ skip \in [Keys -> Nat]
  /\ summary \subseteq Keys
  /\ holder \in [Shards -> Callers \cup {None}]
  /\ call \in [Callers -> Call \cup {None}]
  /\ calls \in 0 .. MaxCalls
  /\ faults \in 0 .. MaxFaults
  /\ added \subseteq Msgs
  /\ expect \in [Keys -> Seq(Msgs)]
  /\ faulty \subseteq Keys
  /\ hurt \subseteq Keys

Init ==
  /\ lines = [k \in Keys |-> << >>]
  /\ open = {}
  /\ skip = [k \in Keys |-> 0]
  /\ summary = {}
  /\ holder = [s \in Shards |-> None]
  /\ call = [c \in Callers |-> None]
  /\ calls = 0 /\ faults = 0
  /\ added = {}
  /\ expect = [k \in Keys |-> << >>]
  /\ faulty = {} /\ hurt = {}

-----------------------------------------------------------------------------
(* Mutation: a line that does not parse is returned. *)
Whole(s, from) == SubSeq(s, from + 1, Len(s))

(* readMessages: the messages among the first i lines, for every i.        *)
Scan(s, from) ==
  LET seen[i \in 0 .. Len(s)] ==
        IF i <= from THEN << >>
        ELSE IF s[i] = Torn THEN seen[i - 1]
        ELSE Append(seen[i - 1], s[i])
  IN  seen

Read(s, from) == Scan(s, from)[Len(s)]

(* GetHistory. *)
Visible(k) == Read(lines[k], skip[k])

Last(s, n) == IF n >= Len(s) THEN s ELSE SubSeq(s, Len(s) - n + 1, Len(s))

IsEnd(s, t) == Len(s) <= Len(t) /\ s = Last(t, Len(s))

(* A line is written after one that was cut off: the two are one line.     *)
Appended(k, l) ==
  IF k \in open /\ lines[k] # << >>
  THEN [lines[k] EXCEPT ![Len(lines[k])] = Torn]
  ELSE Append(lines[k], l)

-----------------------------------------------------------------------------
(***************************************************************************)
(* Calls and locks.                                                        *)
(***************************************************************************)
NewCall(op, k) ==
  [op |-> op, key |-> k, alias |-> None, msg |-> None, keep |-> 0, hist |-> << >>,
   flag |-> FALSE, pc |-> "lock", old |-> << >>, oldOpen |-> FALSE]

Begin(c, new) ==
  /\ call[c] = None /\ calls < MaxCalls
  /\ calls' = calls + 1
  /\ call' = [call EXCEPT ![c] = new]
  /\ UNCHANGED <<files, holder, faults, expect, faulty, hurt>>

(* Which of the new messages it is makes no difference.                    *)
BeginAdd(c, k, m) ==
  /\ m \notin added /\ m = CHOOSE x \in Msgs : x \notin added
  /\ added' = added \cup {m}
  /\ Begin(c, [NewCall("add", k) EXCEPT !.msg = m])

BeginSummary(c, k, set) ==
  /\ Begin(c, [NewCall("summary", k) EXCEPT !.flag = set])
  /\ UNCHANGED added

BeginTruncate(c, k, keep) ==
  /\ Begin(c, [NewCall("truncate", k) EXCEPT !.keep = keep])
  /\ UNCHANGED added

(* The callers of SetHistory write a part of the history they have read:   *)
(* its start (a rollback), its end (a forced compression) or none of it.   *)
BeginSet(c, k, from, to) ==
  /\ from \in 1 .. Len(Visible(k)) + 1 /\ to \in {0} \cup 1 .. Len(Visible(k))
  /\ from = 1 \/ to = Len(Visible(k))
  /\ Begin(c, [NewCall("set", k) EXCEPT !.hist = SubSeq(Visible(k), from, to)])
  /\ UNCHANGED added

BeginCompact(c, k) ==
  /\ Begin(c, NewCall("compact", k))
  /\ UNCHANGED added

BeginPromote(c, k, a) ==
  /\ <<k, a>> \in Aliases
  /\ Begin(c, [NewCall("promote", k) EXCEPT !.alias = a])
  /\ UNCHANGED added

Needs(r) == {Shard[r.key]} \cup (IF r.alias = None THEN {} ELSE {Shard[r.alias]})

(* Mutation: the pair is locked in the order of the arguments. *)
NextAsGiven(c) ==
  LET r == call[c]
      k == r.key
  IN  IF holder[Shard[k]] = c THEN Shard[r.alias] ELSE Shard[k]

(* sessionLock, lockSessionPair: the lock of the lower key comes first.    *)
NextLock(c) ==
  LET r == call[c]
      lower == IF r.alias # None /\ Rank[r.alias] < Rank[r.key] THEN r.alias ELSE r.key
      upper == IF lower = r.key /\ r.alias # None THEN r.alias ELSE r.key
  IN  IF holder[Shard[lower]] = c THEN Shard[upper] ELSE Shard[lower]

Lock(c) ==
  /\ call[c] # None /\ call[c].pc = "lock"
  /\ holder[NextLock(c)] = None
  /\ holder' = [holder EXCEPT ![NextLock(c)] = c]
  /\ call' = IF \A s \in Needs(call[c]) : holder'[s] = c
             THEN [call EXCEPT ![c].pc = "first"] ELSE call
  /\ UNCHANGED <<files, calls, faults, added, expect, faulty, hurt>>

At(c, op, pc) == call[c] # None /\ call[c].op = op /\ call[c].pc = pc

(* The deferred unlock, and the method returns. *)
Return(c) ==
  /\ holder' = [s \in Shards |-> IF holder[s] = c THEN None ELSE holder[s]]
  /\ call' = [call EXCEPT ![c] = None]
  /\ UNCHANGED <<calls, added>>

Goto(c, r) ==
  /\ call' = [call EXCEPT ![c] = [r EXCEPT !.pc = "second"]]
  /\ UNCHANGED <<holder, calls, added>>

NoFault == UNCHANGED <<faults, faulty, hurt>>

-----------------------------------------------------------------------------
(***************************************************************************)
(* The methods.                                                            *)
(***************************************************************************)

(* addMsg: the line is appended and flushed ... *)
AddLine(c) ==
  LET r == call[c]
      k == r.key
  IN  /\ At(c, "add", "first")
      /\ lines' = [lines EXCEPT ![k] = Appended(k, r.msg)]
      /\ open' = open \ {k}
      /\ expect' = [expect EXCEPT ![k] = Append(@, r.msg)]
      /\ Goto(c, r)
      /\ NoFault /\ UNCHANGED <<skip, summary>>

(* ... and the metadata counts it. *)
AddMeta(c) ==
  /\ At(c, "add", "second")
  /\ Return(c)
  /\ NoFault /\ UNCHANGED <<files, expect>>

SetSummary(c) ==
  LET r == call[c]
  IN  /\ At(c, "summary", "first")
      /\ summary' = IF r.flag THEN summary \cup {r.key} ELSE summary \ {r.key}
      /\ Return(c)
      /\ NoFault /\ UNCHANGED <<lines, open, skip, expect>>

(* The number of lines to skip that leaves keep messages.  skip is first   *)
(* brought back to the lines there are.                                    *)
Kept(k, keep) ==
  LET raw    == Len(lines[k])
      from   == IF skip[k] > raw THEN raw ELSE skip[k]
      active == {i \in from + 1 .. raw : lines[k][i] # Torn}
  IN  IF keep = 0 \/ active = {} THEN raw
      ELSE IF Cardinality(active) <= keep THEN from
      ELSE CHOOSE i \in active : Cardinality({j \in active : j > i}) = keep

TruncateHistory(c) ==
  LET r == call[c]
      k == r.key
  IN  /\ At(c, "truncate", "first")
      /\ skip' = [skip EXCEPT ![k] = Kept(k, r.keep)]
      /\ expect' = [expect EXCEPT ![k] = Last(@, r.keep)]
      /\ Return(c)
      /\ NoFault /\ UNCHANGED <<lines, open, summary>>

(* Mutation: the new file is read from the old offset. *)
SetMetaOldSkip(c) ==
  /\ At(c, "set", "first")
  /\ Goto(c, call[c])
  /\ NoFault /\ UNCHANGED <<files, expect>>

(* SetHistory and Compact: nothing is skipped any more ... *)
SetMeta(c) ==
  LET r == call[c]
  IN  /\ At(c, "set", "first")
      /\ skip' = [skip EXCEPT ![r.key] = 0]
      /\ Goto(c, r)
      /\ NoFault /\ UNCHANGED <<lines, open, summary, expect>>

CompactMeta(c) ==
  LET r == call[c]
      k == r.key
  IN  /\ At(c, "compact", "first") /\ skip[k] # 0
      /\ skip' = [skip EXCEPT ![k] = 0]
      /\ Goto(c, [r EXCEPT !.hist = Visible(k)])
      /\ NoFault /\ UNCHANGED <<lines, open, summary, expect>>

CompactNothing(c) ==
  /\ At(c, "compact", "first") /\ skip[call[c].key] = 0
  /\ Return(c)
  /\ NoFault /\ UNCHANGED <<files, expect>>

(* ... and the file is replaced. *)
Rewrite(c) ==
  LET r == call[c]
      k == r.key
  IN  /\ At(c, "set", "second") \/ At(c, "compact", "second")
      /\ lines' = [lines EXCEPT ![k] = r.hist]
      /\ open' = open \ {k}
      /\ expect' = IF r.op = "set" THEN [expect EXCEPT ![k] = r.hist] ELSE expect
      /\ Return(c)
      /\ NoFault /\ UNCHANGED <<skip, summary>>

HasContent(k) == k \in summary \/ Visible(k) # << >>

(* Mutation: the canonical session is not looked at. *)
CanAlwaysPromote(k, a) == HasContent(a)

CanPromote(k, a) == ~HasContent(k) /\ HasContent(a)

(* promoteAliasHistoryLocked: the history of the alias replaces the file   *)
(* of the empty canonical session ...                                      *)
PromoteFile(c) ==
  LET r == call[c]
      k == r.key
      a == r.alias
  IN  /\ At(c, "promote", "first") /\ CanPromote(k, a)
      /\ lines' = [lines EXCEPT ![k] = Visible(a)]
      /\ open' = open \ {k}
      /\ Goto(c, [r EXCEPT !.old = lines[k], !.oldOpen = k \in open, !.hist = Visible(a)])
      /\ NoFault /\ UNCHANGED <<skip, summary, expect>>

PromoteNothing(c) ==
  /\ At(c, "promote", "first") /\ ~CanPromote(call[c].key, call[c].alias)
  /\ Return(c)
  /\ NoFault /\ UNCHANGED <<files, expect>>

(* ... and its metadata skips nothing of it. *)
PromoteMeta(c) ==
  LET r == call[c]
      k == r.key
      a == r.alias
  IN  /\ At(c, "promote", "second")
      /\ skip' = [skip EXCEPT ![k] = 0]
      /\ summary' = IF a \in summary THEN summary \cup {k} ELSE summary
      /\ expect' = [expect EXCEPT ![k] = @ \o r.hist]
      /\ Return(c)
      /\ NoFault /\ UNCHANGED <<lines, open>>

-----------------------------------------------------------------------------
(***************************************************************************)
(* Failures.                                                               *)
(***************************************************************************)
Fault(k, hurts) ==
  /\ faults < MaxFaults
  /\ faults' = faults + 1
  /\ faulty' = faulty \cup {k}
  /\ hurt' = IF hurts THEN hurt \cup {k} ELSE hurt

(* A write fails and changes nothing.  A promotion puts its file back, and *)
(* that may fail too.                                                      *)
WriteFails(c) ==
  LET r == call[c]
      k == r.key
  IN  /\ call[c] # None /\ r.pc \in {"first", "second"}
      /\ IF r.op = "promote" /\ r.pc = "second"
         THEN \/ /\ lines' = [lines EXCEPT ![k] = r.old]
                 /\ open' = IF r.oldOpen THEN open \cup {k} ELSE open \ {k}
                 /\ Fault(k, FALSE)
              \/ /\ Fault(k, skip[k] > 0)
                 /\ UNCHANGED <<lines, open>>
         ELSE /\ Fault(k, FALSE)
              /\ UNCHANGED <<lines, open>>
      /\ Return(c)
      /\ UNCHANGED <<skip, summary, expect>>

(* An append writes a part of its line: some of the message, or all of it  *)
(* but the line feed.                                                      *)
PartOfLine(k, m) ==
  /\ \E l \in {Torn, m} : lines' = [lines EXCEPT ![k] = Appended(k, l)]
  /\ open' = open \cup {k}
  /\ UNCHANGED <<skip, summary>>

(* The disk is full. *)
AppendFails(c) ==
  /\ At(c, "add", "first")
  /\ PartOfLine(call[c].key, call[c].msg)
  /\ Fault(call[c].key, TRUE)
  /\ Return(c)
  /\ UNCHANGED expect

(* The process dies: between two writes, or within an append. *)
Crash ==
  LET cut == {call[c].key : c \in {d \in Callers : call[d] # None}}
      halfPromoted == {k \in Keys : \E c \in Callers :
                         At(c, "promote", "second") /\ call[c].key = k /\ skip[k] > 0}
  IN  /\ faults < MaxFaults /\ cut # {}
      /\ faults' = faults + 1
      /\ \/ /\ UNCHANGED files
            /\ hurt' = hurt \cup halfPromoted
         \/ \E c \in Callers :
              /\ At(c, "add", "first")
              /\ PartOfLine(call[c].key, call[c].msg)
              /\ hurt' = hurt \cup halfPromoted \cup {call[c].key}
      /\ faulty' = faulty \cup cut
      /\ holder' = [s \in Shards |-> None]
      /\ call' = [c \in Callers |-> None]
      /\ UNCHANGED <<calls, added, expect>>

-----------------------------------------------------------------------------
Method(c) ==
  \/ AddLine(c) \/ AddMeta(c) \/ SetSummary(c) \/ TruncateHistory(c)
  \/ SetMeta(c) \/ CompactMeta(c) \/ CompactNothing(c) \/ Rewrite(c)
  \/ PromoteFile(c) \/ PromoteNothing(c) \/ PromoteMeta(c)

BeginCall(c) ==
  \E k \in Keys :
    \/ \E m \in Msgs : BeginAdd(c, k, m)
    \/ \E set \in BOOLEAN : BeginSummary(c, k, set)
    \/ \E keep \in 0 .. 1 : BeginTruncate(c, k, keep)
    \/ \E from \in 1 .. Cardinality(Msgs) + 1, to \in 0 .. Cardinality(Msgs) :
         BeginSet(c, k, from, to)
    \/ BeginCompact(c, k)
    \/ \E a \in Keys : BeginPromote(c, k, a)

Next ==
  \/ \E c \in Callers :
       BeginCall(c) \/ Lock(c) \/ Method(c) \/ WriteFails(c) \/ AppendFails(c)
  \/ Crash

Spec == Init /\ [][Next]_vars

-----------------------------------------------------------------------------
(***************************************************************************)
(* Properties.                                                             *)
(***************************************************************************)
Inside(c) == call[c] # None /\ call[c].pc \in {"first", "second"}
Touches(c) == {call[c].key} \cup ({call[c].alias} \ {None})
Settled(k) == \A c \in Callers : Inside(c) => k \notin Touches(c)

(* "Each method is an atomic operation": whatever other methods ran at the *)
(* same time, a session no method of which failed shows exactly the        *)
(* messages the methods left it, in order.                                 *)
MethodsAtomic ==
  \A k \in Keys : Settled(k) /\ k \notin faulty => Visible(k) = expect[k]

(* A method that fails or dies half way may bring back messages that were  *)
(* truncated before, and loses none: the messages the session was to keep  *)
(* are the end of its history.  Not so after an append that was cut short  *)
(* or a promotion that was cut off with lines of the old file skipped.     *)
NothingLost ==
  \A k \in Keys : Settled(k) /\ k \notin hurt => IsEnd(expect[k], Visible(k))

(* Waits(c, d): c is blocked on a lock that d holds.  In a ring every      *)
(* caller waits for one of the ring, so that none of them ever returns.    *)
Waits(c, d) == call[c] # None /\ call[c].pc = "lock" /\ holder[NextLock(c)] = d
Ring(ring)  == ring # {} /\ \A c \in ring : \E d \in ring : Waits(c, d)

Collide(c, d) == \E k \in Touches(c), l \in Touches(d) : k # l /\ Shard[k] = Shard[l]

(* lockSessionPair takes the lock of the lower key first.  That orders the *)
(* sessions, not their locks, so it prevents every ring but those in which *)
(* different sessions of different calls have one lock.  In particular     *)
(* promotions of the same two sessions never stop each other, in whichever *)
(* direction, and a pair with one lock does not stop itself.               *)
RingsCollide ==
  \A ring \in SUBSET Callers : IsFiniteSet(ring) /\ Ring(ring) =>
    \E c, d \in ring : c # d /\ Collide(c, d)

(* No two calls wait for each other.  Does not hold: when l has the lock   *)
(* of j, promotions of <<j, k>> and of <<k, l>> take the same two locks in *)
(* opposite orders (lockSessionPair goes by keys, sessionLock by shards).  *)
NoCircularWait ==
  \A c, d \in Callers : ~(c # d /\ Waits(c, d) /\ Waits(d, c))

(* "This keeps all writes append-only, which is both fast and crash-safe": *)
(* a message whose append was flushed is in the history afterwards, also   *)
(* when it was written after a crash or a full disk.                       *)
AppendsSurvive ==
  \A k \in Keys : Settled(k) =>
    \A i \in DOMAIN expect[k] : \E j \in DOMAIN Visible(k) : Visible(k)[j] = expect[k][i]
=============================================================================
