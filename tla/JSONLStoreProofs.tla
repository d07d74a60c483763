-------------------------- MODULE JSONLStoreProofs --------------------------
(***************************************************************************)
(* Theorems about the store of the conversations, for any sessions, shards *)
(* and callers and any messages.                                           *)
(*                                                                         *)
(* Which sessions share a lock is left open throughout.                    *)
(*                                                                         *)
(* What a session shows is not an invariant by itself: between the two     *)
(* writes of a method it shows what no one has asked for.  KeyOk says what *)
(* is on disk then, for each method (Half), and Locked why nothing else    *)
(* sees it: a method at work holds the locks of the sessions it touches.   *)
(* The lemmas of the first part say what readMessages returns of a file,   *)
(* by induction on its lines.                                              *)
(***************************************************************************)
EXTENDS JSONLStore, FiniteSetTheorems, SequenceTheorems, WellFoundedInduction, TLAPS

-----------------------------------------------------------------------------
(***************************************************************************)
(* Files and histories.                                                    *)
(***************************************************************************)
(* A non-empty set of numbers has a least one.  An induction is the case   *)
(* of the least number for which a statement fails.                        *)
LEMMA Least ==
  ASSUME NEW T \in SUBSET Nat, T # {}
  PROVE  \E x \in T : \A y \in T : x <= y
<1>1. IsWellFoundedOn(OpToRel(<, Nat), Nat)
  BY NatLessThanWellFounded, Zenon
<1>2. PICK x \in T : \A y \in T : ~(<<y, x>> \in OpToRel(<, Nat))
  BY <1>1, WFMin, Zenon
<1>3. \A y \in T : y \in Nat /\ x \in Nat /\ ~(y < x)
  BY <1>2 DEF OpToRel
<1> QED
  BY <1>3

(* The i-th step of readMessages.                                          *)
Step(s, from, f, i) ==
  IF i <= from THEN << >>
  ELSE IF s[i] = Torn THEN f[i - 1]
  ELSE Append(f[i - 1], s[i])

(* The scan of a file is defined, by steps, for a file of any length.      *)
LEMMA ScanExists ==
  ASSUME NEW s \in Seq(Lines), NEW from \in Nat
  PROVE  /\ Scan(s, from) \in [0 .. Len(s) -> Seq(Msgs)]
         /\ \A i \in 0 .. Len(s) : Scan(s, from)[i] = Step(s, from, Scan(s, from), i)
<1> DEFINE Defines(f, n) == /\ f \in [0 .. n -> Seq(Msgs)]
                            /\ \A i \in 0 .. n : f[i] = Step(s, from, f, i)
           Failing == {n \in 0 .. Len(s) : \A f \in [0 .. n -> Seq(Msgs)] : ~Defines(f, n)}
<1>0. Len(s) \in Nat /\ \A i \in 1 .. Len(s) : s[i] \in Msgs \cup {Torn}
  BY DEF Lines
<1>1. 0 \notin Failing
  <2>1. << >> \in Seq(Msgs)
    OBVIOUS
  <2>2. Defines([i \in 0 .. 0 |-> << >>], 0)
    BY <2>1 DEF Step
  <2> QED
    BY <2>2
<1>2. ASSUME NEW n \in 1 .. Len(s), NEW f \in [0 .. n - 1 -> Seq(Msgs)], Defines(f, n - 1)
      PROVE  \E g \in [0 .. n -> Seq(Msgs)] : Defines(g, n)
  <2> DEFINE g == [i \in 0 .. n |-> IF i = n THEN Step(s, from, f, n) ELSE f[i]]
  <2>1. Step(s, from, f, n) \in Seq(Msgs)
    <3>1. n - 1 \in 0 .. n - 1 /\ f[n - 1] \in Seq(Msgs) /\ << >> \in Seq(Msgs)
      BY <1>2
    <3>2. s[n] # Torn => Append(f[n - 1], s[n]) \in Seq(Msgs)
      BY <1>0, <3>1
    <3> QED
      BY <3>1, <3>2 DEF Step
  <2>2. g \in [0 .. n -> Seq(Msgs)]
    BY <1>2, <2>1
  <2>3. \A i \in 0 .. n : g[i] = Step(s, from, g, i)
    <3> SUFFICES ASSUME NEW i \in 0 .. n PROVE g[i] = Step(s, from, g, i)
      OBVIOUS
    <3>1. i > from => i # 0 /\ i - 1 \in 0 .. n - 1 /\ g[i - 1] = f[i - 1]
      OBVIOUS
    <3>2. Step(s, from, g, i) = Step(s, from, f, i)
      BY <3>1 DEF Step
    <3>3. i # n => g[i] = f[i] /\ f[i] = Step(s, from, f, i)
      BY <1>2
    <3> QED
      BY <3>2, <3>3
  <2> QED
    BY <2>2, <2>3
<1> HIDE DEF Defines
<1>3. Failing = {}
  <2> SUFFICES ASSUME Failing # {} PROVE FALSE
    OBVIOUS
  <2>1. PICK n \in Failing : \A m \in Failing : n <= m
    <3>1. Failing \in SUBSET Nat
      BY <1>0
    <3> QED
      BY <3>1, Least
  <2>2. n \in 1 .. Len(s) /\ n - 1 \in 0 .. Len(s) /\ n - 1 \notin Failing
    <3>1. n \in 0 .. Len(s) /\ n # 0
      BY <1>1, <2>1
    <3>2. n - 1 \in Failing => n <= n - 1
      BY <2>1
    <3> QED
      BY <1>0, <3>1, <3>2
  <2>3. PICK f \in [0 .. n - 1 -> Seq(Msgs)] : Defines(f, n - 1)
    BY <2>2
  <2> QED
    BY <1>2, <2>1, <2>2, <2>3
<1>4. PICK f \in [0 .. Len(s) -> Seq(Msgs)] : Defines(f, Len(s))
  BY <1>0, <1>3
<1> DEFINE Body(h) == [i \in 0 .. Len(s) |->
                         IF i <= from THEN << >>
                         ELSE IF s[i] = Torn THEN h[i - 1]
                         ELSE Append(h[i - 1], s[i])]
<1>5. f = Body(f)
  BY <1>4 DEF Defines, Step
<1>6. Scan(s, from) = CHOOSE h : h = Body(h)
  BY DEF Scan
<1>7. Scan(s, from) = Body(Scan(s, from))
  <2>1. \E h : h = Body(h)
    BY <1>5
  <2> HIDE DEF Body
  <2> QED
    BY <1>6, <2>1
<1>8. \A i \in 0 .. Len(s) : Scan(s, from)[i] = Step(s, from, Scan(s, from), i)
  BY <1>7, Zenon DEF Step
<1>9. DOMAIN Scan(s, from) = 0 .. Len(s)
  BY <1>7
<1> DEFINE Differ == {i \in 0 .. Len(s) : Scan(s, from)[i] # f[i]}
<1>10. Differ = {}
  <2> SUFFICES ASSUME Differ # {} PROVE FALSE
    OBVIOUS
  <2>1. PICK n \in Differ : \A m \in Differ : n <= m
    <3>1. Differ \in SUBSET Nat
      BY <1>0
    <3> QED
      BY <3>1, Least
  <2>2. n > from => n - 1 \in 0 .. Len(s) /\ Scan(s, from)[n - 1] = f[n - 1]
    BY <1>0, <2>1
  <2>3. Step(s, from, Scan(s, from), n) = Step(s, from, f, n)
    BY <2>2 DEF Step
  <2> QED
    BY <1>4, <1>8, <2>1, <2>3 DEF Defines
<1>11. Scan(s, from) \in [0 .. Len(s) -> Seq(Msgs)]
  <2>1. \A i \in 0 .. Len(s) : Scan(s, from)[i] \in Seq(Msgs)
    BY <1>4, <1>10
  <2>2. Scan(s, from) = [i \in 0 .. Len(s) |-> Scan(s, from)[i]]
    BY <1>7
  <2> QED
    BY <2>1, <2>2
<1> QED
  BY <1>8, <1>11

(* What is read of a file is a sequence of messages, torn lines or not.    *)
LEMMA ReadType ==
  ASSUME NEW s \in Seq(Lines), NEW from \in Nat
  PROVE  /\ Read(s, from) \in Seq(Msgs)
         /\ from >= Len(s) => Read(s, from) = << >>
<1>1. Len(s) \in 0 .. Len(s)
  OBVIOUS
<1> QED
  BY <1>1, ScanExists DEF Read, Step

(* Of a file without torn lines it is all that is not skipped.             *)
LEMMA ReadWhole ==
  ASSUME NEW s \in Seq(Msgs), NEW from \in 0 .. Len(s)
  PROVE  /\ Len(Read(s, from)) = Len(s) - from
         /\ \A i \in 1 .. Len(s) - from : Read(s, from)[i] = s[from + i]
<1> DEFINE f == Scan(s, from)
           Holds(n) == /\ Len(f[n]) = n - from
                       /\ \A i \in 1 .. n - from : f[n][i] = s[from + i]
           Failing == {n \in from .. Len(s) : ~Holds(n)}
<1>1. /\ s \in Seq(Lines) /\ from \in Nat /\ Len(s) \in Nat
      /\ \A i \in 1 .. Len(s) : s[i] \in Msgs /\ s[i] # Torn
  <2>1. Msgs \subseteq Lines
    BY DEF Lines
  <2>2. s \in Seq(Lines)
    BY <2>1, SeqMonotonic
  <2> QED
    BY <2>2, StoreAssumption
<1>2. /\ f \in [0 .. Len(s) -> Seq(Msgs)]
      /\ \A i \in 0 .. Len(s) : f[i] = Step(s, from, f, i)
  BY <1>1, ScanExists
<1> HIDE DEF f
<1>3. Holds(from)
  <2>1. f[from] = << >>
    BY <1>1, <1>2 DEF Step
  <2> QED
    BY <1>1, <2>1
<1>4. ASSUME NEW n \in from .. Len(s), n # from, Holds(n - 1)
      PROVE  Holds(n)
  <2>1. /\ n \in 1 .. Len(s) /\ n - 1 \in 0 .. Len(s) /\ ~(n <= from)
        /\ n - 1 - from \in Nat
    BY <1>1, <1>4
  <2>2. f[n] = Append(f[n - 1], s[n])
    BY <1>1, <1>2, <2>1 DEF Step
  <2>3. /\ f[n - 1] \in Seq(Msgs) /\ Len(f[n]) = Len(f[n - 1]) + 1
        /\ f[n][Len(f[n - 1]) + 1] = s[n]
        /\ \A i \in 1 .. Len(f[n - 1]) : f[n][i] = f[n - 1][i]
    <3>1. f[n - 1] \in Seq(Msgs) /\ s[n] \in Msgs
      BY <1>1, <1>2, <2>1
    <3> QED
      BY <2>2, <3>1
  <2>4. \A i \in 1 .. n - from : i \in 1 .. n - 1 - from \/ i = n - from
    BY <1>1, <2>1
  <2>5. from + (n - from) = n /\ n - 1 - from + 1 = n - from
    BY <1>1, <2>1
  <2> QED
    BY <1>4, <2>1, <2>3, <2>4, <2>5
<1> HIDE DEF Holds
<1>5. Failing = {}
  <2> SUFFICES ASSUME Failing # {} PROVE FALSE
    OBVIOUS
  <2>1. PICK n \in Failing : \A m \in Failing : n <= m
    <3>1. Failing \in SUBSET Nat
      BY <1>1
    <3> QED
      BY <3>1, Least
  <2>2. n \in from .. Len(s) /\ n # from /\ n - 1 \in from .. Len(s)
    BY <1>1, <1>3, <2>1
  <2>3. n - 1 \notin Failing
    BY <1>1, <2>1, <2>2
  <2> QED
    BY <1>4, <2>1, <2>2, <2>3
<1>6. Holds(Len(s))
  BY <1>1, <1>5
<1> QED
  BY <1>6 DEF Holds, Read, f

(* The end of a history, place by place.                                   *)
LEMMA LastProperties ==
  ASSUME NEW s \in Seq(Msgs), NEW n \in Nat
  PROVE  /\ Last(s, n) \in Seq(Msgs)
         /\ Len(Last(s, n)) = IF n >= Len(s) THEN Len(s) ELSE n
         /\ \A i \in 1 .. Len(Last(s, n)) : Last(s, n)[i] = s[Len(s) - Len(Last(s, n)) + i]
<1>0. Len(s) \in Nat
  OBVIOUS
<1>1. CASE n >= Len(s)
  BY <1>1 DEF Last
<1>2. CASE n < Len(s)
  <2> DEFINE m == Len(s) - n + 1
  <2>1. Last(s, n) = SubSeq(s, m, Len(s))
    BY <1>0, <1>2 DEF Last
  <2>2. m \in Int /\ \A i \in m .. Len(s) : s[i] \in Msgs
    BY <1>0, <1>2
  <2>3. /\ SubSeq(s, m, Len(s)) \in Seq(Msgs)
        /\ Len(SubSeq(s, m, Len(s))) = IF m <= Len(s) THEN Len(s) - m + 1 ELSE 0
        /\ \A i \in 1 .. Len(s) - m + 1 : SubSeq(s, m, Len(s))[i] = s[m + i - 1]
    BY <1>0, <2>2, SubSeqProperties
  <2>4. Len(Last(s, n)) = n
    BY <1>0, <1>2, <2>1, <2>3
  <2>5. \A i \in 1 .. n : Last(s, n)[i] = s[Len(s) - n + i]
    <3>1. Len(s) - m + 1 = n /\ \A i \in 1 .. n : m + i - 1 = Len(s) - n + i
      BY <1>0
    <3> QED
      BY <2>1, <2>3, <3>1
  <2> QED
    BY <1>0, <1>2, <2>1, <2>3, <2>4, <2>5
<1> QED
  BY <1>0, <1>1, <1>2

LEMMA EndPointwise ==
  ASSUME NEW s \in Seq(Msgs), NEW t \in Seq(Msgs)
  PROVE  IsEnd(s, t) <=> /\ Len(s) <= Len(t)
                         /\ \A i \in 1 .. Len(s) : s[i] = t[Len(t) - Len(s) + i]
<1>1. Len(s) \in Nat /\ Len(t) \in Nat
  OBVIOUS
<1>2. ASSUME Len(s) <= Len(t)
      PROVE  /\ Last(t, Len(s)) \in Seq(Msgs) /\ Len(Last(t, Len(s))) = Len(s)
             /\ \A i \in 1 .. Len(s) : Last(t, Len(s))[i] = t[Len(t) - Len(s) + i]
  <2>1. /\ Last(t, Len(s)) \in Seq(Msgs)
        /\ Len(Last(t, Len(s))) = IF Len(s) >= Len(t) THEN Len(t) ELSE Len(s)
        /\ \A i \in 1 .. Len(Last(t, Len(s))) :
             Last(t, Len(s))[i] = t[Len(t) - Len(Last(t, Len(s))) + i]
    BY <1>1, LastProperties
  <2>2. Len(Last(t, Len(s))) = Len(s)
    BY <1>1, <1>2, <2>1
  <2> QED
    BY <2>1, <2>2
<1>3. ASSUME Len(s) <= Len(t), \A i \in 1 .. Len(s) : s[i] = t[Len(t) - Len(s) + i]
      PROVE  s = Last(t, Len(s))
  <2>1. /\ Last(t, Len(s)) \in Seq(Msgs) /\ Len(Last(t, Len(s))) = Len(s)
        /\ \A i \in 1 .. Len(s) : s[i] = Last(t, Len(s))[i]
    BY <1>2, <1>3
  <2> QED
    BY <2>1, SeqEqual
<1> QED
  BY <1>2, <1>3 DEF IsEnd

(* To keep the last n messages of both keeps the one at the other's end.   *)
LEMMA LastOfEnd ==
  ASSUME NEW s \in Seq(Msgs), NEW t \in Seq(Msgs), NEW n \in Nat, IsEnd(s, t)
  PROVE  IsEnd(Last(s, n), Last(t, n))
<1> DEFINE ls == Last(s, n)
           lt == Last(t, n)
<1>1. Len(s) \in Nat /\ Len(t) \in Nat
  OBVIOUS
<1>2. /\ Len(s) <= Len(t)
      /\ \A i \in 1 .. Len(s) : s[i] = t[Len(t) - Len(s) + i]
  BY EndPointwise
<1>3. /\ ls \in Seq(Msgs) /\ Len(ls) = IF n >= Len(s) THEN Len(s) ELSE n
      /\ \A i \in 1 .. Len(ls) : ls[i] = s[Len(s) - Len(ls) + i]
  BY LastProperties
<1>4. /\ lt \in Seq(Msgs) /\ Len(lt) = IF n >= Len(t) THEN Len(t) ELSE n
      /\ \A i \in 1 .. Len(lt) : lt[i] = t[Len(t) - Len(lt) + i]
  BY LastProperties
<1> HIDE DEF ls, lt
<1>5. Len(ls) <= Len(lt) /\ Len(ls) <= Len(s) /\ Len(lt) <= Len(t)
  BY <1>1, <1>2, <1>3, <1>4
<1>6. ASSUME NEW i \in 1 .. Len(ls) PROVE ls[i] = lt[Len(lt) - Len(ls) + i]
  <2>1. /\ Len(s) - Len(ls) + i \in 1 .. Len(s)
        /\ Len(lt) - Len(ls) + i \in 1 .. Len(lt)
        /\ Len(t) - Len(lt) + (Len(lt) - Len(ls) + i) = Len(t) - Len(s) + (Len(s) - Len(ls) + i)
    <3>1. Len(ls) \in Nat /\ Len(lt) \in Nat
      BY <1>3, <1>4
    <3> QED
      BY <1>1, <1>5, <3>1
  <2> QED
    BY <1>2, <1>3, <1>4, <2>1
<1>7. IsEnd(ls, lt)
  BY <1>3, <1>4, <1>5, <1>6, EndPointwise
<1> QED
  BY <1>7 DEF ls, lt

(* A history, read from an earlier line, ends with what was read before.   *)
LEMMA EarlierReadEnds ==
  ASSUME NEW s \in Seq(Msgs), NEW from \in 0 .. Len(s), NEW e \in Seq(Msgs),
         IsEnd(e, Read(s, from))
  PROVE  IsEnd(e, Read(s, 0)) /\ Read(s, 0) = s
<1>1. /\ Len(s) \in Nat /\ s \in Seq(Lines) /\ 0 \in 0 .. Len(s) /\ Len(e) \in Nat
  <2>1. Msgs \subseteq Lines
    BY DEF Lines
  <2> QED
    BY <2>1, SeqMonotonic
<1>2. /\ Read(s, from) \in Seq(Msgs) /\ Len(Read(s, from)) = Len(s) - from
      /\ \A i \in 1 .. Len(s) - from : Read(s, from)[i] = s[from + i]
  BY <1>1, ReadType, ReadWhole
<1>3. /\ Read(s, 0) \in Seq(Msgs) /\ Len(Read(s, 0)) = Len(s)
      /\ \A i \in 1 .. Len(s) : Read(s, 0)[i] = s[i]
  BY <1>1, ReadType, ReadWhole
<1>4. Read(s, 0) = s
  BY <1>3, SeqEqual
<1>5. /\ Len(e) <= Len(s) - from
      /\ \A i \in 1 .. Len(e) : e[i] = Read(s, from)[Len(s) - from - Len(e) + i]
  BY <1>2, EndPointwise
<1>6. ASSUME NEW i \in 1 .. Len(e) PROVE e[i] = s[Len(s) - Len(e) + i]
  <2>1. /\ Len(s) - from - Len(e) + i \in 1 .. Len(s) - from
        /\ from + (Len(s) - from - Len(e) + i) = Len(s) - Len(e) + i
    BY <1>1, <1>5
  <2> QED
    BY <1>2, <1>5, <2>1
<1>7. IsEnd(e, s)
  BY <1>1, <1>5, <1>6, EndPointwise
<1> QED
  BY <1>4, <1>7

(* The retained messages: the number of lines that TruncateHistory skips.  *)
LEMMA KeptNat ==
  ASSUME NEW k \in Keys, lines[k] \in Seq(Lines), skip[k] \in Nat, NEW keep \in Nat
  PROVE  /\ Kept(k, keep) \in Nat
         /\ Kept(k, keep) <= Len(lines[k])
<1> DEFINE raw    == Len(lines[k])
           from   == IF skip[k] > raw THEN raw ELSE skip[k]
           active == {i \in from + 1 .. raw : lines[k][i] # Torn}
           After(n) == {j \in active : j > n}
<1>1. raw \in Nat /\ from \in Nat /\ from <= raw
  OBVIOUS
<1>2. active \subseteq 1 .. raw /\ IsFiniteSet(active)
  <2>1. active \subseteq 1 .. raw
    BY <1>1
  <2>2. IsFiniteSet(1 .. raw)
    <3> HIDE DEF raw
    <3> QED
      BY <1>1, FS_Interval
  <2> QED
    BY <2>1, <2>2, FS_Subset
<1>3. /\ \A n \in Nat : IsFiniteSet(After(n)) /\ Cardinality(After(n)) \in Nat
      /\ Cardinality(active) \in Nat
  <2>1. \A n \in Nat : IsFiniteSet(After(n))
    BY <1>2, FS_Subset
  <2> QED
    BY <1>2, <2>1, FS_CardinalityType
<1>4. ASSUME keep # 0, Cardinality(active) > keep
      PROVE  \E i \in active : Cardinality(After(i)) = keep
  <2> DEFINE Few == {n \in Nat : Cardinality(After(n)) <= keep}
  <2>1. raw \in Few
    <3>1. After(raw) = {}
      BY <1>1, <1>2
    <3>2. Cardinality(After(raw)) = 0
      BY <3>1, FS_EmptySet, Zenon
    <3> HIDE DEF After, raw
    <3> QED
      BY <1>1, <3>2
  <2>2. PICK n \in Few : \A m \in Few : n <= m
    BY <2>1, Least
  <2>3. n # 0
    <3>1. After(0) = active
      BY <1>2
    <3> HIDE DEF After, active
    <3> QED
      BY <1>3, <1>4, <3>1, <2>2
  <2>4. n - 1 \in Nat /\ n - 1 \notin Few
    BY <2>2, <2>3
  <2>5. Cardinality(After(n - 1)) > keep
    <3> HIDE DEF After
    <3> QED
      BY <1>3, <2>4
  <2>6. n \in active
    <3> SUFFICES ASSUME n \notin active PROVE FALSE
      OBVIOUS
    <3>1. After(n - 1) = After(n)
      BY <1>2, <2>4
    <3> HIDE DEF After
    <3> QED
      BY <1>3, <2>2, <2>5, <3>1
  <2>7. After(n - 1) = After(n) \cup {n} /\ n \notin After(n)
    BY <1>2, <2>4, <2>6
  <2> HIDE DEF After, active
  <2>8. Cardinality(After(n - 1)) = Cardinality(After(n)) + 1
    BY <1>3, <2>7, FS_AddElement
  <2> QED
    BY <1>3, <2>2, <2>5, <2>6, <2>8
<1>5. Kept(k, keep) = IF keep = 0 \/ active = {} THEN raw
                      ELSE IF Cardinality(active) <= keep THEN from
                      ELSE CHOOSE i \in active : Cardinality(After(i)) = keep
  BY DEF Kept
<1>6. ASSUME keep # 0, Cardinality(active) > keep
      PROVE  (CHOOSE i \in active : Cardinality(After(i)) = keep) \in active
  <2> HIDE DEF After, active
  <2> QED
    BY <1>4, <1>6
<1>7. raw = Len(lines[k])
  OBVIOUS
<1> HIDE DEF After, active, raw, from
<1>8. CASE keep = 0 \/ active = {}
  BY <1>1, <1>5, <1>7, <1>8
<1>9. CASE ~(keep = 0 \/ active = {}) /\ Cardinality(active) <= keep
  BY <1>1, <1>5, <1>7, <1>9
<1>10. CASE keep # 0 /\ Cardinality(active) > keep
  <2>1. active # {}
    BY <1>6, <1>10
  <2>2. Kept(k, keep) \in active
    BY <1>3, <1>5, <1>6, <1>10, <2>1
  <2> QED
    BY <1>1, <1>2, <1>7, <2>2
<1> QED
  BY <1>3, <1>8, <1>9, <1>10

(* In a file without torn lines, the last keep messages are those after    *)
(* the lines that TruncateHistory skips.                                   *)
LEMMA KeptReads ==
  ASSUME NEW k \in Keys, lines[k] \in Seq(Msgs), skip[k] \in 0 .. Len(lines[k]),
         NEW keep \in Nat
  PROVE  /\ Kept(k, keep) \in 0 .. Len(lines[k])
         /\ Read(lines[k], Kept(k, keep)) = Last(Visible(k), keep)
<1> DEFINE raw    == Len(lines[k])
           from   == IF skip[k] > raw THEN raw ELSE skip[k]
           active == {i \in from + 1 .. raw : lines[k][i] # Torn}
           After(n) == {j \in active : j > n}
<1>1. raw \in Nat /\ from = skip[k] /\ from \in Nat /\ from <= raw /\ lines[k] \in Seq(Lines)
  <2>1. Msgs \subseteq Lines
    BY DEF Lines
  <2> QED
    BY <2>1, SeqMonotonic
<1>2. active = from + 1 .. raw
  <2>1. \A i \in from + 1 .. raw : lines[k][i] \in Msgs
    BY <1>1
  <2> QED
    BY <2>1, StoreAssumption
<1>3. Kept(k, keep) = IF keep = 0 \/ active = {} THEN raw
                      ELSE IF Cardinality(active) <= keep THEN from
                      ELSE CHOOSE i \in active : Cardinality(After(i)) = keep
  BY <1>1 DEF Kept
<1>4. \A i \in active : After(i) = i + 1 .. raw
  BY <1>1, <1>2
<1>5. Kept(k, keep) = IF raw - from <= keep THEN from ELSE raw - keep
  <2> HIDE DEF raw, from, active, After
  <2>1. Cardinality(active) = raw - from
    <3>1. Cardinality(from + 1 .. raw) = IF from + 1 > raw THEN 0 ELSE raw - (from + 1) + 1
      <4>1. from + 1 \in Int /\ raw \in Int
        BY <1>1
      <4> QED
        BY <4>1, FS_Interval
    <3> QED
      BY <1>1, <1>2, <3>1
  <2>2. \A i \in active : Cardinality(After(i)) = raw - i
    <3> SUFFICES ASSUME NEW i \in active PROVE Cardinality(After(i)) = raw - i
      OBVIOUS
    <3>1. i \in Int /\ i <= raw
      BY <1>1, <1>2
    <3>2. Cardinality(i + 1 .. raw) = IF i + 1 > raw THEN 0 ELSE raw - (i + 1) + 1
      BY <1>1, <3>1, FS_Interval
    <3> QED
      BY <1>1, <1>4, <3>1, <3>2
  <2>3. ASSUME keep # 0, raw - from > keep
        PROVE  (CHOOSE i \in active : Cardinality(After(i)) = keep) = raw - keep
    <3>1. raw - keep \in active
      BY <1>1, <1>2, <2>3
    <3>2. \A i \in active : Cardinality(After(i)) = keep <=> i = raw - keep
      BY <1>1, <1>2, <2>2
    <3> QED
      BY <3>1, <3>2
  <2>4. active = {} <=> raw = from
    <3>1. active = {} <=> ~(from + 1 <= raw)
      BY <1>1, <1>2
    <3> QED
      BY <1>1, <3>1
  <2> QED
    <3>1. CASE keep = 0 \/ raw = from
      BY <1>1, <1>3, <2>4, <3>1
    <3>2. CASE keep # 0 /\ raw # from /\ raw - from <= keep
      BY <1>1, <1>3, <2>1, <2>4, <3>2
    <3>3. CASE keep # 0 /\ raw - from > keep
      <4>1. active # {} /\ ~(Cardinality(active) <= keep)
        BY <1>1, <2>1, <2>4, <3>3
      <4>2. Kept(k, keep) = CHOOSE i \in active : Cardinality(After(i)) = keep
        BY <1>3, <3>3, <4>1, Zenon
      <4>3. Kept(k, keep) = raw - keep
        BY <2>3, <3>3, <4>2, Zenon
      <4> QED
        BY <1>1, <3>3, <4>3
    <3> QED
      BY <1>1, <3>1, <3>2, <3>3
<1>6. Kept(k, keep) \in 0 .. raw
  BY <1>1, <1>5
<1> DEFINE v == Visible(k)
           w == Read(lines[k], Kept(k, keep))
<1>7. /\ v \in Seq(Msgs) /\ Len(v) = raw - from
      /\ \A i \in 1 .. raw - from : v[i] = lines[k][from + i]
  <2>1. skip[k] \in Nat /\ skip[k] \in 0 .. Len(lines[k])
    BY <1>1
  <2>2. /\ Read(lines[k], skip[k]) \in Seq(Msgs)
        /\ Len(Read(lines[k], skip[k])) = Len(lines[k]) - skip[k]
        /\ \A i \in 1 .. Len(lines[k]) - skip[k] :
             Read(lines[k], skip[k])[i] = lines[k][skip[k] + i]
    BY <1>1, <2>1, ReadType, ReadWhole
  <2> HIDE DEF from
  <2> QED
    BY <1>1, <2>2 DEF Visible
<1>8. /\ w \in Seq(Msgs) /\ Len(w) = raw - Kept(k, keep)
      /\ \A i \in 1 .. raw - Kept(k, keep) : w[i] = lines[k][Kept(k, keep) + i]
  <2>1. Kept(k, keep) \in Nat /\ Kept(k, keep) \in 0 .. Len(lines[k])
    BY <1>1, <1>6
  <2> QED
    BY <1>1, <2>1, ReadType, ReadWhole
<1> HIDE DEF v, w
<1>9. /\ Last(v, keep) \in Seq(Msgs)
      /\ Len(Last(v, keep)) = IF keep >= Len(v) THEN Len(v) ELSE keep
      /\ \A i \in 1 .. Len(Last(v, keep)) : Last(v, keep)[i] = v[Len(v) - Len(Last(v, keep)) + i]
  BY <1>7, LastProperties
<1> HIDE DEF raw, from
<1>10. Len(Last(v, keep)) = Len(w)
  BY <1>1, <1>5, <1>7, <1>8, <1>9
<1>11. ASSUME NEW i \in 1 .. Len(w) PROVE w[i] = Last(v, keep)[i]
  <2>1. /\ Len(v) - Len(w) + i \in 1 .. Len(v)
        /\ from + (Len(v) - Len(w) + i) = Kept(k, keep) + i
    <3>1. Kept(k, keep) \in Nat /\ Kept(k, keep) <= raw /\ from <= Kept(k, keep)
      BY <1>1, <1>5
    <3>2. /\ Len(v) = raw - from /\ Len(w) = raw - Kept(k, keep)
      BY <1>7, <1>8
    <3>3. i \in Int /\ 1 <= i /\ i <= raw - Kept(k, keep)
      BY <1>1, <3>1, <3>2
    <3>4. raw - from - (raw - Kept(k, keep)) + i = Kept(k, keep) - from + i
      BY <1>1, <3>1, <3>3
    <3>5. Len(v) - Len(w) + i = Kept(k, keep) - from + i
      BY <3>2, <3>4
    <3>6. /\ Kept(k, keep) - from + i \in 1 .. raw - from
          /\ from + (Kept(k, keep) - from + i) = Kept(k, keep) + i
      BY <1>1, <3>1, <3>3
    <3> QED
      BY <3>2, <3>5, <3>6
  <2> QED
    BY <1>7, <1>8, <1>9, <1>10, <2>1
<1>12. w = Last(v, keep)
  BY <1>8, <1>9, <1>10, <1>11, SeqEqual
<1> QED
  BY <1>6, <1>12 DEF raw, v, w

-----------------------------------------------------------------------------
(***************************************************************************)
(* Types.                                                                  *)
(***************************************************************************)
CallOk ==
  \A c \in Callers : call[c] # None =>
    /\ call[c].op = "add" => call[c].msg \in Msgs
    /\ call[c].op = "promote" <=> call[c].alias # None
    /\ call[c].alias # call[c].key

Typed == TypeOK /\ CallOk

LEMMA InitTyped == Init => Typed
<1>1. << >> \in Seq(Lines) /\ << >> \in Seq(Msgs) /\ MaxCalls \in Nat /\ MaxFaults \in Nat
  BY StoreAssumption
<1> QED
  BY <1>1 DEF Init, Typed, TypeOK, CallOk

LEMMA AppendedType ==
  ASSUME TypeOK, NEW k \in Keys, NEW l \in Lines
  PROVE  Appended(k, l) \in Seq(Lines)
<1>1. lines[k] \in Seq(Lines) /\ Torn \in Lines
  BY DEF TypeOK, Lines
<1>2. CASE k \in open /\ lines[k] # << >>
  <2>1. Len(lines[k]) \in 1 .. Len(lines[k])
    BY <1>1, <1>2, EmptySeq
  <2>2. [lines[k] EXCEPT ![Len(lines[k])] = Torn] \in Seq(Lines)
    BY <1>1, <2>1, ExceptSeq
  <2> QED
    BY <1>2, <2>2 DEF Appended
<1>3. CASE ~(k \in open /\ lines[k] # << >>)
  BY <1>1, <1>3 DEF Appended
<1> QED
  BY <1>2, <1>3

LEMMA VisibleType ==
  ASSUME TypeOK, NEW k \in Keys
  PROVE  Visible(k) \in Seq(Msgs)
<1>1. lines[k] \in Seq(Lines) /\ skip[k] \in Nat
  BY DEF TypeOK
<1> QED
  BY <1>1, ReadType DEF Visible

(* A call that begins. *)
LEMMA BeginTyped ==
  ASSUME Typed, NEW c \in Callers, BeginCall(c)
  PROVE  Typed' /\ \E new \in Call : new.pc = "lock" /\ call[c] = None
                                     /\ call' = [call EXCEPT ![c] = new]
                                     /\ UNCHANGED <<files, holder, faults, expect, faulty, hurt>>
<1>1. PICK k \in Keys :
        \/ \E m \in Msgs : BeginAdd(c, k, m)
        \/ \E set \in BOOLEAN : BeginSummary(c, k, set)
        \/ \E keep \in 0 .. 1 : BeginTruncate(c, k, keep)
        \/ \E from \in 1 .. Cardinality(Msgs) + 1, to \in 0 .. Cardinality(Msgs) :
             BeginSet(c, k, from, to)
        \/ BeginCompact(c, k)
        \/ \E a \in Keys : BeginPromote(c, k, a)
  BY DEF BeginCall
<1> DEFINE Begun(new) == Begin(c, new) /\ added' \subseteq Msgs
           Fit(new) == /\ new \in Call /\ new.pc = "lock" /\ new.alias # new.key
                       /\ new.op = "add" => new.msg \in Msgs
                       /\ new.op = "promote" <=> new.alias # None
<1>2. ASSUME NEW new, Fit(new), Begun(new)
      PROVE  Typed' /\ \E r \in Call : r.pc = "lock" /\ call[c] = None
                                       /\ call' = [call EXCEPT ![c] = r]
                                       /\ UNCHANGED <<files, holder, faults, expect, faulty, hurt>>
  <2>1. /\ call[c] = None /\ call' = [call EXCEPT ![c] = new]
        /\ calls < MaxCalls /\ calls' = calls + 1
        /\ UNCHANGED <<files, holder, faults, expect, faulty, hurt>>
    BY <1>2 DEF Begin
  <2>2. TypeOK'
    <3>1. call' \in [Callers -> Call \cup {None}]
      BY <1>2, <2>1 DEF Typed, TypeOK
    <3>2. calls' \in 0 .. MaxCalls
      BY <2>1, StoreAssumption DEF Typed, TypeOK
    <3> QED
      BY <1>2, <2>1, <3>1, <3>2 DEF Typed, TypeOK, files
  <2>3. CallOk'
    BY <1>2, <2>1 DEF Typed, TypeOK, CallOk
  <2> QED
    BY <1>2, <2>1, <2>2, <2>3 DEF Typed
<1>3. /\ None \notin Keys /\ k # None /\ added \subseteq Msgs
      /\ Visible(k) \in Seq(Msgs) /\ Len(Visible(k)) \in Nat
  BY StoreAssumption, VisibleType DEF Typed, TypeOK
<1>4. ASSUME NEW op \in Ops
      PROVE  /\ NewCall(op, k) \in Call
             /\ NewCall(op, k).op = op /\ NewCall(op, k).key = k
             /\ NewCall(op, k).alias = None /\ NewCall(op, k).pc = "lock"
  <2>1. << >> \in Seq(Lines) /\ << >> \in Seq(Msgs)
    OBVIOUS
  <2> QED
    BY <2>1 DEF NewCall, Call
<1>5. /\ NewCall("add", k) \in Call /\ NewCall("summary", k) \in Call
      /\ NewCall("truncate", k) \in Call /\ NewCall("set", k) \in Call
      /\ NewCall("compact", k) \in Call /\ NewCall("promote", k) \in Call
  BY <1>4 DEF Ops
<1>6. ASSUME NEW m \in Msgs, BeginAdd(c, k, m)
      PROVE  \E new : Fit(new) /\ Begun(new)
  <2>1. Fit([NewCall("add", k) EXCEPT !.msg = m])
    <3> DEFINE r == NewCall("add", k)
               n == [r EXCEPT !.msg = m]
    <3>1. r \in Call /\ r.op = "add" /\ r.key = k /\ r.alias = None /\ r.pc = "lock"
      BY <1>4, <1>5 DEF Ops
    <3> HIDE DEF r
    <3>2. n \in Call /\ n.op = "add" /\ n.key = k /\ n.alias = None /\ n.pc = "lock" /\ n.msg = m
      BY <3>1 DEF Call
    <3> HIDE DEF n
    <3>3. Fit(n)
      BY <1>3, <3>2
    <3> QED
      BY <3>3 DEF n, r
  <2> QED
    BY <1>3, <1>6, <2>1 DEF BeginAdd
<1>7. ASSUME NEW set \in BOOLEAN, BeginSummary(c, k, set)
      PROVE  \E new : Fit(new) /\ Begun(new)
  <2>1. Fit([NewCall("summary", k) EXCEPT !.flag = set])
    <3> DEFINE r == NewCall("summary", k)
               n == [r EXCEPT !.flag = set]
    <3>1. r \in Call /\ r.op = "summary" /\ r.key = k /\ r.alias = None /\ r.pc = "lock"
      BY <1>4, <1>5 DEF Ops
    <3> HIDE DEF r
    <3>2. n \in Call /\ n.op = "summary" /\ n.key = k /\ n.alias = None /\ n.pc = "lock"
      BY <3>1 DEF Call
    <3> HIDE DEF n
    <3>3. Fit(n)
      BY <1>3, <3>2
    <3> QED
      BY <3>3 DEF n, r
  <2> QED
    BY <1>3, <1>7, <2>1 DEF BeginSummary
<1>8. ASSUME NEW keep \in 0 .. 1, BeginTruncate(c, k, keep)
      PROVE  \E new : Fit(new) /\ Begun(new)
  <2>1. keep \in Nat
    OBVIOUS
  <2>2. Fit([NewCall("truncate", k) EXCEPT !.keep = keep])
    <3> DEFINE r == NewCall("truncate", k)
               n == [r EXCEPT !.keep = keep]
    <3>1. r \in Call /\ r.op = "truncate" /\ r.key = k /\ r.alias = None /\ r.pc = "lock"
      BY <1>4, <1>5 DEF Ops
    <3> HIDE DEF r
    <3>2. n \in Call /\ n.op = "truncate" /\ n.key = k /\ n.alias = None /\ n.pc = "lock"
      BY <3>1, <2>1 DEF Call
    <3> HIDE DEF n
    <3>3. Fit(n)
      BY <1>3, <3>2, <2>1
    <3> QED
      BY <3>3 DEF n, r
  <2> QED
    BY <1>3, <1>8, <2>2 DEF BeginTruncate
<1>9. ASSUME NEW from, NEW to, BeginSet(c, k, from, to)
      PROVE  \E new : Fit(new) /\ Begun(new)
  <2>1. /\ from \in Int /\ to \in Int /\ 1 <= from /\ to <= Len(Visible(k))
        /\ added' = added
        /\ Begin(c, [NewCall("set", k) EXCEPT !.hist = SubSeq(Visible(k), from, to)])
    BY <1>3, <1>9 DEF BeginSet
  <2>2. \A i \in from .. to : Visible(k)[i] \in Msgs
    BY <1>3, <2>1
  <2>3. SubSeq(Visible(k), from, to) \in Seq(Msgs)
    BY <2>1, <2>2, SubSeqProperties
  <2>4. PICK h \in Seq(Msgs) : h = SubSeq(Visible(k), from, to)
    BY <2>3
  <2>5. Fit([NewCall("set", k) EXCEPT !.hist = h])
    <3> DEFINE r == NewCall("set", k)
               n == [r EXCEPT !.hist = h]
    <3>1. r \in Call /\ r.op = "set" /\ r.key = k /\ r.alias = None /\ r.pc = "lock"
      BY <1>4, <1>5 DEF Ops
    <3> HIDE DEF r
    <3>2. n \in Call /\ n.op = "set" /\ n.key = k /\ n.alias = None /\ n.pc = "lock"
      BY <3>1 DEF Call
    <3> HIDE DEF n
    <3>3. Fit(n)
      BY <1>3, <3>2
    <3> QED
      BY <3>3 DEF n, r
  <2> QED
    BY <1>3, <2>1, <2>4, <2>5
<1>10. ASSUME BeginCompact(c, k)
       PROVE  \E new : Fit(new) /\ Begun(new)
  <2>1. Fit(NewCall("compact", k))
    BY <1>3, <1>4, <1>5 DEF Ops
  <2> QED
    BY <1>3, <1>10, <2>1 DEF BeginCompact
<1>11. ASSUME NEW a \in Keys, BeginPromote(c, k, a)
       PROVE  \E new : Fit(new) /\ Begun(new)
  <2>1. a # k /\ a # None
    BY <1>3, <1>11, StoreAssumption DEF BeginPromote
  <2>2. Fit([NewCall("promote", k) EXCEPT !.alias = a])
    <3> DEFINE r == NewCall("promote", k)
               n == [r EXCEPT !.alias = a]
    <3>1. r \in Call /\ r.op = "promote" /\ r.key = k /\ r.alias = None /\ r.pc = "lock"
      BY <1>4, <1>5 DEF Ops
    <3> HIDE DEF r
    <3>2. n \in Call /\ n.op = "promote" /\ n.key = k /\ n.alias = a /\ n.pc = "lock"
      BY <3>1, <2>1 DEF Call
    <3> HIDE DEF n
    <3>3. Fit(n)
      BY <1>3, <3>2, <2>1
    <3> QED
      BY <3>3 DEF n, r
  <2> QED
    BY <1>3, <1>11, <2>2 DEF BeginPromote
<1> HIDE DEF Fit, Begun
<1>12. \E new : Fit(new) /\ Begun(new)
  BY <1>1, <1>6, <1>7, <1>8, <1>9, <1>10, <1>11
<1> QED
  BY <1>2, <1>12

(* The table of calls, when the call of c returns or goes on to its second *)
(* write as r, which is the same call.                                     *)
Same(r, q) == r.op = q.op /\ r.key = q.key /\ r.alias = q.alias /\ r.msg = q.msg
                /\ r.flag = q.flag /\ r.keep = q.keep

Went(c, r) ==
  /\ call' \in [Callers -> Call \cup {None}]
  /\ \A d \in Callers \ {c} : call'[d] = call[d]
  /\ call'[c] \in Call /\ call'[c].pc = "second" /\ Same(call'[c], r)
  /\ call'[c].hist = r.hist /\ call'[c].old = r.old /\ call'[c].oldOpen = r.oldOpen
  /\ UNCHANGED <<holder, calls, added>>

Gone(c) ==
  /\ call' \in [Callers -> Call \cup {None}]
  /\ \A d \in Callers \ {c} : call'[d] = call[d]
  /\ call'[c] = None
  /\ holder' \in [Shards -> Callers \cup {None}]
  /\ \A s \in Shards : holder'[s] = IF holder[s] = c THEN None ELSE holder[s]
  /\ UNCHANGED <<calls, added>>

LEMMA GotoWent ==
  ASSUME Typed, NEW c \in Callers, NEW r \in Call, Goto(c, r)
  PROVE  Went(c, r)
<1> DEFINE q == [r EXCEPT !.pc = "second"]
<1>1. /\ q \in Call /\ q.pc = "second" /\ Same(q, r)
      /\ q.hist = r.hist /\ q.old = r.old /\ q.oldOpen = r.oldOpen
  BY DEF Call, Same
<1>2. call' = [call EXCEPT ![c] = q] /\ UNCHANGED <<holder, calls, added>>
  BY DEF Goto
<1> HIDE DEF q
<1> QED
  BY <1>1, <1>2 DEF Went, Typed, TypeOK

LEMMA ReturnGone ==
  ASSUME Typed, NEW c \in Callers, Return(c)
  PROVE  Gone(c)
BY DEF Return, Gone, Typed, TypeOK

LEMMA WentTyped ==
  ASSUME Typed, NEW c \in Callers, call[c] # None, NEW r, Same(r, call[c]), Went(c, r)
  PROVE  /\ call' \in [Callers -> Call \cup {None}] /\ CallOk'
         /\ holder' \in [Shards -> Callers \cup {None}]
         /\ calls' \in 0 .. MaxCalls /\ added' \subseteq Msgs
<1>1. /\ call' \in [Callers -> Call \cup {None}]
      /\ \A d \in Callers \ {c} : call'[d] = call[d]
      /\ call'[c].op = call[c].op /\ call'[c].msg = call[c].msg
      /\ call'[c].alias = call[c].alias /\ call'[c].key = call[c].key
      /\ UNCHANGED <<holder, calls, added>>
  BY DEF Went, Same
<1>2. CallOk'
  BY <1>1 DEF Typed, CallOk
<1> QED
  BY <1>1, <1>2 DEF Typed, TypeOK

LEMMA GoneTyped ==
  ASSUME Typed, NEW c \in Callers, Gone(c)
  PROVE  /\ call' \in [Callers -> Call \cup {None}] /\ CallOk'
         /\ holder' \in [Shards -> Callers \cup {None}]
         /\ calls' \in 0 .. MaxCalls /\ added' \subseteq Msgs
BY DEF Gone, Typed, TypeOK, CallOk

(* The calls that go on: as they are, or with what they have read.         *)
LEMMA GoesOn ==
  ASSUME Typed, NEW c \in Callers, call[c] # None
  PROVE  /\ call[c] \in Call /\ Same(call[c], call[c])
         /\ \A h \in Seq(Msgs) :
              LET r == [call[c] EXCEPT !.hist = h]
              IN  r \in Call /\ Same(r, call[c]) /\ r.hist = h
         /\ \A h \in Seq(Msgs), o \in Seq(Lines), b \in BOOLEAN :
              LET r == [call[c] EXCEPT !.old = o, !.oldOpen = b, !.hist = h]
              IN  r \in Call /\ Same(r, call[c]) /\ r.hist = h /\ r.old = o /\ r.oldOpen = b
<1>1. call[c] \in Call
  BY DEF Typed, TypeOK
<1>2. ASSUME NEW h \in Seq(Msgs)
      PROVE  LET r == [call[c] EXCEPT !.hist = h]
             IN  r \in Call /\ Same(r, call[c]) /\ r.hist = h
  BY <1>1 DEF Call, Same
<1>3. ASSUME NEW h \in Seq(Msgs), NEW o \in Seq(Lines), NEW b \in BOOLEAN
      PROVE  LET r == [call[c] EXCEPT !.old = o, !.oldOpen = b, !.hist = h]
             IN  r \in Call /\ Same(r, call[c]) /\ r.hist = h /\ r.old = o /\ r.oldOpen = b
  BY <1>1 DEF Call, Same
<1> QED
  BY <1>1, <1>2, <1>3 DEF Same

(* A method's step of each kind. *)
Steps(c) == \/ Gone(c)
            \/ \E r \in Call : Same(r, call[c]) /\ Went(c, r)

LEMMA MethodTyped ==
  ASSUME Typed, NEW c \in Callers, Method(c)
  PROVE  Typed' /\ call[c] # None /\ Steps(c)
<1>0. ASSUME call[c] # None, Steps(c),
             lines' \in [Keys -> Seq(Lines)], open' \subseteq Keys,
             skip' \in [Keys -> Nat], summary' \subseteq Keys,
             expect' \in [Keys -> Seq(Msgs)], NoFault
      PROVE  Typed' /\ call[c] # None /\ Steps(c)
  <2>1. /\ call' \in [Callers -> Call \cup {None}] /\ CallOk'
        /\ holder' \in [Shards -> Callers \cup {None}]
        /\ calls' \in 0 .. MaxCalls /\ added' \subseteq Msgs
    BY <1>0, GoneTyped, WentTyped DEF Steps
  <2> QED
    BY <1>0, <2>1 DEF Typed, TypeOK, NoFault
<1>t. /\ lines \in [Keys -> Seq(Lines)] /\ open \subseteq Keys /\ skip \in [Keys -> Nat]
      /\ summary \subseteq Keys /\ expect \in [Keys -> Seq(Msgs)] /\ Msgs \subseteq Lines
  BY DEF Typed, TypeOK, Lines
<1>c. ASSUME call[c] # None
      PROVE  /\ call[c] \in Call /\ call[c].key \in Keys /\ call[c].keep \in Nat
             /\ call[c].hist \in Seq(Msgs)
             /\ call[c].op = "add" => call[c].msg \in Msgs
             /\ call[c].op = "promote" => call[c].alias \in Keys
  BY <1>c DEF Typed, TypeOK, CallOk, Call
<1>1. CASE AddLine(c)
  <2>1. call[c] # None /\ call[c].op = "add" /\ Goto(c, call[c]) /\ NoFault
    BY <1>1 DEF AddLine, At
  <2>2. PICK k \in Keys, m \in Msgs : k = call[c].key /\ m = call[c].msg
    BY <1>c, <2>1
  <2>3. /\ lines' = [lines EXCEPT ![k] = Appended(k, m)]
        /\ open' = open \ {k} /\ UNCHANGED <<skip, summary>>
        /\ expect' = [expect EXCEPT ![k] = Append(@, m)]
    BY <1>1, <2>2 DEF AddLine
  <2>4. Appended(k, m) \in Seq(Lines) /\ Append(expect[k], m) \in Seq(Msgs)
    BY <1>t, AppendedType DEF Typed
  <2>5. Steps(c)
    BY <2>1, GoesOn, GotoWent DEF Steps
  <2> QED
    BY <1>0, <1>t, <2>1, <2>3, <2>4, <2>5
<1>2. CASE AddMeta(c)
  BY <1>0, <1>2, <1>t, ReturnGone DEF AddMeta, At, Steps, files
<1>3. CASE SetSummary(c)
  BY <1>0, <1>3, <1>t, <1>c, ReturnGone DEF SetSummary, At, Steps
<1>4. CASE TruncateHistory(c)
  <2>1. call[c] # None /\ Return(c) /\ NoFault
    BY <1>4 DEF TruncateHistory, At
  <2>2. PICK k \in Keys, n \in Nat : k = call[c].key /\ n = call[c].keep
    BY <1>c, <2>1
  <2>3. /\ skip' = [skip EXCEPT ![k] = Kept(k, n)]
        /\ expect' = [expect EXCEPT ![k] = Last(@, n)]
        /\ UNCHANGED <<lines, open, summary>>
    BY <1>4, <2>2 DEF TruncateHistory
  <2>4. Kept(k, n) \in Nat /\ Last(expect[k], n) \in Seq(Msgs)
    BY <1>t, KeptNat, LastProperties
  <2> QED
    BY <1>0, <1>t, <2>1, <2>3, <2>4, ReturnGone DEF Steps
<1>5. CASE SetMeta(c)
  <2>1. /\ call[c] # None /\ Goto(c, call[c]) /\ NoFault
        /\ skip' = [skip EXCEPT ![call[c].key] = 0]
        /\ UNCHANGED <<lines, open, summary, expect>>
    BY <1>5 DEF SetMeta, At
  <2>2. Steps(c) /\ skip' \in [Keys -> Nat]
    BY <1>t, <2>1, GoesOn, GotoWent DEF Steps
  <2> QED
    BY <1>0, <1>t, <2>1, <2>2
<1>6. CASE CompactMeta(c)
  <2>1. /\ call[c] # None /\ NoFault
        /\ Goto(c, [call[c] EXCEPT !.hist = Visible(call[c].key)])
        /\ skip' = [skip EXCEPT ![call[c].key] = 0]
        /\ UNCHANGED <<lines, open, summary, expect>>
    BY <1>6 DEF CompactMeta, At
  <2>2. Visible(call[c].key) \in Seq(Msgs)
    BY <1>c, <2>1, VisibleType DEF Typed
  <2>3. Steps(c) /\ skip' \in [Keys -> Nat]
    <3>1. PICK r \in Call : r = [call[c] EXCEPT !.hist = Visible(call[c].key)] /\ Same(r, call[c])
      BY <2>1, <2>2, GoesOn
    <3> QED
      BY <1>t, <2>1, <3>1, GotoWent DEF Steps
  <2> QED
    BY <1>0, <1>t, <2>1, <2>3
<1>7. CASE CompactNothing(c)
  BY <1>0, <1>7, <1>t, ReturnGone DEF CompactNothing, At, Steps, files
<1>8. CASE Rewrite(c)
  <2>1. /\ call[c] # None /\ NoFault /\ Return(c)
        /\ lines' = [lines EXCEPT ![call[c].key] = call[c].hist]
        /\ open' = open \ {call[c].key} /\ UNCHANGED <<skip, summary>>
        /\ expect' = IF call[c].op = "set" THEN [expect EXCEPT ![call[c].key] = call[c].hist]
                     ELSE expect
    BY <1>8 DEF Rewrite, At
  <2>2. call[c].hist \in Seq(Lines)
    BY <1>c, <1>t, <2>1, SeqMonotonic
  <2>3. lines' \in [Keys -> Seq(Lines)] /\ expect' \in [Keys -> Seq(Msgs)] /\ open' \subseteq Keys
    BY <1>c, <1>t, <2>1, <2>2
  <2> QED
    BY <1>0, <1>t, <2>1, <2>3, ReturnGone DEF Steps
<1>9. CASE PromoteFile(c)
  <2>1. call[c] # None /\ call[c].op = "promote" /\ NoFault
    BY <1>9 DEF PromoteFile, At
  <2>2. PICK k \in Keys, a \in Keys : k = call[c].key /\ a = call[c].alias
    BY <1>c, <2>1
  <2>3. PICK b \in BOOLEAN : b = (k \in open)
    <3>1. (k \in open) \in BOOLEAN
      BY SMT
    <3> QED
      BY <3>1, Zenon
  <2>4. /\ lines' = [lines EXCEPT ![k] = Visible(a)]
        /\ open' = open \ {k} /\ UNCHANGED <<skip, summary, expect>>
        /\ Goto(c, [call[c] EXCEPT !.old = lines[k], !.oldOpen = b, !.hist = Visible(a)])
    BY <1>9, <2>2, <2>3 DEF PromoteFile
  <2>5. Visible(a) \in Seq(Msgs) /\ Visible(a) \in Seq(Lines) /\ lines[k] \in Seq(Lines)
    <3>1. Visible(a) \in Seq(Msgs)
      BY VisibleType DEF Typed
    <3> QED
      BY <1>t, <3>1, SeqMonotonic
  <2>6. Steps(c)
    <3>1. PICK r \in Call :
             /\ r = [call[c] EXCEPT !.old = lines[k], !.oldOpen = b, !.hist = Visible(a)]
             /\ Same(r, call[c])
      <4>1. \A h \in Seq(Msgs), o \in Seq(Lines), d \in BOOLEAN :
              LET r == [call[c] EXCEPT !.old = o, !.oldOpen = d, !.hist = h]
              IN  r \in Call /\ Same(r, call[c])
        BY <2>1, GoesOn, Zenon
      <4> QED
        BY <2>5, <4>1, Zenon
    <3> QED
      BY <2>4, <3>1, GotoWent DEF Steps
  <2>7. lines' \in [Keys -> Seq(Lines)] /\ open' \subseteq Keys
    BY <1>t, <2>4, <2>5
  <2> QED
    BY <1>0, <1>t, <2>1, <2>4, <2>6, <2>7
<1>10. CASE PromoteNothing(c)
  BY <1>0, <1>10, <1>t, ReturnGone DEF PromoteNothing, At, Steps, files
<1>11. CASE PromoteMeta(c)
  <2>1. /\ call[c] # None /\ NoFault /\ Return(c) /\ UNCHANGED <<lines, open>>
        /\ skip' = [skip EXCEPT ![call[c].key] = 0]
        /\ summary' = IF call[c].alias \in summary THEN summary \cup {call[c].key} ELSE summary
        /\ expect' = [expect EXCEPT ![call[c].key] = @ \o call[c].hist]
    BY <1>11 DEF PromoteMeta, At
  <2>2. expect[call[c].key] \o call[c].hist \in Seq(Msgs)
    BY <1>c, <1>t, <2>1, ConcatProperties
  <2>3. /\ skip' \in [Keys -> Nat] /\ summary' \subseteq Keys
        /\ expect' \in [Keys -> Seq(Msgs)]
    BY <1>c, <1>t, <2>1, <2>2
  <2> QED
    BY <1>0, <1>t, <2>1, <2>3, ReturnGone DEF Steps
<1> QED
  BY <1>1, <1>2, <1>3, <1>4, <1>5, <1>6, <1>7, <1>8, <1>9, <1>10, <1>11 DEF Method

LEMMA FaultTyped ==
  ASSUME Typed, NEW k \in Keys, NEW b, Fault(k, b)
  PROVE  faults' \in 0 .. MaxFaults /\ faulty' \subseteq Keys /\ hurt' \subseteq Keys
BY StoreAssumption DEF Fault, Typed, TypeOK

LEMMA PartTyped ==
  ASSUME Typed, NEW k \in Keys, NEW m \in Msgs, PartOfLine(k, m)
  PROVE  /\ lines' \in [Keys -> Seq(Lines)] /\ open' \subseteq Keys
         /\ UNCHANGED <<skip, summary>>
<1>1. PICK l \in Lines : lines' = [lines EXCEPT ![k] = Appended(k, l)]
  BY DEF PartOfLine, Lines
<1>2. Appended(k, l) \in Seq(Lines)
  BY AppendedType DEF Typed
<1> QED
  BY <1>1, <1>2 DEF PartOfLine, Typed, TypeOK

LEMMA FailureTyped ==
  ASSUME Typed, NEW c \in Callers, WriteFails(c) \/ AppendFails(c)
  PROVE  Typed' /\ call[c] # None /\ Gone(c)
<1>c. call[c] # None /\ Return(c)
  BY DEF WriteFails, AppendFails, At
<1>g. /\ Gone(c) /\ call' \in [Callers -> Call \cup {None}] /\ CallOk'
      /\ holder' \in [Shards -> Callers \cup {None}]
      /\ calls' \in 0 .. MaxCalls /\ added' \subseteq Msgs
  BY <1>c, ReturnGone, GoneTyped
<1>k. PICK k \in Keys, o \in Seq(Lines) :
        /\ k = call[c].key /\ o = call[c].old
        /\ call[c].op = "add" => call[c].msg \in Msgs
  BY <1>c DEF Typed, TypeOK, Call, CallOk
<1>1. CASE WriteFails(c)
  <2>1. /\ \/ lines' = [lines EXCEPT ![k] = o] /\ open' \in {open \cup {k}, open \ {k}}
           \/ UNCHANGED <<lines, open>>
        /\ \E b : Fault(k, b)
        /\ UNCHANGED <<skip, summary, expect>>
    BY <1>1, <1>k DEF WriteFails
  <2>2. lines' \in [Keys -> Seq(Lines)] /\ open' \subseteq Keys
    BY <2>1 DEF Typed, TypeOK
  <2>3. faults' \in 0 .. MaxFaults /\ faulty' \subseteq Keys /\ hurt' \subseteq Keys
    BY <2>1, FaultTyped
  <2> QED
    BY <1>c, <1>g, <2>1, <2>2, <2>3 DEF Typed, TypeOK
<1>2. CASE AppendFails(c)
  <2>1. /\ call[c].op = "add" /\ PartOfLine(k, call[c].msg) /\ Fault(k, TRUE)
        /\ UNCHANGED expect
    BY <1>2, <1>k DEF AppendFails, At
  <2>2. /\ lines' \in [Keys -> Seq(Lines)] /\ open' \subseteq Keys
        /\ UNCHANGED <<skip, summary>>
    BY <1>k, <2>1, PartTyped
  <2>3. faults' \in 0 .. MaxFaults /\ faulty' \subseteq Keys /\ hurt' \subseteq Keys
    BY <2>1, FaultTyped
  <2> QED
    BY <1>c, <1>g, <2>1, <2>2, <2>3 DEF Typed, TypeOK
<1> QED
  BY <1>1, <1>2

LEMMA CrashTyped == Typed /\ Crash => Typed'
<1> SUFFICES ASSUME Typed, Crash PROVE Typed'
  OBVIOUS
<1>1. /\ faults < MaxFaults /\ faults' = faults + 1
      /\ holder' = [s \in Shards |-> None] /\ call' = [c \in Callers |-> None]
      /\ UNCHANGED <<calls, added, expect>>
  BY DEF Crash
<1>2. /\ faulty' = faulty \cup {call[c].key : c \in {d \in Callers : call[d] # None}}
      /\ \A c \in Callers : call[c] # None => call[c].key \in Keys
  BY DEF Crash, Typed, TypeOK, Call
<1>3. faulty' \subseteq Keys
  BY <1>2 DEF Typed, TypeOK
<1> DEFINE half == {k \in Keys : \E c \in Callers :
                      At(c, "promote", "second") /\ call[c].key = k /\ skip[k] > 0}
<1>4. \/ UNCHANGED files /\ hurt' = hurt \cup half
      \/ \E c \in Callers : /\ At(c, "add", "first")
                            /\ PartOfLine(call[c].key, call[c].msg)
                            /\ hurt' = hurt \cup half \cup {call[c].key}
  BY DEF Crash
<1>5. half \subseteq Keys
  OBVIOUS
<1> HIDE DEF half
<1>6. /\ lines' \in [Keys -> Seq(Lines)] /\ open' \subseteq Keys
      /\ UNCHANGED <<skip, summary>> /\ hurt' \subseteq Keys
  <2>1. CASE UNCHANGED files /\ hurt' = hurt \cup half
    BY <1>5, <2>1 DEF files, Typed, TypeOK
  <2>2. ASSUME NEW c \in Callers, At(c, "add", "first"),
               PartOfLine(call[c].key, call[c].msg), hurt' = hurt \cup half \cup {call[c].key}
        PROVE  /\ lines' \in [Keys -> Seq(Lines)] /\ open' \subseteq Keys
               /\ UNCHANGED <<skip, summary>> /\ hurt' \subseteq Keys
    <3>1. call[c].key \in Keys /\ call[c].msg \in Msgs
      BY <1>2, <2>2 DEF At, Typed, CallOk
    <3> QED
      BY <1>5, <2>2, <3>1, PartTyped DEF Typed, TypeOK
  <2> QED
    BY <1>4, <2>1, <2>2
<1>7. faults' \in 0 .. MaxFaults
  BY <1>1, StoreAssumption DEF Typed, TypeOK
<1> QED
  BY <1>1, <1>3, <1>6, <1>7 DEF Typed, TypeOK, CallOk

-----------------------------------------------------------------------------
(***************************************************************************)
(* Locks.                                                                  *)
(***************************************************************************)
Lower(r) == IF r.alias # None /\ Rank[r.alias] < Rank[r.key] THEN r.alias ELSE r.key
Upper(r) == IF Lower(r) = r.key /\ r.alias # None THEN r.alias ELSE r.key

(* A call that waits for a lock has none yet, or the one of its lower key; *)
(* a method at work has those it needs.                                    *)
Locked ==
  \A c \in Callers :
    /\ call[c] = None => \A s \in Shards : holder[s] # c
    /\ Inside(c) => \A s \in Needs(call[c]) : holder[s] = c
    /\ call[c] # None /\ call[c].pc = "lock" =>
         \A s \in Shards : holder[s] = c =>
           s = Shard[Lower(call[c])] /\ s # Shard[Upper(call[c])]

LEMMA LockOrder ==
  ASSUME Typed, NEW c \in Callers, call[c] # None
  PROVE  LET r == call[c]
         IN  /\ r.key \in Keys /\ Lower(r) \in Keys /\ Upper(r) \in Keys
             /\ r.alias # None => r.alias \in Keys /\ Rank[Lower(r)] < Rank[Upper(r)]
             /\ r.alias = None => Lower(r) = r.key /\ Upper(r) = r.key
             /\ Needs(r) = {Shard[Lower(r)], Shard[Upper(r)]} /\ Needs(r) \subseteq Shards
             /\ NextLock(c) = IF holder[Shard[Lower(r)]] = c THEN Shard[Upper(r)]
                              ELSE Shard[Lower(r)]
<1> DEFINE r == call[c]
<1>1. r.key \in Keys /\ (r.alias # None => r.alias \in Keys /\ r.alias # r.key)
  BY DEF Typed, TypeOK, Call, CallOk
<1>2. r.alias # None => Rank[r.alias] \in Nat /\ Rank[r.key] \in Nat /\ Rank[r.alias] # Rank[r.key]
  BY <1>1, StoreAssumption
<1>3. NextLock(c) = IF holder[Shard[Lower(r)]] = c THEN Shard[Upper(r)] ELSE Shard[Lower(r)]
  BY DEF NextLock, Lower, Upper
<1> HIDE DEF r
<1>4. r.alias # None => Rank[Lower(r)] < Rank[Upper(r)]
  BY <1>1, <1>2 DEF Lower, Upper
<1>5. Lower(r) \in Keys /\ Upper(r) \in Keys /\ (r.alias = None => Lower(r) = r.key /\ Upper(r) = r.key)
  BY <1>1 DEF Lower, Upper
<1>6. Needs(r) = {Shard[Lower(r)], Shard[Upper(r)]}
  BY <1>1 DEF Needs, Lower, Upper
<1>7. Needs(r) \subseteq Shards
  BY <1>5, <1>6 DEF Shards
<1> QED
  BY <1>1, <1>3, <1>4, <1>5, <1>6, <1>7 DEF r

(* Taking a lock. *)
LEMMA LockTaken ==
  ASSUME Typed, Locked, NEW c \in Callers, Lock(c)
  PROVE  /\ Typed' /\ Locked'
         /\ call[c] # None /\ call[c].pc = "lock"
         /\ \A d \in Callers : call'[d] # None =>
              /\ call[d] # None /\ Same(call'[d], call[d])
              /\ call'[d].pc = "second" => d # c /\ call'[d] = call[d]
         /\ \A d \in Callers \ {c} : call'[d] = call[d]
         /\ UNCHANGED <<files, expect, faulty, hurt>>
<1> DEFINE l == NextLock(c)
           r == call[c]
<1>1. /\ r # None /\ r.pc = "lock" /\ holder[l] = None /\ r \in Call
      /\ holder' = [holder EXCEPT ![l] = c]
      /\ UNCHANGED <<files, calls, faults, added, expect, faulty, hurt>>
  BY DEF Lock, Typed, TypeOK
<1>2. \/ call' = call
      \/ call' = [call EXCEPT ![c].pc = "first"] /\ \A s \in Needs(r) : holder'[s] = c
  BY DEF Lock
<1>3. (\A s \in Needs(r) : holder'[s] = c) => call' = [call EXCEPT ![c].pc = "first"]
  BY DEF Lock
<1>4. /\ Lower(r) \in Keys /\ Upper(r) \in Keys
      /\ Needs(r) = {Shard[Lower(r)], Shard[Upper(r)]} /\ Needs(r) \subseteq Shards
      /\ l = IF holder[Shard[Lower(r)]] = c THEN Shard[Upper(r)] ELSE Shard[Lower(r)]
  BY <1>1, LockOrder
<1> DEFINE q == [r EXCEPT !.pc = "first"]
<1>5. q \in Call /\ q.pc = "first" /\ Same(q, r) /\ q # None
  BY <1>1, StoreAssumption DEF Call, Same
<1>6. [call EXCEPT ![c].pc = "first"] = [call EXCEPT ![c] = q]
  OBVIOUS
<1> HIDE DEF l, q, r
<1>7. l \in Shards /\ c # None
  BY <1>4, StoreAssumption
<1>8. Typed'
  <2>0. call' = call \/ call' = [call EXCEPT ![c] = q]
    BY <1>2, <1>6, Zenon
  <2>1. call' \in [Callers -> Call \cup {None}]
    BY <1>5, <2>0 DEF Typed, TypeOK
  <2>2. holder' \in [Shards -> Callers \cup {None}]
    BY <1>1, <1>7 DEF Typed, TypeOK
  <2>3. CallOk'
    <3>1. /\ q.op = call[c].op /\ q.msg = call[c].msg /\ q.alias = call[c].alias
          /\ q.key = call[c].key
      BY <1>5 DEF Same, r
    <3>2. call[c] # None
      BY <1>1 DEF r
    <3>3. \A d \in Callers : call'[d] = call[d] \/ (d = c /\ call'[d] = q)
      <4>1. CASE call' = call
        BY <4>1
      <4>2. CASE call' = [call EXCEPT ![c] = q]
        BY <4>2 DEF Typed, TypeOK
      <4> QED
        BY <2>0, <4>1, <4>2
    <3> QED
      BY <3>1, <3>2, <3>3 DEF Typed, CallOk
  <2> QED
    BY <1>1, <2>1, <2>2, <2>3 DEF Typed, TypeOK, files
<1>9. \A s \in Shards : holder'[s] = IF s = l THEN c ELSE holder[s]
  BY <1>1, <1>7 DEF Typed, TypeOK
<1>10. \A d \in Callers \ {c} : call'[d] = call[d] /\ d # None
  BY <1>2, <1>6, StoreAssumption DEF Typed, TypeOK
<1>11. Locked'
  <2> SUFFICES ASSUME NEW d \in Callers
               PROVE  /\ call'[d] = None => \A s \in Shards : holder'[s] # d
                      /\ Inside(d)' => \A s \in Needs(call'[d]) : holder'[s] = d
                      /\ call'[d] # None /\ call'[d].pc = "lock" =>
                           \A s \in Shards : holder'[s] = d =>
                             s = Shard[Lower(call'[d])] /\ s # Shard[Upper(call'[d])]
    BY DEF Locked
  <2>1. CASE d # c
    <3>1. call'[d] = call[d]
      BY <1>10, <2>1
    <3>2. \A s \in Shards : holder'[s] = d <=> holder[s] = d
      BY <1>1, <1>9, <1>10, <2>1
    <3>3. Inside(d)' <=> Inside(d)
      BY <3>1 DEF Inside
    <3>4. Inside(d) => Needs(call[d]) \subseteq Shards
      BY LockOrder DEF Inside
    <3> QED
      BY <3>1, <3>2, <3>3, <3>4 DEF Locked
  <2>2. CASE d = c
    <3>1. \A s \in Shards : holder[s] = c => s = Shard[Lower(r)] /\ s # Shard[Upper(r)]
      BY <1>1 DEF Locked, r
    <3>2. CASE call' = call
      <4>1. \E s \in Needs(r) : holder'[s] # c
        BY <1>1, <1>3, <1>5, <1>6, <3>2 DEF Typed, TypeOK, r
      <4>2. l = Shard[Lower(r)] /\ Shard[Upper(r)] # l
        <5>1. CASE holder[Shard[Lower(r)]] = c
          <6>1. \A s \in Needs(r) : holder'[s] = c
            BY <1>4, <1>9, <5>1
          <6> QED
            BY <4>1, <6>1
        <5>2. CASE holder[Shard[Lower(r)]] # c
          BY <1>4, <1>9, <4>1, <5>2
        <5> QED
          BY <5>1, <5>2
      <4>3. \A s \in Shards : holder'[s] = c => s = Shard[Lower(r)] /\ s # Shard[Upper(r)]
        BY <1>9, <3>1, <4>2
      <4> QED
        BY <1>1, <2>2, <3>2, <4>3 DEF Inside, r
    <3>3. CASE call' = [call EXCEPT ![c] = q] /\ \A s \in Needs(r) : holder'[s] = c
      <4>1. call'[c] = q
        BY <3>3 DEF Typed, TypeOK
      <4>2. Needs(q) = Needs(r)
        BY <1>5 DEF Same, Needs
      <4> QED
        BY <1>5, <2>2, <3>3, <4>1, <4>2
    <3> QED
      BY <1>2, <1>6, <3>2, <3>3
  <2> QED
    BY <2>1, <2>2
<1>12. \A d \in Callers : call'[d] # None =>
         /\ call[d] # None /\ Same(call'[d], call[d])
         /\ call'[d].pc = "second" => d # c /\ call'[d] = call[d]
  <2>1. call'[c] = r \/ call'[c] = q
    BY <1>2, <1>6 DEF Typed, TypeOK, r
  <2>2. Same(call'[c], call[c]) /\ call'[c].pc # "second" /\ call[c] # None
    BY <1>1, <1>5, <2>1 DEF Same, r
  <2> QED
    BY <1>10, <2>2 DEF Same
<1> QED
  BY <1>1, <1>8, <1>10, <1>11, <1>12 DEF r

(* A step of a method keeps its locks or gives all of them back.           *)
LEMMA StepLocked ==
  ASSUME Typed, Locked, NEW c \in Callers, call[c] # None, Inside(c), Steps(c)
  PROVE  Locked'
<1>0. c # None
  BY StoreAssumption
<1>n. \A d \in Callers : Inside(d) => Needs(call[d]) \subseteq Shards
  BY LockOrder DEF Inside
<1>1. CASE Gone(c)
  <2>1. /\ \A d \in Callers \ {c} : call'[d] = call[d] /\ d # None
        /\ call'[c] = None
        /\ \A s \in Shards : holder'[s] = IF holder[s] = c THEN None ELSE holder[s]
    BY <1>1, StoreAssumption DEF Gone
  <2>2. \A s \in Shards : holder'[s] # c
    BY <1>0, <2>1
  <2>3. \A d \in Callers \ {c}, s \in Shards : holder'[s] = d <=> holder[s] = d
    BY <2>1
  <2> QED
    BY <1>n, <2>1, <2>2, <2>3 DEF Locked, Inside
<1>2. ASSUME NEW r \in Call, Same(r, call[c]), Went(c, r) PROVE Locked'
  <2>1. /\ \A d \in Callers \ {c} : call'[d] = call[d]
        /\ call'[c].pc = "second" /\ holder' = holder /\ call'[c] # None
    BY <1>2, StoreAssumption DEF Went
  <2>2. Needs(call'[c]) = Needs(call[c])
    BY <1>2 DEF Went, Same, Needs
  <2> QED
    BY <2>1, <2>2 DEF Locked, Inside
<1> QED
  BY <1>1, <1>2 DEF Steps

LEMMA CrashLocked == Crash => Locked'
<1> SUFFICES ASSUME Crash PROVE Locked'
  OBVIOUS
<1>1. /\ \A c \in Callers : call'[c] = None /\ c # None
      /\ \A s \in Shards : holder'[s] = None
  BY StoreAssumption DEF Crash
<1> QED
  BY <1>1 DEF Locked, Inside

LEMMA BeginLocked ==
  ASSUME Typed, Locked, NEW c \in Callers, BeginCall(c)
  PROVE  Locked'
<1>1. PICK new \in Call : /\ new.pc = "lock" /\ call[c] = None
                          /\ call' = [call EXCEPT ![c] = new]
                          /\ UNCHANGED holder
  BY BeginTyped
<1>2. call'[c] = new /\ \A d \in Callers \ {c} : call'[d] = call[d]
  BY <1>1 DEF Typed, TypeOK
<1>3. \A s \in Shards : holder'[s] # c
  BY <1>1 DEF Locked
<1> QED
  BY <1>1, <1>2, <1>3 DEF Locked, Inside

(* Every step of a call but the taking of locks is one of a call that has  *)
(* its locks.                                                              *)
LEMMA StepsInside ==
  ASSUME Typed, NEW c \in Callers, Method(c) \/ WriteFails(c) \/ AppendFails(c)
  PROVE  Typed' /\ call[c] # None /\ Inside(c) /\ Steps(c)
<1>1. Typed' /\ call[c] # None /\ Steps(c)
  BY MethodTyped, FailureTyped DEF Steps
<1>2. call[c].pc \in {"first", "second"}
  BY DEF Method, AddLine, AddMeta, SetSummary, TruncateHistory, SetMeta, CompactMeta,
         CompactNothing, Rewrite, PromoteFile, PromoteNothing, PromoteMeta, WriteFails,
         AppendFails, At
<1> QED
  BY <1>1, <1>2 DEF Inside

LockInv == Typed /\ Locked

LEMMA InitLocked == Init => LockInv
<1> SUFFICES ASSUME Init PROVE LockInv
  OBVIOUS
<1>1. Typed
  BY InitTyped
<1>2. \A c \in Callers : call[c] = None /\ c # None
  BY StoreAssumption DEF Init
<1>3. \A s \in Shards : holder[s] = None
  BY DEF Init
<1> QED
  BY <1>1, <1>2, <1>3 DEF LockInv, Locked, Inside

LEMMA NextLocked == LockInv /\ [Next]_vars => LockInv'
<1> SUFFICES ASSUME LockInv, [Next]_vars PROVE LockInv'
  OBVIOUS
<1>0. Typed /\ Locked
  BY DEF LockInv
<1>1. ASSUME NEW c \in Callers, BeginCall(c) PROVE LockInv'
  BY <1>0, <1>1, BeginTyped, BeginLocked DEF LockInv
<1>2. ASSUME NEW c \in Callers, Lock(c) PROVE LockInv'
  BY <1>0, <1>2, LockTaken DEF LockInv
<1>3. ASSUME NEW c \in Callers, Method(c) \/ WriteFails(c) \/ AppendFails(c) PROVE LockInv'
  <2>1. Typed' /\ call[c] # None /\ Inside(c) /\ Steps(c)
    BY <1>0, <1>3, StepsInside
  <2> QED
    BY <1>0, <2>1, StepLocked DEF LockInv
<1>4. CASE Crash
  BY <1>0, <1>4, CrashTyped, CrashLocked DEF LockInv
<1>5. CASE UNCHANGED vars
  BY <1>5 DEF LockInv, Typed, TypeOK, CallOk, Locked, Inside, Needs, vars
<1> QED
  BY <1>1, <1>2, <1>3, <1>4, <1>5 DEF Next

(* The state of the store is well typed; in particular what GetHistory     *)
(* returns is a sequence of messages, whatever the file holds.             *)
THEOREM StoreTypeCorrect == Spec => []TypeOK
<1>1. LockInv => TypeOK
  BY DEF LockInv, Typed
<1> QED
  BY <1>1, InitLocked, NextLocked, PTL DEF Spec

(* Where a call waits, and what it holds then: it has no lock that it      *)
(* waits for, and if it has one, it waits for the lock of its upper key.   *)
LEMMA WaitsFor ==
  ASSUME LockInv, NEW c \in Callers, NEW d \in Callers, Waits(c, d)
  PROVE  /\ call[c] # None /\ c # d
         /\ \E w \in {Lower(call[c]), Upper(call[c])} :
              /\ w \in Touches(c) /\ w \in Keys
              /\ NextLock(c) = Shard[w] /\ holder[Shard[w]] = d
              /\ \A s \in Shards : holder[s] = c =>
                   \E k \in Touches(c) :
                     k \in Keys /\ s = Shard[k] /\ Rank[k] < Rank[w]
<1>1. Typed /\ Locked /\ call[c] # None /\ call[c].pc = "lock" /\ holder[NextLock(c)] = d
  BY DEF LockInv, Waits
<1> DEFINE r == call[c]
<1>2. /\ Lower(r) \in Keys /\ Upper(r) \in Keys
      /\ r.alias # None => Rank[Lower(r)] < Rank[Upper(r)]
      /\ r.alias = None => Lower(r) = r.key /\ Upper(r) = r.key
      /\ NextLock(c) = IF holder[Shard[Lower(r)]] = c THEN Shard[Upper(r)] ELSE Shard[Lower(r)]
  BY <1>1, LockOrder
<1>3. \A s \in Shards : holder[s] = c => s = Shard[Lower(r)] /\ s # Shard[Upper(r)]
  BY <1>1 DEF Locked
<1>4. Lower(r) \in Touches(c) /\ Upper(r) \in Touches(c)
  BY DEF Touches, Lower, Upper
<1>5. Shard[Lower(r)] \in Shards /\ Shard[Upper(r)] \in Shards
  BY <1>2 DEF Shards
<1> HIDE DEF r
<1>6. CASE holder[Shard[Lower(r)]] = c
  <2>1. r.alias # None
    BY <1>2, <1>3, <1>5, <1>6
  <2>2. holder[Shard[Upper(r)]] = d /\ d # c
    BY <1>1, <1>2, <1>3, <1>5, <1>6
  <2> QED
    BY <1>1, <1>2, <1>3, <1>4, <1>6, <2>1, <2>2 DEF r
<1>7. CASE holder[Shard[Lower(r)]] # c
  <2>1. \A s \in Shards : holder[s] # c
    BY <1>3, <1>7
  <2>2. holder[Shard[Lower(r)]] = d /\ d # c
    BY <1>1, <1>2, <1>7
  <2> QED
    BY <1>1, <1>2, <1>4, <2>1, <2>2 DEF r
<1> QED
  BY <1>6, <1>7

LEMMA Greatest ==
  ASSUME NEW T \in SUBSET Nat, T # {}, IsFiniteSet(T)
  PROVE  \E x \in T : \A y \in T : y <= x
<1> DEFINE Top(U) == \E x \in U : \A y \in U : y <= x
           Bad == {n \in Nat : \E U \in SUBSET Nat :
                     U # {} /\ IsFiniteSet(U) /\ Cardinality(U) = n /\ ~Top(U)}
<1>1. Bad = {}
  <2> SUFFICES ASSUME Bad # {} PROVE FALSE
    OBVIOUS
  <2>1. PICK n \in Bad : \A m \in Bad : n <= m
    BY Least
  <2>2. PICK U \in SUBSET Nat : U # {} /\ IsFiniteSet(U) /\ Cardinality(U) = n /\ ~Top(U)
    BY <2>1
  <2>3. PICK x \in U : TRUE
    BY <2>2
  <2> DEFINE V == U \ {x}
  <2>4. IsFiniteSet(V) /\ Cardinality(V) = n - 1 /\ V \in SUBSET Nat /\ n - 1 \in Nat
    <3>1. IsFiniteSet(V) /\ Cardinality(V) = n - 1
      BY <2>2, FS_RemoveElement
    <3> QED
      BY <3>1, FS_CardinalityType
  <2>5. n - 1 \notin Bad
    <3>1. n - 1 \in Bad => n <= n - 1
      BY <2>1
    <3> QED
      BY <3>1
  <2>6. V # {} => Top(V)
    BY <2>4, <2>5
  <2>7. CASE V = {}
    <3>1. \A y \in U : y <= x
      BY <2>7
    <3> QED
      BY <2>2, <3>1
  <2>8. CASE V # {}
    <3>1. PICK z \in V : \A y \in V : y <= z
      BY <2>6, <2>8
    <3>2. x \in Nat /\ z \in Nat /\ z \in U /\ U \subseteq Nat
      OBVIOUS
    <3>3. CASE x <= z
      <4>1. \A y \in U : y <= z
        BY <3>1, <3>3
      <4> QED
        BY <2>2, <3>2, <4>1
    <3>4. CASE z <= x
      <4>1. \A y \in U : y <= x
        BY <3>1, <3>2, <3>4
      <4> QED
        BY <2>2, <4>1
    <3> QED
      BY <3>2, <3>3, <3>4
  <2> QED
    BY <2>7, <2>8
<1>2. Cardinality(T) \in Nat
  BY FS_CardinalityType
<1>3. Top(T)
  BY <1>1, <1>2
<1> QED
  BY <1>3

(* Callers that wait for each other, however many, are there only because  *)
(* two different sessions of different calls have one lock: lockSessionPair *)
(* locks in the order of the keys, whichever way the 64 shards lie.  If no  *)
(* two did, the session whose lock a caller waits for would be, along the   *)
(* ring, the lower one of the next caller, and its rank would only climb.   *)
THEOREM OnlyCollisionsBlock == Spec => []RingsCollide
<1>1. LockInv => RingsCollide
  <2> SUFFICES ASSUME LockInv, NEW ring \in SUBSET Callers, IsFiniteSet(ring), Ring(ring),
                      \A c, d \in ring : c # d => ~Collide(c, d)
               PROVE  FALSE
    BY DEF RingsCollide
  <2> DEFINE Wants(c, w) == /\ w \in Touches(c) /\ w \in Keys /\ NextLock(c) = Shard[w]
                            /\ \A s \in Shards : holder[s] = c =>
                                 \E k \in Touches(c) :
                                   k \in Keys /\ s = Shard[k] /\ Rank[k] < Rank[w]
             Wanted(c) == CHOOSE w \in Keys : Wants(c, w)
             Ranks == {Rank[Wanted(c)] : c \in ring}
  <2>1. \A c \in ring : Wanted(c) \in Keys /\ Wants(c, Wanted(c)) /\ Rank[Wanted(c)] \in Nat
    <3> SUFFICES ASSUME NEW c \in ring
                 PROVE  Wanted(c) \in Keys /\ Wants(c, Wanted(c)) /\ Rank[Wanted(c)] \in Nat
      OBVIOUS
    <3>1. PICK d \in ring : Waits(c, d)
      BY DEF Ring
    <3>2. \E w \in Keys : Wants(c, w)
      BY <3>1, WaitsFor
    <3> HIDE DEF Wants
    <3>3. Wanted(c) \in Keys /\ Wants(c, Wanted(c))
      BY <3>2
    <3> QED
      BY <3>3, StoreAssumption
  <2>2. ASSUME NEW c \in ring, NEW d \in ring, Waits(c, d)
        PROVE  Rank[Wanted(c)] < Rank[Wanted(d)]
    <3> DEFINE v == Wanted(c)
               w == Wanted(d)
    <3>1. /\ v \in Keys /\ v \in Touches(c) /\ NextLock(c) = Shard[v]
          /\ \A s \in Shards : holder[s] = d =>
               \E k \in Touches(d) : k \in Keys /\ s = Shard[k] /\ Rank[k] < Rank[w]
      BY <2>1
    <3> HIDE DEF v, w
    <3>2. c # d /\ holder[Shard[v]] = d
      BY <2>2, <3>1, WaitsFor DEF Waits
    <3>3. Shard[v] \in Shards
      BY <3>1 DEF Shards
    <3>4. PICK k \in Touches(d) : Shard[v] = Shard[k] /\ Rank[k] < Rank[w]
      BY <3>1, <3>2, <3>3
    <3>5. v = k
      BY <3>1, <3>2, <3>4 DEF Collide
    <3> QED
      BY <3>4, <3>5 DEF v, w
  <2> HIDE DEF Wanted, Wants
  <2>3. PICK c \in ring : \A d \in ring : Rank[Wanted(d)] <= Rank[Wanted(c)]
    <3>1. Ranks # {} /\ Ranks \in SUBSET Nat
      BY <2>1 DEF Ring
    <3>2. IsFiniteSet(Ranks)
      <4> DEFINE f == [d \in ring |-> Rank[Wanted(d)]]
      <4>1. f \in Surjection(ring, Ranks)
        BY DEF Surjection
      <4> QED
        BY <4>1, FS_Surjection DEF ExistsSurjection
    <3>3. PICK x \in Ranks : \A y \in Ranks : y <= x
      BY <3>1, <3>2, Greatest
    <3> QED
      BY <3>3
  <2>4. PICK d \in ring : Waits(c, d)
    BY DEF Ring
  <2>5. Rank[Wanted(c)] < Rank[Wanted(d)] /\ Rank[Wanted(d)] <= Rank[Wanted(c)]
    BY <2>2, <2>3, <2>4
  <2> QED
    BY <2>1, <2>5
<1> QED
  BY <1>1, InitLocked, NextLocked, PTL DEF Spec

-----------------------------------------------------------------------------
(***************************************************************************)
(* Histories.                                                              *)
(***************************************************************************)
At2(c, k) == call[c] # None /\ call[c].pc = "second" /\ call[c].key = k

(* Between the two writes of a method that replaces the file.              *)
Replacing == {"set", "compact", "promote"}
Rewriting(k) == \E c \in Callers : At2(c, k) /\ call[c].op \in Replacing

Good(k) ==
  /\ skip[k] <= Len(lines[k])
  /\ IsEnd(expect[k], Visible(k))
  /\ k \notin faulty => Visible(k) = expect[k]

(* What a method has done after the first of its writes.                   *)
Half(c) ==
  LET r == call[c]
      k == r.key
  IN  /\ r.op = "set" => skip[k] = 0 /\ IsEnd(expect[k], lines[k])
      /\ r.op = "compact" =>
           /\ skip[k] = 0 /\ IsEnd(expect[k], lines[k]) /\ IsEnd(expect[k], r.hist)
           /\ k \notin faulty => r.hist = expect[k]
      /\ r.op = "promote" =>
           /\ r.old \in Seq(Msgs) /\ ~r.oldOpen
           /\ skip[k] <= Len(r.old) /\ Read(r.old, skip[k]) = << >>
           /\ lines[k] = r.hist /\ expect[k] = << >>

KeyOk(k) ==
  k \notin hurt =>
    /\ lines[k] \in Seq(Msgs) /\ k \notin open
    /\ ~Rewriting(k) => Good(k)
    /\ \A c \in Callers : At2(c, k) => Half(c)

StoreInv == LockInv /\ hurt \subseteq faulty /\ \A k \in Keys : KeyOk(k)

(* A method has the lock of its session, so nothing else is at work on it. *)
LEMMA Alone ==
  ASSUME LockInv, NEW c \in Callers, NEW d \in Callers, Inside(c), Inside(d),
         \/ call[c].key = call[d].key
         \/ call[c].alias # None /\ call[c].alias = call[d].key
  PROVE  c = d
<1>1. Typed /\ Locked /\ call[c] # None /\ call[d] # None
  BY DEF LockInv, Inside
<1>2. \A s \in Needs(call[c]) : holder[s] = c
  BY <1>1 DEF Locked
<1>3. \A s \in Needs(call[d]) : holder[s] = d
  BY <1>1 DEF Locked
<1>4. Shard[call[d].key] \in Needs(call[d]) /\ Shard[call[d].key] \in Needs(call[c])
  BY DEF Needs
<1> QED
  BY <1>2, <1>3, <1>4

(* A session that a step leaves alone.                                     *)
LEMMA KeyKept ==
  ASSUME NEW k \in Keys, KeyOk(k),
         lines'[k] = lines[k], skip'[k] = skip[k], expect'[k] = expect[k],
         k \notin hurt' => k \notin hurt, k \in faulty => k \in faulty',
         (k \in open') => (k \in open),
         \A d \in Callers : At2(d, k) \/ At2(d, k)' => call'[d] = call[d]
  PROVE  KeyOk(k)'
<1> SUFFICES ASSUME k \notin hurt' PROVE KeyOk(k)'
  BY DEF KeyOk
<1>1. /\ lines[k] \in Seq(Msgs) /\ k \notin open
      /\ ~Rewriting(k) => Good(k)
      /\ \A d \in Callers : At2(d, k) => Half(d)
  BY DEF KeyOk
<1>2. \A d \in Callers : At2(d, k) <=> At2(d, k)'
  BY DEF At2
<1>3. Rewriting(k)' <=> Rewriting(k)
  BY <1>2 DEF Rewriting
<1>4. Good(k) => Good(k)'
  BY DEF Good, Visible
<1>5. ASSUME NEW d \in Callers, At2(d, k)' PROVE Half(d)'
  <2>1. call'[d] = call[d] /\ call[d].key = k /\ Half(d)
    BY <1>1, <1>2, <1>5 DEF At2
  <2> QED
    BY <2>1 DEF Half
<1> QED
  BY <1>1, <1>3, <1>4, <1>5 DEF KeyOk

LEMMA Elsewhere ==
  ASSUME LockInv, NEW c \in Callers, call[c] # None, Steps(c),
         NEW k \in Keys, k # call[c].key
  PROVE  \A d \in Callers : At2(d, k) \/ At2(d, k)' => call'[d] = call[d]
<1>1. CASE Gone(c)
  BY <1>1 DEF Gone, At2
<1>2. ASSUME NEW r \in Call, Same(r, call[c]), Went(c, r)
      PROVE  \A d \in Callers : At2(d, k) \/ At2(d, k)' => call'[d] = call[d]
  <2>1. \A d \in Callers \ {c} : call'[d] = call[d]
    BY <1>2 DEF Went
  <2>2. call'[c].key # k /\ call[c].key # k
    BY <1>2 DEF Went, Same
  <2> QED
    BY <2>1, <2>2 DEF At2
<1> QED
  BY <1>1, <1>2 DEF Steps

(* The session that a method is at work on.                                *)
LEMMA Here ==
  ASSUME StoreInv, NEW c \in Callers, Inside(c), NEW k \in Keys, k = call[c].key, k \notin hurt
  PROVE  /\ lines[k] \in Seq(Msgs) /\ k \notin open /\ skip[k] \in Nat
         /\ expect[k] \in Seq(Msgs) /\ Visible(k) \in Seq(Msgs)
         /\ call[c] \in Call
         /\ call[c].pc = "first" \/ call[c].op \notin Replacing => Good(k)
         /\ call[c].pc = "second" => Half(c)
<1>1. LockInv /\ TypeOK /\ KeyOk(k) /\ call[c] # None
  BY DEF StoreInv, LockInv, Typed, Inside
<1>2. \A d \in Callers : At2(d, k) => d = c
  BY <1>1, Alone DEF At2, Inside
<1>3. call[c].pc = "first" \/ call[c].op \notin Replacing => ~Rewriting(k)
  BY <1>2 DEF Rewriting, At2
<1>4. call[c].pc = "second" => At2(c, k)
  BY <1>1 DEF At2
<1>5. lines[k] \in Seq(Msgs) /\ k \notin open
      /\ (~Rewriting(k) => Good(k)) /\ \A d \in Callers : At2(d, k) => Half(d)
  BY <1>1 DEF KeyOk
<1>6. Visible(k) \in Seq(Msgs)
  BY <1>1, VisibleType
<1>7. skip[k] \in Nat /\ expect[k] \in Seq(Msgs) /\ call[c] \in Call
  BY <1>1 DEF TypeOK
<1> QED
  BY <1>3, <1>4, <1>5, <1>6, <1>7

LEMMA GoneHere ==
  ASSUME LockInv, NEW c \in Callers, Inside(c), Gone(c), NEW k \in Keys, k = call[c].key,
         k \notin hurt' => lines'[k] \in Seq(Msgs) /\ k \notin open' /\ Good(k)'
  PROVE  KeyOk(k)'
<1>1. \A d \in Callers : ~At2(d, k)'
  <2>1. \A d \in Callers : At2(d, k) => d = c
    BY Alone DEF At2, Inside
  <2> QED
    BY <2>1 DEF Gone, At2
<1> QED
  BY <1>1 DEF KeyOk

LEMMA WentHere ==
  ASSUME LockInv, NEW c \in Callers, Inside(c), NEW r \in Call, Same(r, call[c]), Went(c, r),
         NEW k \in Keys, k = call[c].key,
         k \notin hurt' => /\ lines'[k] \in Seq(Msgs) /\ k \notin open'
                           /\ IF call[c].op \in Replacing
                              THEN Half(c)' ELSE Good(k)'
  PROVE  KeyOk(k)'
<1>1. call'[c].op = call[c].op /\ call'[c].key = k /\ call'[c].pc = "second" /\ call'[c] # None
  BY StoreAssumption DEF Went, Same
<1>2. \A d \in Callers : At2(d, k)' => d = c
  <2>1. \A d \in Callers : At2(d, k) => d = c
    BY Alone DEF At2, Inside
  <2> QED
    BY <2>1 DEF Went, At2
<1>3. At2(c, k)'
  BY <1>1 DEF At2
<1>4. Rewriting(k)' <=> call[c].op \in Replacing
  BY <1>1, <1>2, <1>3 DEF Rewriting
<1>5. k \notin hurt' /\ call[c].op \notin Replacing => Half(c)'
  BY <1>1 DEF Half, Replacing
<1> QED
  BY <1>2, <1>4, <1>5 DEF KeyOk

(* A message at the end of a file is at the end of the history.            *)
LEMMA AppendRead ==
  ASSUME NEW s \in Seq(Msgs), NEW from \in 0 .. Len(s), NEW m \in Msgs
  PROVE  Read(Append(s, m), from) = Append(Read(s, from), m)
<1> DEFINE t == Append(s, m)
           v == Read(s, from)
           w == Read(t, from)
<1>1. /\ t \in Seq(Msgs) /\ Len(t) = Len(s) + 1 /\ Len(s) \in Nat /\ from \in 0 .. Len(t)
      /\ from \in Nat
      /\ t[Len(s) + 1] = m /\ \A i \in 1 .. Len(s) : t[i] = s[i]
  BY AppendProperties
<1>2. s \in Seq(Lines) /\ t \in Seq(Lines)
  <2>1. Msgs \subseteq Lines
    BY DEF Lines
  <2> QED
    BY <1>1, <2>1, SeqMonotonic
<1> HIDE DEF t
<1>3. v \in Seq(Msgs) /\ Len(v) = Len(s) - from /\ \A i \in 1 .. Len(s) - from : v[i] = s[from + i]
  BY <1>1, <1>2, ReadType, ReadWhole
<1>4. w \in Seq(Msgs) /\ Len(w) = Len(t) - from /\ \A i \in 1 .. Len(t) - from : w[i] = t[from + i]
  BY <1>1, <1>2, ReadType, ReadWhole
<1> HIDE DEF v, w
<1>5. /\ Append(v, m) \in Seq(Msgs) /\ Len(Append(v, m)) = Len(v) + 1
      /\ Append(v, m)[Len(v) + 1] = m /\ \A i \in 1 .. Len(v) : Append(v, m)[i] = v[i]
  BY <1>3, AppendProperties
<1>6. Len(w) = Len(Append(v, m))
  BY <1>1, <1>3, <1>4, <1>5
<1>7. ASSUME NEW i \in 1 .. Len(w) PROVE w[i] = Append(v, m)[i]
  <2>1. w[i] = t[from + i] /\ i \in 1 .. Len(s) + 1 - from
    BY <1>1, <1>4
  <2>2. CASE i <= Len(s) - from
    BY <1>1, <1>3, <1>5, <2>1, <2>2
  <2>3. CASE i = Len(s) + 1 - from
    <3>1. from + i = Len(s) + 1 /\ i = Len(v) + 1
      BY <1>1, <1>3, <2>3
    <3> QED
      BY <1>1, <1>5, <2>1, <3>1
  <2>4. i <= Len(s) - from \/ i = Len(s) + 1 - from
    <3>1. i \in Int /\ i <= Len(s) + 1 - from /\ Len(s) \in Int /\ from \in Int
      BY <1>1, <2>1
    <3> QED
      BY <3>1
  <2> QED
    BY <2>2, <2>3, <2>4
<1>8. w = Append(v, m)
  BY <1>4, <1>5, <1>6, <1>7, SeqEqual
<1> QED
  BY <1>8 DEF t, v, w

LEMMA AppendEnds ==
  ASSUME NEW e \in Seq(Msgs), NEW v \in Seq(Msgs), NEW m \in Msgs, IsEnd(e, v)
  PROVE  IsEnd(Append(e, m), Append(v, m))
<1>1. Len(e) \in Nat /\ Len(v) \in Nat /\ Len(e) <= Len(v)
      /\ \A i \in 1 .. Len(e) : e[i] = v[Len(v) - Len(e) + i]
  BY EndPointwise
<1> DEFINE x == Append(e, m)
           y == Append(v, m)
<1>2. /\ x \in Seq(Msgs) /\ Len(x) = Len(e) + 1
      /\ x[Len(e) + 1] = m /\ \A i \in 1 .. Len(e) : x[i] = e[i]
  BY AppendProperties
<1>3. /\ y \in Seq(Msgs) /\ Len(y) = Len(v) + 1
      /\ y[Len(v) + 1] = m /\ \A i \in 1 .. Len(v) : y[i] = v[i]
  BY AppendProperties
<1> HIDE DEF x, y
<1>4. ASSUME NEW i \in 1 .. Len(x) PROVE x[i] = y[Len(y) - Len(x) + i]
  <2>1. Len(y) - Len(x) + i = Len(v) - Len(e) + i /\ i \in 1 .. Len(e) + 1
    BY <1>1, <1>2, <1>3
  <2>2. CASE i = Len(e) + 1
    <3>1. Len(v) - Len(e) + i = Len(v) + 1
      BY <1>1, <2>2
    <3> QED
      BY <1>2, <1>3, <2>1, <2>2, <3>1
  <2>3. CASE i # Len(e) + 1
    <3>1. i \in 1 .. Len(e) /\ Len(v) - Len(e) + i \in 1 .. Len(v)
      BY <1>1, <2>1, <2>3
    <3> QED
      BY <1>1, <1>2, <1>3, <2>1, <3>1
  <2> QED
    BY <2>2, <2>3
<1>5. Len(x) <= Len(y)
  BY <1>1, <1>2, <1>3
<1> QED
  BY <1>2, <1>3, <1>4, <1>5, EndPointwise DEF x, y

LEMMA EndSelf ==
  ASSUME NEW s \in Seq(Msgs)
  PROVE  IsEnd(s, s) /\ IsEnd(<< >>, s) /\ Read(s, 0) = s /\ Len(s) \in Nat
<1>1. Len(s) \in Nat /\ 0 \in 0 .. Len(s) /\ << >> \in Seq(Msgs) /\ Len(<< >>) = 0
  OBVIOUS
<1>2. IsEnd(s, s)
  <2>1. \A i \in 1 .. Len(s) : s[i] = s[Len(s) - Len(s) + i]
    BY <1>1
  <2> QED
    BY <1>1, <2>1, EndPointwise
<1>3. IsEnd(<< >>, s)
  <2> DEFINE e == << >>
  <2>1. e \in Seq(Msgs) /\ Len(e) = 0
    BY <1>1
  <2> HIDE DEF e
  <2>2. Len(e) <= Len(s) /\ \A i \in 1 .. Len(e) : e[i] = s[Len(s) - Len(e) + i]
    BY <1>1, <2>1
  <2>3. IsEnd(e, s)
    BY <2>1, <2>2, EndPointwise
  <2> QED
    BY <2>3 DEF e
<1>4. Read(s, 0) = s
  <2>1. s \in Seq(Lines)
    <3>1. Msgs \subseteq Lines
      BY DEF Lines
    <3> QED
      BY <3>1, SeqMonotonic
  <2>2. Read(s, 0) \in Seq(Msgs) /\ Len(Read(s, 0)) = Len(s)
        /\ \A i \in 1 .. Len(s) : Read(s, 0)[i] = s[i]
    BY <1>1, <2>1, ReadType, ReadWhole
  <2> QED
    BY <2>2, SeqEqual
<1> QED
  BY <1>1, <1>2, <1>3, <1>4

(* A method changes its own session only.                                  *)
LEMMA MethodFrame ==
  ASSUME StoreInv, NEW c \in Callers, Method(c), NEW k \in Keys
  PROVE  /\ UNCHANGED <<faulty, hurt>>
         /\ k # call[c].key => /\ lines'[k] = lines[k] /\ skip'[k] = skip[k]
                               /\ expect'[k] = expect[k] /\ (k \in open' => k \in open)
<1> DEFINE Frame == /\ UNCHANGED <<faulty, hurt>>
                    /\ k # call[c].key => /\ lines'[k] = lines[k] /\ skip'[k] = skip[k]
                                          /\ expect'[k] = expect[k] /\ (k \in open' => k \in open)
<1>t. /\ lines \in [Keys -> Seq(Lines)] /\ skip \in [Keys -> Nat] /\ expect \in [Keys -> Seq(Msgs)]
  BY DEF StoreInv, LockInv, Typed, TypeOK
<1>1. CASE AddLine(c)
  BY <1>1, <1>t DEF AddLine, NoFault
<1>2. CASE AddMeta(c) \/ CompactNothing(c) \/ PromoteNothing(c)
  BY <1>2 DEF AddMeta, CompactNothing, PromoteNothing, NoFault, files
<1>3. CASE SetSummary(c)
  BY <1>3 DEF SetSummary, NoFault
<1>4. CASE TruncateHistory(c)
  BY <1>4, <1>t DEF TruncateHistory, NoFault
<1>5. CASE SetMeta(c) \/ CompactMeta(c)
  BY <1>5, <1>t DEF SetMeta, CompactMeta, NoFault
<1>6. CASE Rewrite(c)
  BY <1>6, <1>t DEF Rewrite, NoFault
<1>7. CASE PromoteFile(c)
  BY <1>7, <1>t DEF PromoteFile, NoFault
<1>8. CASE PromoteMeta(c)
  BY <1>8, <1>t DEF PromoteMeta, NoFault
<1> QED
  BY <1>1, <1>2, <1>3, <1>4, <1>5, <1>6, <1>7, <1>8 DEF Method

(* A method that leaves its session as it is, and has nothing under way.   *)
LEMMA NothingHere ==
  ASSUME StoreInv, NEW c \in Callers, Inside(c), Gone(c), NEW k \in Keys, k = call[c].key,
         call[c].pc = "first" \/ call[c].op \notin Replacing,
         UNCHANGED <<lines, open, skip, expect>>,
         hurt \subseteq hurt' /\ faulty \subseteq faulty'
  PROVE  KeyOk(k)'
<1>1. ASSUME k \notin hurt' PROVE lines'[k] \in Seq(Msgs) /\ k \notin open' /\ Good(k)'
  <2>1. lines[k] \in Seq(Msgs) /\ k \notin open /\ Good(k)
    BY <1>1, Here
  <2>2. k \notin faulty' => k \notin faulty
    OBVIOUS
  <2> QED
    BY <2>1, <2>2 DEF Good, Visible
<1> QED
  BY <1>1, GoneHere DEF StoreInv

LEMMA AddLineHere ==
  ASSUME StoreInv, NEW c \in Callers, Inside(c), AddLine(c), NEW k \in Keys, k = call[c].key
  PROVE  KeyOk(k)'
<1> DEFINE m == call[c].msg
<1>1. /\ LockInv /\ Typed /\ call[c] # None /\ call[c].op = "add" /\ call[c].pc = "first"
      /\ m \in Msgs
  BY DEF AddLine, At, StoreInv, LockInv, Typed, CallOk
<1>2. /\ lines' = [lines EXCEPT ![k] = Appended(k, m)] /\ open' = open \ {k}
      /\ expect' = [expect EXCEPT ![k] = Append(@, m)]
      /\ Goto(c, call[c]) /\ UNCHANGED <<skip, summary, faulty, hurt>>
  BY DEF AddLine, NoFault
<1>3. call[c] \in Call /\ Same(call[c], call[c]) /\ Went(c, call[c])
  BY <1>1, <1>2, GoesOn, GotoWent
<1> HIDE DEF m
<1>4. ASSUME k \notin hurt PROVE lines'[k] \in Seq(Msgs) /\ k \notin open' /\ Good(k)'
  <2>1. /\ lines[k] \in Seq(Msgs) /\ k \notin open /\ skip[k] \in Nat /\ expect[k] \in Seq(Msgs)
        /\ Visible(k) \in Seq(Msgs) /\ Good(k)
    BY <1>1, <1>4, Here
  <2>2. /\ lines'[k] = Append(lines[k], m) /\ expect'[k] = Append(expect[k], m)
        /\ skip'[k] = skip[k] /\ k \notin open'
    BY <1>1, <1>2, <2>1 DEF Appended, Typed, TypeOK
  <2>3. skip[k] \in 0 .. Len(lines[k]) /\ Len(lines[k]) \in Nat
    BY <2>1 DEF Good
  <2>4. Visible(k)' = Append(Visible(k), m)
    BY <1>1, <2>1, <2>2, <2>3, AppendRead DEF Visible
  <2>5. IsEnd(expect[k], Visible(k)) => IsEnd(Append(expect[k], m), Append(Visible(k), m))
    BY <1>1, <2>1, AppendEnds
  <2>6. lines'[k] \in Seq(Msgs) /\ skip'[k] <= Len(lines'[k])
    BY <1>1, <2>1, <2>2, <2>3, AppendProperties
  <2>7. IsEnd(expect[k], Visible(k)) /\ (k \notin faulty => Visible(k) = expect[k])
    BY <2>1 DEF Good
  <2> QED
    BY <1>2, <2>2, <2>4, <2>5, <2>6, <2>7 DEF Good
<1> QED
  BY <1>1, <1>2, <1>3, <1>4, WentHere DEF Replacing

LEMMA TruncateHere ==
  ASSUME StoreInv, NEW c \in Callers, Inside(c), TruncateHistory(c), NEW k \in Keys,
         k = call[c].key
  PROVE  KeyOk(k)'
<1> DEFINE n == call[c].keep
<1>1. /\ LockInv /\ Typed /\ call[c] # None /\ call[c].pc = "first" /\ n \in Nat
  BY DEF TruncateHistory, At, StoreInv, LockInv, Typed, TypeOK, Call
<1>2. /\ skip' = [skip EXCEPT ![k] = Kept(k, n)]
      /\ expect' = [expect EXCEPT ![k] = Last(@, n)]
      /\ Return(c) /\ UNCHANGED <<lines, open, summary, faulty, hurt>>
  BY DEF TruncateHistory, NoFault
<1>3. Gone(c)
  BY <1>1, <1>2, ReturnGone
<1> HIDE DEF n
<1>4. ASSUME k \notin hurt PROVE lines'[k] \in Seq(Msgs) /\ k \notin open' /\ Good(k)'
  <2>1. /\ lines[k] \in Seq(Msgs) /\ k \notin open /\ skip[k] \in Nat /\ expect[k] \in Seq(Msgs)
        /\ Visible(k) \in Seq(Msgs) /\ Good(k)
    BY <1>1, <1>4, Here
  <2>2. skip'[k] = Kept(k, n) /\ expect'[k] = Last(expect[k], n) /\ lines'[k] = lines[k]
    BY <1>1, <1>2 DEF Typed, TypeOK
  <2>3. skip[k] \in 0 .. Len(lines[k]) /\ IsEnd(expect[k], Visible(k))
        /\ (k \notin faulty => Visible(k) = expect[k])
    BY <2>1 DEF Good
  <2>4. Kept(k, n) \in 0 .. Len(lines[k]) /\ Read(lines[k], Kept(k, n)) = Last(Visible(k), n)
    BY <1>1, <2>1, <2>3, KeptReads
  <2>5. Visible(k)' = Last(Visible(k), n)
    BY <2>2, <2>4 DEF Visible
  <2>6. IsEnd(Last(expect[k], n), Last(Visible(k), n))
    BY <1>1, <2>1, <2>3, LastOfEnd
  <2>7. skip'[k] <= Len(lines'[k])
    BY <2>2, <2>4
  <2> QED
    BY <1>2, <2>1, <2>2, <2>3, <2>5, <2>6, <2>7 DEF Good
<1> QED
  BY <1>1, <1>2, <1>3, <1>4, GoneHere

LEMMA SetMetaHere ==
  ASSUME StoreInv, NEW c \in Callers, Inside(c), SetMeta(c) \/ CompactMeta(c), NEW k \in Keys,
         k = call[c].key
  PROVE  KeyOk(k)'
<1>1. /\ LockInv /\ Typed /\ call[c] # None /\ call[c].pc = "first"
      /\ call[c].op \in {"set", "compact"}
  BY DEF SetMeta, CompactMeta, At, StoreInv, LockInv
<1>2. /\ skip' = [skip EXCEPT ![k] = 0]
      /\ UNCHANGED <<lines, open, summary, expect, faulty, hurt>>
  BY DEF SetMeta, CompactMeta, NoFault
<1>3. PICK r \in Call : /\ Same(r, call[c]) /\ Went(c, r)
                        /\ call[c].op = "compact" => r.hist = Visible(k)
  <2>1. CASE SetMeta(c)
    <3>1. Went(c, call[c]) /\ call[c] \in Call /\ Same(call[c], call[c]) /\ call[c].op = "set"
      BY <1>1, <2>1, GoesOn, GotoWent DEF SetMeta, At
    <3> QED
      BY <3>1
  <2>2. CASE CompactMeta(c)
    <3>1. Visible(k) \in Seq(Msgs)
      BY <1>1, VisibleType DEF Typed
    <3>2. PICK r \in Call : /\ r = [call[c] EXCEPT !.hist = Visible(k)]
                            /\ Same(r, call[c]) /\ r.hist = Visible(k)
      <4> DEFINE q(x) == [call[c] EXCEPT !.hist = x]
      <4>1. \A x \in Seq(Msgs) : q(x) \in Call /\ Same(q(x), call[c]) /\ q(x).hist = x
        BY <1>1, GoesOn, Zenon
      <4> HIDE DEF q
      <4>2. \E r \in Call : r = q(Visible(k)) /\ Same(r, call[c]) /\ r.hist = Visible(k)
        BY <3>1, <4>1
      <4> QED
        BY <4>2 DEF q
    <3>3. Goto(c, r)
      BY <2>2, <3>2 DEF CompactMeta
    <3> QED
      BY <1>1, <3>2, <3>3, GotoWent
  <2> QED
    BY <2>1, <2>2
<1>4. ASSUME k \notin hurt PROVE lines'[k] \in Seq(Msgs) /\ k \notin open' /\ Half(c)'
  <2>1. /\ lines[k] \in Seq(Msgs) /\ k \notin open /\ skip[k] \in Nat /\ expect[k] \in Seq(Msgs)
        /\ Visible(k) \in Seq(Msgs) /\ Good(k)
    BY <1>1, <1>4, Here
  <2>2. skip'[k] = 0 /\ expect'[k] = expect[k] /\ lines'[k] = lines[k] /\ k \notin open'
    BY <1>1, <1>2, <2>1 DEF Typed, TypeOK
  <2>3. skip[k] \in 0 .. Len(lines[k]) /\ IsEnd(expect[k], Visible(k))
        /\ (k \notin faulty => Visible(k) = expect[k])
    BY <2>1 DEF Good
  <2>4. IsEnd(expect[k], lines[k])
    <3>1. IsEnd(expect[k], Read(lines[k], 0)) /\ Read(lines[k], 0) = lines[k]
      BY <2>1, <2>3, EarlierReadEnds DEF Visible
    <3> QED
      BY <3>1
  <2>5. /\ call'[c].op = call[c].op /\ call'[c].key = k
        /\ call[c].op = "compact" => call'[c].hist = Visible(k)
    BY <1>3 DEF Went, Same
  <2> QED
    BY <1>1, <1>2, <2>1, <2>2, <2>3, <2>4, <2>5 DEF Half
<1> QED
  BY <1>1, <1>2, <1>3, <1>4, WentHere DEF Replacing

LEMMA RewriteHere ==
  ASSUME StoreInv, NEW c \in Callers, Inside(c), Rewrite(c), NEW k \in Keys, k = call[c].key
  PROVE  KeyOk(k)'
<1> DEFINE h == call[c].hist
<1>1. /\ LockInv /\ Typed /\ call[c] # None /\ call[c].pc = "second" /\ h \in Seq(Msgs)
      /\ call[c].op \in {"set", "compact"}
  BY DEF Rewrite, At, StoreInv, LockInv, Typed, TypeOK, Call
<1>2. /\ lines' = [lines EXCEPT ![k] = h] /\ open' = open \ {k}
      /\ expect' = IF call[c].op = "set" THEN [expect EXCEPT ![k] = h] ELSE expect
      /\ Return(c) /\ UNCHANGED <<skip, summary, faulty, hurt>>
  BY DEF Rewrite, NoFault
<1>3. Gone(c)
  BY <1>1, <1>2, ReturnGone
<1>4. ASSUME k \notin hurt PROVE lines'[k] \in Seq(Msgs) /\ k \notin open' /\ Good(k)'
  <2>1. Half(c)
    BY <1>1, <1>4, Here
  <2>2. skip[k] = 0 /\ (call[c].op = "compact" =>
                          IsEnd(expect[k], h) /\ (k \notin faulty => h = expect[k]))
    BY <1>1, <2>1 DEF Half
  <2> HIDE DEF h
  <2>3. /\ lines'[k] = h /\ skip'[k] = 0 /\ k \notin open'
        /\ expect'[k] = IF call[c].op = "set" THEN h ELSE expect[k]
    BY <1>1, <1>2, <2>2 DEF Typed, TypeOK
  <2>4. IsEnd(h, h) /\ Read(h, 0) = h /\ Len(h) \in Nat
    BY <1>1, EndSelf
  <2>5. Visible(k)' = h
    BY <2>3, <2>4 DEF Visible
  <2> QED
    BY <1>1, <1>2, <2>2, <2>3, <2>4, <2>5 DEF Good
<1> QED
  BY <1>1, <1>2, <1>3, <1>4, GoneHere

LEMMA PromoteFileHere ==
  ASSUME StoreInv, NEW c \in Callers, Inside(c), PromoteFile(c), NEW k \in Keys,
         k = call[c].key
  PROVE  KeyOk(k)'
<1> DEFINE a == call[c].alias
<1>1. /\ LockInv /\ Typed /\ call[c] # None /\ call[c].pc = "first"
      /\ call[c].op = "promote" /\ CanPromote(k, a)
  BY DEF PromoteFile, At, StoreInv, LockInv
<1>2. /\ lines' = [lines EXCEPT ![k] = Visible(a)] /\ open' = open \ {k}
      /\ UNCHANGED <<skip, summary, expect, faulty, hurt>>
  BY DEF PromoteFile, NoFault
<1>3. PICK b \in BOOLEAN : b = (k \in open)
  <2>1. (k \in open) \in BOOLEAN
    BY SMT
  <2> QED
    BY <2>1, Zenon
<1>4. /\ Visible(a) \in Seq(Msgs) /\ lines[k] \in Seq(Lines)
  <2>1. a \in Keys
    BY <1>1, StoreAssumption DEF Typed, TypeOK, CallOk, Call
  <2> QED
    BY <1>1, <2>1, VisibleType DEF Typed, TypeOK
<1>5. PICK r \in Call : /\ r = [call[c] EXCEPT !.old = lines[k], !.oldOpen = b, !.hist = Visible(a)]
                        /\ Same(r, call[c]) /\ r.hist = Visible(a) /\ r.old = lines[k]
                        /\ r.oldOpen = b
  <2> DEFINE q(h, o, d) == [call[c] EXCEPT !.old = o, !.oldOpen = d, !.hist = h]
             Fits(h, o, d) == /\ q(h, o, d) \in Call /\ Same(q(h, o, d), call[c])
                              /\ q(h, o, d).hist = h /\ q(h, o, d).old = o
                              /\ q(h, o, d).oldOpen = d
  <2>1. \A h \in Seq(Msgs), o \in Seq(Lines), d \in BOOLEAN : Fits(h, o, d)
    <3> SUFFICES ASSUME NEW h \in Seq(Msgs), NEW o \in Seq(Lines), NEW d \in BOOLEAN
                 PROVE  Fits(h, o, d)
      OBVIOUS
    <3>1. call[c] \in Call
      BY <1>1, GoesOn
    <3> QED
      BY <3>1 DEF Call, Same
  <2> HIDE DEF Fits
  <2>2. Fits(Visible(a), lines[k], b)
    BY <1>4, <2>1
  <2> HIDE DEF q
  <2>3. \E r \in Call : /\ r = q(Visible(a), lines[k], b) /\ Same(r, call[c])
                        /\ r.hist = Visible(a) /\ r.old = lines[k] /\ r.oldOpen = b
    BY <2>2, Zenon DEF Fits
  <2> QED
    BY <2>3, Zenon DEF q
<1>6. Went(c, r)
  <2>1. Goto(c, [call[c] EXCEPT !.old = lines[k], !.oldOpen = b, !.hist = Visible(a)])
    BY <1>3, Zenon DEF PromoteFile
  <2> QED
    BY <1>1, <1>5, <2>1, GotoWent
<1> HIDE DEF a
<1>7. ASSUME k \notin hurt PROVE lines'[k] \in Seq(Msgs) /\ k \notin open' /\ Half(c)'
  <2>1. /\ lines[k] \in Seq(Msgs) /\ k \notin open /\ skip[k] \in Nat /\ expect[k] \in Seq(Msgs)
        /\ Good(k)
    BY <1>1, <1>7, Here
  <2>2. Visible(k) = << >> /\ ~b
    BY <1>1, <1>3, <2>1 DEF CanPromote, HasContent
  <2>3. expect[k] = << >>
    <3>1. Len(expect[k]) <= Len(<< >>)
      BY <2>1, <2>2 DEF Good, IsEnd
    <3> QED
      BY <2>1, <3>1, EmptySeq
  <2>4. /\ lines'[k] = Visible(a) /\ skip'[k] = skip[k] /\ expect'[k] = << >> /\ k \notin open'
    BY <1>1, <1>2, <2>3 DEF Typed, TypeOK
  <2>5. skip[k] <= Len(lines[k]) /\ Read(lines[k], skip[k]) = << >>
    BY <2>1, <2>2 DEF Good, Visible
  <2>6. /\ call'[c].op = "promote" /\ call'[c].key = k /\ call'[c].hist = Visible(a)
        /\ call'[c].old = lines[k] /\ ~call'[c].oldOpen
    BY <1>1, <1>5, <1>6, <2>2 DEF Went, Same
  <2> QED
    BY <1>4, <2>1, <2>4, <2>5, <2>6 DEF Half
<1> QED
  BY <1>1, <1>2, <1>5, <1>6, <1>7, WentHere DEF Replacing

LEMMA PromoteMetaHere ==
  ASSUME StoreInv, NEW c \in Callers, Inside(c), PromoteMeta(c), NEW k \in Keys,
         k = call[c].key
  PROVE  KeyOk(k)'
<1> DEFINE h == call[c].hist
<1>1. /\ LockInv /\ Typed /\ call[c] # None /\ call[c].pc = "second" /\ h \in Seq(Msgs)
      /\ call[c].op = "promote"
  BY DEF PromoteMeta, At, StoreInv, LockInv, Typed, TypeOK, Call
<1>2. /\ skip' = [skip EXCEPT ![k] = 0] /\ expect' = [expect EXCEPT ![k] = @ \o h]
      /\ Return(c) /\ UNCHANGED <<lines, open, faulty, hurt>>
  BY DEF PromoteMeta, NoFault
<1>3. Gone(c)
  BY <1>1, <1>2, ReturnGone
<1>4. ASSUME k \notin hurt PROVE lines'[k] \in Seq(Msgs) /\ k \notin open' /\ Good(k)'
  <2>1. Half(c) /\ lines[k] \in Seq(Msgs) /\ k \notin open
    BY <1>1, <1>4, Here
  <2>2. lines[k] = h /\ expect[k] = << >>
    BY <1>1, <2>1 DEF Half
  <2> HIDE DEF h
  <2>3. << >> \o h = h
    BY <1>1, ConcatEmptySeq
  <2>4. lines'[k] = h /\ skip'[k] = 0 /\ expect'[k] = h /\ k \notin open'
    BY <1>1, <1>2, <2>1, <2>2, <2>3 DEF Typed, TypeOK
  <2>5. IsEnd(h, h) /\ Read(h, 0) = h /\ Len(h) \in Nat
    BY <1>1, EndSelf
  <2>6. Visible(k)' = h
    BY <2>4, <2>5 DEF Visible
  <2> QED
    BY <1>1, <2>4, <2>5, <2>6 DEF Good
<1> QED
  BY <1>1, <1>2, <1>3, <1>4, GoneHere

LEMMA MethodKeeps ==
  ASSUME StoreInv, NEW c \in Callers, Method(c), NEW k \in Keys
  PROVE  KeyOk(k)'
<1>1. /\ LockInv /\ Typed /\ KeyOk(k) /\ call[c] # None /\ Inside(c) /\ Steps(c)
      /\ UNCHANGED <<faulty, hurt>>
  BY StepsInside, MethodFrame DEF StoreInv, LockInv
<1>2. CASE k # call[c].key
  <2>1. \A d \in Callers : At2(d, k) \/ At2(d, k)' => call'[d] = call[d]
    BY <1>1, <1>2, Elsewhere
  <2>2. lines'[k] = lines[k] /\ skip'[k] = skip[k] /\ expect'[k] = expect[k]
        /\ (k \in open' => k \in open)
    BY <1>2, MethodFrame
  <2> QED
    BY <1>1, <2>1, <2>2, KeyKept
<1>3. CASE k = call[c].key
  <2>1. CASE AddLine(c)
    BY <1>1, <1>3, <2>1, AddLineHere
  <2>2. ASSUME Return(c), call[c].pc = "first" \/ call[c].op \notin Replacing,
               UNCHANGED <<lines, open, skip, expect>>
        PROVE  KeyOk(k)'
    BY <1>1, <1>3, <2>2, ReturnGone, NothingHere
  <2>3. CASE AddMeta(c) \/ SetSummary(c) \/ CompactNothing(c) \/ PromoteNothing(c)
    BY <2>2, <2>3 DEF AddMeta, SetSummary, CompactNothing, PromoteNothing, At, files, Replacing
  <2>4. CASE TruncateHistory(c)
    BY <1>1, <1>3, <2>4, TruncateHere
  <2>5. CASE SetMeta(c) \/ CompactMeta(c)
    BY <1>1, <1>3, <2>5, SetMetaHere
  <2>6. CASE Rewrite(c)
    BY <1>1, <1>3, <2>6, RewriteHere
  <2>7. CASE PromoteFile(c)
    BY <1>1, <1>3, <2>7, PromoteFileHere
  <2>8. CASE PromoteMeta(c)
    BY <1>1, <1>3, <2>8, PromoteMetaHere
  <2> QED
    BY <2>1, <2>3, <2>4, <2>5, <2>6, <2>7, <2>8 DEF Method
<1> QED
  BY <1>2, <1>3

(* A method that is cut off between its two writes has lost nothing, but   *)
(* for a promotion with lines of the old file skipped.                     *)
LEMMA HalfGood ==
  ASSUME NEW c \in Callers, Half(c), call[c].op \in Replacing,
         NEW k \in Keys, k = call[c].key,
         lines[k] \in Seq(Msgs), skip[k] \in Nat, expect[k] \in Seq(Msgs),
         call[c].op = "promote" => ~(skip[k] > 0)
  PROVE  skip[k] <= Len(lines[k]) /\ IsEnd(expect[k], Visible(k))
<1>1. skip[k] = 0 /\ (IsEnd(expect[k], lines[k]) \/ expect[k] = << >>)
  BY DEF Half, Replacing
<1>2. Read(lines[k], 0) = lines[k] /\ IsEnd(<< >>, lines[k]) /\ Len(lines[k]) \in Nat
  BY EndSelf
<1> QED
  BY <1>1, <1>2 DEF Visible

(* A write that fails leaves the session as it was, or as it was before    *)
(* the promotion.                                                          *)
LEMMA WriteFailsHere ==
  ASSUME StoreInv, NEW c \in Callers, Inside(c), WriteFails(c), NEW k \in Keys, k = call[c].key
  PROVE  KeyOk(k)'
<1>1. /\ LockInv /\ Typed /\ call[c] # None /\ Return(c) /\ Gone(c)
      /\ UNCHANGED <<skip, summary, expect>>
  BY FailureTyped DEF WriteFails, StoreInv, LockInv
<1>2. hurt \subseteq hurt' /\ faulty' = faulty \cup {k}
  BY DEF WriteFails, Fault
<1>3. CASE call[c].pc = "first" \/ call[c].op \notin Replacing
  <2>1. UNCHANGED <<lines, open>>
    BY <1>3 DEF WriteFails, Replacing
  <2> QED
    BY <1>1, <1>2, <1>3, <2>1, NothingHere
<1>4. CASE call[c].pc # "first" /\ call[c].op \in Replacing
  <2>1. SUFFICES ASSUME k \notin hurt'
                 PROVE  lines'[k] \in Seq(Msgs) /\ k \notin open' /\ Good(k)'
    BY <1>1, GoneHere
  <2>2. /\ lines[k] \in Seq(Msgs) /\ k \notin open /\ skip[k] \in Nat /\ expect[k] \in Seq(Msgs)
        /\ Half(c) /\ call[c].pc = "second"
    BY <1>1, <1>2, <1>4, <2>1, Here DEF Inside
  <2>3. k \in faulty'
    BY <1>2
  <2>4. CASE /\ call[c].op = "promote" /\ lines' = [lines EXCEPT ![k] = call[c].old]
             /\ open' = IF call[c].oldOpen THEN open \cup {k} ELSE open \ {k}
    <3>1. /\ call[c].old \in Seq(Msgs) /\ ~call[c].oldOpen /\ skip[k] <= Len(call[c].old)
          /\ Read(call[c].old, skip[k]) = << >> /\ expect[k] = << >>
      BY <2>2, <2>4 DEF Half
    <3>2. /\ lines'[k] = call[c].old /\ k \notin open' /\ skip'[k] = skip[k]
          /\ expect'[k] = << >>
      BY <1>1, <2>2, <2>4, <3>1 DEF Typed, TypeOK
    <3>3. IsEnd(<< >>, << >>)
      <4>1. << >> \in Seq(Msgs)
        OBVIOUS
      <4> QED
        BY <4>1, EndSelf
    <3> QED
      BY <2>3, <3>1, <3>2, <3>3 DEF Good, Visible
  <2>5. CASE /\ UNCHANGED <<lines, open>>
             /\ call[c].op = "promote" => ~(skip[k] > 0)
    <3>1. skip[k] <= Len(lines[k]) /\ IsEnd(expect[k], Visible(k))
      BY <1>4, <2>2, <2>5, HalfGood
    <3> QED
      BY <1>1, <2>2, <2>3, <2>5, <3>1 DEF Good, Visible
  <2>6. \/ /\ call[c].op = "promote" /\ lines' = [lines EXCEPT ![k] = call[c].old]
           /\ open' = IF call[c].oldOpen THEN open \cup {k} ELSE open \ {k}
        \/ /\ UNCHANGED <<lines, open>>
           /\ call[c].op = "promote" => ~(skip[k] > 0)
    BY <2>1, <2>2 DEF WriteFails, Fault
  <2> QED
    BY <2>4, <2>5, <2>6
<1> QED
  BY <1>3, <1>4

LEMMA FailureKeeps ==
  ASSUME StoreInv, NEW c \in Callers, WriteFails(c) \/ AppendFails(c), NEW k \in Keys
  PROVE  KeyOk(k)' /\ hurt' \subseteq faulty'
<1>1. /\ LockInv /\ Typed /\ KeyOk(k) /\ call[c] # None /\ Inside(c) /\ Steps(c)
  BY StepsInside DEF StoreInv, LockInv
<1>2. /\ faulty' = faulty \cup {call[c].key} /\ hurt' \in {hurt, hurt \cup {call[c].key}}
      /\ UNCHANGED <<skip, expect>>
      /\ AppendFails(c) => call[c].key \in hurt'
  BY DEF WriteFails, AppendFails, PartOfLine, Fault
<1>3. hurt' \subseteq faulty'
  BY <1>2 DEF StoreInv
<1>4. CASE k # call[c].key
  <2>1. lines'[k] = lines[k] /\ (k \in open' => k \in open)
    BY <1>1, <1>4 DEF WriteFails, AppendFails, PartOfLine, Appended, Typed, TypeOK
  <2>2. \A d \in Callers : At2(d, k) \/ At2(d, k)' => call'[d] = call[d]
    BY <1>1, <1>4, Elsewhere
  <2>3. KeyOk(k)'
    BY <1>1, <1>2, <2>1, <2>2, KeyKept
  <2> QED
    BY <1>3, <2>3
<1>5. CASE k = call[c].key /\ WriteFails(c)
  BY <1>1, <1>3, <1>5, WriteFailsHere
<1>6. CASE k = call[c].key /\ AppendFails(c)
  BY <1>2, <1>3, <1>6 DEF KeyOk
<1> QED
  BY <1>4, <1>5, <1>6

(* The process dies: of each session, what is on disk is what a method has *)
(* left there, or its first half.                                          *)
LEMMA CrashKeeps ==
  ASSUME StoreInv, Crash, NEW k \in Keys
  PROVE  KeyOk(k)' /\ hurt' \subseteq faulty'
<1> DEFINE cut == {call[c].key : c \in {d \in Callers : call[d] # None}}
           half == {x \in Keys : \E c \in Callers :
                      At(c, "promote", "second") /\ call[c].key = x /\ skip[x] > 0}
<1>0. LockInv /\ Typed /\ KeyOk(k) /\ hurt \subseteq faulty
  BY DEF StoreInv, LockInv
<1>1. /\ faulty' = faulty \cup cut /\ UNCHANGED expect
      /\ \A c \in Callers : call'[c] = None
      /\ \/ UNCHANGED files /\ hurt' = hurt \cup half
         \/ \E c \in Callers :
              /\ At(c, "add", "first")
              /\ PartOfLine(call[c].key, call[c].msg)
              /\ hurt' = hurt \cup half \cup {call[c].key}
  BY DEF Crash
<1>2. \A c \in Callers : call[c] # None => call[c].key \in cut
  OBVIOUS
<1>3. half \subseteq cut
  BY <1>2 DEF At
<1>4. \A c \in Callers : At(c, "promote", "second") /\ call[c].key = k /\ skip[k] > 0 => k \in half
  OBVIOUS
<1> HIDE DEF cut, half
<1>5. hurt' \subseteq faulty' /\ hurt \cup half \subseteq hurt'
  BY <1>0, <1>1, <1>2, <1>3 DEF At
<1>6. SUFFICES ASSUME k \notin hurt' PROVE KeyOk(k)'
  BY <1>5 DEF KeyOk
<1>7. lines'[k] = lines[k] /\ skip'[k] = skip[k] /\ (k \in open' => k \in open)
  <2>1. CASE UNCHANGED files
    BY <2>1 DEF files
  <2>2. ASSUME NEW c \in Callers, PartOfLine(call[c].key, call[c].msg),
               hurt' = hurt \cup half \cup {call[c].key}
        PROVE  lines'[k] = lines[k] /\ skip'[k] = skip[k] /\ (k \in open' => k \in open)
    <3>1. k # call[c].key
      BY <1>6, <2>2
    <3> QED
      BY <1>0, <2>2, <3>1 DEF PartOfLine, Appended, Typed, TypeOK
  <2> QED
    BY <1>1, <2>1, <2>2
<1>8. /\ lines[k] \in Seq(Msgs) /\ k \notin open /\ (~Rewriting(k) => Good(k))
      /\ \A c \in Callers : At2(c, k) => Half(c)
  BY <1>0, <1>5, <1>6 DEF KeyOk
<1>9. \A c \in Callers : ~At2(c, k)'
  BY <1>1 DEF At2
<1>10. CASE ~Rewriting(k)
  <2>1. Good(k)'
    BY <1>1, <1>7, <1>8, <1>10 DEF Good, Visible
  <2> QED
    BY <1>7, <1>8, <1>9, <2>1 DEF KeyOk
<1>11. CASE Rewriting(k)
  <2>1. PICK c \in Callers : At2(c, k) /\ call[c].op \in Replacing
    BY <1>11 DEF Rewriting
  <2>2. Half(c) /\ k = call[c].key /\ k \in faulty'
    BY <1>1, <1>2, <1>8, <2>1 DEF At2
  <2>3. call[c].op = "promote" => ~(skip[k] > 0)
    BY <1>4, <1>5, <1>6, <2>1 DEF At2, At
  <2>4. skip[k] <= Len(lines[k]) /\ IsEnd(expect[k], Visible(k))
    <3>1. skip[k] \in Nat /\ expect[k] \in Seq(Msgs)
      BY <1>0 DEF Typed, TypeOK
    <3> QED
      BY <1>8, <2>1, <2>2, <2>3, <3>1, HalfGood
  <2>5. Good(k)'
    BY <1>1, <1>7, <2>2, <2>4 DEF Good, Visible
  <2> QED
    BY <1>7, <1>8, <1>9, <2>5 DEF KeyOk
<1> QED
  BY <1>10, <1>11

LEMMA InitStore == Init => StoreInv
<1> SUFFICES ASSUME Init PROVE StoreInv
  OBVIOUS
<1>1. LockInv /\ hurt \subseteq faulty
  BY InitLocked DEF Init
<1>2. ASSUME NEW k \in Keys PROVE KeyOk(k)
  <2>1. /\ lines[k] = << >> /\ skip[k] = 0 /\ expect[k] = << >> /\ k \notin open
        /\ \A c \in Callers : ~At2(c, k)
    BY <1>2 DEF Init, At2
  <2>2. << >> \in Seq(Msgs) /\ Len(<< >>) = 0
    OBVIOUS
  <2>3. IsEnd(<< >>, << >>) /\ Read(<< >>, 0) = << >>
    BY <2>2, EndSelf
  <2>4. Visible(k) = << >>
    BY <2>1, <2>3 DEF Visible
  <2> QED
    BY <2>1, <2>2, <2>3, <2>4 DEF KeyOk, Good
<1> QED
  BY <1>1, <1>2 DEF StoreInv

LEMMA NextStore == StoreInv /\ [Next]_vars => StoreInv'
<1> SUFFICES ASSUME StoreInv, [Next]_vars PROVE StoreInv'
  OBVIOUS
<1>0. LockInv /\ Typed /\ Locked /\ hurt \subseteq faulty /\ LockInv'
  BY NextLocked DEF StoreInv, LockInv
<1>1. SUFFICES ASSUME NEW k \in Keys PROVE KeyOk(k)' /\ hurt' \subseteq faulty'
  <2>1. CASE Keys = {}
    BY <1>0, <2>1 DEF StoreInv, LockInv, Typed, TypeOK
  <2>2. CASE Keys # {}
    BY <1>0, <2>2 DEF StoreInv
  <2> QED
    BY <2>1, <2>2
<1>k. KeyOk(k)
  BY DEF StoreInv
<1>2. ASSUME UNCHANGED <<files, expect, faulty, hurt>>,
             \A d \in Callers : At2(d, k) \/ At2(d, k)' => call'[d] = call[d]
      PROVE  KeyOk(k)' /\ hurt' \subseteq faulty'
  BY <1>0, <1>k, <1>2, KeyKept DEF files
<1>3. ASSUME NEW c \in Callers, BeginCall(c) PROVE KeyOk(k)' /\ hurt' \subseteq faulty'
  <2>1. PICK new \in Call : /\ new.pc = "lock" /\ call[c] = None
                            /\ call' = [call EXCEPT ![c] = new]
                            /\ UNCHANGED <<files, expect, faulty, hurt>>
    BY <1>0, <1>3, BeginTyped
  <2>2. call'[c] = new /\ \A d \in Callers \ {c} : call'[d] = call[d]
    BY <1>0, <2>1 DEF Typed, TypeOK
  <2> QED
    BY <1>2, <2>1, <2>2 DEF At2
<1>4. ASSUME NEW c \in Callers, Lock(c) PROVE KeyOk(k)' /\ hurt' \subseteq faulty'
  <2>1. /\ call[c].pc = "lock" /\ \A d \in Callers \ {c} : call'[d] = call[d]
        /\ call'[c] # None => call'[c].pc # "second"
        /\ UNCHANGED <<files, expect, faulty, hurt>>
    BY <1>0, <1>4, LockTaken
  <2> QED
    BY <1>2, <2>1 DEF At2
<1>5. ASSUME NEW c \in Callers, Method(c) PROVE KeyOk(k)' /\ hurt' \subseteq faulty'
  BY <1>0, <1>5, MethodKeeps, MethodFrame
<1>6. ASSUME NEW c \in Callers, WriteFails(c) \/ AppendFails(c)
      PROVE  KeyOk(k)' /\ hurt' \subseteq faulty'
  BY <1>6, FailureKeeps
<1>7. CASE Crash
  BY <1>7, CrashKeeps
<1>8. CASE UNCHANGED vars
  BY <1>2, <1>8 DEF vars, files
<1> QED
  BY <1>3, <1>4, <1>5, <1>6, <1>7, <1>8 DEF Next

(* "Each method is an atomic operation": whatever runs at the same time,   *)
(* for any number of sessions, callers, messages and shards.               *)
THEOREM MethodsAreAtomic == Spec => []MethodsAtomic
<1>1. StoreInv => MethodsAtomic
  <2> SUFFICES ASSUME StoreInv, NEW k \in Keys, Settled(k), k \notin faulty
               PROVE  Visible(k) = expect[k]
    BY DEF MethodsAtomic
  <2>1. ~Rewriting(k)
    BY DEF Rewriting, At2, Settled, Inside, Touches
  <2> QED
    BY <2>1 DEF StoreInv, KeyOk, Good
<1> QED
  BY <1>1, InitStore, NextStore, PTL DEF Spec

(* A method that fails between its two writes, or the process that dies    *)
(* there, loses no message that the session was to keep.                   *)
THEOREM NothingIsLost == Spec => []NothingLost
<1>1. StoreInv => NothingLost
  <2> SUFFICES ASSUME StoreInv, NEW k \in Keys, Settled(k), k \notin hurt
               PROVE  IsEnd(expect[k], Visible(k))
    BY DEF NothingLost
  <2>1. ~Rewriting(k)
    BY DEF Rewriting, At2, Settled, Inside, Touches
  <2> QED
    BY <2>1 DEF StoreInv, KeyOk, Good
<1> QED
  BY <1>1, InitStore, NextStore, PTL DEF Spec
=============================================================================
