------------------------ MODULE RecordTimer_proofs ------------------------
(***************************************************************************)
(* Proofs about RecordTimer, for every number of timers, every schedule    *)
(* and every length of the delays.                                         *)
(*                                                                         *)
(* FiledOnce and TunerHeld are not inductive.  FiledOnce does not say that *)
(* an entry which has not ended is in timer_list at all, so removing an    *)
(* entry from "its" list could fail; and a tuner follows its entry only    *)
(* if activate() is called for an entry whose state the list knows.        *)
(* Coherent closes both: timer_list holds exactly the entries that have    *)
(* not ended.  It adds that a waiting entry is enabled, unless a conflict  *)
(* screen has disabled it in place.  The proof goes bottom-up:             *)
(* sequences, the fields of an entry, the three ways an entry is filed     *)
(* (addTimerEntry, timeChanged, doActivate), the outcomes of activate(),   *)
(* and then one case per action.                                           *)
(***************************************************************************)
EXTENDS RecordTimer, TLAPS, FiniteSetTheorems, SequenceTheorems

\* Least chooses the least member: the first day on which a repeated timer
\* occurs (processRepeated) is one of the days it looks at.
LEMMA LeastOfNats ==
  ASSUME NEW S \in SUBSET Nat, S # {}
  PROVE  Least(S) \in S /\ \A j \in S : Least(S) <= j
<1>1. \E k \in S : \A j \in S : ~(<<j, k>> \in OpToRel(<, Nat))
  BY NatLessThanWellFounded, WFMin
<1>2. ASSUME NEW j \in Nat, NEW k \in Nat, j < k
      PROVE  <<j, k>> \in OpToRel(<, Nat)
  BY <1>2 DEF OpToRel
<1>3. ASSUME NEW j \in Nat, NEW k \in Nat, ~(j < k)
      PROVE  k <= j
  BY <1>3
<1>4. \E k \in S : \A j \in S : k <= j
  BY <1>1, <1>2, <1>3
<1> QED
  BY <1>4 DEF Least

\* setNextActivation sleeps until the earlier of the two times it compares.
LEMMA LeastOfTwo ==
  ASSUME NEW a \in Int, NEW b \in Int
  PROVE  Least({a, b}) \in {a, b} /\ Least({a, b}) <= a /\ Least({a, b}) <= b
<1>1. \E k \in {a, b} : \A j \in {a, b} : k <= j
  OBVIOUS
<1> QED
  BY <1>1 DEF Least

\* What list.insert(i, e) leaves at each index; insort ends in one.
LEMMA InsertAtProperties ==
  ASSUME NEW S, NEW s \in Seq(S), NEW i \in 1 .. Len(s) + 1, NEW e \in S
  PROVE  /\ InsertAt(s, i, e) \in Seq(S)
         /\ Len(InsertAt(s, i, e)) = Len(s) + 1
         /\ \A j \in 1 .. Len(s) + 1 :
              InsertAt(s, i, e)[j] = IF j < i THEN s[j]
                                     ELSE IF j = i THEN e ELSE s[j - 1]
<1> DEFINE l == SubSeq(s, 1, i - 1)
           r == SubSeq(s, i, Len(s))
           c == l \o <<e>>
<1>1. /\ l \in Seq(S) /\ Len(l) = i - 1
      /\ \A j \in 1 .. i - 1 : l[j] = s[j]
  <2>1. i - 1 \in Int /\ \A j \in 1 .. i - 1 : s[j] \in S
    BY ElementOfSeq
  <2> QED BY <2>1, SubSeqProperties
<1>2. /\ r \in Seq(S) /\ Len(r) = Len(s) + 1 - i
      /\ \A j \in 1 .. Len(s) - i + 1 : r[j] = s[i + j - 1]
  <2>1. Len(s) \in Int /\ \A j \in i .. Len(s) : s[j] \in S
    BY ElementOfSeq
  <2> QED BY <2>1, SubSeqProperties
<1>3. /\ c \in Seq(S) /\ Len(c) = i
      /\ \A j \in 1 .. i : c[j] = IF j < i THEN s[j] ELSE e
  <2>1. <<e>> \in Seq(S) /\ Len(<<e>>) = 1 /\ <<e>>[1] = e
    OBVIOUS
  <2> HIDE DEF l
  <2>2. /\ c \in Seq(S) /\ Len(c) = Len(l) + 1
        /\ \A j \in 1 .. Len(l) + 1 :
             c[j] = IF j <= Len(l) THEN l[j] ELSE <<e>>[j - Len(l)]
    BY <1>1, <2>1, ConcatProperties
  <2> QED BY <1>1, <2>1, <2>2
<1>4. InsertAt(s, i, e) = c \o r
  BY DEF InsertAt
<1> HIDE DEF c, r
<1>5. /\ c \o r \in Seq(S) /\ Len(c \o r) = Len(c) + Len(r)
      /\ \A j \in 1 .. Len(c) + Len(r) :
           (c \o r)[j] = IF j <= Len(c) THEN c[j] ELSE r[j - Len(c)]
  BY <1>2, <1>3, ConcatProperties
<1>6. Len(s) \in Nat
  OBVIOUS
<1>7. ASSUME NEW j \in 1 .. Len(s) + 1
      PROVE  (c \o r)[j] = IF j < i THEN s[j] ELSE IF j = i THEN e ELSE s[j - 1]
  <2>1. CASE j <= i
    <3>1. j \in 1 .. i /\ j \in 1 .. Len(c) + Len(r) /\ j <= Len(c)
      BY <1>2, <1>3, <1>6, <2>1
    <3>2. (c \o r)[j] = c[j]
      BY <1>5, <3>1
    <3> QED BY <1>3, <1>6, <2>1, <3>1, <3>2
  <2>2. CASE j > i
    <3>1. j - i \in 1 .. Len(s) - i + 1 /\ i + (j - i) - 1 = j - 1
      BY <1>6, <2>2
    <3>2. (c \o r)[j] = r[j - i]
      BY <1>2, <1>3, <1>5, <1>6, <2>2, <3>1
    <3> QED BY <1>2, <1>6, <2>2, <3>1, <3>2
  <2>3. j <= i \/ j > i
    BY <1>6
  <2> QED BY <2>1, <2>2, <2>3
<1> QED
  BY <1>2, <1>3, <1>4, <1>5, <1>6, <1>7

\* What removing the element at index i leaves (timer_list.remove).
LEMMA RemoveAtProperties ==
  ASSUME NEW S, NEW s \in Seq(S), NEW i \in 1 .. Len(s)
  PROVE  /\ RemoveAt(s, i) \in Seq(S)
         /\ Len(RemoveAt(s, i)) = Len(s) - 1
         /\ \A j \in 1 .. Len(s) - 1 :
              RemoveAt(s, i)[j] = IF j < i THEN s[j] ELSE s[j + 1]
<1> DEFINE l == SubSeq(s, 1, i - 1)
           r == SubSeq(s, i + 1, Len(s))
<1>1. /\ l \in Seq(S) /\ Len(l) = i - 1
      /\ \A j \in 1 .. i - 1 : l[j] = s[j]
  <2>1. i - 1 \in Int /\ \A j \in 1 .. i - 1 : s[j] \in S
    BY ElementOfSeq
  <2> QED BY <2>1, SubSeqProperties
<1>2. /\ r \in Seq(S) /\ Len(r) = Len(s) - i
      /\ \A j \in 1 .. Len(s) - i : r[j] = s[i + j]
  <2>1. /\ i + 1 \in Int /\ Len(s) \in Int
        /\ \A j \in i + 1 .. Len(s) : s[j] \in S
    BY ElementOfSeq
  <2>2. /\ r \in Seq(S)
        /\ Len(r) = IF i + 1 <= Len(s) THEN Len(s) - (i + 1) + 1 ELSE 0
        /\ \A j \in 1 .. Len(s) - (i + 1) + 1 : r[j] = s[i + 1 + j - 1]
    BY <2>1, SubSeqProperties
  <2> HIDE DEF r
  <2>3. \A j \in 1 .. Len(s) - i : i + 1 + j - 1 = i + j
    BY <2>1
  <2> QED BY <2>1, <2>2, <2>3
<1>3. RemoveAt(s, i) = l \o r
  BY DEF RemoveAt
<1> HIDE DEF l, r
<1>4. /\ l \o r \in Seq(S) /\ Len(l \o r) = Len(l) + Len(r)
      /\ \A j \in 1 .. Len(l) + Len(r) :
           (l \o r)[j] = IF j <= Len(l) THEN l[j] ELSE r[j - Len(l)]
  BY <1>1, <1>2, ConcatProperties
<1>5. Len(s) \in Nat
  OBVIOUS
<1>6. ASSUME NEW j \in 1 .. Len(s) - 1
      PROVE  (l \o r)[j] = IF j < i THEN s[j] ELSE s[j + 1]
  <2>0. j \in 1 .. Len(l) + Len(r)
    BY <1>1, <1>2, <1>5
  <2>1. CASE j < i
    <3>1. (l \o r)[j] = l[j]
      BY <1>1, <1>4, <1>5, <2>0, <2>1
    <3> QED BY <1>1, <1>5, <2>1, <3>1
  <2>2. CASE j >= i
    <3>1. (l \o r)[j] = r[j - Len(l)]
      BY <1>1, <1>4, <1>5, <2>0, <2>2
    <3>2. j - Len(l) \in 1 .. Len(s) - i /\ i + (j - Len(l)) = j + 1
      BY <1>1, <1>5, <2>2
    <3>3. r[j - Len(l)] = s[j + 1]
      BY <1>2, <3>2
    <3>4. ~(j < i)
      BY <1>5, <2>2
    <3> QED BY <3>1, <3>3, <3>4
  <2>3. j < i \/ j >= i
    BY <1>5
  <2> QED BY <2>1, <2>2, <2>3
<1> QED
  BY <1>1, <1>2, <1>3, <1>4, <1>5, <1>6

-----------------------------------------------------------------------------
(* The list of the queue.                                                  *)

\* Inserting a new element keeps a list free of duplicates.
LEMMA InsertAtDistinct ==
  ASSUME NEW S, NEW s \in Seq(S), NEW i \in 1 .. Len(s) + 1, NEW e \in S,
         IsInjective(s), e \notin Range(s)
  PROVE  /\ InsertAt(s, i, e) \in Seq(S)
         /\ IsInjective(InsertAt(s, i, e))
         /\ Range(InsertAt(s, i, e)) = Range(s) \cup {e}
<1> DEFINE t == InsertAt(s, i, e)
<1>1. /\ t \in Seq(S) /\ Len(t) = Len(s) + 1 /\ Len(s) \in Nat
      /\ DOMAIN t = 1 .. Len(s) + 1 /\ DOMAIN s = 1 .. Len(s)
      /\ \A j \in 1 .. Len(s) + 1 :
           t[j] = IF j < i THEN s[j] ELSE IF j = i THEN e ELSE s[j - 1]
  BY InsertAtProperties, LenProperties
<1> HIDE DEF t
<1>2. \A j \in 1 .. Len(s) + 1 :
         /\ j < i => j \in DOMAIN s
         /\ j > i => j - 1 \in DOMAIN s
  BY <1>1
<1>3. Range(t) = Range(s) \cup {e}
  <2>1. ASSUME NEW j \in DOMAIN t PROVE t[j] \in Range(s) \cup {e}
    <3>1. CASE j < i BY <1>1, <1>2, <3>1 DEF Range
    <3>2. CASE j = i BY <1>1, <3>2
    <3>3. CASE j > i
      <4>1. t[j] = s[j - 1] /\ j - 1 \in DOMAIN s
        BY <1>1, <1>2, <3>3
      <4> QED BY <4>1 DEF Range
    <3> QED BY <1>1, <3>1, <3>2, <3>3
  <2>2. ASSUME NEW j \in DOMAIN s PROVE s[j] \in Range(t)
    <3>1. CASE j < i
      <4>1. j \in DOMAIN t /\ t[j] = s[j]
        BY <1>1, <3>1
      <4> QED BY <4>1 DEF Range
    <3>2. CASE j >= i
      <4>1. j + 1 \in DOMAIN t /\ t[j + 1] = s[j]
        <5>1. j + 1 \in 1 .. Len(s) + 1 /\ j + 1 > i /\ j + 1 - 1 = j
          BY <1>1, <3>2
        <5> QED BY <1>1, <5>1
      <4> QED BY <4>1 DEF Range
    <3>3. j < i \/ j >= i
      BY <1>1
    <3> QED BY <3>1, <3>2, <3>3
  <2>3. e \in Range(t)
    BY <1>1 DEF Range
  <2> QED BY <2>1, <2>2, <2>3 DEF Range
<1>4. IsInjective(t)
  <2> SUFFICES ASSUME NEW a \in DOMAIN t, NEW b \in DOMAIN t, t[a] = t[b]
               PROVE  a = b
    BY DEF IsInjective
  <2>1. \A j \in DOMAIN t : j # i => t[j] # e
    <3> SUFFICES ASSUME NEW j \in DOMAIN t, j # i PROVE t[j] # e
      OBVIOUS
    <3>1. j < i \/ j > i
      BY <1>1
    <3>2. \A k \in DOMAIN s : s[k] # e
      BY DEF Range
    <3> QED BY <1>1, <1>2, <3>1, <3>2
  <2>2. \A j \in DOMAIN t : j < i => t[j] = s[j] /\ j \in DOMAIN s
    BY <1>1, <1>2
  <2>3. \A j \in DOMAIN t : j > i => t[j] = s[j - 1] /\ j - 1 \in DOMAIN s
    BY <1>1, <1>2
  <2>4. t[i] = e /\ a \in Int /\ b \in Int /\ i \in Int
    BY <1>1
  <2>5. CASE a = i \/ b = i
    BY <2>1, <2>4, <2>5
  <2>6. CASE a < i /\ b < i
    BY <2>2, <2>6 DEF IsInjective
  <2>7. CASE a > i /\ b > i
    <3>1. a - 1 = b - 1
      BY <2>3, <2>7 DEF IsInjective
    <3> QED BY <2>4, <3>1
  <2>8. CASE a < i /\ b > i
    <3>1. a = b - 1
      BY <2>2, <2>3, <2>8 DEF IsInjective
    <3> QED BY <2>4, <2>8, <3>1
  <2>9. CASE a > i /\ b < i
    <3>1. b = a - 1
      BY <2>2, <2>3, <2>9 DEF IsInjective
    <3> QED BY <2>4, <2>9, <3>1
  <2> QED BY <2>4, <2>5, <2>6, <2>7, <2>8, <2>9
<1> QED
  BY <1>1, <1>3, <1>4 DEF t

\* timer_list.remove(e) takes e out of a list that has it once, and nothing else.
LEMMA WithoutProperties ==
  ASSUME NEW S, NEW s \in Seq(S), NEW e \in Range(s), IsInjective(s)
  PROVE  /\ Without(s, e) \in Seq(S)
         /\ IsInjective(Without(s, e))
         /\ Range(Without(s, e)) = Range(s) \ {e}
<1> DEFINE i == CHOOSE j \in DOMAIN s : s[j] = e
           t == Without(s, e)
<1>1. /\ DOMAIN s = 1 .. Len(s) /\ Len(s) \in Nat
      /\ i \in DOMAIN s /\ s[i] = e
  BY LenProperties DEF Range
<1> HIDE DEF i
<1>2. /\ t \in Seq(S) /\ DOMAIN t = 1 .. Len(s) - 1
      /\ \A j \in 1 .. Len(s) - 1 : t[j] = IF j < i THEN s[j] ELSE s[j + 1]
  <2>1. t = RemoveAt(s, i)
    BY DEF Without, i
  <2> HIDE DEF t
  <2> QED BY <1>1, <2>1, RemoveAtProperties, LenProperties
<1> HIDE DEF t
<1>3. \A j \in DOMAIN t : /\ j < i => t[j] = s[j] /\ j \in DOMAIN s
                          /\ j >= i => t[j] = s[j + 1] /\ j + 1 \in DOMAIN s
  BY <1>1, <1>2
<1>4. Range(t) = Range(s) \ {e}
  <2>1. ASSUME NEW j \in DOMAIN t PROVE t[j] \in Range(s) \ {e}
    <3>1. CASE j < i
      BY <1>1, <1>3, <3>1 DEF Range, IsInjective
    <3>2. CASE j >= i
      <4>1. t[j] = s[j + 1] /\ j + 1 \in DOMAIN s /\ j + 1 # i
        BY <1>1, <1>2, <1>3, <3>2
      <4> QED BY <1>1, <4>1 DEF Range, IsInjective
    <3> QED BY <1>1, <1>2, <3>1, <3>2
  <2>2. ASSUME NEW j \in DOMAIN s, j # i PROVE s[j] \in Range(t)
    <3>1. CASE j < i
      <4>1. j \in DOMAIN t /\ t[j] = s[j]
        BY <1>1, <1>2, <3>1
      <4> QED BY <4>1 DEF Range
    <3>2. CASE j > i
      <4>1. j - 1 \in DOMAIN t /\ t[j - 1] = s[j]
        <5>1. j - 1 \in 1 .. Len(s) - 1 /\ ~(j - 1 < i) /\ (j - 1) + 1 = j
          BY <1>1, <3>2
        <5> QED BY <1>2, <5>1
      <4> QED BY <4>1 DEF Range
    <3> QED BY <1>1, <2>2, <3>1, <3>2
  <2> QED BY <1>1, <2>1, <2>2 DEF Range
<1>5. IsInjective(t)
  <2> SUFFICES ASSUME NEW a \in DOMAIN t, NEW b \in DOMAIN t, t[a] = t[b]
               PROVE  a = b
    BY DEF IsInjective
  <2>1. a \in Int /\ b \in Int /\ i \in Int
    BY <1>1, <1>2
  <2>2. CASE a < i /\ b < i
    BY <1>3, <2>2 DEF IsInjective
  <2>3. CASE a >= i /\ b >= i
    <3>1. a + 1 = b + 1
      BY <1>3, <2>3 DEF IsInjective
    <3> QED BY <2>1, <3>1
  <2>4. CASE a < i /\ b >= i
    <3>1. a = b + 1
      BY <1>3, <2>4 DEF IsInjective
    <3> QED BY <2>1, <2>4, <3>1
  <2>5. CASE a >= i /\ b < i
    <3>1. b = a + 1
      BY <1>3, <2>5 DEF IsInjective
    <3> QED BY <2>1, <2>5, <3>1
  <2> QED BY <2>1, <2>2, <2>3, <2>4, <2>5
<1> QED
  BY <1>2, <1>4, <1>5 DEF t

\* insort adds an entry that the list does not have, wherever its search in
\* the list, sorted or not, ends.
LEMMA InsortProperties ==
  ASSUME NEW es, NEW list \in Seq(Timers), NEW e \in Timers,
         IsInjective(list), e \notin Range(list),
         NEW l \in Insort(es, list, e)
  PROVE  /\ l \in Seq(Timers)
         /\ IsInjective(l)
         /\ Range(l) = Range(list) \cup {e}
<1>1. PICK p \in 0 .. Len(list) : l = InsertAt(list, p + 1, e)
  BY DEF Insort
<1>2. p + 1 \in 1 .. Len(list) + 1
  BY LenProperties
<1> QED
  BY <1>1, <1>2, InsertAtDistinct

-----------------------------------------------------------------------------
(* The fields of an entry.                                                 *)

\* What the methods that move an entry in time leave alone.
Kept(x, y) ==
  /\ y.state = x.state
  /\ y.record_service = x.record_service
  /\ y.justplay = x.justplay
  /\ y.disabled = x.disabled

\* Writing the state of an entry leaves its tuner and its kind alone.
LEMMA StateUpdate ==
  ASSUME NEW x \in Entry, NEW s \in Waiting .. Ended
  PROVE  /\ [x EXCEPT !.state = s] \in Entry
         /\ [x EXCEPT !.state = s].state = s
         /\ [x EXCEPT !.state = s].record_service = x.record_service
         /\ [x EXCEPT !.state = s].justplay = x.justplay
         /\ [x EXCEPT !.state = s].disabled = x.disabled
<1>1. [x EXCEPT !.state = s] \in Entry
  BY DEF Entry
<1> QED
  BY <1>1 DEF Entry

\* timeChanged() of an entry moves start_prepare and forgets the backoff only.
LEMMA TimeChangedProperties ==
  ASSUME NEW x \in Entry
  PROVE  TimeChanged(x) \in Entry /\ Kept(x, TimeChanged(x))
<1> DEFINE n == x.begin - PrepareTime
           y == [x EXCEPT !.start_prepare = n]
<1>1. n \in Int
  <2>1. PrepareTime \in Nat
    BY TimerAssumption
  <2> QED BY <2>1 DEF Entry
<1> HIDE DEF n
<1>2. y \in Entry /\ Kept(x, y)
  BY <1>1 DEF Entry, Kept
<1> HIDE DEF y
<1>3. [y EXCEPT !.backoff = 0] \in Entry /\ Kept(y, [y EXCEPT !.backoff = 0])
  BY <1>2 DEF Entry, Kept
<1>4. TimeChanged(x) = [y EXCEPT !.backoff = 0]
  BY DEF TimeChanged, y, n
<1> QED
  BY <1>2, <1>3, <1>4 DEF Kept

\* resetState() makes an entry Waiting and keeps its tuner and its kind.
LEMMA ResetStateProperties ==
  ASSUME NEW x \in Entry
  PROVE  /\ ResetState(x) \in Entry
         /\ Kept([x EXCEPT !.state = Waiting], ResetState(x))
<1> DEFINE y == [x EXCEPT !.state = Waiting]
           z == [y EXCEPT !.cancelled = FALSE]
<1>1. y \in Entry
  <2>1. Waiting \in Waiting .. Ended
    BY DEF Waiting, Ended
  <2> QED BY <2>1, StateUpdate
<1> HIDE DEF y
<1>2. z \in Entry /\ Kept(y, z)
  BY <1>1 DEF Entry, Kept
<1> HIDE DEF z
<1>3. ResetState(x) = TimeChanged(z)
  BY DEF ResetState, y, z
<1>4. Kept(y, ResetState(x)) /\ ResetState(x) \in Entry
  BY <1>2, <1>3, TimeChangedProperties DEF Kept
<1> QED
  BY <1>4 DEF y

\* A new RecordTimerEntry is waiting, enabled and holds no tuner.
LEMMA NewEntryProperties ==
  ASSUME NEW s \in [begin : Int, end : Int, repeated : SUBSET (0 .. Week - 1),
                    justplay : BOOLEAN, deepstandby : BOOLEAN]
  PROVE  /\ NewEntry(s) \in Entry
         /\ NewEntry(s).state = Waiting
         /\ NewEntry(s).record_service = FALSE
         /\ NewEntry(s).disabled = FALSE
<1> DEFINE x == [begin |-> s.begin, end |-> s.end, start_prepare |-> 0,
                 state |-> Waiting, backoff |-> 0, repeated |-> s.repeated,
                 disabled |-> FALSE, cancelled |-> FALSE,
                 justplay |-> s.justplay, deepstandby |-> s.deepstandby,
                 autoincrease |-> FALSE, dontSave |-> FALSE,
                 record_service |-> FALSE]
<1>1. x \in Entry /\ x.record_service = FALSE /\ x.disabled = FALSE
  BY DEF Entry, Waiting, Ended
<1>2. NewEntry(s) = ResetState(x)
  BY DEF NewEntry
<1> HIDE DEF x
<1>3. /\ ResetState(x) \in Entry
      /\ Kept([x EXCEPT !.state = Waiting], ResetState(x))
  BY <1>1, ResetStateProperties
<1>4. /\ [x EXCEPT !.state = Waiting].state = Waiting
      /\ [x EXCEPT !.state = Waiting].record_service = FALSE
      /\ [x EXCEPT !.state = Waiting].disabled = FALSE
  BY <1>1 DEF Entry
<1> QED
  BY <1>2, <1>3, <1>4 DEF Kept

\* processRepeated moves an entry in time and changes nothing else of it.
LEMMA ProcessRepeatedProperties ==
  ASSUME NEW x \in Entry, NEW b \in BOOLEAN
  PROVE  ProcessRepeated(x, b) \in Entry /\ Kept(x, ProcessRepeated(x, b))
<1> DEFINE K == OccurrenceDays(x, b)
           shift == Day * Least(K)
           y == [x EXCEPT !.begin = @ + shift,
                          !.end = IF x.end = x.begin
                                  THEN @ + shift + TicksPerSecond
                                  ELSE @ + shift]
<1>1. CASE x.repeated = {} \/ K = {}
  BY <1>1 DEF ProcessRepeated, Kept
<1>2. CASE ~(x.repeated = {} \/ K = {})
  <2>1. K \in SUBSET Nat
    BY DEF OccurrenceDays
  <2>2. ProcessRepeated(x, b) = TimeChanged(y)
    BY <1>2 DEF ProcessRepeated
  <2> HIDE DEF K
  <2>3. Least(K) \in Nat
    BY <1>2, <2>1, LeastOfNats
  <2>4. shift \in Int /\ TicksPerSecond \in Int
    BY <2>3, TimerAssumption
  <2> HIDE DEF shift
  <2> DEFINE u == [x EXCEPT !.begin = x.begin + shift]
             n == IF x.end = x.begin THEN x.end + shift + TicksPerSecond
                  ELSE x.end + shift
  <2>5. u \in Entry /\ Kept(x, u)
    BY <2>4 DEF Entry, Kept
  <2>6. n \in Int
    BY <2>4 DEF Entry
  <2> HIDE DEF u, n
  <2>7. [u EXCEPT !.end = n] \in Entry /\ Kept(u, [u EXCEPT !.end = n])
    BY <2>5, <2>6 DEF Entry, Kept
  <2>8. y = [u EXCEPT !.end = n]
    BY DEF u, n
  <2> HIDE DEF y
  <2> QED BY <2>2, <2>5, <2>7, <2>8, TimeChangedProperties DEF Kept
<1> QED
  BY <1>1, <1>2

-----------------------------------------------------------------------------
(* The invariant.  timer_list holds exactly the entries that have not      *)
(* ended; an entry no list holds has ended too, which is what makes a new  *)
(* request for it safe.  A waiting entry is not disabled, unless the       *)
(* toggles of the conflict screen are in play.                             *)

EnabledIfWaiting(x) ==
  "conflict" \notin Edits /\ x.state = Waiting => ~x.disabled

Coherent(es, tl, pl, pd) ==
  /\ IsInjective(tl)
  /\ Range(tl) = {e \in Timers : es[e].state # Ended}
  /\ \A e \in pl \cup pd : es[e].state = Ended
  /\ pl \cap pd = {}
  /\ \A e \in Timers : EnabledIfWaiting(es[e])

\* The types of the variables that file an entry, or say what runs next.
QueueTypeOK ==
  /\ entry \in [Timers -> Entry]
  /\ timer_list \in Seq(Timers)
  /\ processed_timers \subseteq Timers
  /\ pending \subseteq Timers
  /\ pc \in Controls
  /\ threshold \in Int
  /\ after \in Controls

\* Only a step back of the clock leaves entries to re-evaluate.
Filed ==
  /\ QueueTypeOK
  /\ Coherent(entry, timer_list, processed_timers, pending)
  /\ pc # "timewarp" => pending = {}

\* The inductive invariant.
IInv ==
  /\ TypeOK
  /\ Filed
  /\ "retype" \notin Edits => TunerHeld

\* Only e changes, and it holds a tuner afterwards if x did.
Becomes(e, x) ==
  \E z \in Entry : /\ entry' = [entry EXCEPT ![e] = z]
                   /\ z.record_service = x.record_service
                   /\ z.justplay = x.justplay
                   /\ Holding(z) = Holding(x)

\* calcNextActivation keeps the processed timers, or puts them all aside to
\* re-evaluate them when the clock was set back.
LEMMA CalcNextActivationProperties ==
  ASSUME TypeOK, pending = {}, NEW pl \in SUBSET Timers, NEW k \in Controls,
         CalcNextActivation(pl, k)
  PROVE  /\ processed_timers' \cup pending' = pl
         /\ processed_timers' \cap pending' = {}
         /\ pc' # "timewarp" => pending' = {}
         /\ pc' \in Controls
         /\ after' \in Controls
         /\ threshold' \in Int
<1>1. NextSecond \in Int
  BY TimerAssumption DEF NextSecond, WholeSeconds, TypeOK
<1> QED
  BY <1>1 DEF CalcNextActivation, TypeOK, Controls

\* A handler that does not recalculate leaves nothing to re-evaluate.
LEMMA ContinueProperties ==
  ASSUME TypeOK, pending = {}, NEW k \in Controls, Continue(k)
  PROVE  /\ pending' = {}
         /\ pc' \in Controls
         /\ after' \in Controls
         /\ threshold' \in Int
BY DEF Continue, TypeOK, Controls

\* AddTimerEntry files an entry that is in none of the lists it is given.
LEMMA AddTimerEntryFiles ==
  ASSUME TypeOK, pending = {},
         NEW e \in Timers, NEW x \in Entry, NEW k \in Controls,
         NEW tl \in Seq(Timers), NEW pl \in SUBSET Timers,
         IsInjective(tl),
         Range(tl) = {f \in Timers \ {e} : entry[f].state # Ended},
         \A f \in pl : f # e /\ entry[f].state = Ended,
         \A f \in Timers \ {e} : EnabledIfWaiting(entry[f]),
         AddTimerEntry(e, x, tl, pl, k)
  PROVE  Filed' /\ Becomes(e, x)
<1> DEFINE y == ProcessRepeated(x, TRUE)
           z == [y EXCEPT !.state = Ended]
           es == [entry EXCEPT ![e] = y]
<1>1. y \in Entry /\ Kept(x, y)
  BY ProcessRepeatedProperties
<1>2. entry \in [Timers -> Entry]
  BY DEF TypeOK
<1>3. CASE /\ Skipped(y)
           /\ entry' = [entry EXCEPT ![e] = z]
           /\ timer_list' = tl
           /\ processed_timers' = pl \cup {e}
           /\ Continue(k)
  <2> HIDE DEF y
  <2>1. /\ z \in Entry /\ z.state = Ended
        /\ z.record_service = x.record_service /\ z.justplay = x.justplay
    <3>1. Ended \in Waiting .. Ended
      BY DEF Waiting, Ended
    <3> QED BY <1>1, <3>1, StateUpdate DEF Kept
  <2>2. x.state \in {Waiting, Ended}
    BY <1>1, <1>3 DEF Skipped, ShouldSkip, Kept, Entry, Waiting, Ended
  <2>3. /\ z.record_service = x.record_service /\ z.justplay = x.justplay
        /\ Holding(z) = Holding(x)
    BY <1>1, <2>1, <2>2 DEF Holding, Kept, Entry, Waiting, Prepared, Running, Ended
  <2> HIDE DEF z
  <2>4. Becomes(e, x)
    BY <1>3, <2>1, <2>3 DEF Becomes
  <2>5. /\ entry' \in [Timers -> Entry]
        /\ entry'[e].state = Ended
        /\ \A f \in Timers \ {e} : entry'[f] = entry[f]
    BY <1>2, <1>3, <2>1
  <2>6. /\ pending' = {} /\ pc' \in Controls
        /\ after' \in Controls /\ threshold' \in Int
    BY <1>3, ContinueProperties
  <2>7. QueueTypeOK'
    BY <1>3, <2>5, <2>6 DEF QueueTypeOK
  <2>8. Coherent(entry', timer_list', processed_timers', pending')
    BY <1>3, <2>5, <2>6 DEF Coherent, Waiting, Ended, EnabledIfWaiting
  <2> QED BY <2>4, <2>6, <2>7, <2>8 DEF Filed
<1>4. CASE /\ ~Skipped(y)
           /\ entry' = es
           /\ timer_list' \in Insort(es, tl, e)
           /\ CalcNextActivation(pl, k)
  <2> HIDE DEF y
  <2>1. y.state # Ended /\ EnabledIfWaiting(y)
    BY <1>4 DEF Skipped, EnabledIfWaiting
  <2>2. Becomes(e, x)
    BY <1>1, <1>4 DEF Becomes, Kept, Holding
  <2>3. /\ entry' \in [Timers -> Entry]
        /\ entry'[e] = y
        /\ \A f \in Timers \ {e} : entry'[f] = entry[f]
    BY <1>1, <1>2, <1>4
  <2>4. e \notin Range(tl) /\ IsInjective(tl) /\ tl \in Seq(Timers)
    OBVIOUS
  <2>5. /\ timer_list' \in Seq(Timers)
        /\ IsInjective(timer_list')
        /\ Range(timer_list') = Range(tl) \cup {e}
    <3>1. timer_list' \in Insort(es, tl, e)
      BY <1>4
    <3> HIDE DEF es
    <3> QED BY <2>4, <3>1, InsortProperties
  <2>6. /\ processed_timers' \cup pending' = pl
        /\ processed_timers' \cap pending' = {}
        /\ pc' # "timewarp" => pending' = {}
        /\ pc' \in Controls /\ after' \in Controls /\ threshold' \in Int
    BY <1>4, CalcNextActivationProperties
  <2>7. QueueTypeOK'
    BY <2>3, <2>5, <2>6 DEF QueueTypeOK
  <2>8. Coherent(entry', timer_list', processed_timers', pending')
    BY <2>1, <2>3, <2>5, <2>6 DEF Coherent
  <2> QED BY <2>2, <2>6, <2>7, <2>8 DEF Filed
<1> QED
  BY <1>3, <1>4 DEF AddTimerEntry

\* Timer.timeChanged, for fields x that keep the state of the entry.
LEMMA RetimeFiles ==
  ASSUME TypeOK, Filed, pc # "timewarp",
         NEW e, NEW x \in Entry, NEW k \in Controls,
         x.state = entry[e].state,
         Retime(e, x, k)
  PROVE  e \in Timers /\ Filed' /\ Becomes(e, x)
<1> DEFINE y == TimeChanged(x)
           v == [y EXCEPT !.state = Waiting]
<1>1. /\ pending = {}
      /\ timer_list \in Seq(Timers) /\ processed_timers \in SUBSET Timers
      /\ Coherent(entry, timer_list, processed_timers, pending)
  BY DEF Filed, QueueTypeOK
<1>2. y \in Entry /\ Kept(x, y)
  BY TimeChangedProperties
<1>3. e \in Timers
  BY <1>1 DEF Retime, InQueue, Coherent
<1>4. CASE x.state = Ended
  <2>1. AddTimerEntry(e, v, timer_list, processed_timers \ {e}, k)
    BY <1>4 DEF Retime
  <2> HIDE DEF y
  <2>2. /\ v \in Entry /\ v.state = Waiting
        /\ v.record_service = x.record_service /\ v.justplay = x.justplay
    <3>1. Waiting \in Waiting .. Ended
      BY DEF Waiting, Ended
    <3> QED BY <1>2, <3>1, StateUpdate DEF Kept
  <2>3. Holding(v) = Holding(x)
    BY <1>4, <2>2 DEF Holding, Waiting, Prepared, Running, Ended
  <2> HIDE DEF v
  <2>4. /\ IsInjective(timer_list)
        /\ Range(timer_list) = {f \in Timers \ {e} : entry[f].state # Ended}
        /\ \A f \in processed_timers \ {e} : f # e /\ entry[f].state = Ended
        /\ \A f \in Timers \ {e} : EnabledIfWaiting(entry[f])
        /\ processed_timers \ {e} \in SUBSET Timers
    BY <1>1, <1>4 DEF Coherent
  <2>5. Filed' /\ Becomes(e, v)
    BY <1>1, <1>3, <2>1, <2>2, <2>4, AddTimerEntryFiles
  <2> QED BY <1>3, <2>2, <2>3, <2>5 DEF Becomes
<1>5. CASE x.state # Ended
  <2> DEFINE rest == Without(timer_list, e)
  <2>1. AddTimerEntry(e, y, rest, processed_timers, k)
    BY <1>5 DEF Retime
  <2> HIDE DEF y
  <2>2. e \in Range(timer_list) /\ IsInjective(timer_list)
    BY <1>1, <1>3, <1>5 DEF Coherent
  <2>3. /\ rest \in Seq(Timers) /\ IsInjective(rest)
        /\ Range(rest) = Range(timer_list) \ {e}
    BY <1>1, <2>2, WithoutProperties
  <2> HIDE DEF rest
  <2>4. /\ Range(rest) = {f \in Timers \ {e} : entry[f].state # Ended}
        /\ \A f \in processed_timers : f # e /\ entry[f].state = Ended
        /\ \A f \in Timers \ {e} : EnabledIfWaiting(entry[f])
    BY <1>1, <1>5, <2>3 DEF Coherent
  <2>5. Filed' /\ Becomes(e, y)
    BY <1>1, <1>2, <1>3, <2>1, <2>3, <2>4, AddTimerEntryFiles
  <2> QED BY <1>2, <1>3, <2>5 DEF Becomes, Kept, Holding
<1> QED
  BY <1>4, <1>5

\* RecordTimer.doActivate, for the fields x that activate() left.
LEMMA RequeueFiles ==
  ASSUME TypeOK, Filed, pc # "timewarp",
         NEW w \in Range(timer_list), NEW x \in Entry, NEW k \in Controls,
         EnabledIfWaiting(x),
         Requeue(w, x, k)
  PROVE  Filed' /\ Becomes(w, x)
<1> DEFINE rest == Without(timer_list, w)
           es == [entry EXCEPT ![w] = x]
           v == [ProcessRepeated(x, TRUE) EXCEPT !.state = Waiting]
<1>1. /\ pending = {} /\ entry \in [Timers -> Entry]
      /\ timer_list \in Seq(Timers) /\ processed_timers \in SUBSET Timers
      /\ Coherent(entry, timer_list, processed_timers, pending)
  BY DEF Filed, QueueTypeOK
<1>2. w \in Timers /\ IsInjective(timer_list)
  BY <1>1 DEF Coherent
<1>3. /\ rest \in Seq(Timers) /\ IsInjective(rest)
      /\ Range(rest) = Range(timer_list) \ {w}
  BY <1>1, <1>2, WithoutProperties
<1> HIDE DEF rest
<1>4. /\ Range(rest) = {f \in Timers \ {w} : entry[f].state # Ended}
      /\ \A f \in processed_timers : f # w /\ entry[f].state = Ended
      /\ \A f \in Timers \ {w} : EnabledIfWaiting(entry[f])
  BY <1>1, <1>3 DEF Coherent
<1>5. CASE /\ x.state # Ended
           /\ entry' = es
           /\ timer_list' \in Insort(es, rest, w)
           /\ UNCHANGED processed_timers
           /\ Continue(k)
  <2>1. /\ timer_list' \in Seq(Timers) /\ IsInjective(timer_list')
        /\ Range(timer_list') = Range(rest) \cup {w}
    <3>1. timer_list' \in Insort(es, rest, w)
      BY <1>5
    <3>2. w \notin Range(rest)
      BY <1>3
    <3> HIDE DEF es
    <3> QED BY <1>2, <1>3, <3>1, <3>2, InsortProperties
  <2>2. /\ pending' = {} /\ pc' \in Controls
        /\ after' \in Controls /\ threshold' \in Int
    BY <1>1, <1>5, ContinueProperties
  <2>3. /\ entry' \in [Timers -> Entry] /\ entry'[w] = x
        /\ \A f \in Timers \ {w} : entry'[f] = entry[f]
    BY <1>1, <1>2, <1>5
  <2>4. QueueTypeOK'
    BY <1>1, <1>5, <2>1, <2>2, <2>3 DEF QueueTypeOK
  <2>5. Coherent(entry', timer_list', processed_timers', pending')
    BY <1>1, <1>4, <1>5, <2>1, <2>2, <2>3 DEF Coherent
  <2>6. Becomes(w, x)
    BY <1>5 DEF Becomes
  <2> QED BY <2>2, <2>4, <2>5, <2>6 DEF Filed
<1>6. CASE /\ x.state = Ended
           /\ AddTimerEntry(w, v, rest, processed_timers, k)
  <2>1. /\ v \in Entry /\ v.state = Waiting
        /\ v.record_service = x.record_service /\ v.justplay = x.justplay
    <3>1. Waiting \in Waiting .. Ended
      BY DEF Waiting, Ended
    <3>2. /\ ProcessRepeated(x, TRUE) \in Entry
          /\ Kept(x, ProcessRepeated(x, TRUE))
      BY ProcessRepeatedProperties
    <3> QED BY <3>1, <3>2, StateUpdate DEF Kept
  <2> HIDE DEF v
  <2>2. Holding(v) = Holding(x)
    BY <1>6, <2>1 DEF Holding, Waiting, Prepared, Running, Ended
  <2>3. Filed' /\ Becomes(w, v)
    BY <1>1, <1>2, <1>3, <1>4, <1>6, <2>1, AddTimerEntryFiles
  <2> QED BY <2>1, <2>2, <2>3 DEF Becomes
<1>7. CASE /\ x.state = Ended
           /\ entry' = es
           /\ timer_list' = rest
           /\ processed_timers' = processed_timers \cup {w}
           /\ Continue(k)
  <2>2. /\ pending' = {} /\ pc' \in Controls
        /\ after' \in Controls /\ threshold' \in Int
    BY <1>1, <1>7, ContinueProperties
  <2>3. /\ entry' \in [Timers -> Entry] /\ entry'[w] = x
        /\ \A f \in Timers \ {w} : entry'[f] = entry[f]
    BY <1>1, <1>2, <1>7
  <2>4. QueueTypeOK'
    BY <1>1, <1>2, <1>3, <1>7, <2>2, <2>3 DEF QueueTypeOK
  <2>5. Coherent(entry', timer_list', processed_timers', pending')
    BY <1>1, <1>3, <1>4, <1>7, <2>2, <2>3 DEF Coherent, Waiting, Ended, EnabledIfWaiting
  <2>6. Becomes(w, x)
    BY <1>7 DEF Becomes
  <2> QED BY <2>2, <2>4, <2>5, <2>6 DEF Filed
<1> QED
  BY <1>5, <1>6, <1>7 DEF Requeue, rest

\* The tuners stay with their entries when one entry changes.
LEMMA TunersFollow ==
  ASSUME TypeOK, TunerHeld, NEW e \in Timers, NEW x \in Entry, Becomes(e, x),
         x.record_service = Holding(x),
         m_recordings' = IF Holding(x) THEN m_recordings \cup {e}
                         ELSE m_recordings \ {e}
  PROVE  TunerHeld'
<1>1. entry \in [Timers -> Entry] /\ m_recordings \subseteq Timers
  BY DEF TypeOK
<1>2. PICK z \in Entry : /\ entry' = [entry EXCEPT ![e] = z]
                         /\ z.record_service = x.record_service
                         /\ Holding(z) = Holding(x)
  BY DEF Becomes
<1>3. entry'[e] = z /\ \A f \in Timers \ {e} : entry'[f] = entry[f]
  BY <1>1, <1>2
<1>4. \A f \in Timers : entry'[f].record_service = Holding(entry'[f])
  BY <1>2, <1>3 DEF TunerHeld
<1>5. m_recordings' = {f \in Timers : entry'[f].record_service}
  BY <1>1, <1>2, <1>3 DEF TunerHeld
<1> QED
  BY <1>4, <1>5 DEF TunerHeld, Holding

-----------------------------------------------------------------------------
(* The outcomes of activate().                                             *)

\* An accepted activation moves an entry to its next state and no further.
LEMMA AcceptedProperties ==
  ASSUME NEW x \in Entry, x.state # Ended
  PROVE  /\ Accepted(x) \in Entry
         /\ Accepted(x).state = x.state + 1
         /\ Accepted(x).record_service = x.record_service
         /\ Accepted(x).justplay = x.justplay
<1> DEFINE s == x.state + 1
<1>1. s \in Waiting .. Ended
  BY DEF Entry, Waiting, Ended
<1> HIDE DEF s
<1>2. Accepted(x) = [x EXCEPT !.state = s]
  BY DEF Accepted, s
<1> QED
  BY <1>1, <1>2, StateUpdate DEF s

\* do_backoff changes the delay of an entry and nothing else.
LEMMA DoBackoffProperties ==
  ASSUME NEW x \in Entry
  PROVE  DoBackoff(x) \in Entry /\ Kept(x, DoBackoff(x))
<1> DEFINE n == IF x.backoff = 0 THEN BackoffMin
                ELSE IF 2 * x.backoff > BackoffMax THEN BackoffMax
                ELSE 2 * x.backoff
<1>1. n \in Int
  <2>1. BackoffMin \in Nat /\ BackoffMax \in Nat
    BY TimerAssumption
  <2>2. x.backoff \in Int
    BY DEF Entry
  <2> QED BY <2>1, <2>2
<1> HIDE DEF n
<1>2. [x EXCEPT !.backoff = n] \in Entry /\ Kept(x, [x EXCEPT !.backoff = n])
  BY <1>1 DEF Entry, Kept
<1> QED
  BY <1>2 DEF DoBackoff, n

\* setAutoincreaseEnd computes a time.
LEMMA IncreasedEndsAreTimes ==
  ASSUME TypeOK, NEW first \in Int, NEW n \in IncreasedEnds(first)
  PROVE  n \in Int
<1>1. AutoIncreaseGap \in Nat
  BY TimerAssumption
<1>2. Range(timer_list) \subseteq Timers
  BY ElementOfSeq, LenProperties DEF TypeOK, Range
<1>3. \A y \in Timers : entry[y].begin \in Int
  BY DEF TypeOK, Entry
<1> QED
  BY <1>1, <1>2, <1>3 DEF IncreasedEnds, Limits

\* A day more is a time, too.
LEMMA DayMoreIsATime == TypeOK => DayMore \in Int
<1> SUFFICES ASSUME TypeOK PROVE DayMore \in Int
  OBVIOUS
<1>1. now \in Int
  BY DEF TypeOK
<1>2. TicksPerSecond \in Nat \ {0} /\ AutoIncreaseTime \in Nat
  BY TimerAssumption
<1>3. now % TicksPerSecond \in Int
  BY <1>1, <1>2
<1> QED
  BY <1>1, <1>2, <1>3 DEF DayMore, WholeSeconds

\* What doActivate gives to activate(): the entry w, perhaps moved in time.
Activatable(w, x) ==
  /\ x.state = entry[w].state
  /\ x.record_service = entry[w].record_service
  /\ x.justplay = entry[w].justplay
  /\ EnabledIfWaiting(x)

\* doActivate, whatever activate() returns: a tuner taken, refused, given back
\* after a failed preparation, started, stopped or missing.  The entry is filed
\* by its new state and holds a tuner exactly if that state says so.
LEMMA DoActivateKeeps ==
  ASSUME IInv, pc # "timewarp",
         NEW w \in Range(timer_list), NEW x \in Entry, NEW k \in Controls,
         Activatable(w, x), DoActivate(w, x, k)
  PROVE  /\ Filed'
         /\ m_recordings' \subseteq Timers
         /\ {inStandby, closing, receiveRecordEvents, quit}' \subseteq BOOLEAN
         /\ "retype" \notin Edits => TunerHeld'
<1>1. /\ TypeOK /\ Filed /\ w \in Timers
      /\ m_recordings \subseteq Timers
      /\ {inStandby, closing, receiveRecordEvents, quit} \subseteq BOOLEAN
      /\ x.state # Ended /\ x.state \in Waiting .. Ended
      /\ x.justplay \in BOOLEAN /\ x.record_service \in BOOLEAN
  BY DEF IInv, TypeOK, Filed, Coherent, Activatable, Entry
<1>2. ASSUME "retype" \notin Edits
      PROVE  /\ TunerHeld
             /\ x.record_service = Holding(x)
             /\ m_recordings = IF Holding(x) THEN m_recordings \cup {w}
                               ELSE m_recordings \ {w}
  BY <1>1, <1>2 DEF IInv, TunerHeld, Activatable, Holding
<1>3. ASSUME NEW u \in Entry, Requeue(w, u, k),
             EnabledIfWaiting(u),
             "retype" \notin Edits => u.record_service = Holding(u),
             "retype" \notin Edits =>
               m_recordings' = IF Holding(u) THEN m_recordings \cup {w}
                               ELSE m_recordings \ {w}
      PROVE  Filed' /\ ("retype" \notin Edits => TunerHeld')
  <2>1. Filed' /\ Becomes(w, u)
    BY <1>1, <1>3, RequeueFiles
  <2>2. ASSUME "retype" \notin Edits PROVE TunerHeld'
    BY <1>1, <1>2, <1>3, <2>1, <2>2, TunersFollow
  <2> QED BY <2>1, <2>2
<1>4. ASSUME NEW u \in Entry, Requeue(w, u, k), Kept(x, u), UNCHANGED m_recordings
      PROVE  Filed' /\ ("retype" \notin Edits => TunerHeld')
  <2>1. /\ EnabledIfWaiting(u)
        /\ Holding(u) = Holding(x) /\ u.record_service = x.record_service
    BY <1>4 DEF Activatable, Kept, Holding, EnabledIfWaiting
  <2> QED BY <1>2, <1>3, <1>4, <2>1
<1>5. ASSUME Requeue(w, Accepted(x), k), UNCHANGED m_recordings,
             x.state = Prepared
      PROVE  Filed' /\ ("retype" \notin Edits => TunerHeld')
  <2>1. /\ Accepted(x) \in Entry /\ Accepted(x).state = Running
        /\ Accepted(x).record_service = x.record_service
        /\ Accepted(x).justplay = x.justplay
    BY <1>1, <1>5, AcceptedProperties DEF Prepared, Running
  <2>2. Holding(Accepted(x)) = Holding(x)
    BY <1>5, <2>1 DEF Holding
  <2> QED BY <1>2, <1>3, <1>5, <2>1, <2>2 DEF Running, Waiting, EnabledIfWaiting
<1>6. CASE SkipPassed(w, x, k)
  <2> DEFINE u == [x EXCEPT !.state = Ended]
  <2>1. Requeue(w, u, k) /\ x.state = Waiting /\ UNCHANGED <<m_recordings, power>>
    BY <1>6 DEF SkipPassed, ShouldSkip
  <2>2. /\ u \in Entry /\ u.state = Ended
        /\ u.record_service = x.record_service
    <3>1. Ended \in Waiting .. Ended
      BY DEF Waiting, Ended
    <3> QED BY <3>1, StateUpdate
  <2> HIDE DEF u
  <2>3. Holding(u) = Holding(x)
    BY <2>1, <2>2 DEF Holding, Waiting, Prepared, Running, Ended
  <2>4. Filed' /\ ("retype" \notin Edits => TunerHeld')
    BY <1>2, <1>3, <2>1, <2>2, <2>3 DEF Waiting, Ended, EnabledIfWaiting
  <2> QED BY <1>1, <2>1, <2>4 DEF power
<1>7. CASE PrepareOk(w, x, k)
  <2> DEFINE y == [x EXCEPT !.backoff = 0]
             v == [y EXCEPT !.record_service = ~x.justplay]
             u == Accepted(v)
  <2>1. y \in Entry /\ Kept(x, y)
    BY DEF Entry, Kept
  <2> HIDE DEF y
  <2>2. /\ v \in Entry /\ v.state = Waiting /\ v.justplay = x.justplay
        /\ v.record_service = ~x.justplay
    BY <1>1, <1>7, <2>1 DEF Entry, Kept, PrepareOk
  <2>3. Requeue(w, u, k)
    BY <1>7 DEF PrepareOk, y
  <2> HIDE DEF v
  <2>4. /\ u \in Entry /\ u.state = Prepared /\ u.justplay = x.justplay
        /\ u.record_service = ~x.justplay
    BY <2>2, AcceptedProperties DEF Waiting, Prepared, Ended
  <2> HIDE DEF u
  <2>5. Holding(u) = ~x.justplay
    BY <2>4 DEF Holding
  <2>6. /\ m_recordings' = IF x.justplay THEN m_recordings
                           ELSE m_recordings \cup {w}
        /\ x.state = Waiting /\ UNCHANGED power
    BY <1>7 DEF PrepareOk, RecordService
  <2>7. ASSUME "retype" \notin Edits
        PROVE  m_recordings' = IF Holding(u) THEN m_recordings \cup {w}
                               ELSE m_recordings \ {w}
    <3>1. ~Holding(x)
      BY <2>6 DEF Holding, Waiting, Prepared, Running
    <3> QED BY <1>2, <2>5, <2>6, <2>7, <3>1
  <2>8. Filed' /\ ("retype" \notin Edits => TunerHeld')
    BY <1>3, <2>3, <2>4, <2>5, <2>7 DEF Waiting, Prepared, EnabledIfWaiting
  <2> QED BY <1>1, <2>6, <2>8 DEF power
<1>8. CASE PrepareRefused(w, x, k)
  <2>1. Requeue(w, x, k) /\ UNCHANGED <<m_recordings, power>>
    BY <1>8 DEF PrepareRefused
  <2> QED BY <1>1, <1>4, <2>1 DEF Kept, power
<1>9. CASE PrepareFailed(w, x, k)
  <2> DEFINE y == DoBackoff(x)
             n == now + y.backoff
             u == [y EXCEPT !.start_prepare = n]
  <2>1. y \in Entry /\ Kept(x, y)
    BY DoBackoffProperties
  <2>2. /\ Requeue(w, u, k) /\ UNCHANGED <<m_recordings, inStandby, closing, receiveRecordEvents>>
        /\ RecordEnds(Fields(w, u), m_recordings, receiveRecordEvents)
    BY <1>9 DEF PrepareFailed
  <2> HIDE DEF y
  <2>3. n \in Int
    BY <1>1, <2>1 DEF TypeOK, Entry
  <2> HIDE DEF n
  <2>4. u \in Entry /\ Kept(x, u)
    BY <2>1, <2>3 DEF Entry, Kept
  <2> HIDE DEF u
  <2>5. quit' \in BOOLEAN
    BY <2>2 DEF RecordEnds
  <2> QED BY <1>1, <1>4, <2>2, <2>4, <2>5
<1>10. CASE StartCancelled(w, x, k)
  BY <1>1, <1>5, <1>10 DEF StartCancelled, power
<1>11. CASE Zap(w, x, k)
  <2>1. closing' \in BOOLEAN
    BY <1>1, <1>11 DEF Zap
  <2> QED BY <1>1, <1>5, <1>11, <2>1 DEF Zap
<1>12. CASE StartOk(w, x, k)
  BY <1>1, <1>5, <1>12 DEF StartOk, power
<1>13. CASE StartFailed(w, x, k)
  <2> DEFINE y == DoBackoff(x)
             n == now + y.backoff
             u == [y EXCEPT !.begin = n]
  <2>1. y \in Entry /\ Kept(x, y)
    BY DoBackoffProperties
  <2>2. Requeue(w, u, k) /\ UNCHANGED <<m_recordings, power>>
    BY <1>13 DEF StartFailed
  <2> HIDE DEF y
  <2>3. n \in Int
    BY <1>1, <2>1 DEF TypeOK, Entry
  <2> HIDE DEF n
  <2>4. u \in Entry /\ Kept(x, u)
    BY <2>1, <2>3 DEF Entry, Kept
  <2> HIDE DEF u
  <2> QED BY <1>1, <1>4, <2>2, <2>4 DEF power
<1>14. CASE Autoincrease(w, x, k)
  <2>1. PICK n \in IncreasedEnds(DayMore) : Requeue(w, [x EXCEPT !.end = n], k)
    BY <1>14 DEF Autoincrease
  <2>2. n \in Int
    BY <1>1, IncreasedEndsAreTimes, DayMoreIsATime
  <2>3. [x EXCEPT !.end = n] \in Entry /\ Kept(x, [x EXCEPT !.end = n])
    BY <2>2 DEF Entry, Kept
  <2> QED BY <1>1, <1>4, <1>14, <2>1, <2>3 DEF Autoincrease, power
<1>15. CASE StopRecording(w, x, k)
  <2> DEFINE v == [x EXCEPT !.record_service = IF ~x.justplay THEN FALSE ELSE @]
             u == Accepted(v)
             left == IF ~x.justplay THEN StopRecordService(m_recordings, w)
                     ELSE m_recordings
  <2>1. /\ v \in Entry /\ v.state = x.state /\ v.justplay = x.justplay
        /\ v.record_service = IF ~x.justplay THEN FALSE ELSE x.record_service
    BY <1>1 DEF Entry
  <2>2. /\ Requeue(w, u, k) /\ m_recordings' = left /\ x.state = Running
        /\ quit' \in BOOLEAN /\ receiveRecordEvents' \in BOOLEAN
        /\ UNCHANGED <<inStandby, closing>>
    BY <1>15 DEF StopRecording, RecordEnds
  <2> HIDE DEF v
  <2>3. /\ u \in Entry /\ u.state = Ended
        /\ u.record_service = v.record_service
    <3>1. v.state # Ended /\ v.state + 1 = Ended
      BY <2>1, <2>2 DEF Running, Ended
    <3> QED BY <2>1, <3>1, AcceptedProperties
  <2> HIDE DEF u
  <2>4. ~Holding(u)
    BY <2>3 DEF Holding, Prepared, Running, Ended
  <2>5. ASSUME "retype" \notin Edits
        PROVE  /\ ~u.record_service
               /\ m_recordings' = m_recordings \ {w}
    BY <1>2, <2>1, <2>2, <2>3, <2>5 DEF Holding, StopRecordService
  <2>6. u.record_service \in BOOLEAN
    BY <2>3 DEF Entry
  <2>7. "retype" \notin Edits => u.record_service = Holding(u)
    BY <2>4, <2>5, <2>6 DEF Holding
  <2>8. "retype" \notin Edits =>
          m_recordings' = IF Holding(u) THEN m_recordings \cup {w}
                          ELSE m_recordings \ {w}
    BY <2>4, <2>5
  <2>9. EnabledIfWaiting(u)
    BY <2>3 DEF Waiting, Ended, EnabledIfWaiting
  <2>10. Filed' /\ ("retype" \notin Edits => TunerHeld')
    BY <1>3, <2>2, <2>3, <2>7, <2>8, <2>9
  <2> QED BY <1>1, <2>2, <2>10 DEF StopRecordService
<1>16. CASE Crash(w, x)
  <2>1. /\ pc' = "crashed"
        /\ UNCHANGED <<entry, queue, m_recordings, power, threshold, after, pending>>
    BY <1>16 DEF Crash
  <2>2. Filed'
    BY <1>1, <2>1 DEF Filed, QueueTypeOK, Coherent, queue, Controls
  <2> QED BY <1>1, <1>2, <2>1, <2>2 DEF power, TunerHeld, Holding
<1> QED
  BY <1>6, <1>7, <1>8, <1>9, <1>10, <1>11, <1>12, <1>13, <1>14, <1>15, <1>16
     DEF DoActivate

-----------------------------------------------------------------------------
(* The steps.                                                              *)

\* The types of the other variables.
RestTypeOK ==
  /\ now \in Int
  /\ lastActivation \in Int
  /\ wakeup \in Int
  /\ m_recordings \subseteq Timers
  /\ {inStandby, closing, receiveRecordEvents, quit} \subseteq BOOLEAN
  /\ subject \in Timers \cup {NoTimer}
  /\ dialog \in Dialogs
  /\ rivals \subseteq Timers
  /\ position \in Int
  /\ requests \in Nat

\* The type invariant, split into what the queue needs and the rest.
LEMMA TypeParts == TypeOK <=> QueueTypeOK /\ RestTypeOK
BY DEF TypeOK, QueueTypeOK, RestTypeOK

\* A step that changes an entry, but not whether it holds a tuner.
LEMMA TunersStay ==
  ASSUME IInv, NEW e \in Timers, NEW x \in Entry, Becomes(e, x),
         "retype" \notin Edits => /\ x.record_service = entry[e].record_service
                                 /\ Holding(x) = Holding(entry[e]),
         UNCHANGED m_recordings
  PROVE  "retype" \notin Edits => TunerHeld'
<1> SUFFICES ASSUME "retype" \notin Edits PROVE TunerHeld'
  OBVIOUS
<1>1. TypeOK /\ TunerHeld
  BY DEF IInv
<1>2. /\ x.record_service = Holding(x)
      /\ m_recordings' = IF Holding(x) THEN m_recordings \cup {e}
                         ELSE m_recordings \ {e}
  BY <1>1 DEF TunerHeld, TypeOK
<1> QED
  BY <1>1, <1>2, TunersFollow

\* Timer.timeChanged(e), when the caller has not changed whether e holds a tuner.
LEMMA RetimeKeeps ==
  ASSUME IInv, pc # "timewarp",
         NEW e, NEW x \in Entry, NEW k \in Controls,
         x.state = entry[e].state,
         x.record_service = entry[e].record_service,
         "retype" \notin Edits => Holding(x) = Holding(entry[e]),
         Retime(e, x, k), UNCHANGED m_recordings
  PROVE  Filed' /\ ("retype" \notin Edits => TunerHeld')
<1>1. e \in Timers /\ Filed' /\ Becomes(e, x)
  BY RetimeFiles DEF IInv
<1> QED
  BY <1>1, TunersStay

\* A step that writes fields of an entry which no list depends on.
LEMMA RewriteKeeps ==
  ASSUME IInv, pc # "timewarp", NEW e \in Timers, NEW x \in Entry,
         x.state = entry[e].state, EnabledIfWaiting(x),
         "retype" \notin Edits => /\ x.record_service = entry[e].record_service
                                 /\ Holding(x) = Holding(entry[e]),
         entry' = [entry EXCEPT ![e] = x], UNCHANGED <<queue, m_recordings>>,
         pending' = {}, pc' \in Controls, threshold' \in Int, after' \in Controls
  PROVE  Filed' /\ ("retype" \notin Edits => TunerHeld')
<1>1. /\ QueueTypeOK /\ pending = {}
      /\ Coherent(entry, timer_list, processed_timers, pending)
  BY DEF IInv, Filed
<1>2. /\ entry' \in [Timers -> Entry] /\ entry'[e] = x
      /\ \A f \in Timers \ {e} : entry'[f] = entry[f]
  BY <1>1 DEF QueueTypeOK
<1>3. \A f \in Timers : /\ entry'[f].state = entry[f].state
                        /\ EnabledIfWaiting(entry'[f])
  BY <1>1, <1>2 DEF Coherent
<1>4. UNCHANGED <<timer_list, processed_timers>>
  BY DEF queue
<1>5. QueueTypeOK'
  BY <1>1, <1>2, <1>4 DEF QueueTypeOK
<1>6. Coherent(entry', timer_list', processed_timers', pending')
  BY <1>1, <1>3, <1>4 DEF Coherent, QueueTypeOK
<1>7. Becomes(e, x)
  BY DEF Becomes
<1> QED
  BY <1>5, <1>6, <1>7, TunersStay DEF Filed

\* Whatever is in the queue is a timer with well-typed fields.
LEMMA InQueueTimers ==
  ASSUME Filed, NEW e, InQueue(e)
  PROVE  e \in Timers /\ entry[e] \in Entry
BY DEF Filed, Coherent, QueueTypeOK, InQueue

\* The TimerEntry screen writes no field that files an entry.
LEMMA EditedProperties ==
  ASSUME NEW x \in Entry, NEW s \in Schedules
  PROVE  /\ Edited(x, s) \in Entry
         /\ Edited(x, s).state = x.state
         /\ Edited(x, s).disabled = x.disabled
         /\ Edited(x, s).record_service = x.record_service
         /\ Edited(x, s).justplay = s.justplay
<1>1. /\ s.begin \in Int /\ s.end \in Int /\ s.repeated \in SUBSET (0 .. Week - 1)
      /\ s.justplay \in BOOLEAN /\ s.deepstandby \in BOOLEAN
  BY ScheduleAssumption
<1> DEFINE b == [x EXCEPT !.begin = s.begin]
           f == [b EXCEPT !.end = s.end]
           r == [f EXCEPT !.repeated = s.repeated]
           j == [r EXCEPT !.justplay = s.justplay]
           d == [j EXCEPT !.deepstandby = s.deepstandby]
<1>2. b \in Entry /\ Kept(x, b)
  BY <1>1 DEF Entry, Kept
<1>3. Edited(x, s) = d
  BY DEF Edited
<1> HIDE DEF b
<1>4. f \in Entry /\ Kept(x, f)
  BY <1>1, <1>2 DEF Entry, Kept
<1> HIDE DEF f
<1>5. r \in Entry /\ Kept(x, r)
  BY <1>1, <1>4 DEF Entry, Kept
<1> HIDE DEF r
<1>6. /\ j \in Entry /\ j.state = x.state /\ j.disabled = x.disabled
      /\ j.record_service = x.record_service /\ j.justplay = s.justplay
  BY <1>1, <1>5 DEF Entry, Kept
<1> HIDE DEF j
<1>7. d \in Entry /\ Kept(j, d)
  BY <1>1, <1>6 DEF Entry, Kept
<1> HIDE DEF d
<1> QED
  BY <1>3, <1>6, <1>7 DEF Kept

\* abort() moves an entry in time and cancels it; its state stays.
LEMMA AbortProperties ==
  ASSUME NEW x \in Entry, now \in Int
  PROVE  Abort(x) \in Entry /\ Kept(x, Abort(x))
<1> DEFINE n == IF x.begin > now THEN now ELSE x.begin
           a == [x EXCEPT !.end = now]
           b == [a EXCEPT !.begin = n]
           c == [b EXCEPT !.cancelled = TRUE]
<1>1. n \in Int
  BY DEF Entry
<1>2. a.begin = x.begin
  BY DEF Entry
<1>3. Abort(x) = c
  BY <1>2 DEF Abort
<1> HIDE DEF n
<1>4. a \in Entry /\ Kept(x, a)
  BY DEF Entry, Kept
<1> HIDE DEF a
<1>5. b \in Entry /\ Kept(x, b)
  BY <1>1, <1>4 DEF Entry, Kept
<1> HIDE DEF b
<1>6. c \in Entry /\ Kept(x, c)
  BY <1>5 DEF Entry, Kept
<1> HIDE DEF c
<1> QED
  BY <1>3, <1>6

\* disable() and enable() write nothing but the flag.
LEMMA DisabledUpdate ==
  ASSUME NEW x \in Entry, NEW b \in BOOLEAN
  PROVE  /\ [x EXCEPT !.disabled = b] \in Entry
         /\ [x EXCEPT !.disabled = b].state = x.state
         /\ [x EXCEPT !.disabled = b].record_service = x.record_service
         /\ [x EXCEPT !.disabled = b].justplay = x.justplay
         /\ [x EXCEPT !.disabled = b].disabled = b
<1>1. [x EXCEPT !.disabled = b] \in Entry
  BY DEF Entry
<1> QED
  BY <1>1 DEF Entry

\* A step that leaves the entries and the lists alone.
LEMMA StayKeeps ==
  ASSUME IInv, UNCHANGED <<entry, queue, m_recordings>>,
         pending' \subseteq pending, pc' # "timewarp" => pending' = {},
         pc' \in Controls, threshold' \in Int, after' \in Controls
  PROVE  Filed' /\ ("retype" \notin Edits => TunerHeld')
<1>1. /\ QueueTypeOK
      /\ Coherent(entry, timer_list, processed_timers, pending)
  BY DEF IInv, Filed
<1>2. Filed'
  BY <1>1 DEF Filed, QueueTypeOK, Coherent, queue
<1> QED
  BY <1>2 DEF IInv, TunerHeld, Holding

\* setAutoincreaseEnd moves the end of an entry and no more.
LEMMA ExtendKeeps ==
  ASSUME IInv, pc # "timewarp", NEW x, NEW first \in Int, NEW k \in Controls,
         Extend(x, first, k), UNCHANGED m_recordings
  PROVE  Filed' /\ ("retype" \notin Edits => TunerHeld')
<1>1. /\ TypeOK /\ Filed /\ pending = {} /\ pc \in Controls
      /\ threshold \in Int /\ after \in Controls
  BY DEF IInv, Filed, QueueTypeOK
<1>2. CASE \E n \in IncreasedEnds(first) : Retime(x, [entry[x] EXCEPT !.end = n], k)
  <2>1. PICK n \in IncreasedEnds(first) : Retime(x, [entry[x] EXCEPT !.end = n], k)
    BY <1>2
  <2>2. n \in Int /\ x \in Timers /\ entry[x] \in Entry
    BY <1>1, <2>1, IncreasedEndsAreTimes, InQueueTimers DEF Retime
  <2> DEFINE y == [entry[x] EXCEPT !.end = n]
  <2>3. y \in Entry /\ Kept(entry[x], y)
    BY <2>2 DEF Entry, Kept
  <2>4. Retime(x, y, k)
    BY <2>1
  <2> HIDE DEF y
  <2> QED BY <2>3, <2>4, RetimeKeeps DEF Kept, Holding
<1>3. CASE UNCHANGED <<entry, queue, control>>
  BY <1>1, <1>3, StayKeeps DEF control
<1> QED
  BY <1>2, <1>3 DEF Extend

\* Whether finishedEdit files an entry anew or record() files a new one: an
\* entry that the list does not hold has ended.
LEMMA AcceptKeeps ==
  ASSUME IInv, pc # "timewarp", NEW e \in Timers, NEW d,
         Accept(e, d), UNCHANGED m_recordings
  PROVE  Filed' /\ ("retype" \notin Edits => TunerHeld')
<1>1. /\ TypeOK /\ Filed /\ pending = {} /\ entry[e] \in Entry
      /\ timer_list \in Seq(Timers) /\ processed_timers \in SUBSET Timers
      /\ Coherent(entry, timer_list, processed_timers, pending)
  BY DEF IInv, Filed, QueueTypeOK
<1>2. CASE Retime(e, entry[e], "idle")
  BY <1>1, <1>2, RetimeKeeps DEF Controls
<1> DEFINE x == IF e \in processed_timers THEN TimeChanged(entry[e])
                ELSE ResetState(entry[e])
<1>3. CASE /\ e \notin Range(timer_list)
           /\ AddTimerEntry(e, x, timer_list, processed_timers \ {e}, "idle")
  <2>1. entry[e].state = Ended /\ ~Holding(entry[e])
    BY <1>1, <1>3 DEF Coherent, Holding, Prepared, Running, Ended
  <2>2. /\ x \in Entry /\ x.record_service = entry[e].record_service
        /\ ~Holding(x)
    <3>1. CASE e \in processed_timers
      <4>1. x = TimeChanged(entry[e])
        BY <3>1
      <4> HIDE DEF x
      <4> QED BY <1>1, <2>1, <4>1, TimeChangedProperties DEF Kept, Holding
    <3>2. CASE e \notin processed_timers
      <4>1. x = ResetState(entry[e])
        BY <3>2
      <4> HIDE DEF x
      <4>2. Waiting \in Waiting .. Ended
        BY DEF Waiting, Ended
      <4>3. x \in Entry /\ Kept([entry[e] EXCEPT !.state = Waiting], x)
        BY <1>1, <4>1, ResetStateProperties
      <4>4. x.record_service = entry[e].record_service /\ x.state = Waiting
        BY <1>1, <4>2, <4>3, StateUpdate DEF Kept
      <4> QED BY <4>3, <4>4 DEF Holding, Waiting, Prepared, Running
    <3> QED BY <3>1, <3>2
  <2> HIDE DEF x
  <2>3. /\ IsInjective(timer_list)
        /\ Range(timer_list) = {f \in Timers \ {e} : entry[f].state # Ended}
        /\ \A f \in processed_timers \ {e} : f # e /\ entry[f].state = Ended
        /\ \A f \in Timers \ {e} : EnabledIfWaiting(entry[f])
        /\ processed_timers \ {e} \in SUBSET Timers
    BY <1>1, <2>1 DEF Coherent
  <2>4. Filed' /\ Becomes(e, x)
    BY <1>1, <1>3, <2>2, <2>3, AddTimerEntryFiles DEF Controls
  <2>5. Holding(x) = Holding(entry[e])
    BY <2>1, <2>2 DEF Holding
  <2> QED BY <2>2, <2>4, <2>5, TunersStay
<1>4. CASE UNCHANGED <<entry, queue>> /\ Continue("idle")
  <2>1. /\ pending' = {} /\ pc' \in Controls
        /\ after' \in Controls /\ threshold' \in Int
    BY <1>1, <1>4, ContinueProperties DEF Controls
  <2> QED BY <1>1, <1>4, <2>1, StayKeeps
<1> QED
  BY <1>2, <1>3, <1>4 DEF Accept

\* A failed check leads to the loop that shortens the conflicting timers.
LEMMA ConflictTypes ==
  ASSUME TypeOK, timer_list' \in Seq(Timers), NEW e \in Timers,
         NEW d \in Dialogs, Conflict(e, d)
  PROVE  /\ subject' \in Timers /\ dialog' \in Dialogs /\ rivals' \subseteq Timers
         /\ pc' = "shorten" /\ UNCHANGED <<threshold, after, pending>>
<1>1. Range(timer_list) \subseteq Timers
  BY ElementOfSeq, LenProperties DEF TypeOK, Range
<1> QED
  BY <1>1 DEF Conflict

\* The conflict screen opens with timers of the queue, or the new one.
LEMMA OpenConflictTypes ==
  ASSUME TypeOK, NEW e \in Timers, NEW d \in Dialogs, OpenConflict(e, d)
  PROVE  subject' \in Timers /\ dialog' \in Dialogs /\ rivals' \subseteq Timers
<1>1. Range(timer_list) \subseteq Timers
  BY ElementOfSeq, LenProperties DEF TypeOK, Range
<1> QED
  BY <1>1 DEF OpenConflict

\* A request or a dialog is over.
LEMMA NoDialogsTypes ==
  NoDialogs => /\ subject' \in Timers \cup {NoTimer}
               /\ dialog' \in Dialogs /\ rivals' \subseteq Timers
BY DEF NoDialogs, Dialogs

\* The program starts with empty lists and no recording.
LEMMA InitIInv == Init => IInv
<1> SUFFICES ASSUME Init PROVE IInv
  OBVIOUS
<1> DEFINE s == [begin |-> 0, end |-> 0, repeated |-> {}, justplay |-> FALSE,
                 deepstandby |-> FALSE]
<1>1. /\ NewEntry(s) \in Entry /\ NewEntry(s).record_service = FALSE
      /\ NewEntry(s).disabled = FALSE
  <2>1. s \in [begin : Int, end : Int, repeated : SUBSET (0 .. Week - 1),
               justplay : BOOLEAN, deepstandby : BOOLEAN]
    OBVIOUS
  <2> HIDE DEF s
  <2> QED BY <2>1, NewEntryProperties
<1>2. Unrecorded = [NewEntry(s) EXCEPT !.state = Ended]
  BY DEF Unrecorded
<1> HIDE DEF s
<1>3. /\ Unrecorded \in Entry /\ Unrecorded.state = Ended
      /\ Unrecorded.record_service = FALSE
  <2>1. Ended \in Waiting .. Ended
    BY DEF Waiting, Ended
  <2> QED BY <1>1, <1>2, <2>1, StateUpdate
<1>4. \A e \in Timers : entry[e] = Unrecorded
  BY DEF Init
<1>5. QueueTypeOK
  BY <1>3 DEF Init, QueueTypeOK, Controls
<1>6. RestTypeOK
  <2>1. now \in Int /\ now + MaxWaitTime \in Int
    BY TimerAssumption DEF Init
  <2>2. {inStandby, closing, receiveRecordEvents, quit} \subseteq BOOLEAN
    <3>1. /\ inStandby \in BOOLEAN /\ closing = FALSE
          /\ receiveRecordEvents = FALSE /\ quit = FALSE
      BY DEF Init
    <3> QED BY <3>1
  <2>3. /\ lastActivation = now /\ wakeup = now + MaxWaitTime
        /\ m_recordings = {} /\ subject = NoTimer /\ dialog = "none"
        /\ rivals = {} /\ position = 0 /\ requests = 0
    BY DEF Init
  <2> QED BY <2>1, <2>2, <2>3 DEF RestTypeOK, Dialogs
<1>7. Coherent(entry, timer_list, processed_timers, pending)
  BY <1>3, <1>4 DEF Init, Coherent, Range, IsInjective, Waiting, Ended, EnabledIfWaiting
<1>8. TunerHeld
  <2>1. ASSUME NEW e \in Timers
        PROVE  ~entry[e].record_service /\ ~Holding(entry[e])
    BY <1>3, <1>4 DEF Holding, Prepared, Running, Ended
  <2>2. ASSUME NEW e \in Timers
        PROVE  entry[e].record_service = Holding(entry[e])
    <3>1. entry[e].record_service = FALSE /\ Holding(entry[e]) = FALSE
      BY <1>3, <1>4, <2>1 DEF Holding
    <3> QED BY <3>1
  <2>3. m_recordings = {}
    BY DEF Init
  <2> QED BY <2>1, <2>2, <2>3 DEF TunerHeld
<1> QED
  BY <1>5, <1>6, <1>7, <1>8, TypeParts DEF IInv, Filed, Init

\* No step breaks the invariant: one case per action of Next, those of the
\* user's screens included.
LEMMA NextIInv == IInv /\ [Next]_vars => IInv'
<1> SUFFICES ASSUME IInv, [Next]_vars PROVE IInv'
  OBVIOUS
<1>1. /\ TypeOK /\ Filed /\ QueueTypeOK /\ RestTypeOK
      /\ Coherent(entry, timer_list, processed_timers, pending)
      /\ pc # "timewarp" => pending = {}
  BY TypeParts DEF IInv, Filed
<1>2. ASSUME Filed', RestTypeOK', "retype" \notin Edits => TunerHeld'
      PROVE  IInv'
  BY <1>2 DEF IInv, Filed, TypeOK, QueueTypeOK, RestTypeOK
\* a step that leaves the entries and the lists alone
<1>3. ASSUME UNCHANGED <<entry, queue, m_recordings>>,
             pending' \subseteq pending, pc' # "timewarp" => pending' = {},
             pc' \in Controls, threshold' \in Int, after' \in Controls
      PROVE  Filed' /\ ("retype" \notin Edits => TunerHeld')
  BY <1>3, StayKeeps
<1>4. CASE TimerExpires
  <2>1. CalcNextActivation(processed_timers, "idle") /\ pending = {}
    BY <1>1, <1>4 DEF TimerExpires
  <2>2. /\ processed_timers' \cup pending' = processed_timers
        /\ processed_timers' \cap pending' = {}
        /\ pc' # "timewarp" => pending' = {}
        /\ pc' \in Controls /\ after' \in Controls /\ threshold' \in Int
    BY <1>1, <2>1, CalcNextActivationProperties DEF QueueTypeOK, Controls
  <2>3. UNCHANGED <<now, entry, timer_list, lastActivation, wakeup,
                    m_recordings, power, request>>
    BY <1>4 DEF TimerExpires
  <2>4. Filed'
    BY <1>1, <2>2, <2>3 DEF Filed, QueueTypeOK, Coherent
  <2>5. RestTypeOK'
    BY <1>1, <2>3 DEF RestTypeOK, power, request, dialogs
  <2> QED BY <1>2, <2>3, <2>4, <2>5 DEF IInv, TunerHeld, Holding
<1>5. CASE ReEvaluate
  <2> DEFINE fields(e) == ProcessRepeated(ResetState(entry[e]), TRUE)
  <2>1. PICK e \in pending :
          LET x  == fields(e)
              es == [entry EXCEPT ![e] = x]
          IN /\ pending' = pending \ {e}
             /\ IF Skipped(x)
                THEN /\ entry' = [entry EXCEPT ![e] = [x EXCEPT !.state = Ended]]
                     /\ processed_timers' = processed_timers \cup {e}
                     /\ UNCHANGED timer_list
                ELSE /\ entry' = es
                     /\ timer_list' \in Insort(es, timer_list, e)
                     /\ UNCHANGED processed_timers
    BY <1>5 DEF ReEvaluate
  <2>2. UNCHANGED <<now, lastActivation, wakeup, m_recordings, power, pc,
                    threshold, after, request>> /\ pc = "timewarp"
    BY <1>5 DEF ReEvaluate
  <2> DEFINE x == fields(e)
             z == [x EXCEPT !.state = Ended]
             es == [entry EXCEPT ![e] = x]
  <2>3. /\ e \in Timers /\ entry[e] \in Entry /\ entry[e].state = Ended
        /\ e \notin Range(timer_list) /\ e \notin processed_timers
        /\ IsInjective(timer_list)
    BY <1>1 DEF QueueTypeOK, Coherent
  <2>4. /\ x \in Entry /\ x.record_service = entry[e].record_service
        /\ x.justplay = entry[e].justplay /\ x.state = Waiting
    <3>1. /\ ResetState(entry[e]) \in Entry
          /\ Kept([entry[e] EXCEPT !.state = Waiting], ResetState(entry[e]))
      BY <2>3, ResetStateProperties
    <3>2. Waiting \in Waiting .. Ended
      BY DEF Waiting, Ended
    <3>3. /\ ResetState(entry[e]).record_service = entry[e].record_service
          /\ ResetState(entry[e]).justplay = entry[e].justplay
          /\ ResetState(entry[e]).state = Waiting
      BY <2>3, <3>1, <3>2, StateUpdate DEF Kept
    <3> QED BY <3>1, <3>3, ProcessRepeatedProperties DEF Kept
  <2>5. /\ z \in Entry /\ z.state = Ended
        /\ z.record_service = entry[e].record_service
    <3>1. Ended \in Waiting .. Ended
      BY DEF Waiting, Ended
    <3> HIDE DEF x
    <3> QED BY <2>4, <3>1, StateUpdate
  <2>6. Holding(z) = Holding(entry[e]) /\ Holding(x) = Holding(entry[e])
    <3> HIDE DEF x, z
    <3> QED BY <2>3, <2>4, <2>5 DEF Holding, Waiting, Prepared, Running, Ended
  <2>7. CASE Skipped(x)
    <3>1. /\ entry' = [entry EXCEPT ![e] = z]
          /\ processed_timers' = processed_timers \cup {e}
          /\ timer_list' = timer_list /\ pending' = pending \ {e}
      BY <2>1, <2>7
    <3> HIDE DEF z
    <3>2. /\ entry' \in [Timers -> Entry] /\ entry'[e] = z
          /\ \A f \in Timers \ {e} : entry'[f] = entry[f]
      BY <1>1, <2>3, <2>5, <3>1 DEF QueueTypeOK
    <3>3. QueueTypeOK'
      BY <1>1, <2>2, <2>3, <3>1, <3>2 DEF QueueTypeOK
    <3>4. Coherent(entry', timer_list', processed_timers', pending')
      BY <1>1, <2>3, <2>5, <3>1, <3>2
         DEF Coherent, QueueTypeOK, Waiting, Ended, EnabledIfWaiting
    <3>5. Becomes(e, z)
      BY <2>5, <3>1 DEF Becomes
    <3>6. "retype" \notin Edits => TunerHeld'
      BY <2>2, <2>3, <2>5, <2>6, <3>5, TunersStay
    <3> QED BY <1>1, <1>2, <2>2, <3>3, <3>4, <3>6
            DEF Filed, RestTypeOK, power, request, dialogs
  <2>8. CASE ~Skipped(x)
    <3>1. /\ entry' = es /\ timer_list' \in Insort(es, timer_list, e)
          /\ processed_timers' = processed_timers /\ pending' = pending \ {e}
      BY <2>1, <2>8
    <3>2. ~x.disabled
      BY <2>4, <2>8 DEF Skipped
    <3> HIDE DEF x
    <3>3. /\ entry' \in [Timers -> Entry] /\ entry'[e] = x
          /\ \A f \in Timers \ {e} : entry'[f] = entry[f]
      BY <1>1, <2>3, <2>4, <3>1 DEF QueueTypeOK
    <3>4. /\ timer_list' \in Seq(Timers) /\ IsInjective(timer_list')
          /\ Range(timer_list') = Range(timer_list) \cup {e}
      <4> HIDE DEF es
      <4> QED BY <1>1, <2>3, <3>1, InsortProperties DEF QueueTypeOK
    <3>5. QueueTypeOK'
      BY <1>1, <2>2, <3>1, <3>3, <3>4 DEF QueueTypeOK
    <3>6. Coherent(entry', timer_list', processed_timers', pending')
      <4> HIDE DEF es
      <4>1. \A f \in Timers : EnabledIfWaiting(entry'[f])
        BY <1>1, <2>4, <3>2, <3>3 DEF Coherent, EnabledIfWaiting
      <4>2. Range(timer_list') = {f \in Timers : entry'[f].state # Ended}
        BY <1>1, <2>3, <2>4, <3>3, <3>4 DEF Coherent, Waiting, Ended, EnabledIfWaiting
      <4>3. /\ \A f \in processed_timers' \cup pending' :
                  f \in Timers /\ f # e /\ entry[f].state = Ended
            /\ processed_timers' \cap pending' = {}
        BY <1>1, <2>3, <3>1 DEF Coherent, QueueTypeOK
      <4> QED BY <3>3, <3>4, <4>1, <4>2, <4>3 DEF Coherent
    <3>7. Becomes(e, x)
      BY <2>4, <3>1 DEF Becomes
    <3>8. "retype" \notin Edits => TunerHeld'
      BY <2>2, <2>3, <2>4, <2>6, <3>7, TunersStay
    <3> QED BY <1>1, <1>2, <2>2, <3>5, <3>6, <3>8
            DEF Filed, RestTypeOK, power, request, dialogs
  <2> QED BY <2>7, <2>8
<1>6. CASE AllReEvaluated
  <2>1. /\ pc' = "activate" /\ threshold' = NextSecond /\ pending = {}
        /\ UNCHANGED <<now, entry, queue, lastActivation, wakeup, m_recordings,
                       power, after, pending, request>>
    BY <1>6 DEF AllReEvaluated
  <2>2. NextSecond \in Int
    BY <1>1, TimerAssumption DEF NextSecond, WholeSeconds, RestTypeOK
  <2>3. Filed' /\ ("retype" \notin Edits => TunerHeld')
    BY <1>1, <1>3, <2>1, <2>2 DEF QueueTypeOK, Controls
  <2> QED BY <1>1, <1>2, <2>1, <2>3 DEF RestTypeOK, power, request, dialogs
<1>7. CASE ProcessActivation
  <2> DEFINE w == Head(timer_list)
  <2>1. /\ pc # "timewarp" /\ after \in Controls
        /\ DoActivate(w, entry[w], after)
        /\ UNCHANGED <<now, lastActivation, wakeup, request>>
    BY <1>1, <1>7 DEF ProcessActivation, QueueTypeOK
  <2>2. w \in Range(timer_list)
    <3>1. timer_list # <<>> /\ timer_list \in Seq(Timers)
      BY <1>1, <1>7 DEF ProcessActivation, HeadIsDue, QueueTypeOK
    <3>2. 1 \in DOMAIN timer_list /\ w = timer_list[1]
      BY <3>1, LenProperties, EmptySeq
    <3> QED BY <3>2 DEF Range
  <2> HIDE DEF w
  <2>3. entry[w] \in Entry /\ Activatable(w, entry[w])
    BY <1>1, <2>2 DEF Coherent, QueueTypeOK, Activatable
  <2>4. /\ Filed' /\ m_recordings' \subseteq Timers
        /\ {inStandby, closing, receiveRecordEvents, quit}' \subseteq BOOLEAN
        /\ "retype" \notin Edits => TunerHeld'
    BY <2>1, <2>2, <2>3, DoActivateKeeps
  <2> QED BY <1>1, <1>2, <2>1, <2>4 DEF RestTypeOK, request, dialogs
<1>8. CASE SetNextActivation
  <2>1. NextWakeup \in Int
    <3>1. Poll \in Int
      BY <1>1, TimerAssumption DEF Poll, WholeSeconds, RestTypeOK
    <3>2. CASE timer_list = <<>>
      BY <3>1, <3>2 DEF NextWakeup
    <3>3. CASE timer_list # <<>>
      <4>1. Head(timer_list) \in Timers
        BY <1>1, <3>3, HeadTailProperties DEF QueueTypeOK
      <4>2. NextActivation(entry[Head(timer_list)]) \in Int
        BY <1>1, <4>1 DEF QueueTypeOK, Entry, NextActivation
      <4> QED BY <3>1, <3>3, <4>2, LeastOfTwo DEF NextWakeup
    <3> QED BY <3>2, <3>3
  <2>2. /\ pc = "activate" /\ lastActivation' = now /\ wakeup' = NextWakeup
        /\ pc' = after /\ after' = "idle" /\ threshold' = 0
        /\ UNCHANGED <<now, entry, queue, m_recordings, power, pending, request>>
    BY <1>8 DEF SetNextActivation
  <2>3. Filed' /\ ("retype" \notin Edits => TunerHeld')
    BY <1>1, <1>3, <2>2 DEF QueueTypeOK, Controls
  <2> QED BY <1>1, <1>2, <2>1, <2>2, <2>3 DEF RestTypeOK, power, request, dialogs
<1>9. CASE RetimeStopped
  <2> DEFINE x == [entry[subject] EXCEPT !.disabled = (pc = "stopall")]
  <2>1. /\ pc # "timewarp" /\ Retime(subject, x, "idle") /\ NoDialogs
        /\ UNCHANGED <<now, lastActivation, wakeup, m_recordings, power,
                       position, requests>>
    BY <1>9 DEF RetimeStopped
  <2>2. subject \in Timers /\ entry[subject] \in Entry
    BY <1>1, <2>1, InQueueTimers DEF Retime
  <2>3. /\ x \in Entry /\ x.state = entry[subject].state
        /\ x.record_service = entry[subject].record_service
        /\ x.justplay = entry[subject].justplay
    BY <2>2, DisabledUpdate
  <2> HIDE DEF x
  <2>4. Filed' /\ ("retype" \notin Edits => TunerHeld')
    BY <2>1, <2>3, RetimeKeeps DEF Holding, Controls
  <2> QED BY <1>1, <1>2, <2>1, <2>4, NoDialogsTypes DEF RestTypeOK, power
<1>10. CASE IncreaseNext
  <2>1. /\ pc = "increase" /\ position' = position + 1
        /\ Extend(timer_list[position], DayMore, "increase")
        /\ UNCHANGED <<now, lastActivation, wakeup, m_recordings, power, dialogs,
                       requests>>
    BY <1>10 DEF IncreaseNext
  <2>2. Filed' /\ ("retype" \notin Edits => TunerHeld')
    BY <1>1, <2>1, DayMoreIsATime, ExtendKeeps DEF Controls
  <2> QED BY <1>1, <1>2, <2>1, <2>2 DEF RestTypeOK, power, dialogs
<1>31. ASSUME NEW e \in Timers, Shorten(e) PROVE IInv'
  <2>1. PICK x \in rivals :
          /\ rivals' = rivals \ {x}
          /\ Extend(x, entry[e].begin - AutoIncreaseGap, "shorten")
    BY <1>31 DEF Shorten
  <2>2. /\ pc = "shorten"
        /\ UNCHANGED <<now, lastActivation, wakeup, m_recordings, power, subject,
                       dialog, position, requests>>
    BY <1>31 DEF Shorten
  <2>3. entry[e].begin - AutoIncreaseGap \in Int
    BY <1>1, TimerAssumption DEF QueueTypeOK, Entry
  <2>4. Filed' /\ ("retype" \notin Edits => TunerHeld')
    BY <1>1, <2>1, <2>2, <2>3, ExtendKeeps DEF Controls
  <2> QED BY <1>1, <1>2, <2>1, <2>2, <2>4 DEF RestTypeOK, power
<1>32. ASSUME NEW e \in Timers, Shortened(e) PROVE IInv'
  <2>1. /\ pc = "shorten"
        /\ UNCHANGED <<now, lastActivation, wakeup, m_recordings, power, position,
                       requests>>
    BY <1>32 DEF Shortened
  <2>2. CASE Accept(e, dialog) /\ NoDialogs
    <3>1. Filed' /\ ("retype" \notin Edits => TunerHeld')
      BY <1>1, <2>1, <2>2, AcceptKeeps
    <3> QED BY <1>1, <1>2, <2>1, <2>2, <3>1, NoDialogsTypes DEF RestTypeOK, power
  <2>3. CASE /\ UNCHANGED <<entry, queue>>
             /\ Continue("idle")
             /\ OpenConflict(e, IF dialog = "edited" THEN "editConflict"
                                ELSE "addConflict")
    <3>1. subject' \in Timers /\ dialog' \in Dialogs /\ rivals' \subseteq Timers
      BY <1>1, <2>3, OpenConflictTypes DEF Dialogs
    <3>2. /\ pending' = {} /\ pc' \in Controls
          /\ after' \in Controls /\ threshold' \in Int
      BY <1>1, <2>1, <2>3, ContinueProperties DEF Controls
    <3>3. Filed' /\ ("retype" \notin Edits => TunerHeld')
      BY <1>3, <2>1, <2>3, <3>2
    <3> QED BY <1>1, <1>2, <2>1, <3>1, <3>3 DEF RestTypeOK, power
  <2> QED BY <1>32, <2>2, <2>3 DEF Shortened
<1>11. CASE ForgetEntry
  <2>1. /\ pc = "increase" /\ pc' = "idle"
        /\ processed_timers' = processed_timers \ {subject}
        /\ subject' = NoTimer /\ position' = 0
        /\ UNCHANGED <<now, entry, timer_list, lastActivation, wakeup,
                       m_recordings, power, threshold, after, pending, dialog,
                       rivals, requests>>
    BY <1>11 DEF ForgetEntry
  <2>2. Filed'
    BY <1>1, <2>1 DEF Filed, QueueTypeOK, Coherent, Controls
  <2> QED BY <1>1, <1>2, <2>1, <2>2 DEF IInv, TunerHeld, Holding, RestTypeOK, power
<1>12. CASE Shutdown
  <2>1. /\ pc = "idle" /\ pc' = "stopped"
        /\ UNCHANGED <<now, entry, queue, lastActivation, wakeup, m_recordings,
                       power, threshold, after, pending, request>>
    BY <1>12 DEF Shutdown
  <2>2. Filed' /\ ("retype" \notin Edits => TunerHeld')
    BY <1>1, <1>3, <2>1 DEF QueueTypeOK, Controls
  <2> QED BY <1>1, <1>2, <2>1, <2>2 DEF RestTypeOK, power, request, dialogs
<1>30. CASE StandbyCloses
  <2>1. /\ inStandby' = FALSE /\ closing' = FALSE /\ receiveRecordEvents' = FALSE
        /\ UNCHANGED <<now, entry, queue, lastActivation, wakeup, m_recordings,
                       quit, control, request>>
    BY <1>30 DEF StandbyCloses, WakeUp
  <2>2. Filed' /\ ("retype" \notin Edits => TunerHeld')
    BY <1>1, <1>3, <2>1 DEF control, QueueTypeOK
  <2> QED BY <1>1, <1>2, <2>1, <2>2 DEF RestTypeOK, request, dialogs
\* the requests
<1>13. ASSUME NEW e \in Timers, Requests(e)
       PROVE  pc = "idle" /\ requests' \in Nat
  BY <1>1, <1>13 DEF Requests, RestTypeOK
<1>14. ASSUME NEW e \in Timers, NEW x \in Entry, pc = "idle", ~InQueue(e),
              x.record_service = FALSE, x.state = Waiting,
              AddTimerEntry(e, x, timer_list, processed_timers, "idle"),
              UNCHANGED m_recordings
       PROVE  Filed' /\ ("retype" \notin Edits => TunerHeld')
  <2>1. /\ e \notin Range(timer_list) /\ e \notin processed_timers
        /\ entry[e].state = Ended /\ pending = {}
    BY <1>1, <1>14 DEF InQueue, Coherent
  <2>2. /\ IsInjective(timer_list)
        /\ Range(timer_list) = {f \in Timers \ {e} : entry[f].state # Ended}
        /\ \A f \in processed_timers : f # e /\ entry[f].state = Ended
        /\ \A f \in Timers \ {e} : EnabledIfWaiting(entry[f])
        /\ processed_timers \in SUBSET Timers /\ timer_list \in Seq(Timers)
    BY <1>1, <2>1 DEF Coherent, QueueTypeOK
  <2>3. Filed' /\ Becomes(e, x)
    BY <1>1, <1>14, <2>1, <2>2, AddTimerEntryFiles DEF Controls
  <2>4. ASSUME "retype" \notin Edits PROVE TunerHeld'
    <3>1. TunerHeld /\ ~Holding(entry[e]) /\ Holding(x) = FALSE
      BY <1>14, <2>1, <2>4 DEF IInv, Holding, Waiting, Prepared, Running, Ended
    <3>2. e \notin m_recordings
      BY <3>1 DEF TunerHeld
    <3> QED BY <1>1, <1>14, <2>3, <3>1, <3>2, TunersFollow
  <2> QED BY <2>3, <2>4
\* the screens write the fields of an entry in place
<1>33. ASSUME NEW e \in Timers, NEW s \in Schedules, Edit(e, s), pc = "idle",
              UNCHANGED <<queue, m_recordings>>,
              pending' = {}, pc' \in Controls, threshold' \in Int, after' \in Controls
       PROVE  Filed' /\ ("retype" \notin Edits => TunerHeld')
  <2> DEFINE x == Edited(entry[e], s)
  <2>1. entry' = [entry EXCEPT ![e] = x] /\ Editable(entry[e], s)
    BY <1>33 DEF Edit
  <2>2. /\ x \in Entry /\ x.state = entry[e].state
        /\ x.disabled = entry[e].disabled
        /\ x.record_service = entry[e].record_service
        /\ x.justplay = s.justplay
    BY <1>1, EditedProperties DEF QueueTypeOK
  <2> HIDE DEF x
  <2>3. "retype" \notin Edits => Holding(x) = Holding(entry[e])
    BY <2>1, <2>2 DEF Holding, Editable
  <2>4. EnabledIfWaiting(x)
    BY <1>1, <2>2 DEF Coherent, EnabledIfWaiting
  <2> QED BY <1>33, <2>1, <2>2, <2>3, <2>4, RewriteKeeps
<1>15. ASSUME NEW e \in Timers, Record(e) PROVE IInv'
  <2>1. PICK s \in Schedules :
          \/ /\ AddTimerEntry(e, NewEntry(s), timer_list, processed_timers, "idle")
             /\ UNCHANGED dialogs
          \/ /\ entry' = [entry EXCEPT ![e] = [NewEntry(s) EXCEPT !.state = Ended]]
             /\ UNCHANGED queue
             /\ Conflict(e, "added")
    BY <1>15 DEF Record
  <2> DEFINE n == NewEntry(s)
  <2>2. n \in Entry /\ n.state = Waiting /\ n.record_service = FALSE
    <3>1. s \in [begin : Int, end : Int, repeated : SUBSET (0 .. Week - 1),
                 justplay : BOOLEAN, deepstandby : BOOLEAN]
      BY ScheduleAssumption
    <3> QED BY <3>1, NewEntryProperties
  <2> HIDE DEF n
  <2>3. /\ ~InQueue(e) /\ pc = "idle" /\ requests' \in Nat
        /\ UNCHANGED <<now, lastActivation, wakeup, m_recordings, power, position>>
    BY <1>13, <1>15 DEF Record
  <2>4. CASE /\ AddTimerEntry(e, n, timer_list, processed_timers, "idle")
             /\ UNCHANGED dialogs
    <3>1. Filed' /\ ("retype" \notin Edits => TunerHeld')
      BY <1>14, <2>2, <2>3, <2>4
    <3> QED BY <1>1, <1>2, <2>3, <2>4, <3>1 DEF RestTypeOK, power, dialogs
  <2>5. CASE /\ entry' = [entry EXCEPT ![e] = [n EXCEPT !.state = Ended]]
             /\ UNCHANGED queue
             /\ Conflict(e, "added")
    <3> DEFINE x == [n EXCEPT !.state = Ended]
    <3>1. x \in Entry /\ x.state = Ended /\ x.record_service = FALSE
      <4>1. Ended \in Waiting .. Ended
        BY DEF Waiting, Ended
      <4> QED BY <2>2, <4>1, StateUpdate
    <3>2. entry' = [entry EXCEPT ![e] = x]
      BY <2>5
    <3> HIDE DEF x
    <3>3. entry[e].state = Ended
      BY <1>1, <2>3 DEF InQueue, Coherent
    <3>4. /\ subject' \in Timers /\ dialog' \in Dialogs /\ rivals' \subseteq Timers
          /\ pc' = "shorten" /\ UNCHANGED <<threshold, after, pending>>
      BY <1>1, <2>5, ConflictTypes DEF queue, QueueTypeOK, Dialogs
    <3>5. EnabledIfWaiting(x)
      BY <3>1 DEF EnabledIfWaiting, Waiting, Ended
    <3>6. ASSUME "retype" \notin Edits
          PROVE  /\ x.record_service = entry[e].record_service
                 /\ Holding(x) = Holding(entry[e])
      <4>1. ~Holding(x) /\ ~Holding(entry[e])
        BY <3>1, <3>3 DEF Holding, Prepared, Running, Ended
      <4>2. entry[e].record_service = Holding(entry[e])
        BY <3>6 DEF IInv, TunerHeld
      <4>3. Holding(x) = FALSE /\ Holding(entry[e]) = FALSE
        BY <4>1 DEF Holding
      <4> QED BY <3>1, <4>2, <4>3
    <3>7. Filed' /\ ("retype" \notin Edits => TunerHeld')
      BY <1>1, <2>3, <2>5, <3>1, <3>2, <3>3, <3>4, <3>5, <3>6, RewriteKeeps
         DEF Controls, QueueTypeOK
    <3> QED BY <1>1, <1>2, <2>3, <3>4, <3>7 DEF RestTypeOK, power
  <2> QED BY <2>1, <2>4, <2>5 DEF n
<1>16. ASSUME NEW e \in Timers, StartInstantRecording(e) PROVE IInv'
  <2> DEFINE s(n) == [begin |-> WholeSeconds(now), end |-> n, repeated |-> {},
                      justplay |-> FALSE, deepstandby |-> FALSE]
             x(n) == [NewEntry(s(n)) EXCEPT !.autoincrease = TRUE,
                                            !.dontSave = TRUE]
  <2>1. PICK n \in IncreasedEnds(DayMore) :
          AddTimerEntry(e, x(n), timer_list, processed_timers, "idle")
    BY <1>16 DEF StartInstantRecording
  <2>2. /\ NewEntry(s(n)) \in Entry /\ NewEntry(s(n)).state = Waiting
        /\ NewEntry(s(n)).record_service = FALSE
    <3>1. n \in Int /\ WholeSeconds(now) \in Int
      BY <1>1, IncreasedEndsAreTimes, DayMoreIsATime, TimerAssumption
         DEF WholeSeconds, RestTypeOK
    <3>2. s(n) \in [begin : Int, end : Int, repeated : SUBSET (0 .. Week - 1),
                    justplay : BOOLEAN, deepstandby : BOOLEAN]
      BY <3>1
    <3> HIDE DEF s
    <3> QED BY <3>2, NewEntryProperties
  <2> DEFINE a == [NewEntry(s(n)) EXCEPT !.autoincrease = TRUE]
             d == [a EXCEPT !.dontSave = TRUE]
  <2>3. x(n) = d
    OBVIOUS
  <2> HIDE DEF s, x
  <2>4. a \in Entry /\ Kept(NewEntry(s(n)), a)
    BY <2>2 DEF Entry, Kept
  <2> HIDE DEF a
  <2>5. d \in Entry /\ Kept(NewEntry(s(n)), d)
    BY <2>4 DEF Entry, Kept
  <2>6. /\ ~InQueue(e) /\ pc = "idle" /\ requests' \in Nat
        /\ UNCHANGED <<now, lastActivation, wakeup, m_recordings, power, dialogs,
                       position>>
    BY <1>13, <1>16 DEF StartInstantRecording
  <2>7. Filed' /\ ("retype" \notin Edits => TunerHeld')
    BY <1>14, <2>1, <2>2, <2>3, <2>5, <2>6 DEF Kept
  <2> QED BY <1>1, <1>2, <2>6, <2>7 DEF RestTypeOK, power, dialogs
<1>17. ASSUME NEW e \in Timers, ChangeEnd(e) PROVE IInv'
  <2>1. /\ pc = "idle" /\ requests' \in Nat /\ entry[e] \in Entry
        /\ UNCHANGED <<now, lastActivation, wakeup, m_recordings, power, dialogs,
                       position>>
    BY <1>1, <1>13, <1>17 DEF ChangeEnd, QueueTypeOK
  <2>2. ASSUME \E s \in Schedules :
                 Retime(e, [entry[e] EXCEPT !.end = s.end, !.autoincrease = FALSE], "idle")
        PROVE  Filed' /\ ("retype" \notin Edits => TunerHeld')
    <3>1. PICK s \in Schedules :
            Retime(e, [entry[e] EXCEPT !.end = s.end, !.autoincrease = FALSE], "idle")
      BY <2>2
    <3> DEFINE f == [entry[e] EXCEPT !.end = s.end]
               x == [f EXCEPT !.autoincrease = FALSE]
    <3>2. Retime(e, x, "idle")
      BY <3>1
    <3>3. s.end \in Int
      BY ScheduleAssumption
    <3>4. f \in Entry /\ Kept(entry[e], f)
      BY <2>1, <3>3 DEF Entry, Kept
    <3> HIDE DEF f
    <3>5. x \in Entry /\ Kept(entry[e], x)
      BY <3>4 DEF Entry, Kept
    <3> HIDE DEF x
    <3> QED BY <2>1, <3>2, <3>5, RetimeKeeps DEF Kept, Holding, Controls
  <2>3. ASSUME \E n \in {entry[e].end, WholeSeconds(now)} :
                 Retime(e, [entry[e] EXCEPT !.end = n], "idle")
        PROVE  Filed' /\ ("retype" \notin Edits => TunerHeld')
    <3>1. PICK n \in {entry[e].end, WholeSeconds(now)} :
            Retime(e, [entry[e] EXCEPT !.end = n], "idle")
      BY <2>3
    <3>2. n \in Int
      BY <1>1, <2>1, TimerAssumption DEF WholeSeconds, RestTypeOK, Entry
    <3> DEFINE x == [entry[e] EXCEPT !.end = n]
    <3>3. x \in Entry /\ Kept(entry[e], x)
      BY <2>1, <3>2 DEF Entry, Kept
    <3>4. Retime(e, x, "idle")
      BY <3>1
    <3> HIDE DEF x
    <3> QED BY <2>1, <3>3, <3>4, RetimeKeeps DEF Kept, Holding, Controls
  <2>4. Filed' /\ ("retype" \notin Edits => TunerHeld')
    BY <1>17, <2>2, <2>3 DEF ChangeEnd
  <2> QED BY <1>1, <1>2, <2>1, <2>4 DEF RestTypeOK, power, dialogs
<1>18. ASSUME NEW e \in Timers, EditTimer(e) PROVE IInv'
  <2>1. PICK s \in Schedules :
          \/ /\ Editable(entry[e], s)
             /\ Retime(e, Edited(entry[e], s), "idle")
             /\ UNCHANGED dialogs
          \/ Edit(e, s) /\ UNCHANGED queue /\ Conflict(e, "edited")
          \/ /\ Edit(e, s)
             /\ subject' = e /\ dialog' = "edited"
             /\ UNCHANGED <<queue, control, rivals>>
    BY <1>18 DEF EditTimer
  <2>2. /\ pc = "idle" /\ pending = {} /\ requests' \in Nat
        /\ UNCHANGED <<now, lastActivation, wakeup, m_recordings, power, position>>
    BY <1>1, <1>13, <1>18 DEF EditTimer
  <2>3. CASE /\ Editable(entry[e], s)
             /\ Retime(e, Edited(entry[e], s), "idle")
             /\ UNCHANGED dialogs
    <3> DEFINE x == Edited(entry[e], s)
    <3>1. /\ x \in Entry /\ x.state = entry[e].state
          /\ x.record_service = entry[e].record_service
          /\ x.justplay = s.justplay
      BY <1>1, EditedProperties DEF QueueTypeOK
    <3>2. Retime(e, x, "idle")
      BY <2>3
    <3> HIDE DEF x
    <3>3. "retype" \notin Edits => Holding(x) = Holding(entry[e])
      BY <2>3, <3>1 DEF Holding, Editable
    <3>4. Filed' /\ ("retype" \notin Edits => TunerHeld')
      BY <2>2, <3>1, <3>2, <3>3, RetimeKeeps DEF Controls
    <3> QED BY <1>1, <1>2, <2>2, <2>3, <3>4 DEF RestTypeOK, power, dialogs
  <2>4. CASE Edit(e, s) /\ UNCHANGED queue /\ Conflict(e, "edited")
    <3>1. /\ subject' \in Timers /\ dialog' \in Dialogs /\ rivals' \subseteq Timers
          /\ pc' = "shorten" /\ UNCHANGED <<threshold, after, pending>>
      BY <1>1, <2>4, ConflictTypes DEF queue, QueueTypeOK, Dialogs
    <3>2. Filed' /\ ("retype" \notin Edits => TunerHeld')
      BY <1>1, <1>33, <2>2, <2>4, <3>1 DEF Controls, QueueTypeOK
    <3> QED BY <1>1, <1>2, <2>2, <3>1, <3>2 DEF RestTypeOK, power
  <2>5. CASE /\ Edit(e, s)
             /\ subject' = e /\ dialog' = "edited"
             /\ UNCHANGED <<queue, control, rivals>>
    <3>1. Filed' /\ ("retype" \notin Edits => TunerHeld')
      BY <1>1, <1>33, <2>2, <2>5 DEF Controls, QueueTypeOK, control
    <3> QED BY <1>1, <1>2, <2>2, <2>5, <3>1 DEF RestTypeOK, power, Dialogs
  <2> QED BY <2>1, <2>3, <2>4, <2>5
<1>34. ASSUME NEW e \in Timers, Finish(e) PROVE IInv'
  <2>1. /\ pc = "idle" /\ dialog \in {"edited", "added"}
        /\ UNCHANGED <<now, lastActivation, wakeup, m_recordings, power, position,
                       requests>>
    BY <1>34 DEF Finish
  <2>2. CASE Accept(e, dialog) /\ NoDialogs
    <3>1. Filed' /\ ("retype" \notin Edits => TunerHeld')
      BY <1>1, <2>1, <2>2, AcceptKeeps
    <3> QED BY <1>1, <1>2, <2>1, <2>2, <3>1, NoDialogsTypes DEF RestTypeOK, power
  <2>3. CASE UNCHANGED <<entry, queue>> /\ Conflict(e, dialog)
    <3>1. /\ subject' \in Timers /\ dialog' \in Dialogs /\ rivals' \subseteq Timers
          /\ pc' = "shorten" /\ UNCHANGED <<threshold, after, pending>>
      BY <1>1, <2>1, <2>3, ConflictTypes DEF queue, QueueTypeOK, Dialogs
    <3>2. Filed' /\ ("retype" \notin Edits => TunerHeld')
      BY <1>1, <1>3, <2>1, <2>3, <3>1 DEF Controls, QueueTypeOK
    <3> QED BY <1>1, <1>2, <2>1, <3>1, <3>2 DEF RestTypeOK, power
  <2> QED BY <1>34, <2>2, <2>3 DEF Finish
<1>35. ASSUME NEW e \in Timers, ConflictAnswer(e) PROVE IInv'
  <2>1. /\ pc = "idle" /\ pending = {} /\ requests' \in Nat /\ "conflict" \in Edits
        /\ dialog' \in Dialogs /\ rivals' = {}
        /\ UNCHANGED <<now, queue, lastActivation, wakeup, m_recordings, power,
                       control, subject, position>>
    BY <1>1, <1>13, <1>35 DEF ConflictAnswer, Dialogs
  <2>2. /\ pending' = {} /\ pc' \in Controls /\ threshold' \in Int
        /\ after' \in Controls
    BY <1>1, <2>1 DEF QueueTypeOK, control
  <2>3. ASSUME UNCHANGED entry
        PROVE  Filed' /\ ("retype" \notin Edits => TunerHeld')
    BY <1>1, <1>3, <2>1, <2>2, <2>3
  <2>4. ASSUME \E x \in rivals \cup {e} :
                 entry' = [entry EXCEPT ![x].disabled = ~@]
        PROVE  Filed' /\ ("retype" \notin Edits => TunerHeld')
    <3>1. PICK x \in rivals \cup {e} : entry' = [entry EXCEPT ![x].disabled = ~@]
      BY <2>4
    <3>2. x \in Timers /\ entry[x] \in Entry
      BY <1>1 DEF RestTypeOK, QueueTypeOK
    <3> DEFINE b == ~entry[x].disabled
               y == [entry[x] EXCEPT !.disabled = b]
    <3>3. entry' = [entry EXCEPT ![x] = y]
      BY <3>1
    <3>4. b \in BOOLEAN
      OBVIOUS
    <3> HIDE DEF b
    <3>5. /\ y \in Entry /\ y.state = entry[x].state
          /\ y.record_service = entry[x].record_service
          /\ y.justplay = entry[x].justplay
      BY <3>2, <3>4, DisabledUpdate
    <3> HIDE DEF y
    <3>6. EnabledIfWaiting(y) /\ Holding(y) = Holding(entry[x])
      BY <2>1, <3>5 DEF EnabledIfWaiting, Holding
    <3> QED BY <2>1, <2>2, <3>2, <3>3, <3>5, <3>6, RewriteKeeps
  <2>5. ASSUME \E x \in rivals \cup {e}, s \in Schedules : Edit(x, s)
        PROVE  Filed' /\ ("retype" \notin Edits => TunerHeld')
    <3>1. PICK x \in rivals \cup {e}, s \in Schedules : Edit(x, s)
      BY <2>5
    <3>2. x \in Timers
      BY <1>1 DEF RestTypeOK
    <3> QED BY <1>33, <2>1, <2>2, <3>1, <3>2
  <2>6. Filed' /\ ("retype" \notin Edits => TunerHeld')
    BY <1>35, <2>3, <2>4, <2>5 DEF ConflictAnswer
  <2> QED BY <1>1, <1>2, <2>1, <2>6 DEF RestTypeOK, power
<1>19. ASSUME NEW e \in Timers, NEW b \in BOOLEAN, pc = "idle",
              Retime(e, [entry[e] EXCEPT !.disabled = b], "idle"),
              UNCHANGED m_recordings
       PROVE  Filed' /\ ("retype" \notin Edits => TunerHeld')
  <2> DEFINE x == [entry[e] EXCEPT !.disabled = b]
  <2>1. /\ x \in Entry /\ x.state = entry[e].state
        /\ x.record_service = entry[e].record_service
        /\ x.justplay = entry[e].justplay
    BY <1>1, DisabledUpdate DEF QueueTypeOK
  <2>2. Retime(e, x, "idle")
    BY <1>19
  <2> HIDE DEF x
  <2> QED BY <1>19, <2>1, <2>2, RetimeKeeps DEF Holding, Controls
<1>20. ASSUME NEW e \in Timers, ToggleDisabledState(e) PROVE IInv'
  <2>1. /\ pc = "idle" /\ requests' \in Nat
        /\ UNCHANGED <<now, lastActivation, wakeup, m_recordings, power, position>>
    BY <1>13, <1>20 DEF ToggleDisabledState
  <2>2. \/ \E b \in BOOLEAN : Retime(e, [entry[e] EXCEPT !.disabled = b], "idle")
        \/ Retime(e, entry[e], "idle")
    BY <1>20 DEF ToggleDisabledState
  <2>3. ASSUME Retime(e, entry[e], "idle")
        PROVE  Filed' /\ ("retype" \notin Edits => TunerHeld')
    BY <1>1, <2>1, <2>3, RetimeKeeps DEF QueueTypeOK, Controls
  <2>4. Filed' /\ ("retype" \notin Edits => TunerHeld')
    BY <1>19, <2>1, <2>2, <2>3
  <2>5. \/ UNCHANGED dialogs
        \/ OpenConflict(e, "editConflict")
        \/ subject' = e /\ dialog' = "stop" /\ UNCHANGED rivals
    BY <1>20 DEF ToggleDisabledState
  <2>6. /\ subject' \in Timers \cup {NoTimer} /\ dialog' \in Dialogs
        /\ rivals' \subseteq Timers
    <3>1. CASE OpenConflict(e, "editConflict")
      BY <1>1, <3>1, OpenConflictTypes DEF Dialogs
    <3> QED BY <1>1, <2>5, <3>1 DEF dialogs, Dialogs, RestTypeOK
  <2> QED BY <1>1, <1>2, <2>1, <2>4, <2>6 DEF RestTypeOK, power
<1>21. ASSUME NEW e \in Timers, StopOnlyComing(e) PROVE IInv'
  <2>1. /\ pc = "idle" /\ requests' \in Nat /\ NoDialogs
        /\ Retime(e, [entry[e] EXCEPT !.disabled = TRUE], "idle")
        /\ UNCHANGED <<now, lastActivation, wakeup, m_recordings, power, position>>
    BY <1>13, <1>21 DEF StopOnlyComing
  <2>2. Filed' /\ ("retype" \notin Edits => TunerHeld')
    BY <1>19, <2>1
  <2> QED BY <1>1, <1>2, <2>1, <2>2, NoDialogsTypes DEF RestTypeOK, power
<1>22. ASSUME NEW e \in Timers, StopCurrent(e) PROVE IInv'
  <2> DEFINE d == [entry[e] EXCEPT !.disabled = FALSE]
             x == ProcessRepeated(d, FALSE)
  <2>1. PICK k \in {"stoponlycurrent", "stopall"} : DoActivate(e, x, k)
    BY <1>22 DEF StopCurrent
  <2>2. /\ e \in Range(timer_list) /\ pc = "idle" /\ requests' \in Nat
        /\ UNCHANGED <<now, lastActivation, wakeup, dialogs, position>>
    BY <1>13, <1>22 DEF StopCurrent
  <2>3. /\ d \in Entry /\ d.state = entry[e].state
        /\ d.record_service = entry[e].record_service
        /\ d.justplay = entry[e].justplay /\ d.disabled = FALSE
    BY <1>1, DisabledUpdate DEF QueueTypeOK
  <2> HIDE DEF d
  <2>4. x \in Entry /\ Kept(d, x)
    BY <2>3, ProcessRepeatedProperties
  <2> HIDE DEF x
  <2>5. Activatable(e, x)
    BY <2>3, <2>4 DEF Activatable, Kept, EnabledIfWaiting
  <2>6. /\ Filed' /\ m_recordings' \subseteq Timers
        /\ {inStandby, closing, receiveRecordEvents, quit}' \subseteq BOOLEAN
        /\ "retype" \notin Edits => TunerHeld'
    BY <2>1, <2>2, <2>4, <2>5, DoActivateKeeps DEF Controls
  <2> QED BY <1>1, <1>2, <2>2, <2>6 DEF RestTypeOK, dialogs
<1>23. ASSUME NEW e \in Timers, CancelDialog(e) PROVE IInv'
  <2>1. /\ requests' \in Nat /\ NoDialogs
        /\ UNCHANGED <<now, entry, queue, lastActivation, wakeup, m_recordings,
                       power, control, position>>
    BY <1>13, <1>23 DEF CancelDialog
  <2>2. Filed' /\ ("retype" \notin Edits => TunerHeld')
    BY <1>1, <1>3, <2>1 DEF control, QueueTypeOK
  <2> QED BY <1>1, <1>2, <2>1, <2>2, NoDialogsTypes DEF RestTypeOK, power
<1>24. ASSUME NEW e \in Timers, RemoveEntry(e) PROVE IInv'
  <2> DEFINE a == [entry[e] EXCEPT !.repeated = {}]
             b == [a EXCEPT !.autoincrease = FALSE]
             c == [b EXCEPT !.deepstandby = FALSE]
             x == Abort(c)
  <2>1. c = [entry[e] EXCEPT !.repeated = {}, !.autoincrease = FALSE,
                             !.deepstandby = FALSE]
    OBVIOUS
  <2>2. entry[e] \in Entry /\ a \in Entry /\ Kept(entry[e], a)
    BY <1>1 DEF QueueTypeOK, Entry, Kept
  <2> HIDE DEF a
  <2>3. b \in Entry /\ Kept(entry[e], b)
    BY <2>2 DEF Entry, Kept
  <2> HIDE DEF b
  <2>4. c \in Entry /\ Kept(entry[e], c)
    BY <2>3 DEF Entry, Kept
  <2> HIDE DEF c
  <2>5. x \in Entry /\ Kept(entry[e], x)
    BY <1>1, <2>4, AbortProperties DEF Kept, RestTypeOK
  <2>6. /\ pc = "idle" /\ requests' \in Nat /\ subject' = e /\ position' = 1
        /\ UNCHANGED <<now, lastActivation, wakeup, m_recordings, power, dialog,
                       rivals>>
        /\ \/ Retime(e, x, "increase")
           \/ /\ entry' = [entry EXCEPT ![e] = x]
              /\ UNCHANGED queue
              /\ Continue("increase")
    BY <1>13, <1>24, <2>1 DEF RemoveEntry
  <2> HIDE DEF x
  <2>7. ASSUME Retime(e, x, "increase")
        PROVE  Filed' /\ ("retype" \notin Edits => TunerHeld')
    BY <2>5, <2>6, <2>7, RetimeKeeps DEF Kept, Holding, Controls
  <2>8. ASSUME entry' = [entry EXCEPT ![e] = x], UNCHANGED queue,
               Continue("increase")
        PROVE  Filed' /\ ("retype" \notin Edits => TunerHeld')
    <3>1. /\ pending' = {} /\ pc' \in Controls
          /\ after' \in Controls /\ threshold' \in Int
      BY <1>1, <2>6, <2>8, ContinueProperties DEF Controls
    <3>2. EnabledIfWaiting(x) /\ Holding(x) = Holding(entry[e])
      BY <1>1, <2>5 DEF Coherent, EnabledIfWaiting, Kept, Holding
    <3> QED BY <2>5, <2>6, <2>8, <3>1, <3>2, RewriteKeeps DEF Kept
  <2>9. Filed' /\ ("retype" \notin Edits => TunerHeld')
    BY <2>6, <2>7, <2>8
  <2> QED BY <1>1, <1>2, <2>6, <2>9 DEF RestTypeOK, power
<1>25. CASE Cleanup
  <2>1. /\ requests' \in Nat /\ processed_timers' \subseteq processed_timers
        /\ UNCHANGED <<now, entry, timer_list, lastActivation, wakeup, m_recordings,
                       power, control, dialogs, position>>
    BY <1>1, <1>25 DEF Cleanup, Requests, RestTypeOK
  <2>2. Filed'
    BY <1>1, <2>1 DEF Filed, QueueTypeOK, Coherent, control
  <2> QED BY <1>1, <1>2, <2>1, <2>2 DEF IInv, TunerHeld, Holding, RestTypeOK,
                                                power, dialogs
<1>26. CASE ToggleStandby
  <2>1. /\ requests' \in Nat
        /\ inStandby' \in BOOLEAN /\ closing' \in BOOLEAN
        /\ receiveRecordEvents' \in BOOLEAN
        /\ UNCHANGED <<now, entry, queue, lastActivation, wakeup, m_recordings,
                       quit, control, dialogs, position>>
    <3>1. inStandby \in BOOLEAN /\ closing \in BOOLEAN
          /\ receiveRecordEvents \in BOOLEAN /\ requests \in Nat
      BY <1>1 DEF RestTypeOK
    <3>2. requests' = requests + 1
      BY <1>26 DEF ToggleStandby, Requests
    <3>3. /\ inStandby' \in BOOLEAN /\ closing' \in BOOLEAN
          /\ receiveRecordEvents' \in BOOLEAN
      BY <1>26, <3>1 DEF ToggleStandby, WakeUp
    <3> QED BY <1>26, <3>1, <3>2, <3>3 DEF ToggleStandby
  <2>2. Filed' /\ ("retype" \notin Edits => TunerHeld')
    BY <1>1, <1>3, <2>1 DEF control, QueueTypeOK
  <2> QED BY <1>1, <1>2, <2>1, <2>2 DEF RestTypeOK, dialogs
\* the environment
<1>27. CASE Tick
  <2>1. /\ now' = now + 1
        /\ UNCHANGED <<entry, queue, lastActivation, wakeup, m_recordings, power,
                       control, request>>
    BY <1>27 DEF Tick
  <2>2. Filed' /\ ("retype" \notin Edits => TunerHeld')
    BY <1>1, <1>3, <2>1 DEF control, QueueTypeOK
  <2> QED BY <1>1, <1>2, <2>1, <2>2 DEF RestTypeOK, power, request, dialogs
<1>28. CASE ClockStep
  <2>1. /\ now' \in Int /\ wakeup' \in Int /\ requests' \in Nat
        /\ UNCHANGED <<entry, queue, lastActivation, m_recordings, power, control,
                       dialogs, position>>
    BY <1>1, <1>28, TimerAssumption DEF ClockStep, RestTypeOK
  <2>2. Filed' /\ ("retype" \notin Edits => TunerHeld')
    BY <1>1, <1>3, <2>1 DEF control, QueueTypeOK
  <2> QED BY <1>1, <1>2, <2>1, <2>2 DEF RestTypeOK, power, dialogs
<1>29. CASE UNCHANGED vars
  <2>1. UNCHANGED <<now, entry, queue, lastActivation, wakeup, m_recordings, power,
                    control, request>>
    BY <1>29 DEF vars
  <2>2. Filed' /\ ("retype" \notin Edits => TunerHeld')
    BY <1>1, <1>3, <2>1 DEF control, QueueTypeOK
  <2> QED BY <1>1, <1>2, <2>1, <2>2 DEF RestTypeOK, power, request, dialogs
<1> QED
  BY <1>4, <1>5, <1>6, <1>7, <1>8, <1>9, <1>10, <1>11, <1>12, <1>15, <1>16,
     <1>17, <1>18, <1>20, <1>21, <1>22, <1>23, <1>24, <1>25, <1>26, <1>27,
     <1>28, <1>29, <1>30, <1>31, <1>32, <1>34, <1>35
     DEF Next, MainLoop, User

\* The inductive invariant holds in every reachable state: the variables have
\* their types, the entries are filed by state, and tuners follow the entries.
THEOREM Invariant == Spec => []IInv
BY InitIInv, NextIInv, PTL DEF Spec

\* In every reachable state the variables have their types.
THEOREM TypeCorrect == Spec => []TypeOK
<1>1. IInv => TypeOK
  BY DEF IInv
<1> QED
  BY <1>1, Invariant, PTL

\* Whatever the user, the tuners and the clock do, every timer is filed in
\* exactly the list its state asks for, however many timers there are.
THEOREM FiledOnceAlways == Spec => []FiledOnce
<1>1. IInv => FiledOnce
  BY DEF IInv, Filed, Coherent, FiledOnce
<1> QED
  BY <1>1, Invariant, PTL

\* As long as nobody turns a prepared or running zap timer into a recording
\* or back, no recording service is leaked, released twice or missing.
THEOREM TunerHeldAlways ==
  ASSUME "retype" \notin Edits
  PROVE  Spec => []TunerHeld
<1>1. IInv => TunerHeld
  BY DEF IInv
<1> QED
  BY <1>1, Invariant, PTL
============================================================================
