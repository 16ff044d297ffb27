---------------------- MODULE RecordTimer_time_proofs ----------------------
(***************************************************************************)
(* What RecordTimer does in time: the order of timer_list, the sleep of    *)
(* the main loop, the timers a removal, a step back of the clock or a      *)
(* failed activation leave behind, requests that are interrupted by a      *)
(* recalculation, exceptions, and the shutdown between recordings.         *)
(*                                                                         *)
(* First every handler is shown to file one entry and to go on (Refiles,   *)
(* Goes); then every step is one of a few cases (Steps); then each clause  *)
(* of TimeInv is preserved, case by case.                                  *)
(***************************************************************************)
EXTENDS RecordTimer_proofs

-----------------------------------------------------------------------------
(* The clock and the order of a list.                                      *)

\* int(time()) does not go back while time() does not.
LEMMA WholeSecondsProperties ==
  ASSUME NEW x \in Int
  PROVE  /\ WholeSeconds(x) \in Int
         /\ WholeSeconds(x) <= x
         /\ x < WholeSeconds(x) + TicksPerSecond
         /\ \A y \in Int : x <= y => WholeSeconds(x) <= WholeSeconds(y)
<1>1. TicksPerSecond \in Nat \ {0}
  BY TimerAssumption
<1>2. x % TicksPerSecond \in 0 .. TicksPerSecond - 1
  BY <1>1
<1>3. ASSUME NEW y \in Int, x <= y
      PROVE  WholeSeconds(x) <= WholeSeconds(y)
  BY <1>1, <1>3 DEF WholeSeconds
<1>4. /\ WholeSeconds(x) \in Int /\ WholeSeconds(x) <= x
      /\ x < WholeSeconds(x) + TicksPerSecond
  BY <1>1, <1>2 DEF WholeSeconds
<1> QED
  BY <1>3, <1>4

LEMMA NextActivationIsTime ==
  ASSUME NEW x \in Entry
  PROVE  NextActivation(x) \in Int
BY DEF Entry, NextActivation

\* A list in the order insort keeps.
SortedBy(es, list) ==
  \A i, j \in DOMAIN list :
    i < j => NextActivation(es[list[i]]) <= NextActivation(es[list[j]])

LEMMA InsertedAt ==
  ASSUME NEW list \in Seq(Timers), NEW m \in Nat, NEW e \in Timers,
         1 + m \in 1 .. Len(list) + 1
  PROVE  /\ DOMAIN InsertAt(list, 1 + m, e) = 1 .. Len(list) + 1
         /\ \A j \in 1 .. Len(list) + 1 :
              InsertAt(list, 1 + m, e)[j] = IF j < 1 + m THEN list[j]
                                            ELSE IF j = 1 + m THEN e ELSE list[j - 1]
<1> DEFINE i == 1 + m
<1>1. i \in 1 .. Len(list) + 1
  OBVIOUS
<1> HIDE DEF i
<1>2. /\ InsertAt(list, i, e) \in Seq(Timers)
      /\ Len(InsertAt(list, i, e)) = Len(list) + 1
      /\ \A j \in 1 .. Len(list) + 1 :
           InsertAt(list, i, e)[j] = IF j < i THEN list[j]
                                     ELSE IF j = i THEN e ELSE list[j - 1]
  BY <1>1, InsertAtProperties
<1> QED
  BY <1>2, LenProperties DEF i

\* insort puts an entry behind those that are not later, so the list stays
\* sorted.
LEMMA InsortSorts ==
  ASSUME NEW es \in [Timers -> Entry], NEW list \in Seq(Timers),
         NEW e \in Timers, SortedBy(es, list), NEW l \in Insort(es, list, e)
  PROVE  SortedBy(es, l)
<1> DEFINE n == Len(list)
           K(f) == NextActivation(es[f])
<1>1. DOMAIN list = 1 .. n /\ n \in Nat /\ \A i \in 1 .. n : list[i] \in Timers
  BY LenProperties, ElementOfSeq
<1>2. \A f \in Timers : K(f) \in Int
  BY NextActivationIsTime
<1>3. \A i, j \in 1 .. n : i < j => K(list[i]) <= K(list[j])
  BY <1>1 DEF SortedBy
<1> HIDE DEF n, K
<1>4. PICK m \in 0 .. n :
        /\ l = InsertAt(list, m + 1, e)
        /\ \A i \in {m - 1, m} \cap 0 .. n - 1 : m <= i <=> K(e) < K(list[i + 1])
  BY DEF Insort, n, K
<1>5. 1 + m = m + 1 /\ \A i \in 1 .. n : K(list[i]) \in Int /\ K(e) \in Int
  BY <1>1, <1>2
\* the comparisons with the neighbours
<1>6. \A i \in 1 .. n : (K(list[i]) <= K(e)) <=> i <= m
  <2>1. ASSUME NEW i \in 1 .. n, i <= m PROVE K(list[i]) <= K(e)
    <3>1. m \in 1 .. n /\ m - 1 \in {m - 1, m} \cap 0 .. n - 1
          /\ (m - 1) + 1 = m /\ ~(m <= m - 1)
      BY <1>1, <2>1
    <3>2. ~(K(e) < K(list[m]))
      BY <1>4, <3>1
    <3>3. K(list[m]) <= K(e)
      BY <1>5, <3>1, <3>2
    <3>4. K(list[i]) <= K(list[m])
      BY <1>3, <1>5, <2>1, <3>1
    <3> QED BY <1>5, <2>1, <3>1, <3>3, <3>4
  <2>2. ASSUME NEW i \in 1 .. n, ~(i <= m) PROVE ~(K(list[i]) <= K(e))
    <3>1. m + 1 \in 1 .. n /\ m \in {m - 1, m} \cap 0 .. n - 1
      BY <1>1, <2>2
    <3>2. K(e) < K(list[m + 1])
      BY <1>4, <3>1
    <3>3. K(list[m + 1]) <= K(list[i])
      BY <1>3, <1>5, <2>2, <3>1
    <3> QED BY <1>5, <2>2, <3>1, <3>2, <3>3
  <2> QED BY <2>1, <2>2
<1>7. l = InsertAt(list, 1 + m, e)
  BY <1>4, <1>5
<1> DEFINE t == InsertAt(list, 1 + m, e)
<1>8. /\ DOMAIN t = 1 .. n + 1
      /\ \A j \in 1 .. n + 1 :
           t[j] = IF j < 1 + m THEN list[j] ELSE IF j = 1 + m THEN e ELSE list[j - 1]
  <2>1. 1 + m \in 1 .. Len(list) + 1 /\ Len(list) = n
    BY <1>1 DEF n
  <2> QED BY <2>1, InsertedAt
<1> HIDE DEF t
<1>9. ASSUME NEW i \in 1 .. n + 1, NEW j \in 1 .. n + 1, i < j
      PROVE  K(t[i]) <= K(t[j])
  <2>1. CASE i < 1 + m /\ j < 1 + m
    BY <1>1, <1>3, <1>8, <1>9, <2>1
  <2>2. CASE i < 1 + m /\ j = 1 + m
    BY <1>1, <1>6, <1>8, <1>9, <2>2
  <2>3. CASE i < 1 + m /\ j > 1 + m
    <3>1. i \in 1 .. n /\ j - 1 \in 1 .. n /\ i < j - 1
      BY <1>1, <1>9, <2>3
    <3> QED BY <1>3, <1>8, <2>3, <3>1
  <2>4. CASE i = 1 + m /\ j > 1 + m
    <3>1. j - 1 \in 1 .. n /\ ~(j - 1 <= m)
      BY <1>1, <1>9, <2>4
    <3>2. ~(K(list[j - 1]) <= K(e))
      BY <1>6, <3>1
    <3>3. K(list[j - 1]) \in Int /\ K(e) \in Int
      BY <1>1, <1>2, <3>1
    <3> QED BY <1>8, <2>4, <3>2, <3>3
  <2>5. CASE i > 1 + m
    <3>1. i - 1 \in 1 .. n /\ j - 1 \in 1 .. n /\ i - 1 < j - 1 /\ j > 1 + m
      BY <1>1, <1>9, <2>5
    <3> QED BY <1>3, <1>8, <2>5, <3>1
  <2> QED BY <1>9, <2>1, <2>2, <2>3, <2>4, <2>5
<1> QED
  BY <1>7, <1>8, <1>9 DEF SortedBy, t, K

\* Taking an entry out of a sorted list leaves it sorted.
LEMMA WithoutSorts ==
  ASSUME NEW es, NEW list \in Seq(Timers), NEW e \in Range(list),
         SortedBy(es, list)
  PROVE  SortedBy(es, Without(list, e))
<1> DEFINE i == CHOOSE i \in DOMAIN list : list[i] = e
           t == RemoveAt(list, i)
<1>1. i \in DOMAIN list
  BY DEF Range
<1> HIDE DEF i
<1>2. DOMAIN list = 1 .. Len(list) /\ Len(list) \in Nat
  BY LenProperties
<1>3. /\ DOMAIN t = 1 .. Len(list) - 1
      /\ \A j \in 1 .. Len(list) - 1 : t[j] = IF j < i THEN list[j] ELSE list[j + 1]
  <2>1. /\ t \in Seq(Timers) /\ Len(t) = Len(list) - 1
        /\ \A j \in 1 .. Len(list) - 1 :
             t[j] = IF j < i THEN list[j] ELSE list[j + 1]
    BY <1>1, <1>2, RemoveAtProperties
  <2> QED BY <2>1, LenProperties
<1> HIDE DEF t
<1>4. ASSUME NEW j \in DOMAIN t, NEW k \in DOMAIN t, j < k
      PROVE  NextActivation(es[t[j]]) <= NextActivation(es[t[k]])
  <2> DEFINE p(a) == IF a < i THEN a ELSE a + 1
  <2>1. p(j) \in DOMAIN list /\ p(k) \in DOMAIN list /\ p(j) < p(k)
    BY <1>1, <1>2, <1>3, <1>4
  <2>2. t[j] = list[p(j)] /\ t[k] = list[p(k)]
    BY <1>3, <1>4
  <2> HIDE DEF p
  <2> QED BY <2>1, <2>2 DEF SortedBy
<1> QED
  BY <1>4 DEF SortedBy, Without, t, i

\* A list does not see the fields of an entry it does not hold.
LEMMA SortedElsewhere ==
  ASSUME NEW es \in [Timers -> Entry], NEW list \in Seq(Timers), NEW e \in Timers,
         NEW z, e \notin Range(list), SortedBy(es, list)
  PROVE  SortedBy([es EXCEPT ![e] = z], list)
<1>1. \A i \in DOMAIN list : list[i] # e /\ [es EXCEPT ![e] = z][list[i]] = es[list[i]]
  BY DEF Range
<1> QED
  BY <1>1 DEF SortedBy

-----------------------------------------------------------------------------
(* The times and the terms of an entry.                                    *)

\* The fields that say when an entry is due, and how often.
SameTimes(x, y) ==
  /\ y.begin = x.begin
  /\ y.end = x.end
  /\ y.repeated = x.repeated
  /\ y.autoincrease = x.autoincrease
  /\ y.cancelled = x.cancelled

\* advancing the state of an entry does not move it in time
LEMMA StateTimes ==
  ASSUME NEW x \in Entry, NEW s \in Waiting .. Ended
  PROVE  /\ SameTimes(x, [x EXCEPT !.state = s])
         /\ [x EXCEPT !.state = s].start_prepare = x.start_prepare
         /\ [x EXCEPT !.state = s].backoff = x.backoff
BY DEF Entry, SameTimes

LEMMA AcceptedTimes ==
  ASSUME NEW x \in Entry, x.state # Ended
  PROVE  /\ SameTimes(x, Accepted(x))
         /\ Accepted(x).start_prepare = x.start_prepare
         /\ Accepted(x).backoff = x.backoff
<1> DEFINE s == x.state + 1
<1>1. s \in Waiting .. Ended
  BY DEF Entry, Waiting, Ended
<1> HIDE DEF s
<1>2. Accepted(x) = [x EXCEPT !.state = s]
  BY DEF Accepted, s
<1> QED
  BY <1>1, <1>2, StateTimes

\* timeChanged() computes start_prepare from begin
LEMMA TimeChangedTimes ==
  ASSUME NEW x \in Entry
  PROVE  /\ SameTimes(x, TimeChanged(x))
         /\ TimeChanged(x).backoff = 0
<1> DEFINE n == x.begin - PrepareTime
           y == [x EXCEPT !.start_prepare = n]
<1>1. n \in Int
  <2>1. PrepareTime \in Nat
    BY TimerAssumption
  <2> QED BY <2>1 DEF Entry
<1> HIDE DEF n
<1>2. y \in Entry /\ SameTimes(x, y)
  BY <1>1 DEF Entry, SameTimes
<1> HIDE DEF y
<1>3. SameTimes(y, [y EXCEPT !.backoff = 0]) /\ [y EXCEPT !.backoff = 0].backoff = 0
  BY <1>2 DEF Entry, SameTimes
<1>4. TimeChanged(x) = [y EXCEPT !.backoff = 0]
  BY DEF TimeChanged, y, n
<1> QED
  BY <1>2, <1>3, <1>4 DEF SameTimes

LEMMA ResetStateTimes ==
  ASSUME NEW x \in Entry
  PROVE  /\ ResetState(x).end = x.end
         /\ ResetState(x).repeated = x.repeated
         /\ ResetState(x).autoincrease = x.autoincrease
         /\ ResetState(x).backoff = 0
<1> DEFINE y == [x EXCEPT !.state = Waiting]
           z == [y EXCEPT !.cancelled = FALSE]
<1>1. y \in Entry /\ SameTimes(x, y)
  <2>1. Waiting \in Waiting .. Ended
    BY DEF Waiting, Ended
  <2> QED BY <2>1, StateUpdate, StateTimes
<1> HIDE DEF y
<1>2. /\ z \in Entry /\ z.end = y.end /\ z.repeated = y.repeated
      /\ z.autoincrease = y.autoincrease
  BY <1>1 DEF Entry
<1> HIDE DEF z
<1>3. ResetState(x) = TimeChanged(z)
  BY DEF ResetState, y, z
<1>4. SameTimes(z, TimeChanged(z)) /\ TimeChanged(z).backoff = 0
  BY <1>2, TimeChangedTimes
<1> QED
  BY <1>1, <1>2, <1>3, <1>4 DEF SameTimes

\* processRepeated of an entry that is not repeated does nothing
LEMMA ProcessRepeatedTimes ==
  ASSUME NEW x \in Entry, NEW b \in BOOLEAN
  PROVE  /\ x.repeated = {} => ProcessRepeated(x, b) = x
         /\ ProcessRepeated(x, b).repeated = x.repeated
         /\ ProcessRepeated(x, b).backoff \in {0, x.backoff}
<1> DEFINE K == OccurrenceDays(x, b)
           shift == Day * Least(K)
           y == [x EXCEPT !.begin = @ + shift,
                          !.end = IF x.end = x.begin
                                  THEN @ + shift + TicksPerSecond
                                  ELSE @ + shift]
<1>1. CASE x.repeated = {} \/ K = {}
  BY <1>1 DEF ProcessRepeated
<1>2. CASE ~(x.repeated = {} \/ K = {})
  <2>1. K \in SUBSET Nat
    BY DEF OccurrenceDays
  <2>2. ProcessRepeated(x, b) = TimeChanged(y)
    BY <1>2 DEF ProcessRepeated
  <2> HIDE DEF K
  <2>3. Least(K) \in Nat
    BY <1>2, <2>1, LeastOfNats
  <2>4. shift \in Int /\ TicksPerSecond \in Int
    BY <2>3, TimerAssumption
  <2> HIDE DEF shift
  <2> DEFINE u == [x EXCEPT !.begin = x.begin + shift]
             n == IF x.end = x.begin THEN x.end + shift + TicksPerSecond
                  ELSE x.end + shift
  <2>5. u \in Entry /\ u.repeated = x.repeated
    BY <2>4 DEF Entry
  <2>6. n \in Int
    BY <2>4 DEF Entry
  <2> HIDE DEF u, n
  <2>7. [u EXCEPT !.end = n] \in Entry /\ [u EXCEPT !.end = n].repeated = u.repeated
    BY <2>5, <2>6 DEF Entry
  <2>8. y = [u EXCEPT !.end = n]
    BY DEF u, n
  <2> HIDE DEF y
  <2>9. SameTimes(y, TimeChanged(y)) /\ TimeChanged(y).backoff = 0
    BY <2>7, <2>8, TimeChangedTimes
  <2> QED BY <1>2, <2>2, <2>5, <2>7, <2>8, <2>9 DEF SameTimes
<1> QED
  BY <1>1, <1>2

\* The delay before an entry is tried again: none yet, or one within bounds.
Delay(b) == b = 0 \/ b \in BackoffMin .. BackoffMax

\* do_backoff doubles the delay up to the largest one.
LEMMA DoBackoffTimes ==
  ASSUME NEW x \in Entry
  PROVE  /\ SameTimes(x, DoBackoff(x))
         /\ DoBackoff(x).start_prepare = x.start_prepare
         /\ BackoffMin <= BackoffMax /\ Delay(x.backoff) =>
              /\ DoBackoff(x).backoff \in BackoffMin .. BackoffMax
              /\ DoBackoff(x).backoff >= x.backoff
<1> DEFINE n == IF x.backoff = 0 THEN BackoffMin
                ELSE IF 2 * x.backoff > BackoffMax THEN BackoffMax
                ELSE 2 * x.backoff
<1>1. BackoffMin \in Nat /\ BackoffMax \in Nat /\ x.backoff \in Int
  BY TimerAssumption DEF Entry
<1>2. n \in Int
  BY <1>1
<1>3. BackoffMin <= BackoffMax /\ Delay(x.backoff) =>
        n \in BackoffMin .. BackoffMax /\ n >= x.backoff
  BY <1>1 DEF Delay
<1> HIDE DEF n
<1>4. /\ SameTimes(x, [x EXCEPT !.backoff = n]) /\ [x EXCEPT !.backoff = n].backoff = n
      /\ [x EXCEPT !.backoff = n].start_prepare = x.start_prepare
  BY <1>2 DEF Entry, SameTimes
<1>5. DoBackoff(x) = [x EXCEPT !.backoff = n]
  BY DEF DoBackoff, n
<1> QED
  BY <1>3, <1>4, <1>5

\* abort() leaves an entry that is over, and cancelled
LEMMA AbortTimes ==
  ASSUME NEW x \in Entry, now \in Int
  PROVE  /\ Abort(x).end = now /\ Abort(x).begin <= now /\ Abort(x).cancelled
         /\ Abort(x).repeated = x.repeated
         /\ Abort(x).autoincrease = x.autoincrease
         /\ Abort(x).backoff = x.backoff
<1> DEFINE n == IF x.begin > now THEN now ELSE x.begin
           a == [x EXCEPT !.end = now]
           b == [a EXCEPT !.begin = n]
           c == [b EXCEPT !.cancelled = TRUE]
<1>1. n \in Int /\ n <= now
  BY DEF Entry
<1> HIDE DEF n
<1>2. /\ a \in Entry /\ a.end = now /\ a.repeated = x.repeated
      /\ a.autoincrease = x.autoincrease /\ a.backoff = x.backoff
      /\ a.begin = x.begin
  BY DEF Entry
<1> HIDE DEF a
<1>3. /\ b \in Entry /\ b.end = now /\ b.begin = n /\ b.repeated = x.repeated
      /\ b.autoincrease = x.autoincrease /\ b.backoff = x.backoff
  BY <1>1, <1>2 DEF Entry
<1>4. Abort(x) = c
  BY <1>2 DEF Abort, a, n
<1> HIDE DEF b
<1> QED
  BY <1>1, <1>3, <1>4 DEF Entry

\* What no request and no activation takes from an entry: a delay within its
\* bounds; and, when the user asks for no repetition, none.
Regular(x) ==
  /\ BackoffMin <= BackoffMax => Delay(x.backoff)
  /\ (\A s \in Schedules : s.repeated = {}) => x.repeated = {}

LEMMA ProcessRepeatedRegular ==
  ASSUME NEW x \in Entry, Regular(x), NEW b \in BOOLEAN
  PROVE  Regular(ProcessRepeated(x, b))
BY ProcessRepeatedTimes DEF Regular, Delay

LEMMA StateRegular ==
  ASSUME NEW x \in Entry, Regular(x), NEW s \in Waiting .. Ended
  PROVE  Regular([x EXCEPT !.state = s])
BY StateTimes DEF Regular, SameTimes

LEMMA TimeChangedRegular ==
  ASSUME NEW x \in Entry, (\A s \in Schedules : s.repeated = {}) => x.repeated = {}
  PROVE  Regular(TimeChanged(x))
BY TimeChangedTimes DEF Regular, Delay, SameTimes

LEMMA NewEntryRegular ==
  ASSUME NEW s \in [begin : Int, end : Int, repeated : SUBSET (0 .. Week - 1),
                    justplay : BOOLEAN, deepstandby : BOOLEAN],
         s.repeated = {} \/ s \in Schedules
  PROVE  Regular(NewEntry(s))
<1> DEFINE x == [begin |-> s.begin, end |-> s.end, start_prepare |-> 0,
                 state |-> Waiting, backoff |-> 0, repeated |-> s.repeated,
                 disabled |-> FALSE, cancelled |-> FALSE,
                 justplay |-> s.justplay, deepstandby |-> s.deepstandby,
                 autoincrease |-> FALSE, dontSave |-> FALSE,
                 record_service |-> FALSE]
<1>1. x \in Entry /\ x.repeated = s.repeated
  BY DEF Entry, Waiting, Ended
<1>2. NewEntry(s) = ResetState(x)
  BY DEF NewEntry
<1> HIDE DEF x
<1> QED
  BY <1>1, <1>2, ResetStateTimes DEF Regular, Delay

LEMMA EditedTerms ==
  ASSUME NEW x \in Entry, NEW s \in Schedules
  PROVE  Edited(x, s).repeated = s.repeated /\ Edited(x, s).backoff = x.backoff
<1>1. /\ s.begin \in Int /\ s.end \in Int /\ s.repeated \in SUBSET (0 .. Week - 1)
      /\ s.justplay \in BOOLEAN /\ s.deepstandby \in BOOLEAN
  BY ScheduleAssumption
<1> DEFINE b == [x EXCEPT !.begin = s.begin]
           f == [b EXCEPT !.end = s.end]
           r == [f EXCEPT !.repeated = s.repeated]
           j == [r EXCEPT !.justplay = s.justplay]
<1>2. b \in Entry /\ b.backoff = x.backoff
  BY <1>1 DEF Entry
<1> HIDE DEF b
<1>3. f \in Entry /\ f.backoff = x.backoff
  BY <1>1, <1>2 DEF Entry
<1> HIDE DEF f
<1>4. r \in Entry /\ r.backoff = x.backoff /\ r.repeated = s.repeated
  BY <1>1, <1>3 DEF Entry
<1> HIDE DEF r
<1>5. j \in Entry /\ j.backoff = x.backoff /\ j.repeated = s.repeated
  BY <1>1, <1>4 DEF Entry
<1>6. Edited(x, s) = [j EXCEPT !.deepstandby = s.deepstandby]
  BY DEF Edited, b, f, r, j
<1> HIDE DEF j
<1> QED
  BY <1>1, <1>5, <1>6 DEF Entry

-----------------------------------------------------------------------------
(* The one way an entry changes: it gets new fields and is filed by them.  *)
(* addTimerEntry, timeChanged, doActivate, removeEntry and the             *)
(* re-evaluation after a step back of the clock all do this.               *)

Rest(e) == IF e \in Range(timer_list) THEN Without(timer_list, e) ELSE timer_list

Refiles(e, z) ==
  /\ e \in Timers /\ z \in Entry
  /\ entry' = [entry EXCEPT ![e] = z]
  /\ timer_list' \in IF z.state = Ended THEN {Rest(e)}
                     ELSE Insort(entry', Rest(e), e)
  /\ processed_timers \ {e} \subseteq processed_timers' \cup pending'
  /\ z.state = Ended => e \in processed_timers'
  /\ Regular(entry[e]) => Regular(z)
  /\ "conflict" \notin Edits =>
       (z.record_service /\ ~entry[e].record_service => ~entry[e].disabled)

\* The handler goes on, or through a recalculation first.
Recalculates(k) == \E pl : CalcNextActivation(pl, k)
Goes(k) == Continue(k) \/ Recalculates(k)

\* What the fields x given for entry e may not do.
Admissible(e, x) ==
  /\ Regular(entry[e]) => Regular(x)
  /\ "conflict" \notin Edits =>
       (x.record_service /\ ~entry[e].record_service => ~entry[e].disabled)

LEMMA AddTimerEntryRefiles ==
  ASSUME pending = {}, entry \in [Timers -> Entry],
         NEW e \in Timers, NEW x \in Entry, NEW k,
         NEW pl, processed_timers \ {e} \subseteq pl,
         Admissible(e, x),
         AddTimerEntry(e, x, Rest(e), pl, k)
  PROVE  \E z \in Entry :
           /\ Refiles(e, z)
           /\ \/ z.state = Ended /\ Continue(k)
              \/ z.state # Ended /\ ~Skipped(z) /\ Recalculates(k)
           /\ z.state \in {x.state, Ended}
           /\ z.repeated = x.repeated
           /\ x.repeated = {} => SameTimes(x, z)
<1> DEFINE y == ProcessRepeated(x, TRUE)
           u == [y EXCEPT !.state = Ended]
<1>1. /\ y \in Entry /\ Kept(x, y) /\ y.repeated = x.repeated
      /\ x.repeated = {} => y = x
  BY ProcessRepeatedProperties, ProcessRepeatedTimes
<1>2. Regular(entry[e]) => Regular(y)
  BY ProcessRepeatedRegular DEF Admissible
<1>3. CASE /\ Skipped(y)
           /\ entry' = [entry EXCEPT ![e] = u]
           /\ timer_list' = Rest(e)
           /\ processed_timers' = pl \cup {e}
           /\ Continue(k)
  <2> HIDE DEF y
  <2>1. /\ u \in Entry /\ u.state = Ended /\ SameTimes(y, u)
        /\ u.record_service = y.record_service
        /\ Regular(y) => Regular(u)
    <3>1. Ended \in Waiting .. Ended
      BY DEF Waiting, Ended
    <3> QED BY <1>1, <3>1, StateUpdate, StateTimes, StateRegular
  <2> HIDE DEF u
  <2>2. Refiles(e, u)
    BY <1>1, <1>2, <1>3, <2>1 DEF Refiles, Admissible, Kept
  <2> QED BY <1>1, <1>3, <2>1, <2>2 DEF SameTimes
<1>4. CASE /\ ~Skipped(y)
           /\ entry' = [entry EXCEPT ![e] = y]
           /\ timer_list' \in Insort([entry EXCEPT ![e] = y], Rest(e), e)
           /\ CalcNextActivation(pl, k)
  <2> HIDE DEF y
  <2>1. y.state # Ended
    BY <1>4 DEF Skipped
  <2>2. pl = processed_timers' \cup pending'
    BY <1>4 DEF CalcNextActivation
  <2>3. timer_list' \in Insort(entry', Rest(e), e)
    BY <1>4
  <2>4. Refiles(e, y)
    BY <1>1, <1>2, <1>4, <2>1, <2>2, <2>3 DEF Refiles, Admissible, Kept
  <2>5. Recalculates(k)
    BY <1>4 DEF Recalculates
  <2> QED BY <1>1, <1>4, <2>1, <2>4, <2>5 DEF SameTimes, Kept
<1> QED
  BY <1>3, <1>4 DEF AddTimerEntry

\* timeChanged() files an entry by its state and its new times.
Retimes(e, z, k) ==
  /\ Refiles(e, z)
  /\ \/ z.state = Ended /\ Continue(k)
     \/ z.state # Ended /\ ~Skipped(z) /\ Recalculates(k)
  /\ z.state = entry[e].state \/ z.state = Ended \/ entry[e].state = Ended

LEMMA RetimeRefiles ==
  ASSUME Filed, pc # "timewarp",
         NEW e, NEW x \in Entry, NEW k,
         x.state = entry[e].state, x.record_service = entry[e].record_service,
         Regular(entry[e]) =>
           ((\A s \in Schedules : s.repeated = {}) => x.repeated = {}),
         Retime(e, x, k)
  PROVE  \E z \in Entry : Retimes(e, z, k) /\ (x.repeated = {} => SameTimes(x, z))
<1> DEFINE y == TimeChanged(x)
           v == [y EXCEPT !.state = Waiting]
<1>1. /\ pending = {} /\ entry \in [Timers -> Entry]
      /\ timer_list \in Seq(Timers) /\ processed_timers \in SUBSET Timers
      /\ Coherent(entry, timer_list, processed_timers, pending)
  BY DEF Filed, QueueTypeOK
<1>2. e \in Timers
  BY <1>1 DEF Retime, InQueue, Coherent
<1>3. y \in Entry /\ Kept(x, y) /\ SameTimes(x, y)
  BY TimeChangedProperties, TimeChangedTimes
<1>4. Regular(entry[e]) => Regular(y)
  BY TimeChangedRegular
<1>5. CASE x.state = Ended
  <2>1. AddTimerEntry(e, v, Rest(e), processed_timers \ {e}, k)
    <3>1. e \notin Range(timer_list)
      BY <1>1, <1>5 DEF Coherent
    <3> QED BY <1>5, <3>1 DEF Retime, Rest
  <2> HIDE DEF y
  <2>2. /\ v \in Entry /\ SameTimes(y, v)
        /\ v.record_service = x.record_service
        /\ Regular(y) => Regular(v)
    <3>1. Waiting \in Waiting .. Ended
      BY DEF Waiting, Ended
    <3> QED BY <1>3, <3>1, StateUpdate, StateTimes, StateRegular DEF Kept
  <2> HIDE DEF v
  <2>3. Admissible(e, v)
    BY <1>4, <2>2 DEF Admissible
  <2>4. PICK z \in Entry :
          /\ Refiles(e, z)
          /\ \/ z.state = Ended /\ Continue(k)
             \/ z.state # Ended /\ ~Skipped(z) /\ Recalculates(k)
          /\ v.repeated = {} => SameTimes(v, z)
    BY <1>1, <1>2, <2>1, <2>2, <2>3, AddTimerEntryRefiles
  <2> QED BY <1>3, <1>5, <2>2, <2>4 DEF Retimes, SameTimes
<1>6. CASE x.state # Ended
  <2>1. AddTimerEntry(e, y, Rest(e), processed_timers, k)
    <3>1. e \in Range(timer_list)
      BY <1>1, <1>2, <1>6 DEF Coherent
    <3> QED BY <1>6, <3>1 DEF Retime, Rest
  <2> HIDE DEF y
  <2>2. Admissible(e, y)
    BY <1>3, <1>4 DEF Admissible, Kept
  <2>3. PICK z \in Entry :
          /\ Refiles(e, z)
          /\ \/ z.state = Ended /\ Continue(k)
             \/ z.state # Ended /\ ~Skipped(z) /\ Recalculates(k)
          /\ z.state \in {y.state, Ended}
          /\ y.repeated = {} => SameTimes(y, z)
    BY <1>1, <1>2, <1>3, <2>1, <2>2, AddTimerEntryRefiles
  <2> QED BY <1>3, <2>3 DEF Retimes, SameTimes, Kept
<1> QED
  BY <1>5, <1>6

\* doActivate files the entry activate() left.  One that is over and repeated
\* starts again; any other stays as it is.
LEMMA RequeueRefiles ==
  ASSUME Filed, pc # "timewarp",
         NEW w \in Range(timer_list), NEW y \in Entry, NEW k,
         Admissible(w, y), Requeue(w, y, k)
  PROVE  \E z \in Entry :
           /\ Refiles(w, z) /\ Goes(k)
           /\ IF y.state = Ended /\ y.repeated # {}
              THEN z.state \in {Waiting, Ended} /\ z.repeated # {}
              ELSE z = y
<1> DEFINE p == ProcessRepeated(y, TRUE)
           v == [p EXCEPT !.state = Waiting]
<1>1. /\ pending = {} /\ entry \in [Timers -> Entry] /\ w \in Timers
      /\ Rest(w) = Without(timer_list, w)
  BY DEF Filed, QueueTypeOK, Coherent, Rest
<1>2. CASE /\ y.state # Ended
           /\ entry' = [entry EXCEPT ![w] = y]
           /\ timer_list' \in Insort([entry EXCEPT ![w] = y], Rest(w), w)
           /\ UNCHANGED processed_timers
           /\ Continue(k)
  <2>1. timer_list' \in Insort(entry', Rest(w), w)
    BY <1>2
  <2>2. Refiles(w, y)
    BY <1>1, <1>2, <2>1 DEF Refiles, Admissible
  <2> QED BY <1>2, <2>2 DEF Goes
<1>3. CASE /\ y.state = Ended /\ y.repeated # {}
           /\ AddTimerEntry(w, v, Rest(w), processed_timers, k)
  <2>1. p \in Entry /\ Kept(y, p) /\ p.repeated = y.repeated
    BY ProcessRepeatedProperties, ProcessRepeatedTimes
  <2>2. Regular(y) => Regular(p)
    BY ProcessRepeatedRegular
  <2> HIDE DEF p
  <2>3. /\ v \in Entry /\ v.state = Waiting /\ v.repeated = p.repeated
        /\ v.record_service = p.record_service
        /\ Regular(p) => Regular(v)
    <3>1. Waiting \in Waiting .. Ended
      BY DEF Waiting, Ended
    <3> QED BY <2>1, <3>1, StateUpdate, StateTimes, StateRegular DEF SameTimes
  <2> HIDE DEF v
  <2>4. Admissible(w, v)
    BY <2>1, <2>2, <2>3 DEF Admissible, Kept
  <2>5. PICK z \in Entry :
          /\ Refiles(w, z)
          /\ Continue(k) \/ Recalculates(k)
          /\ z.state \in {v.state, Ended}
          /\ z.repeated = v.repeated
    BY <1>1, <1>3, <2>3, <2>4, AddTimerEntryRefiles
  <2> QED BY <1>3, <2>1, <2>3, <2>5 DEF Goes
<1>4. CASE /\ y.state = Ended /\ y.repeated = {}
           /\ entry' = [entry EXCEPT ![w] = y]
           /\ timer_list' = Rest(w)
           /\ processed_timers' = processed_timers \cup {w}
           /\ Continue(k)
  <2>1. Refiles(w, y)
    BY <1>1, <1>4 DEF Refiles, Admissible
  <2> QED BY <1>4, <2>1 DEF Goes
<1> QED
  BY <1>1, <1>2, <1>3, <1>4 DEF Requeue

-----------------------------------------------------------------------------
(* One activation.                                                         *)

\* What activate(), called with the fields x, may leave in an entry: an
\* aborted one goes on to its end; a start does not move the begin; and one
\* that is not accepted is due again after its delay.
Turn(x, z) ==
  /\ /\ x.state \in {Prepared, Running} /\ x.cancelled
     /\ x.repeated = {} /\ ~x.autoincrease
     => SameTimes(x, z) /\ z.state \in {Running, Ended}
  /\ x.state = Prepared /\ z.state = Running => z.begin = x.begin
  /\ /\ "noService" \notin Faults
     /\ BackoffMin <= BackoffMax /\ Delay(x.backoff)
     /\ x.state < Running /\ z.state = x.state /\ z.repeated = {}
     => /\ z.backoff \in BackoffMin .. BackoffMax
        /\ z.backoff >= x.backoff
        /\ NextActivation(z) = now + z.backoff

\* A turn that ends the program: only an entry whose kind was changed under a
\* tuner has no recording service, or one too many.
Crashes ==
  /\ "retype" \in Edits
  /\ pc' = "crashed"
  /\ UNCHANGED <<entry, queue, threshold, after, pending>>

LEMMA DoActivateRefiles ==
  ASSUME TypeOK, Filed, pc # "timewarp",
         NEW w \in Range(timer_list), NEW x \in Entry, NEW k,
         Activatable(w, x), Regular(entry[w]) => Regular(x),
         "retype" \notin Edits => x.record_service = Holding(x),
         DoActivate(w, x, k)
  PROVE  \/ Crashes
         \/ \E z \in Entry : Refiles(w, z) /\ Goes(k) /\ Turn(x, z)
<1>1. /\ w \in Timers /\ x.state # Ended /\ x.state \in Waiting .. Ended
      /\ "conflict" \notin Edits /\ entry[w].state = Waiting =>
           ~entry[w].disabled
      /\ now \in Int
  BY DEF TypeOK, Filed, Coherent, Activatable, EnabledIfWaiting, Entry
<1>2. ASSUME NEW y \in Entry, Regular(x) => Regular(y), Requeue(w, y, k),
             y.record_service => x.record_service \/ x.state = Waiting,
             Turn(x, y),
             y.state = Ended /\ y.repeated # {} =>
               ~(/\ x.state \in {Prepared, Running} /\ x.cancelled
                 /\ x.repeated = {} /\ ~x.autoincrease)
      PROVE  \E z \in Entry : Refiles(w, z) /\ Goes(k) /\ Turn(x, z)
  <2>1. Admissible(w, y)
    BY <1>1, <1>2 DEF Admissible, Activatable
  <2>2. PICK z \in Entry :
          /\ Refiles(w, z) /\ Goes(k)
          /\ IF y.state = Ended /\ y.repeated # {}
             THEN z.state \in {Waiting, Ended} /\ z.repeated # {}
             ELSE z = y
    BY <1>2, <2>1, RequeueRefiles
  <2>3. Turn(x, z)
    BY <1>2, <2>2 DEF Turn, Waiting, Prepared, Running, Ended
  <2> QED BY <2>2, <2>3
\* the state advances and the times stay
<1>3. ASSUME Requeue(w, Accepted(x), k), x.state = Prepared
      PROVE  \E z \in Entry : Refiles(w, z) /\ Goes(k) /\ Turn(x, z)
  <2>1. /\ Accepted(x) \in Entry /\ Accepted(x).state = Running
        /\ Accepted(x).record_service = x.record_service
        /\ SameTimes(x, Accepted(x)) /\ Accepted(x).backoff = x.backoff
    BY <1>1, <1>3, AcceptedProperties, AcceptedTimes DEF Prepared, Running
  <2>2. Regular(x) => Regular(Accepted(x))
    BY <2>1 DEF Regular, SameTimes
  <2>3. Turn(x, Accepted(x))
    BY <1>3, <2>1 DEF Turn, SameTimes, Prepared, Running
  <2> QED BY <1>2, <1>3, <2>1, <2>2, <2>3 DEF Running, Ended
<1>4. CASE SkipPassed(w, x, k)
  <2> DEFINE u == [x EXCEPT !.state = Ended]
  <2>1. Requeue(w, u, k) /\ x.state = Waiting
    BY <1>4 DEF SkipPassed, ShouldSkip
  <2>2. /\ u \in Entry /\ u.state = Ended
        /\ u.record_service = x.record_service
        /\ Regular(x) => Regular(u)
    <3>1. Ended \in Waiting .. Ended
      BY DEF Waiting, Ended
    <3> QED BY <3>1, StateUpdate, StateRegular
  <2> HIDE DEF u
  <2>3. Turn(x, u)
    BY <2>1, <2>2 DEF Turn, Waiting, Prepared, Running, Ended
  <2> QED BY <1>2, <2>1, <2>2, <2>3 DEF Waiting, Prepared, Running
<1>5. CASE PrepareOk(w, x, k)
  <2> DEFINE y == [x EXCEPT !.backoff = 0]
             v == [y EXCEPT !.record_service = ~x.justplay]
             u == Accepted(v)
  <2>1. y \in Entry /\ y.state = x.state /\ y.repeated = x.repeated /\ y.backoff = 0
    BY DEF Entry
  <2> HIDE DEF y
  <2>2. /\ v \in Entry /\ v.state = Waiting /\ v.repeated = x.repeated
        /\ v.backoff = 0
    <3>1. x.justplay \in BOOLEAN /\ x.state = Waiting
      BY <1>5 DEF PrepareOk, Entry
    <3> QED BY <2>1, <3>1 DEF Entry
  <2>3. Requeue(w, u, k) /\ x.state = Waiting
    BY <1>5 DEF PrepareOk, y
  <2> HIDE DEF v
  <2>4. /\ u \in Entry /\ u.state = Prepared /\ u.repeated = x.repeated
        /\ u.backoff = 0
    BY <2>2, AcceptedProperties, AcceptedTimes
       DEF Waiting, Prepared, Ended, SameTimes
  <2> HIDE DEF u
  <2>5. Regular(x) => Regular(u)
    BY <2>4 DEF Regular, Delay
  <2>6. Turn(x, u)
    BY <2>3, <2>4 DEF Turn, Waiting, Prepared, Running
  <2> QED BY <1>2, <2>3, <2>4, <2>5, <2>6 DEF Prepared, Ended
<1>6. CASE PrepareRefused(w, x, k)
  <2>1. Requeue(w, x, k) /\ x.state = Waiting /\ "noService" \in Faults
    BY <1>6 DEF PrepareRefused
  <2>2. Turn(x, x)
    BY <2>1 DEF Turn, Waiting, Prepared, Running
  <2> QED BY <1>2, <2>1, <2>2 DEF Waiting, Ended
<1>7. CASE PrepareFailed(w, x, k)
  <2> DEFINE y == DoBackoff(x)
             n == now + y.backoff
             u == [y EXCEPT !.start_prepare = n]
  <2>1. /\ y \in Entry /\ Kept(x, y) /\ SameTimes(x, y)
        /\ BackoffMin <= BackoffMax /\ Delay(x.backoff) =>
             y.backoff \in BackoffMin .. BackoffMax /\ y.backoff >= x.backoff
    BY DoBackoffProperties, DoBackoffTimes
  <2>2. Requeue(w, u, k) /\ x.state = Waiting
    BY <1>7 DEF PrepareFailed
  <2> HIDE DEF y
  <2>3. n \in Int
    BY <1>1, <2>1 DEF Entry
  <2> HIDE DEF n
  <2>4. /\ u \in Entry /\ Kept(x, u) /\ SameTimes(y, u)
        /\ u.backoff = y.backoff /\ u.start_prepare = n
    BY <2>1, <2>3 DEF Entry, Kept, SameTimes
  <2> HIDE DEF u
  <2>5. NextActivation(u) = now + u.backoff
    BY <2>2, <2>4 DEF NextActivation, Kept, n, Waiting, Prepared
  <2>6. Regular(x) => Regular(u)
    BY <2>1, <2>4 DEF Regular, Delay, SameTimes
  <2>7. Turn(x, u)
    BY <2>1, <2>2, <2>4, <2>5 DEF Turn, Kept, Waiting, Prepared, Running
  <2> QED BY <1>2, <2>2, <2>4, <2>6, <2>7 DEF Kept, Waiting, Ended
<1>8. CASE StartCancelled(w, x, k)
  BY <1>3, <1>8 DEF StartCancelled
<1>9. CASE Zap(w, x, k)
  BY <1>3, <1>9 DEF Zap
<1>10. CASE StartOk(w, x, k)
  BY <1>3, <1>10 DEF StartOk
<1>11. CASE StartFailed(w, x, k)
  <2> DEFINE y == DoBackoff(x)
             n == now + y.backoff
             u == [y EXCEPT !.begin = n]
  <2>1. /\ y \in Entry /\ Kept(x, y) /\ SameTimes(x, y)
        /\ BackoffMin <= BackoffMax /\ Delay(x.backoff) =>
             y.backoff \in BackoffMin .. BackoffMax /\ y.backoff >= x.backoff
    BY DoBackoffProperties, DoBackoffTimes
  <2>2. Requeue(w, u, k) /\ x.state = Prepared /\ ~x.cancelled
    BY <1>11 DEF StartFailed
  <2> HIDE DEF y
  <2>3. n \in Int
    BY <1>1, <2>1 DEF Entry
  <2> HIDE DEF n
  <2>4. /\ u \in Entry /\ Kept(x, u) /\ u.backoff = y.backoff /\ u.begin = n
        /\ u.repeated = y.repeated
    BY <2>1, <2>3 DEF Entry, Kept
  <2> HIDE DEF u
  <2>5. NextActivation(u) = now + u.backoff
    BY <2>2, <2>4 DEF NextActivation, Kept, n, Waiting, Prepared
  <2>6. Regular(x) => Regular(u)
    BY <2>1, <2>4 DEF Regular, Delay, SameTimes
  <2>7. Turn(x, u)
    BY <2>1, <2>2, <2>4, <2>5 DEF Turn, Kept, Prepared, Running
  <2> QED BY <1>2, <2>2, <2>4, <2>6, <2>7 DEF Kept, Prepared, Ended
<1>12. CASE Autoincrease(w, x, k)
  <2>1. PICK n \in IncreasedEnds(DayMore) : Requeue(w, [x EXCEPT !.end = n], k)
    BY <1>12 DEF Autoincrease
  <2>2. n \in Int /\ x.state = Running /\ x.autoincrease
    BY <1>12, <2>1, DayMoreIsATime, IncreasedEndsAreTimes DEF Autoincrease
  <2> DEFINE u == [x EXCEPT !.end = n]
  <2>3. u \in Entry /\ Kept(x, u) /\ u.repeated = x.repeated /\ u.backoff = x.backoff
    BY <2>2 DEF Entry, Kept
  <2> HIDE DEF u
  <2>4. Requeue(w, u, k)
    BY <2>1 DEF u
  <2>5. Regular(x) => Regular(u)
    BY <2>3 DEF Regular
  <2>6. Turn(x, u)
    BY <2>2 DEF Turn, Prepared, Running
  <2> QED BY <1>2, <2>2, <2>3, <2>4, <2>5, <2>6 DEF Kept, Running, Ended
<1>13. CASE StopRecording(w, x, k)
  <2> DEFINE v == [x EXCEPT !.record_service = IF ~x.justplay THEN FALSE ELSE @]
             u == Accepted(v)
  <2>1. /\ v \in Entry /\ v.state = x.state /\ SameTimes(x, v)
        /\ v.backoff = x.backoff
        /\ v.record_service => x.record_service
    <3>1. x.justplay \in BOOLEAN /\ x.record_service \in BOOLEAN
      BY DEF Entry
    <3> QED BY <3>1 DEF Entry, SameTimes
  <2>2. Requeue(w, u, k) /\ x.state = Running
    BY <1>13 DEF StopRecording
  <2> HIDE DEF v
  <2>3. /\ u \in Entry /\ u.state = Ended /\ SameTimes(v, u)
        /\ u.record_service = v.record_service /\ u.backoff = v.backoff
    <3>1. v.state # Ended /\ v.state + 1 = Ended
      BY <2>1, <2>2 DEF Running, Ended
    <3> QED BY <2>1, <3>1, AcceptedProperties, AcceptedTimes
  <2> HIDE DEF u
  <2>4. Regular(x) => Regular(u)
    BY <2>1, <2>3 DEF Regular, SameTimes
  <2>5. Turn(x, u)
    BY <2>1, <2>2, <2>3 DEF Turn, SameTimes, Prepared, Running, Ended
  <2> QED BY <1>2, <2>1, <2>2, <2>3, <2>4, <2>5 DEF SameTimes
<1>14. CASE Crash(w, x)
  <2>1. Holding(x) /\ ~x.record_service
    BY <1>14 DEF Crash, Holding
  <2> QED BY <1>14, <2>1 DEF Crash, Crashes
<1> QED
  BY <1>4, <1>5, <1>6, <1>7, <1>8, <1>9, <1>10, <1>11, <1>12, <1>13, <1>14
     DEF DoActivate

-----------------------------------------------------------------------------
(* The steps, sorted by what they do to the lists and to the clock.        *)

\* record() and the requests that end in timeChanged()
Requested(e, z) == pc \in {"idle", "shorten"} /\ Retimes(e, z, "idle")

\* removeEntry up to the extension of the instant recordings
Removed(e, z) ==
  /\ pc = "idle" /\ Retimes(e, z, "increase")
  /\ subject = NoTimer /\ subject' = e
  /\ z.repeated = {} /\ ~z.autoincrease
  /\ z.end <= now /\ z.begin <= now /\ z.cancelled

\* the dialog stops the current recording, and then changes its timer
Stops(e, z) ==
  /\ pc = "idle" /\ Refiles(e, z)
  /\ \E k \in {"stoponlycurrent", "stopall"} : Goes(k)
  /\ dialog = "stop" /\ subject = e /\ subject' = e

Stopped(e, z) ==
  /\ pc \in {"stoponlycurrent", "stopall"} /\ Retimes(e, z, "idle")
  /\ subject = e /\ subject' = NoTimer

Increases(e, z) ==
  /\ pc = "increase" /\ Retimes(e, z, "increase")
  /\ entry[e].autoincrease /\ subject' = subject

\* a recording that gives way to a new or an edited timer
Shortens(e, z) == pc = "shorten" /\ Retimes(e, z, "shorten")

\* one turn of the loop of processActivation
Turns(e, z) ==
  /\ pc = "activate" /\ HeadIsDue /\ e = Head(timer_list) /\ e \in Range(timer_list)
  /\ Refiles(e, z) /\ Goes(after) /\ Turn(entry[e], z)
  /\ subject' = subject

\* one turn of the loop that re-evaluates the processed timers
ReEvaluates(e, z) ==
  /\ pc = "timewarp" /\ e \in pending /\ pending' = pending \ {e}
  /\ processed_timers \subseteq processed_timers'
  /\ processed_timers' \subseteq processed_timers \cup {e}
  /\ Refiles(e, z)
  /\ z.state = Ended => z.disabled \/ z.end <= now
  /\ entry[e].repeated = {} /\ entry[e].end <= now =>
       /\ z.state = Ended /\ z.end = entry[e].end /\ z.repeated = {}
       /\ z.autoincrease = entry[e].autoincrease
  /\ UNCHANGED <<pc, threshold, after, subject>>

Handles(e, z) ==
  /\ UNCHANGED <<now, lastActivation, wakeup>>
  /\ \/ Requested(e, z)
     \/ Removed(e, z)
     \/ Stops(e, z)
     \/ Stopped(e, z)
     \/ Increases(e, z)
     \/ Shortens(e, z)
     \/ Turns(e, z)
     \/ ReEvaluates(e, z)

\* Every change of an entry is followed at once by its timeChanged(): nothing
\* comes between them, and no check finds a conflict.
FiledAtOnce == Edits \cap {"conflict", "open"} = {}

\* Between a change and its timeChanged(): an entry is written in place, or a
\* check fails, or nothing comes of the request.
Rewrites ==
  /\ {pc, pc'} \subseteq {"idle", "shorten"} /\ after' \in {after, "idle"}
  /\ UNCHANGED <<now, queue, threshold, pending, lastActivation, wakeup>>
  /\ \/ UNCHANGED entry
     \/ /\ ~FiledAtOnce
        /\ \E e \in Timers, x \in Entry :
             /\ entry' = [entry EXCEPT ![e] = x]
             /\ x.state = entry[e].state
             /\ x.record_service => entry[e].record_service
             /\ Regular(entry[e]) => Regular(x)

\* Nothing that the lists, the clock or the main loop depend on changes.
Stutters ==
  /\ UNCHANGED <<now, entry, queue, control, lastActivation, wakeup>>
  /\ subject' = subject \/ (pc = "idle" /\ subject' = NoTimer)

StepCases ==
  \/ TimerExpires \/ AllReEvaluated \/ SetNextActivation \/ ForgetEntry
  \/ Shutdown \/ Cleanup \/ Tick \/ ClockStep
  \/ Stutters \/ Rewrites
  \/ Crashes /\ UNCHANGED <<now, lastActivation, wakeup>>
  \/ \E e \in Timers, z \in Entry : Handles(e, z)

\* Re-evaluating a timer files it again, as one that is over or as a new one.
LEMMA ReEvaluateCase ==
  ASSUME IInv, ReEvaluate
  PROVE  \E e \in Timers, z \in Entry : Handles(e, z)
<1> DEFINE fields(e) == ProcessRepeated(ResetState(entry[e]), TRUE)
<1>1. PICK e \in pending :
        LET x  == fields(e)
            es == [entry EXCEPT ![e] = x]
        IN /\ pending' = pending \ {e}
           /\ IF Skipped(x)
              THEN /\ entry' = [entry EXCEPT ![e] = [x EXCEPT !.state = Ended]]
                   /\ processed_timers' = processed_timers \cup {e}
                   /\ UNCHANGED timer_list
              ELSE /\ entry' = es
                   /\ timer_list' \in Insort(es, timer_list, e)
                   /\ UNCHANGED processed_timers
  BY DEF ReEvaluate
<1>2. /\ pc = "timewarp"
      /\ UNCHANGED <<now, lastActivation, wakeup, pc, threshold, after, subject>>
  BY DEF ReEvaluate, request, dialogs
<1>3. /\ e \in Timers /\ entry[e] \in Entry /\ entry[e].state = Ended
      /\ Rest(e) = timer_list /\ processed_timers \subseteq Timers
      /\ e \notin processed_timers
  BY DEF IInv, Filed, QueueTypeOK, Coherent, Rest
<1> DEFINE r == ResetState(entry[e])
           x == fields(e)
           u == [x EXCEPT !.state = Ended]
<1>4. /\ r \in Entry /\ r.state = Waiting /\ r.end = entry[e].end
      /\ r.repeated = entry[e].repeated
      /\ r.autoincrease = entry[e].autoincrease /\ r.backoff = 0
      /\ r.record_service = entry[e].record_service
  <2>1. Waiting \in Waiting .. Ended
    BY DEF Waiting, Ended
  <2>2. [entry[e] EXCEPT !.state = Waiting].state = Waiting
        /\ [entry[e] EXCEPT !.state = Waiting].record_service
             = entry[e].record_service
    BY <1>3, <2>1, StateUpdate
  <2> QED BY <1>3, <2>2, ResetStateProperties, ResetStateTimes DEF Kept
<1> HIDE DEF r
<1>5. /\ x \in Entry /\ x.state = Waiting
      /\ x.record_service = entry[e].record_service
      /\ Regular(r) => Regular(x)
      /\ r.repeated = {} => x = r
  BY <1>4, ProcessRepeatedProperties, ProcessRepeatedTimes,
     ProcessRepeatedRegular DEF Kept, r
<1>6. Regular(entry[e]) => Regular(x)
  BY <1>4, <1>5 DEF Regular, Delay
<1> HIDE DEF fields
<1>7. /\ u \in Entry /\ u.state = Ended /\ SameTimes(x, u)
      /\ u.record_service = x.record_service /\ u.disabled = x.disabled
      /\ Regular(x) => Regular(u)
  <2>1. Ended \in Waiting .. Ended
    BY DEF Waiting, Ended
  <2> QED BY <1>5, <2>1, StateUpdate, StateTimes, StateRegular
<1>8. Skipped(x) => x.disabled \/ x.end <= now
  BY <1>5 DEF Skipped, ShouldSkip, Waiting, Ended
<1>9. entry[e].repeated = {} /\ entry[e].end <= now => Skipped(x)
  BY <1>4, <1>5 DEF Skipped, ShouldSkip
<1>10. CASE Skipped(x)
  <2>1. /\ entry' = [entry EXCEPT ![e] = u] /\ timer_list' = timer_list
        /\ processed_timers' = processed_timers \cup {e}
        /\ pending' = pending \ {e}
    BY <1>1, <1>10
  <2> HIDE DEF u
  <2>2. Refiles(e, u)
    BY <1>3, <1>5, <1>6, <1>7, <2>1 DEF Refiles
  <2>3. /\ u.disabled \/ u.end <= now
        /\ entry[e].repeated = {} /\ entry[e].end <= now =>
             /\ u.end = entry[e].end /\ u.repeated = {}
             /\ u.autoincrease = entry[e].autoincrease
    BY <1>4, <1>5, <1>7, <1>8, <1>10 DEF SameTimes
  <2>4. ReEvaluates(e, u)
    BY <1>1, <1>2, <1>7, <2>1, <2>2, <2>3 DEF ReEvaluates
  <2> QED BY <1>2, <1>3, <1>7, <2>4 DEF Handles
<1>11. CASE ~Skipped(x)
  <2>1. /\ entry' = [entry EXCEPT ![e] = x]
        /\ timer_list' \in Insort(entry', timer_list, e)
        /\ processed_timers' = processed_timers
        /\ pending' = pending \ {e}
    BY <1>1, <1>11
  <2> HIDE DEF x
  <2>2. x.state # Ended
    BY <1>5 DEF Waiting, Ended
  <2>3. Refiles(e, x)
    BY <1>3, <1>5, <1>6, <2>1, <2>2 DEF Refiles
  <2>4. ReEvaluates(e, x)
    BY <1>1, <1>2, <1>9, <1>11, <2>1, <2>2, <2>3 DEF ReEvaluates
  <2> QED BY <1>2, <1>3, <1>5, <2>4 DEF Handles
<1> QED
  BY <1>10, <1>11

\* A turn of processActivation activates the head of the list, or crashes.
LEMMA ProcessActivationCase ==
  ASSUME IInv, ProcessActivation
  PROVE  /\ UNCHANGED <<now, lastActivation, wakeup>>
         /\ Crashes \/ \E z \in Entry : Turns(Head(timer_list), z)
<1> DEFINE w == Head(timer_list)
<1>1. /\ TypeOK /\ Filed /\ entry \in [Timers -> Entry]
      /\ Coherent(entry, timer_list, processed_timers, pending)
  BY DEF IInv, Filed, TypeOK
<1>2. w \in Range(timer_list)
  <2>1. timer_list # <<>> /\ timer_list \in Seq(Timers)
    BY <1>1 DEF ProcessActivation, HeadIsDue, TypeOK
  <2>2. 1 \in DOMAIN timer_list /\ w = timer_list[1]
    BY <2>1, LenProperties, EmptySeq
  <2> QED BY <2>2 DEF Range
<1>3. /\ pc = "activate" /\ HeadIsDue /\ DoActivate(w, entry[w], after)
      /\ UNCHANGED <<now, lastActivation, wakeup, subject>>
  BY DEF ProcessActivation, request, dialogs
<1>4. w = Head(timer_list)
  OBVIOUS
<1> HIDE DEF w
<1>5. /\ w \in Timers /\ entry[w] \in Entry /\ Activatable(w, entry[w])
      /\ "retype" \notin Edits => entry[w].record_service = Holding(entry[w])
  BY <1>1, <1>2 DEF Coherent, Activatable, IInv, TunerHeld
<1>6. \/ Crashes
      \/ \E z \in Entry : Refiles(w, z) /\ Goes(after) /\ Turn(entry[w], z)
  BY <1>1, <1>2, <1>3, <1>5, DoActivateRefiles
<1> QED
  BY <1>2, <1>3, <1>4, <1>6 DEF Turns

-----------------------------------------------------------------------------
(* The handlers that many requests go through.                             *)

\* addTimerEntry of an entry that lies in no list that is used.
LEMMA AddsCase ==
  ASSUME IInv, pc \in {"idle", "shorten"}, NEW e \in Timers, NEW x \in Entry,
         e \notin Range(timer_list),
         x.record_service => entry[e].record_service,
         Regular(entry[e]) => Regular(x),
         NEW pl, processed_timers \ {e} \subseteq pl,
         AddTimerEntry(e, x, timer_list, pl, "idle"),
         UNCHANGED <<now, lastActivation, wakeup>>
  PROVE  StepCases
<1>1. /\ Rest(e) = timer_list /\ pending = {} /\ entry[e].state = Ended
      /\ entry \in [Timers -> Entry]
  BY DEF IInv, Filed, QueueTypeOK, Rest, Coherent
<1>2. Admissible(e, x)
  BY DEF Admissible
<1>3. PICK z \in Entry :
        /\ Refiles(e, z)
        /\ \/ z.state = Ended /\ Continue("idle")
           \/ z.state # Ended /\ ~Skipped(z) /\ Recalculates("idle")
  BY <1>1, <1>2, AddTimerEntryRefiles
<1>4. Requested(e, z)
  BY <1>1, <1>3 DEF Requested, Retimes
<1> QED
  BY <1>4 DEF Handles, StepCases

\* timeChanged() of an entry that has kept its state and its tuner.
LEMMA RetimeCase ==
  ASSUME IInv, pc \in {"idle", "shorten"}, NEW e, NEW x \in Entry,
         x.state = entry[e].state,
         x.record_service = entry[e].record_service,
         ((\A s \in Schedules : s.repeated = {}) /\ entry[e].repeated = {})
           => x.repeated = {},
         Retime(e, x, "idle"),
         UNCHANGED <<now, lastActivation, wakeup>>
  PROVE  StepCases
<1>1. Filed /\ pc # "timewarp" /\ e \in Timers
  BY InQueueTimers DEF IInv, Retime
<1>2. PICK z \in Entry : Retimes(e, z, "idle")
  BY <1>1, RetimeRefiles DEF Regular
<1>3. Requested(e, z)
  BY <1>2 DEF Requested
<1> QED
  BY <1>1, <1>3 DEF Handles, StepCases

\* timeChanged() after enable() or disable().
LEMMA ToggleCase ==
  ASSUME IInv, pc \in {"idle", "shorten"}, NEW e \in Timers, NEW b \in BOOLEAN,
         Retime(e, [entry[e] EXCEPT !.disabled = b], "idle"),
         UNCHANGED <<now, lastActivation, wakeup>>
  PROVE  StepCases
<1> DEFINE x == [entry[e] EXCEPT !.disabled = b]
<1>1. entry[e] \in Entry
  BY DEF IInv, TypeOK
<1>2. /\ x \in Entry /\ x.state = entry[e].state
      /\ x.record_service = entry[e].record_service
      /\ x.repeated = entry[e].repeated
  <2>1. /\ x \in Entry /\ x.state = entry[e].state
        /\ x.record_service = entry[e].record_service
    BY <1>1, DisabledUpdate
  <2>2. x.repeated = entry[e].repeated
    BY <1>1 DEF Entry
  <2> QED BY <2>1, <2>2
<1>3. Retime(e, x, "idle")
  OBVIOUS
<1> HIDE DEF x
<1> QED
  BY <1>2, <1>3, RetimeCase

\* finishedEdit and finishedAdd when the check has passed.
LEMMA AcceptCase ==
  ASSUME IInv, pc \in {"idle", "shorten"}, NEW e \in Timers, NEW d, Accept(e, d),
         UNCHANGED <<now, lastActivation, wakeup>>
  PROVE  StepCases
<1>1. /\ entry[e] \in Entry /\ pc # "activate"
      /\ Coherent(entry, timer_list, processed_timers, pending)
  BY DEF IInv, TypeOK, Filed
<1>2. CASE Retime(e, entry[e], "idle")
  BY <1>1, <1>2, RetimeCase
<1> DEFINE x == IF e \in processed_timers THEN TimeChanged(entry[e])
                ELSE ResetState(entry[e])
<1>3. CASE /\ e \notin Range(timer_list)
           /\ AddTimerEntry(e, x, timer_list, processed_timers \ {e}, "idle")
  <2>1. /\ x \in Entry /\ x.record_service = entry[e].record_service
        /\ x.repeated = entry[e].repeated /\ x.backoff = 0
    <3>1. CASE e \in processed_timers
      <4>1. x = TimeChanged(entry[e])
        BY <3>1
      <4> HIDE DEF x
      <4> QED BY <1>1, <4>1, TimeChangedProperties, TimeChangedTimes
              DEF Kept, SameTimes
    <3>2. CASE e \notin processed_timers
      <4>1. x = ResetState(entry[e])
        BY <3>2
      <4> HIDE DEF x
      <4>2. Waiting \in Waiting .. Ended
        BY DEF Waiting, Ended
      <4>3. x \in Entry /\ Kept([entry[e] EXCEPT !.state = Waiting], x)
        BY <1>1, <4>1, ResetStateProperties
      <4>4. x.record_service = entry[e].record_service
        BY <1>1, <4>2, <4>3, StateUpdate DEF Kept
      <4> QED BY <1>1, <4>1, <4>3, <4>4, ResetStateTimes
    <3> QED BY <3>1, <3>2
  <2> HIDE DEF x
  <2>2. Regular(entry[e]) => Regular(x)
    BY <2>1 DEF Regular, Delay
  <2> QED BY <1>3, <2>1, <2>2, AddsCase
<1>4. CASE UNCHANGED <<entry, queue>> /\ Continue("idle")
  <2>1. Rewrites
    BY <1>1, <1>4 DEF Rewrites, Continue
  <2> QED BY <2>1 DEF StepCases
<1> QED
  BY <1>2, <1>3, <1>4 DEF Accept

\* setAutoincreaseEnd moves a recording that is extended, or nothing.
LEMMA ExtendRetimes ==
  ASSUME IInv, pc # "timewarp", NEW x, NEW first \in Int, NEW k,
         Extend(x, first, k)
  PROVE  \/ /\ x \in Timers /\ entry[x].autoincrease
            /\ \E z \in Entry : Retimes(x, z, k)
         \/ UNCHANGED <<entry, queue, control>>
<1>1. TypeOK /\ Filed
  BY DEF IInv
<1>2. CASE /\ entry[x].autoincrease
           /\ \E n \in IncreasedEnds(first) :
                Retime(x, [entry[x] EXCEPT !.end = n], k)
  <2>1. PICK n \in IncreasedEnds(first) : Retime(x, [entry[x] EXCEPT !.end = n], k)
    BY <1>2
  <2>2. n \in Int /\ x \in Timers /\ entry[x] \in Entry
    BY <1>1, <2>1, IncreasedEndsAreTimes, InQueueTimers DEF Retime
  <2> DEFINE y == [entry[x] EXCEPT !.end = n]
  <2>3. /\ y \in Entry /\ y.state = entry[x].state
        /\ y.record_service = entry[x].record_service
        /\ y.repeated = entry[x].repeated
    BY <2>2 DEF Entry
  <2>4. Retime(x, y, k)
    BY <2>1
  <2> HIDE DEF y
  <2>5. \E z \in Entry : Retimes(x, z, k)
    BY <1>1, <2>3, <2>4, RetimeRefiles DEF Regular
  <2> QED BY <1>2, <2>2, <2>5
<1> QED
  BY <1>2 DEF Extend

-----------------------------------------------------------------------------
(* Every step is one of these cases.                                       *)

LEMMA Steps == IInv /\ [Next]_vars => StepCases
<1> SUFFICES ASSUME IInv, [Next]_vars PROVE StepCases
  OBVIOUS
<1>1. /\ TypeOK /\ Filed /\ entry \in [Timers -> Entry] /\ now \in Int
      /\ Coherent(entry, timer_list, processed_timers, pending)
      /\ pc # "timewarp" => pending = {}
  BY DEF IInv, Filed, TypeOK
<1>2. ASSUME NEW e \in Timers, Requests(e)
      PROVE  pc = "idle" /\ pc # "timewarp" /\ pending = {} /\ subject \in {e, NoTimer}
  BY <1>1, <1>2 DEF Requests
<1>3. ASSUME NEW e \in Timers, NEW z \in Entry, Handles(e, z)
      PROVE  StepCases
  BY <1>3 DEF StepCases
<1>4. CASE ReEvaluate
  BY <1>3, <1>4, ReEvaluateCase
<1>5. CASE ProcessActivation
  <2> DEFINE w == Head(timer_list)
  <2>1. /\ UNCHANGED <<now, lastActivation, wakeup>>
        /\ Crashes \/ \E z \in Entry : Turns(w, z)
    BY <1>5, ProcessActivationCase
  <2>2. CASE Crashes
    BY <2>1, <2>2 DEF StepCases
  <2>3. CASE \E z \in Entry : Turns(w, z)
    <3>1. PICK z \in Entry : Turns(w, z)
      BY <2>3
    <3>2. w \in Timers
      BY <1>1, <3>1 DEF Turns, Coherent
    <3> QED BY <1>3, <2>1, <3>1, <3>2 DEF Handles
  <2> QED BY <2>1, <2>2, <2>3
<1>6. CASE RetimeStopped
  <2> DEFINE e == subject
             x == [entry[e] EXCEPT !.disabled = (pc = "stopall")]
  <2>1. /\ pc \in {"stoponlycurrent", "stopall"} /\ pc # "timewarp"
        /\ Retime(e, x, "idle") /\ subject' = NoTimer
        /\ UNCHANGED <<now, lastActivation, wakeup>>
    BY <1>6 DEF RetimeStopped, NoDialogs
  <2>2. e \in Timers /\ entry[e] \in Entry
    BY <1>1, <2>1, InQueueTimers DEF Retime
  <2>3. /\ x \in Entry /\ x.state = entry[e].state
        /\ x.record_service = entry[e].record_service
        /\ x.repeated = entry[e].repeated
    <3>1. /\ x \in Entry /\ x.state = entry[e].state
          /\ x.record_service = entry[e].record_service
      BY <2>2, DisabledUpdate
    <3>2. x.repeated = entry[e].repeated
      BY <2>2 DEF Entry
    <3> QED BY <3>1, <3>2
  <2> HIDE DEF x
  <2>4. PICK z \in Entry : Retimes(e, z, "idle")
    BY <1>1, <2>1, <2>3, RetimeRefiles DEF Regular
  <2>5. Stopped(e, z)
    BY <2>1, <2>4 DEF Stopped
  <2> QED BY <1>3, <2>1, <2>2, <2>5 DEF Handles
<1>7. CASE IncreaseNext
  <2> DEFINE x == timer_list[position]
  <2>1. /\ pc = "increase" /\ pc # "timewarp"
        /\ UNCHANGED <<now, lastActivation, wakeup, subject>>
        /\ Extend(x, DayMore, "increase")
    BY <1>7 DEF IncreaseNext, dialogs
  <2> HIDE DEF x
  <2>2. \/ /\ x \in Timers /\ entry[x].autoincrease
           /\ \E z \in Entry : Retimes(x, z, "increase")
        \/ UNCHANGED <<entry, queue, control>>
    BY <1>1, <2>1, DayMoreIsATime, ExtendRetimes
  <2>3. ASSUME x \in Timers, entry[x].autoincrease,
               NEW z \in Entry, Retimes(x, z, "increase")
        PROVE  StepCases
    <3>1. Increases(x, z)
      BY <2>1, <2>3 DEF Increases
    <3> QED BY <1>3, <2>1, <2>3, <3>1 DEF Handles
  <2>4. CASE UNCHANGED <<entry, queue, control>>
    <3>1. Stutters
      BY <2>1, <2>4 DEF Stutters
    <3> QED BY <3>1 DEF StepCases
  <2> QED BY <2>2, <2>3, <2>4
<1>8. ASSUME NEW e \in Timers, Shorten(e) PROVE StepCases
  <2>1. PICK x \in rivals : Extend(x, entry[e].begin - AutoIncreaseGap, "shorten")
    BY <1>8 DEF Shorten
  <2>2. /\ pc = "shorten" /\ pc # "timewarp"
        /\ UNCHANGED <<now, lastActivation, wakeup, subject>>
    BY <1>8 DEF Shorten
  <2>3. entry[e].begin - AutoIncreaseGap \in Int
    BY <1>1, TimerAssumption DEF Entry
  <2>4. \/ x \in Timers /\ \E z \in Entry : Retimes(x, z, "shorten")
        \/ UNCHANGED <<entry, queue, control>>
    BY <2>1, <2>2, <2>3, ExtendRetimes
  <2>5. ASSUME x \in Timers, NEW z \in Entry, Retimes(x, z, "shorten")
        PROVE  StepCases
    <3>1. Shortens(x, z)
      BY <2>2, <2>5 DEF Shortens
    <3> QED BY <1>3, <2>2, <2>5, <3>1 DEF Handles
  <2>6. CASE UNCHANGED <<entry, queue, control>>
    <3>1. Stutters
      BY <2>2, <2>6 DEF Stutters
    <3> QED BY <3>1 DEF StepCases
  <2> QED BY <2>4, <2>5, <2>6
<1>9. ASSUME NEW e \in Timers, Shortened(e) PROVE StepCases
  <2>1. /\ pc = "shorten" /\ UNCHANGED <<now, lastActivation, wakeup>>
        /\ \/ Accept(e, dialog)
           \/ UNCHANGED <<entry, queue>> /\ Continue("idle")
    BY <1>9 DEF Shortened
  <2>2. CASE Accept(e, dialog)
    BY <2>1, <2>2, AcceptCase
  <2>3. CASE UNCHANGED <<entry, queue>> /\ Continue("idle")
    <3>1. Rewrites
      BY <2>1, <2>3 DEF Rewrites, Continue
    <3> QED BY <3>1 DEF StepCases
  <2> QED BY <2>1, <2>2, <2>3
<1>10. CASE StandbyCloses \/ ToggleStandby \/ UNCHANGED vars
  <2>1. Stutters
    BY <1>10 DEF StandbyCloses, ToggleStandby, vars, Stutters, request, dialogs
  <2> QED BY <2>1 DEF StepCases
\* the requests
<1>11. ASSUME NEW e \in Timers, NEW x \in Entry, pc = "idle",
              x.state = entry[e].state,
              x.record_service => entry[e].record_service,
              Regular(entry[e]) => Regular(x),
              entry' = [entry EXCEPT ![e] = x],
              ~FiledAtOnce,
              pc' \in {"idle", "shorten"},
              UNCHANGED <<now, queue, threshold, after, pending, lastActivation,
                          wakeup>>
       PROVE  StepCases
  <2>1. Rewrites
    BY <1>11 DEF Rewrites
  <2> QED BY <2>1 DEF StepCases
<1>12. ASSUME NEW e \in Timers, NEW s \in Schedules
       PROVE  /\ Edited(entry[e], s) \in Entry
              /\ Edited(entry[e], s).state = entry[e].state
              /\ Edited(entry[e], s).record_service = entry[e].record_service
              /\ (\A d \in Schedules : d.repeated = {}) =>
                   Edited(entry[e], s).repeated = {}
              /\ Regular(entry[e]) => Regular(Edited(entry[e], s))
  BY <1>1, EditedProperties, EditedTerms DEF Regular
<1>13. ASSUME NEW e \in Timers, Record(e) PROVE StepCases
  <2>1. PICK s \in Schedules :
          \/ AddTimerEntry(e, NewEntry(s), timer_list, processed_timers, "idle")
          \/ /\ entry' = [entry EXCEPT ![e] = [NewEntry(s) EXCEPT !.state = Ended]]
             /\ UNCHANGED queue
             /\ Conflict(e, "added")
    BY <1>13 DEF Record
  <2> DEFINE n == NewEntry(s)
             u == [n EXCEPT !.state = Ended]
  <2>2. s \in [begin : Int, end : Int, repeated : SUBSET (0 .. Week - 1),
               justplay : BOOLEAN, deepstandby : BOOLEAN]
    BY ScheduleAssumption
  <2>3. n \in Entry /\ n.record_service = FALSE /\ Regular(n)
    BY <2>2, NewEntryProperties, NewEntryRegular
  <2>4. /\ ~InQueue(e) /\ pc = "idle" /\ entry[e].state = Ended
        /\ e \notin Range(timer_list)
        /\ UNCHANGED <<now, lastActivation, wakeup>>
    BY <1>1, <1>2, <1>13 DEF Record, InQueue, Coherent
  <2> HIDE DEF n
  <2>5. CASE AddTimerEntry(e, n, timer_list, processed_timers, "idle")
    BY <2>3, <2>4, <2>5, AddsCase
  <2>6. u \in Entry /\ u.state = Ended /\ u.record_service = FALSE /\ Regular(u)
    <3>1. Ended \in Waiting .. Ended
      BY DEF Waiting, Ended
    <3> QED BY <2>3, <3>1, StateUpdate, StateRegular
  <2>7. CASE /\ entry' = [entry EXCEPT ![e] = u] /\ UNCHANGED queue
             /\ Conflict(e, "added")
    <3> HIDE DEF u
    <3> QED BY <1>11, <2>4, <2>6, <2>7 DEF Conflict, FiledAtOnce
  <2> QED BY <2>1, <2>5, <2>7 DEF n
<1>14. ASSUME NEW e \in Timers, StartInstantRecording(e) PROVE StepCases
  <2> DEFINE s(n) == [begin |-> WholeSeconds(now), end |-> n, repeated |-> {},
                      justplay |-> FALSE, deepstandby |-> FALSE]
             x(n) == [NewEntry(s(n)) EXCEPT !.autoincrease = TRUE,
                                            !.dontSave = TRUE]
  <2>1. PICK n \in IncreasedEnds(DayMore) :
          AddTimerEntry(e, x(n), timer_list, processed_timers, "idle")
    BY <1>14 DEF StartInstantRecording
  <2>2. /\ NewEntry(s(n)) \in Entry
        /\ NewEntry(s(n)).record_service = FALSE
        /\ Regular(NewEntry(s(n)))
    <3>1. n \in Int /\ WholeSeconds(now) \in Int
      BY <1>1, DayMoreIsATime, IncreasedEndsAreTimes, WholeSecondsProperties
    <3>2. s(n) \in [begin : Int, end : Int, repeated : SUBSET (0 .. Week - 1),
                    justplay : BOOLEAN, deepstandby : BOOLEAN]
          /\ s(n).repeated = {}
      BY <3>1
    <3> HIDE DEF s
    <3> QED BY <3>2, NewEntryProperties, NewEntryRegular
  <2> DEFINE a == [NewEntry(s(n)) EXCEPT !.autoincrease = TRUE]
             d == [a EXCEPT !.dontSave = TRUE]
  <2>3. x(n) = d
    OBVIOUS
  <2> HIDE DEF s, x
  <2>4. /\ a \in Entry /\ a.record_service = NewEntry(s(n)).record_service
        /\ a.repeated = NewEntry(s(n)).repeated
        /\ a.backoff = NewEntry(s(n)).backoff
    BY <2>2 DEF Entry
  <2> HIDE DEF a
  <2>5. /\ d \in Entry /\ d.record_service = a.record_service
        /\ d.repeated = a.repeated /\ d.backoff = a.backoff
    BY <2>4 DEF Entry
  <2> HIDE DEF d
  <2>6. Regular(d)
    BY <2>2, <2>4, <2>5 DEF Regular
  <2>7. /\ e \notin Range(timer_list) /\ pc = "idle"
        /\ UNCHANGED <<now, lastActivation, wakeup>>
    BY <1>2, <1>14 DEF StartInstantRecording, InQueue
  <2> QED BY <2>1, <2>2, <2>3, <2>4, <2>5, <2>6, <2>7, AddsCase
<1>15. ASSUME NEW e \in Timers, ChangeEnd(e) PROVE StepCases
  <2>1. /\ pc = "idle" /\ entry[e] \in Entry /\ now \in Int
        /\ UNCHANGED <<now, lastActivation, wakeup>>
    BY <1>1, <1>2, <1>15 DEF ChangeEnd
  <2>2. ASSUME NEW n \in Int,
               \/ Retime(e, [entry[e] EXCEPT !.end = n, !.autoincrease = FALSE],
                         "idle")
               \/ Retime(e, [entry[e] EXCEPT !.end = n], "idle")
        PROVE  StepCases
    <3> DEFINE f == [entry[e] EXCEPT !.end = n]
               x == [f EXCEPT !.autoincrease = FALSE]
    <3>1. Retime(e, x, "idle") \/ Retime(e, f, "idle")
      BY <2>2
    <3>2. /\ f \in Entry /\ f.state = entry[e].state
          /\ f.record_service = entry[e].record_service
          /\ f.repeated = entry[e].repeated
      BY <2>1 DEF Entry
    <3> HIDE DEF f
    <3>3. /\ x \in Entry /\ x.state = f.state /\ x.repeated = f.repeated
          /\ x.record_service = f.record_service
      BY <3>2 DEF Entry
    <3> HIDE DEF x
    <3> QED BY <2>1, <3>1, <3>2, <3>3, RetimeCase
  <2>3. /\ \A s \in Schedules : s.end \in Int
        /\ entry[e].end \in Int /\ WholeSeconds(now) \in Int
    BY <2>1, ScheduleAssumption, WholeSecondsProperties DEF Entry
  <2> QED BY <1>15, <2>2, <2>3 DEF ChangeEnd
<1>16. ASSUME NEW e \in Timers, EditTimer(e) PROVE StepCases
  <2>1. PICK s \in Schedules :
          \/ Retime(e, Edited(entry[e], s), "idle")
          \/ Edit(e, s) /\ UNCHANGED queue /\ Conflict(e, "edited")
          \/ "open" \in Edits /\ Edit(e, s) /\ UNCHANGED <<queue, control>>
    BY <1>16 DEF EditTimer
  <2>2. pc = "idle" /\ UNCHANGED <<now, lastActivation, wakeup>>
    BY <1>2, <1>16 DEF EditTimer
  <2> DEFINE x == Edited(entry[e], s)
  <2>3. /\ x \in Entry /\ x.state = entry[e].state
        /\ x.record_service = entry[e].record_service
        /\ (\A d \in Schedules : d.repeated = {}) => x.repeated = {}
        /\ Regular(entry[e]) => Regular(x)
    BY <1>12
  <2>4. CASE Retime(e, x, "idle")
    <3> HIDE DEF x
    <3> QED BY <2>2, <2>3, <2>4, RetimeCase
  <2>5. CASE /\ entry' = [entry EXCEPT ![e] = x] /\ UNCHANGED queue
             /\ Conflict(e, "edited")
    <3> HIDE DEF x
    <3> QED BY <1>11, <2>2, <2>3, <2>5 DEF Conflict, FiledAtOnce
  <2>6. CASE /\ entry' = [entry EXCEPT ![e] = x] /\ UNCHANGED <<queue, control>>
             /\ "open" \in Edits
    <3> HIDE DEF x
    <3> QED BY <1>11, <2>2, <2>3, <2>6 DEF control, FiledAtOnce
  <2> QED BY <2>1, <2>4, <2>5, <2>6 DEF Edit
<1>17. ASSUME NEW e \in Timers, Finish(e) PROVE StepCases
  <2>1. pc = "idle" /\ UNCHANGED <<now, lastActivation, wakeup>>
    BY <1>17 DEF Finish
  <2>2. CASE Accept(e, dialog)
    BY <2>1, <2>2, AcceptCase
  <2>3. CASE UNCHANGED <<entry, queue>> /\ Conflict(e, dialog)
    <3>1. Rewrites
      BY <2>1, <2>3 DEF Rewrites, Conflict
    <3> QED BY <3>1 DEF StepCases
  <2> QED BY <1>17, <2>2, <2>3 DEF Finish
<1>18. ASSUME NEW e \in Timers, ToggleDisabledState(e) PROVE StepCases
  <2>1. /\ pc = "idle" /\ entry[e] \in Entry
        /\ UNCHANGED <<now, lastActivation, wakeup>>
    BY <1>1, <1>2, <1>18 DEF ToggleDisabledState
  <2>2. \/ \E b \in BOOLEAN : Retime(e, [entry[e] EXCEPT !.disabled = b], "idle")
        \/ Retime(e, entry[e], "idle")
    BY <1>18 DEF ToggleDisabledState
  <2> QED BY <2>1, <2>2, RetimeCase, ToggleCase
<1>19. ASSUME NEW e \in Timers, StopOnlyComing(e) PROVE StepCases
  <2>1. /\ pc = "idle"
        /\ Retime(e, [entry[e] EXCEPT !.disabled = TRUE], "idle")
        /\ UNCHANGED <<now, lastActivation, wakeup>>
    BY <1>2, <1>19 DEF StopOnlyComing
  <2> QED BY <2>1, ToggleCase
<1>20. ASSUME NEW e \in Timers, StopCurrent(e) PROVE StepCases
  <2> DEFINE d == [entry[e] EXCEPT !.disabled = FALSE]
             x == ProcessRepeated(d, FALSE)
  <2>1. PICK k \in {"stoponlycurrent", "stopall"} : DoActivate(e, x, k)
    BY <1>20 DEF StopCurrent
  <2>2. /\ e \in Range(timer_list) /\ pc = "idle" /\ pc # "timewarp"
        /\ dialog = "stop" /\ subject = e /\ subject' = e
        /\ UNCHANGED <<now, lastActivation, wakeup>>
    BY <1>2, <1>20 DEF StopCurrent, dialogs
  <2>3. /\ d \in Entry /\ d.state = entry[e].state
        /\ d.record_service = entry[e].record_service
        /\ d.justplay = entry[e].justplay /\ d.disabled = FALSE
        /\ d.repeated = entry[e].repeated /\ d.backoff = entry[e].backoff
    BY <1>1, DisabledUpdate DEF Entry
  <2> HIDE DEF d
  <2>4. Regular(d) => Regular(x)
    BY <2>3, ProcessRepeatedRegular
  <2>5. x \in Entry /\ Kept(d, x)
    BY <2>3, ProcessRepeatedProperties
  <2> HIDE DEF x
  <2>6. Activatable(e, x)
    BY <2>3, <2>5 DEF Activatable, EnabledIfWaiting, Kept
  <2>7. Regular(entry[e]) => Regular(x)
    BY <2>3, <2>4, <2>5 DEF Regular
  <2>8. "retype" \notin Edits => x.record_service = Holding(x)
    BY <2>3, <2>5 DEF IInv, TunerHeld, Holding, Kept
  <2>9. Crashes \/ \E z \in Entry : Refiles(e, z) /\ Goes(k)
    BY <1>1, <2>1, <2>2, <2>5, <2>6, <2>7, <2>8, DoActivateRefiles
  <2>10. CASE Crashes
    BY <2>2, <2>10 DEF StepCases
  <2>11. CASE \E z \in Entry : Refiles(e, z) /\ Goes(k)
    <3>1. PICK z \in Entry : Refiles(e, z) /\ Goes(k)
      BY <2>11
    <3>2. Stops(e, z)
      BY <2>2, <3>1 DEF Stops
    <3> QED BY <1>3, <2>2, <3>2 DEF Handles
  <2> QED BY <2>9, <2>10, <2>11
<1>21. ASSUME NEW e \in Timers, CancelDialog(e) PROVE StepCases
  <2>1. Stutters
    BY <1>2, <1>21 DEF CancelDialog, NoDialogs, Stutters
  <2> QED BY <2>1 DEF StepCases
<1>22. ASSUME NEW e \in Timers, RemoveEntry(e) PROVE StepCases
  <2> DEFINE a == [entry[e] EXCEPT !.repeated = {}]
             b == [a EXCEPT !.autoincrease = FALSE]
             c == [b EXCEPT !.deepstandby = FALSE]
             x == Abort(c)
  <2>1. c = [entry[e] EXCEPT !.repeated = {}, !.autoincrease = FALSE,
                             !.deepstandby = FALSE]
    OBVIOUS
  <2>2. /\ a \in Entry /\ Kept(entry[e], a) /\ a.repeated = {}
        /\ a.backoff = entry[e].backoff
    BY <1>1 DEF Entry, Kept
  <2> HIDE DEF a
  <2>3. /\ b \in Entry /\ Kept(entry[e], b) /\ b.repeated = {}
        /\ b.backoff = entry[e].backoff /\ ~b.autoincrease
    BY <2>2 DEF Entry, Kept
  <2> HIDE DEF b
  <2>4. /\ c \in Entry /\ Kept(entry[e], c) /\ c.repeated = {}
        /\ c.backoff = entry[e].backoff /\ ~c.autoincrease
    BY <2>3 DEF Entry, Kept
  <2> HIDE DEF c
  <2>5. /\ x \in Entry /\ Kept(entry[e], x) /\ x.repeated = {}
        /\ ~x.autoincrease /\ x.end <= now /\ x.begin <= now /\ x.cancelled
        /\ Regular(entry[e]) => Regular(x)
    BY <1>1, <2>4, AbortProperties, AbortTimes DEF Kept, Regular
  <2>6. /\ pc = "idle" /\ pc # "timewarp" /\ InQueue(e)
        /\ subject = NoTimer /\ subject' = e
        /\ UNCHANGED <<now, lastActivation, wakeup>>
        /\ \/ x.state # Ended /\ Retime(e, x, "increase")
           \/ /\ x.state = Ended
              /\ entry' = [entry EXCEPT ![e] = x]
              /\ UNCHANGED queue
              /\ Continue("increase")
    BY <1>2, <1>22, <2>1 DEF RemoveEntry
  <2> HIDE DEF x
  <2>7. CASE Retime(e, x, "increase")
    <3>1. PICK z \in Entry : Retimes(e, z, "increase") /\ SameTimes(x, z)
      BY <1>1, <2>5, <2>6, <2>7, RetimeRefiles DEF Kept
    <3>2. Removed(e, z)
      BY <2>5, <2>6, <3>1 DEF Removed, SameTimes
    <3> QED BY <1>3, <2>6, <3>2 DEF Handles
  <2>8. CASE /\ x.state = Ended
             /\ entry' = [entry EXCEPT ![e] = x]
             /\ UNCHANGED queue
             /\ Continue("increase")
    <3>1. /\ e \in processed_timers /\ Rest(e) = timer_list
      BY <1>1, <2>5, <2>6, <2>8 DEF InQueue, Coherent, Kept, Rest
    <3>2. Refiles(e, x)
      BY <2>5, <2>8, <3>1 DEF Refiles, Kept, queue
    <3>3. Removed(e, x)
      BY <2>5, <2>6, <2>8, <3>2 DEF Removed, Retimes
    <3> QED BY <1>3, <2>5, <2>6, <3>3 DEF Handles
  <2> QED BY <2>6, <2>7, <2>8
<1>23. ASSUME NEW e \in Timers, ConflictAnswer(e) PROVE StepCases
  <2>1. /\ pc = "idle" /\ "conflict" \in Edits /\ rivals \subseteq Timers
        /\ UNCHANGED <<now, queue, control, lastActivation, wakeup>>
    BY <1>1, <1>2, <1>23 DEF ConflictAnswer, TypeOK
  <2>2. CASE UNCHANGED entry
    <3>1. Rewrites
      BY <2>1, <2>2 DEF Rewrites, control
    <3> QED BY <3>1 DEF StepCases
  <2>3. ASSUME NEW x \in rivals \cup {e},
               entry' = [entry EXCEPT ![x].disabled = ~@]
        PROVE  StepCases
    <3> DEFINE y == [entry[x] EXCEPT !.disabled = ~@]
    <3>1. x \in Timers /\ entry[x] \in Entry
      BY <1>1, <2>1
    <3>2. y \in Entry /\ y.state = entry[x].state
          /\ y.record_service = entry[x].record_service
          /\ y.repeated = entry[x].repeated /\ y.backoff = entry[x].backoff
      BY <3>1 DEF Entry
    <3>3. entry' = [entry EXCEPT ![x] = y]
      BY <2>3
    <3> HIDE DEF y
    <3>4. Regular(entry[x]) => Regular(y)
      BY <3>2 DEF Regular
    <3> QED BY <1>11, <2>1, <3>1, <3>2, <3>3, <3>4 DEF control, FiledAtOnce
  <2>4. ASSUME NEW x \in rivals \cup {e}, NEW s \in Schedules, Edit(x, s)
        PROVE  StepCases
    <3> DEFINE y == Edited(entry[x], s)
    <3>1. x \in Timers
      BY <2>1
    <3>2. /\ y \in Entry /\ y.state = entry[x].state
          /\ y.record_service = entry[x].record_service
          /\ Regular(entry[x]) => Regular(y)
      BY <1>12, <3>1
    <3>3. entry' = [entry EXCEPT ![x] = y]
      BY <2>4 DEF Edit
    <3> HIDE DEF y
    <3> QED BY <1>11, <2>1, <3>1, <3>2, <3>3 DEF control, FiledAtOnce
  <2> QED BY <1>23, <2>2, <2>3, <2>4 DEF ConflictAnswer
<1>24. CASE TimerExpires \/ AllReEvaluated \/ SetNextActivation \/ ForgetEntry
            \/ Shutdown \/ Cleanup \/ Tick \/ ClockStep
  BY <1>24 DEF StepCases
<1> QED
  BY <1>4, <1>5, <1>6, <1>7, <1>8, <1>9, <1>10, <1>13, <1>14, <1>15, <1>16,
     <1>17, <1>18, <1>19, <1>20, <1>21, <1>22, <1>23, <1>24
     DEF Next, MainLoop, User

-----------------------------------------------------------------------------
(* What a filing leaves in the list.                                       *)

\* Filing an entry leaves the other entries where they were, and the list in
\* order.
LEMMA RefilesLeaves ==
  ASSUME Filed, NEW e, NEW z, Refiles(e, z)
  PROVE  /\ entry'[e] = z
         /\ \A f \in Timers : f # e => entry'[f] = entry[f]
         /\ Range(timer_list') =
              IF z.state = Ended THEN Range(timer_list) \ {e}
              ELSE Range(timer_list) \cup {e}
         /\ Sorted => Sorted'
<1>1. /\ e \in Timers /\ z \in Entry /\ entry \in [Timers -> Entry]
      /\ timer_list \in Seq(Timers) /\ IsInjective(timer_list)
      /\ entry' = [entry EXCEPT ![e] = z]
      /\ timer_list' \in IF z.state = Ended THEN {Rest(e)}
                         ELSE Insort(entry', Rest(e), e)
  BY DEF Filed, QueueTypeOK, Coherent, Refiles
<1>2. /\ Rest(e) \in Seq(Timers) /\ IsInjective(Rest(e))
      /\ Range(Rest(e)) = Range(timer_list) \ {e}
  BY <1>1, WithoutProperties DEF Rest
<1>3. ASSUME NEW l \in Insort(entry', Rest(e), e)
      PROVE  Range(l) = Range(Rest(e)) \cup {e}
  <2> DEFINE rest == Rest(e)
             es == entry'
  <2>1. rest \in Seq(Timers) /\ IsInjective(rest) /\ e \notin Range(rest)
        /\ l \in Insort(es, rest, e)
    BY <1>2, <1>3
  <2> HIDE DEF rest, es
  <2>2. Range(l) = Range(rest) \cup {e}
    BY <1>1, <2>1, InsortProperties
  <2> QED BY <2>2 DEF rest, es
<1>4. ASSUME Sorted PROVE Sorted'
  <2>1. SortedBy(entry, timer_list)
    BY <1>4 DEF Sorted, SortedBy
  <2>2. SortedBy(entry, Rest(e))
    BY <1>1, <2>1, WithoutSorts DEF Rest
  <2>3. SortedBy(entry', Rest(e)) /\ entry' \in [Timers -> Entry]
    BY <1>1, <1>2, <2>2, SortedElsewhere
  <2>4. \A l \in Insort(entry', Rest(e), e) : SortedBy(entry', l)
    BY <1>1, <1>2, <2>3, InsortSorts
  <2> QED BY <1>1, <2>3, <2>4 DEF Sorted, SortedBy
<1> QED
  BY <1>1, <1>2, <1>3, <1>4

\* In a sorted list nothing is due before its head.
LEMMA HeadIsFirst ==
  ASSUME TypeOK, Sorted, NEW e \in Range(timer_list)
  PROVE  /\ timer_list # <<>>
         /\ Head(timer_list) \in Timers
         /\ NextActivation(entry[Head(timer_list)]) <= NextActivation(entry[e])
<1>1. /\ timer_list \in Seq(Timers) /\ DOMAIN timer_list = 1 .. Len(timer_list)
      /\ entry \in [Timers -> Entry]
  BY LenProperties DEF TypeOK
<1>2. PICK i \in 1 .. Len(timer_list) : timer_list[i] = e
  BY <1>1 DEF Range
<1>3. timer_list # <<>> /\ 1 \in 1 .. Len(timer_list)
  BY <1>1, <1>2, EmptySeq, LenProperties
<1>4. Head(timer_list) = timer_list[1] /\ timer_list[1] \in Timers
  BY <1>1, <1>3, ElementOfSeq
<1>5. CASE i = 1
  BY <1>1, <1>2, <1>3, <1>4, <1>5, NextActivationIsTime
<1>6. CASE i # 1
  BY <1>1, <1>2, <1>3, <1>4, <1>6 DEF Sorted
<1> QED
  BY <1>3, <1>4, <1>5, <1>6

\* Where the main loop goes on after a handler.
LEMMA GoesOn ==
  ASSUME NEW k, Goes(k)
  PROVE  \/ pc = "activate" /\ UNCHANGED <<pc, after, threshold, pending>>
         \/ /\ pc # "activate" /\ pc' = k /\ after' = "idle"
            /\ UNCHANGED <<threshold, pending>>
         \/ pc' = "timewarp" /\ after' = k /\ processed_timers' = {}
         \/ /\ pc' = "activate" /\ after' = k /\ threshold' = NextSecond
            /\ UNCHANGED pending
BY DEF Goes, Recalculates, CalcNextActivation, Continue

\* Where the handlers let a recalculation return to.
Continuations == {"idle", "increase", "shorten", "stoponlycurrent", "stopall"}

Returns == after \in Continuations

\* A handler other than the re-evaluation files its entry and goes on.
LEMMA HandlesGoes ==
  ASSUME NEW e, NEW z, Handles(e, z)
  PROVE  /\ Refiles(e, z)
         /\ UNCHANGED <<now, lastActivation, wakeup>>
         /\ \/ \E k \in Continuations : Goes(k)
            \/ Turns(e, z)
            \/ ReEvaluates(e, z)
<1>1. ASSUME NEW k, Retimes(e, z, k)
      PROVE  Refiles(e, z) /\ Goes(k)
  BY <1>1 DEF Retimes, Goes
<1>2. UNCHANGED <<now, lastActivation, wakeup>>
  BY DEF Handles
<1>3. CASE \/ Requested(e, z) \/ Removed(e, z) \/ Stopped(e, z)
           \/ Increases(e, z) \/ Shortens(e, z)
  BY <1>1, <1>2, <1>3
     DEF Requested, Removed, Stopped, Increases, Shortens, Continuations
<1>4. CASE Stops(e, z) \/ Turns(e, z)
  BY <1>2, <1>4 DEF Stops, Turns, Continuations
<1>5. CASE ReEvaluates(e, z)
  BY <1>2, <1>5 DEF ReEvaluates
<1> QED
  BY <1>3, <1>4, <1>5 DEF Handles

-----------------------------------------------------------------------------
(* The clock.                                                              *)

\* The queue is polled soon.
Polls == wakeup <= now + MaxWaitTime

LEMMA PollsNext == TypeOK /\ Polls /\ StepCases => Polls'
<1> SUFFICES ASSUME TypeOK, Polls, StepCases PROVE Polls'
  OBVIOUS
<1>1. now \in Int /\ wakeup \in Int /\ MaxWaitTime \in Nat
  BY TimerAssumption DEF TypeOK
<1>2. CASE UNCHANGED <<now, wakeup>>
  BY <1>2 DEF Polls
<1>3. CASE SetNextActivation
  <2>1. UNCHANGED now /\ wakeup' = NextWakeup
    BY <1>3 DEF SetNextActivation
  <2>2. Poll \in Int /\ Poll <= now + MaxWaitTime
    BY <1>1, WholeSecondsProperties DEF Poll
  <2>3. NextWakeup \in Int /\ NextWakeup <= Poll
    <3>1. CASE timer_list = <<>>
      BY <2>2, <3>1 DEF NextWakeup
    <3>2. CASE timer_list # <<>>
      <4>1. Head(timer_list) \in Timers
        BY <3>2, HeadTailProperties DEF TypeOK
      <4>2. NextActivation(entry[Head(timer_list)]) \in Int
        BY <4>1, NextActivationIsTime DEF TypeOK
      <4> QED BY <2>2, <3>2, <4>2, LeastOfTwo DEF NextWakeup
    <3> QED BY <3>1, <3>2
  <2> QED BY <1>1, <2>1, <2>2, <2>3 DEF Polls
<1>4. CASE Tick
  BY <1>1, <1>4 DEF Tick, Polls
<1>5. CASE ClockStep
  <2>1. PICK d \in ClockSteps : now' = now + d /\ wakeup' = wakeup + d
    BY <1>5 DEF ClockStep
  <2>2. d \in Int
    BY TimerAssumption
  <2> QED BY <1>1, <2>1, <2>2 DEF Polls
<1>6. CASE \E e \in Timers, z \in Entry : Handles(e, z)
  BY <1>2, <1>6, HandlesGoes
<1>7. CASE TimerExpires \/ AllReEvaluated \/ ForgetEntry \/ Shutdown \/ Cleanup
  BY <1>2, <1>7 DEF TimerExpires, AllReEvaluated, ForgetEntry, Shutdown, Cleanup
<1>8. CASE \/ Stutters \/ Rewrites
           \/ Crashes /\ UNCHANGED <<now, lastActivation, wakeup>>
  BY <1>2, <1>8 DEF Stutters, Rewrites
<1> QED
  BY <1>3, <1>4, <1>5, <1>6, <1>7, <1>8 DEF StepCases

\* The clock is never set to the epoch, which getNextRecordingTime's callers
\* take for no recording.
ClockRuns == now > 0

LEMMA ClockRunsNext == TypeOK /\ ClockRuns /\ StepCases => ClockRuns'
<1> SUFFICES ASSUME TypeOK, ClockRuns, StepCases PROVE ClockRuns'
  OBVIOUS
<1>1. CASE UNCHANGED now
  BY <1>1 DEF ClockRuns
<1>2. CASE Tick \/ ClockStep
  BY <1>2 DEF Tick, ClockStep, ClockRuns, TypeOK
<1>3. CASE \E e \in Timers, z \in Entry : Handles(e, z)
  BY <1>1, <1>3, HandlesGoes
<1>4. CASE TimerExpires \/ AllReEvaluated \/ SetNextActivation \/ ForgetEntry
           \/ Shutdown \/ Cleanup
  BY <1>1, <1>4 DEF TimerExpires, AllReEvaluated, SetNextActivation,
     ForgetEntry, Shutdown, Cleanup
<1>5. CASE \/ Stutters \/ Rewrites
           \/ Crashes /\ UNCHANGED <<now, lastActivation, wakeup>>
  BY <1>1, <1>5 DEF Stutters, Rewrites
<1> QED
  BY <1>2, <1>3, <1>4, <1>5 DEF StepCases

\* A recalculation returns to the handler that asked for it.
LEMMA ReturnsNext == Returns /\ StepCases => Returns'
<1> SUFFICES ASSUME Returns, StepCases PROVE Returns'
  OBVIOUS
<1>1. CASE UNCHANGED after
  BY <1>1 DEF Returns
<1>2. CASE after' \in Continuations
  BY <1>2 DEF Returns
<1>3. ASSUME NEW k \in Continuations, Goes(k)
      PROVE  Returns'
  BY <1>1, <1>2, <1>3, GoesOn DEF Continuations
<1>4. CASE \E e \in Timers, z \in Entry : Handles(e, z)
  <2>1. PICK e \in Timers, z \in Entry : Handles(e, z)
    BY <1>4
  <2>2. CASE Turns(e, z) \/ ReEvaluates(e, z)
    BY <1>1, <1>3, <2>2 DEF Turns, ReEvaluates, Returns
  <2> QED BY <1>3, <2>1, <2>2, HandlesGoes
<1>5. CASE TimerExpires \/ SetNextActivation
  BY <1>2, <1>5
     DEF TimerExpires, CalcNextActivation, SetNextActivation, Continuations
<1>6. CASE AllReEvaluated \/ ForgetEntry \/ Shutdown \/ Cleanup \/ Tick \/ ClockStep
  BY <1>1, <1>6
     DEF AllReEvaluated, ForgetEntry, Shutdown, Cleanup, Tick, ClockStep, control
<1>7. CASE Stutters \/ Rewrites \/ Crashes
  BY <1>1, <1>2, <1>7 DEF Stutters, Rewrites, Crashes, control, Continuations
<1> QED
  BY <1>4, <1>5, <1>6, <1>7 DEF StepCases

\* The loop of processActivation activates nothing before its second.
NotAhead == pc = "activate" => threshold <= NextSecond

LEMMA NextSecondProperties ==
  ASSUME TypeOK
  PROVE  NextSecond \in Int /\ now < NextSecond
<1>1. now \in Int /\ TicksPerSecond \in Int
  BY TimerAssumption DEF TypeOK
<1> QED
  BY <1>1, WholeSecondsProperties DEF NextSecond

LEMMA NotAheadNext == TypeOK /\ Returns /\ NotAhead /\ StepCases => NotAhead'
<1> SUFFICES ASSUME TypeOK, Returns, NotAhead, StepCases, pc' = "activate"
             PROVE  threshold' <= NextSecond'
  BY DEF NotAhead
<1>1. ASSUME UNCHANGED now
      PROVE  NextSecond' = NextSecond /\ NextSecond \in Int
  BY <1>1, NextSecondProperties DEF NextSecond, WholeSeconds
<1>2. CASE UNCHANGED <<now, pc, threshold>>
  BY <1>1, <1>2 DEF NotAhead
<1>3. CASE UNCHANGED now /\ threshold' = NextSecond
  BY <1>1, <1>3
<1>4. CASE Tick
  <2>1. now \in Int /\ TicksPerSecond \in Int /\ threshold \in Int
    BY TimerAssumption DEF TypeOK
  <2>2. now' = now + 1 /\ UNCHANGED <<pc, threshold>>
    BY <1>4 DEF Tick, control
  <2>3. /\ WholeSeconds(now) \in Int /\ WholeSeconds(now') \in Int
        /\ WholeSeconds(now) <= WholeSeconds(now')
    BY <2>1, <2>2, WholeSecondsProperties
  <2>4. /\ NextSecond = WholeSeconds(now) + TicksPerSecond
        /\ NextSecond' = WholeSeconds(now') + TicksPerSecond
    BY DEF NextSecond, WholeSeconds
  <2> QED BY <2>1, <2>2, <2>3, <2>4 DEF NotAhead
<1>5. CASE \E e \in Timers, z \in Entry : Handles(e, z)
  <2>1. PICK e \in Timers, z \in Entry : Handles(e, z)
    BY <1>5
  <2>2. CASE \E k \in Continuations : Goes(k)
    BY <1>2, <1>3, <2>1, <2>2, HandlesGoes, GoesOn DEF Continuations
  <2>3. CASE Turns(e, z)
    BY <1>2, <1>3, <2>1, <2>3, HandlesGoes, GoesOn DEF Turns
  <2>4. CASE ReEvaluates(e, z)
    BY <2>4 DEF ReEvaluates
  <2> QED BY <2>1, <2>2, <2>3, <2>4, HandlesGoes
<1>6. CASE TimerExpires \/ AllReEvaluated
  BY <1>3, <1>6 DEF TimerExpires, CalcNextActivation, AllReEvaluated
<1>7. CASE SetNextActivation
  BY <1>7 DEF SetNextActivation, Returns, Continuations
<1>8. CASE ForgetEntry \/ Shutdown \/ ClockStep \/ Crashes
  BY <1>8 DEF ForgetEntry, Shutdown, ClockStep, Crashes, control
<1>9. CASE Cleanup \/ Stutters \/ Rewrites
  BY <1>2, <1>9 DEF Cleanup, Stutters, Rewrites, control
<1> QED
  BY <1>4, <1>5, <1>6, <1>7, <1>8, <1>9 DEF StepCases

\* The loop over the processed timers files away those that are over, or
\* switched off.
OverOrOff == pc = "timewarp" =>
  \A e \in processed_timers : entry[e].disabled \/ entry[e].end <= now

LEMMA OverOrOffNext == IInv /\ IInv' /\ Returns /\ OverOrOff /\ StepCases => OverOrOff'
<1> SUFFICES ASSUME IInv, IInv', Returns, OverOrOff, StepCases, pc' = "timewarp",
                    NEW f \in processed_timers'
             PROVE  entry'[f].disabled \/ entry'[f].end <= now'
  BY DEF OverOrOff
<1>1. /\ TypeOK /\ Filed /\ entry \in [Timers -> Entry] /\ now \in Int
      /\ f \in Timers /\ entry'[f].state = Ended
      /\ processed_timers \subseteq Timers
  BY DEF IInv, TypeOK, Filed, QueueTypeOK, Coherent
<1>2. CASE UNCHANGED <<now, pc, entry, processed_timers>>
  BY <1>2 DEF OverOrOff
<1>3. CASE processed_timers' = {}
  BY <1>3
<1>4. CASE Tick
  <2>1. entry[f].end \in Int
    BY <1>1 DEF Entry
  <2> QED BY <1>1, <1>4, <2>1 DEF Tick, control, queue, OverOrOff
<1>5. CASE \E e \in Timers, z \in Entry : Handles(e, z)
  <2>1. PICK e \in Timers, z \in Entry : Handles(e, z)
    BY <1>5
  <2>2. CASE \E k \in Continuations : Goes(k)
    BY <1>3, <2>2, GoesOn DEF Continuations
  <2>3. CASE Turns(e, z)
    BY <1>3, <2>3, GoesOn DEF Turns
  <2>4. CASE ReEvaluates(e, z)
    <3>1. /\ pc = "timewarp" /\ now' = now
          /\ processed_timers' \subseteq processed_timers \cup {e}
          /\ z.state = Ended => z.disabled \/ z.end <= now
      BY <2>1, <2>4 DEF Handles, ReEvaluates
    <3>2. /\ entry'[e] = z
          /\ \A g \in Timers : g # e => entry'[g] = entry[g]
      BY <1>1, <2>1, HandlesGoes, RefilesLeaves
    <3>3. CASE f = e
      BY <1>1, <3>1, <3>2, <3>3
    <3>4. CASE f # e
      BY <1>1, <3>1, <3>2, <3>4 DEF OverOrOff
    <3> QED BY <3>3, <3>4
  <2> QED BY <2>1, <2>2, <2>3, <2>4, HandlesGoes
<1>6. CASE TimerExpires
  BY <1>3, <1>6 DEF TimerExpires, CalcNextActivation
<1>7. CASE AllReEvaluated \/ ForgetEntry \/ Shutdown \/ ClockStep \/ Cleanup
           \/ Crashes \/ Rewrites
  BY <1>7 DEF AllReEvaluated, ForgetEntry, Shutdown, ClockStep, Cleanup,
     Requests, Crashes, Rewrites, control
<1>8. CASE Stutters
  BY <1>2, <1>8 DEF Stutters, queue, control
<1>9. CASE SetNextActivation
  BY <1>9 DEF SetNextActivation, Returns, Continuations
<1> QED
  BY <1>4, <1>5, <1>6, <1>7, <1>8, <1>9 DEF StepCases

-----------------------------------------------------------------------------
(* The entries, the requests and the order of the list.                    *)

\* Every entry keeps to the delays and terms it may have.
AllRegular == \A e \in Timers : Regular(entry[e])

LEMMA AllRegularNext == IInv /\ AllRegular /\ StepCases => AllRegular'
<1> SUFFICES ASSUME IInv, AllRegular, StepCases, NEW f \in Timers
             PROVE  Regular(entry'[f])
  BY DEF AllRegular, Regular, Delay
<1>1. Filed /\ entry \in [Timers -> Entry] /\ Regular(entry[f])
  BY DEF IInv, Filed, QueueTypeOK, AllRegular
<1>2. CASE UNCHANGED entry
  BY <1>1, <1>2
<1>3. CASE \E e \in Timers, z \in Entry : Handles(e, z)
  <2>1. PICK e \in Timers, z \in Entry : Handles(e, z)
    BY <1>3
  <2>2. /\ Regular(entry[e]) => Regular(z)
        /\ entry'[e] = z
        /\ \A g \in Timers : g # e => entry'[g] = entry[g]
    BY <1>1, <2>1, HandlesGoes, RefilesLeaves DEF Refiles
  <2> QED BY <1>1, <2>2
<1>4. CASE Rewrites
  <2>1. CASE UNCHANGED entry
    BY <1>2, <2>1
  <2>2. CASE \E e \in Timers, x \in Entry :
               /\ entry' = [entry EXCEPT ![e] = x]
               /\ Regular(entry[e]) => Regular(x)
    BY <1>1, <2>2
  <2> QED BY <1>4, <2>1, <2>2 DEF Rewrites
<1>5. CASE TimerExpires \/ AllReEvaluated \/ SetNextActivation \/ ForgetEntry
           \/ Shutdown \/ Cleanup \/ Tick \/ ClockStep
  BY <1>2, <1>5 DEF TimerExpires, AllReEvaluated, SetNextActivation,
     ForgetEntry, Shutdown, Cleanup, Tick, ClockStep
<1>6. CASE Stutters \/ Crashes
  BY <1>2, <1>6 DEF Stutters, Crashes
<1> QED
  BY <1>3, <1>4, <1>5, <1>6 DEF StepCases

\* Fields that are written in place and filed later may break the order of the
\* list; no other step does.
LEMMA SortedNext ==
  FiledAtOnce /\ IInv /\ Sorted /\ StepCases => Sorted'
<1> SUFFICES ASSUME FiledAtOnce, IInv, Sorted, StepCases
             PROVE  Sorted'
  OBVIOUS
<1>1. CASE UNCHANGED <<entry, timer_list>>
  BY <1>1 DEF Sorted
<1>2. CASE \E e \in Timers, z \in Entry : Handles(e, z)
  BY <1>2, HandlesGoes, RefilesLeaves DEF IInv
<1>3. CASE TimerExpires \/ AllReEvaluated \/ SetNextActivation \/ ForgetEntry
           \/ Shutdown \/ Cleanup \/ Tick \/ ClockStep
  BY <1>1, <1>3 DEF TimerExpires, AllReEvaluated, SetNextActivation,
     ForgetEntry, Shutdown, Cleanup, Tick, ClockStep, queue
<1>4. CASE Stutters \/ Rewrites \/ Crashes
  BY <1>1, <1>4 DEF Stutters, Rewrites, Crashes, FiledAtOnce, queue
<1> QED
  BY <1>2, <1>3, <1>4 DEF StepCases

\* Without the dialog about a running timer activate() is called by
\* processActivation alone.
Stopping == {"stoponlycurrent", "stopall"}

NoDialog == dialog # "stop" /\ pc \notin Stopping /\ after \notin Stopping

\* Only toggleDisabledState opens that dialog.
LEMMA NoStopDialog ==
  "dialog" \notin Edits /\ dialog # "stop" /\ [Next]_vars => dialog' # "stop"
<1> SUFFICES ASSUME "dialog" \notin Edits, dialog # "stop", [Next]_vars
             PROVE  dialog' # "stop"
  OBVIOUS
<1>1. CASE UNCHANGED dialog
  BY <1>1
<1>2. CASE NoDialogs
  BY <1>2 DEF NoDialogs
<1>3. ASSUME NEW e, NEW d, OpenConflict(e, d) PROVE dialog' = d
  BY <1>3 DEF OpenConflict
<1>4. ASSUME NEW e, NEW d, Conflict(e, d) PROVE dialog' = d
  BY <1>4 DEF Conflict
<1>5. CASE TimerExpires \/ ReEvaluate \/ AllReEvaluated \/ ProcessActivation
           \/ SetNextActivation \/ IncreaseNext \/ ForgetEntry \/ StandbyCloses
           \/ Shutdown
  BY <1>1, <1>5 DEF TimerExpires, ReEvaluate, AllReEvaluated, ProcessActivation,
     SetNextActivation, IncreaseNext, ForgetEntry, StandbyCloses, Shutdown,
     request, dialogs
<1>6. CASE Cleanup \/ ToggleStandby \/ Tick \/ ClockStep \/ UNCHANGED vars
  BY <1>1, <1>6 DEF Cleanup, ToggleStandby, Tick, ClockStep, vars, request, dialogs
<1>7. CASE RetimeStopped
  BY <1>2, <1>7 DEF RetimeStopped
<1>8. ASSUME NEW e \in Timers,
             \/ Shorten(e) \/ StartInstantRecording(e) \/ ChangeEnd(e)
             \/ StopOnlyComing(e) \/ StopCurrent(e) \/ CancelDialog(e)
             \/ RemoveEntry(e)
      PROVE  dialog' # "stop"
  BY <1>1, <1>2, <1>8 DEF Shorten, StartInstantRecording, ChangeEnd,
     StopOnlyComing, StopCurrent, CancelDialog, RemoveEntry, dialogs
<1>9. ASSUME NEW e \in Timers, Record(e) \/ EditTimer(e)
      PROVE  dialog' # "stop"
  BY <1>1, <1>4, <1>9 DEF Record, EditTimer, dialogs
<1>10. ASSUME NEW e \in Timers, Shortened(e) \/ Finish(e) \/ ConflictAnswer(e)
       PROVE  dialog' # "stop"
  BY <1>2, <1>3, <1>4, <1>10 DEF Shortened, Finish, ConflictAnswer
<1>11. ASSUME NEW e \in Timers, ToggleDisabledState(e)
       PROVE  dialog' # "stop"
  BY <1>1, <1>3, <1>11 DEF ToggleDisabledState, dialogs
<1> QED
  BY <1>5, <1>6, <1>7, <1>8, <1>9, <1>10, <1>11 DEF Next, MainLoop, User

LEMMA NoDialogNext ==
  "dialog" \notin Edits /\ IInv /\ NoDialog /\ [Next]_vars => NoDialog'
<1> SUFFICES ASSUME "dialog" \notin Edits, IInv, NoDialog, [Next]_vars
             PROVE  NoDialog'
  OBVIOUS
<1>1. StepCases /\ dialog' # "stop"
  BY Steps, NoStopDialog DEF NoDialog
<1>2. CASE UNCHANGED <<pc, after>>
  BY <1>1, <1>2 DEF NoDialog
<1>3. ASSUME NEW k \in {"idle", "increase", "shorten"}, Goes(k)
      PROVE  NoDialog'
  BY <1>1, <1>3, GoesOn DEF NoDialog, Stopping
<1>4. CASE \E e \in Timers, z \in Entry : Handles(e, z)
  <2>1. PICK e \in Timers, z \in Entry : Handles(e, z)
    BY <1>4
  <2>2. CASE \/ Requested(e, z) \/ Removed(e, z) \/ Stopped(e, z)
             \/ Increases(e, z) \/ Shortens(e, z)
    BY <1>3, <2>2
       DEF Requested, Removed, Stopped, Increases, Shortens, Retimes, Goes
  <2>3. CASE Stops(e, z)
    BY <2>3 DEF Stops, NoDialog
  <2>4. CASE Turns(e, z)
    BY <1>1, <2>4, GoesOn DEF Turns, NoDialog, Stopping
  <2>5. CASE ReEvaluates(e, z)
    BY <1>2, <2>5 DEF ReEvaluates
  <2> QED BY <2>1, <2>2, <2>3, <2>4, <2>5 DEF Handles
<1>5. CASE TimerExpires \/ AllReEvaluated \/ SetNextActivation \/ ForgetEntry
           \/ Shutdown \/ Crashes
  BY <1>1, <1>5 DEF TimerExpires, CalcNextActivation, AllReEvaluated,
     SetNextActivation, ForgetEntry, Shutdown, Crashes, NoDialog, Stopping
<1>6. CASE Cleanup \/ Tick \/ ClockStep \/ Stutters
  BY <1>2, <1>6 DEF Cleanup, Tick, ClockStep, Stutters, control
<1>7. CASE Rewrites
  BY <1>1, <1>7 DEF Rewrites, NoDialog, Stopping
<1> QED
  BY <1>1, <1>4, <1>5, <1>6, <1>7 DEF StepCases

-----------------------------------------------------------------------------
(* The removal of a timer.                                                 *)

\* removeEntry is at work: it recalculates, or extends the other recordings.
Removing ==
  \/ pc = "increase"
  \/ pc \in {"activate", "timewarp"} /\ after = "increase"

\* A timer that removeEntry has aborted but that has not come to its end: the
\* loop of processActivation will activate it before it returns.
Aborted(x) ==
  /\ pc # "increase"
  /\ x.state \in {Prepared, Running} /\ x.cancelled
  /\ x.begin <= now
  /\ pc = "activate" => x.begin < threshold /\ x.end < threshold

\* The timer being removed is over for good, and has ended or will.
Removal == Removing =>
  /\ subject \in Timers
  /\ entry[subject].repeated = {} /\ ~entry[subject].autoincrease
  /\ entry[subject].end <= now
  /\ subject \in processed_timers \cup pending \/ Aborted(entry[subject])

LEMMA RemovalNext ==
  IInv /\ IInv' /\ Returns /\ Sorted /\ Removal /\ StepCases => Removal'
<1> SUFFICES ASSUME IInv, IInv', Returns, Sorted, Removal, StepCases, Removing'
             PROVE  /\ subject' \in Timers
                    /\ entry'[subject'].repeated = {}
                    /\ ~entry'[subject'].autoincrease
                    /\ entry'[subject'].end <= now'
                    /\ \/ subject' \in processed_timers' \cup pending'
                       \/ Aborted(entry[subject])'
  BY DEF Removal
<1>1. /\ TypeOK /\ Filed /\ entry \in [Timers -> Entry] /\ now \in Int
      /\ threshold \in Int
      /\ Coherent(entry, timer_list, processed_timers, pending)
      /\ pc # "timewarp" => pending = {}
      /\ now < NextSecond /\ NextSecond \in Int
  BY NextSecondProperties DEF IInv, TypeOK, Filed
\* a step that leaves the subject as it was
<1>2. ASSUME Removing, subject' = subject, now' = now,
             entry'[subject] = entry[subject],
             (processed_timers \cup pending) \cap {subject}
               \subseteq processed_timers' \cup pending',
             pc' # "increase",
             pc' = "activate" =>
               \/ threshold' = NextSecond
               \/ pc = "activate" /\ threshold' = threshold
      PROVE  Removal'
  <2>1. /\ subject \in Timers /\ entry[subject] \in Entry
        /\ entry[subject].end \in Int /\ entry[subject].begin \in Int
    BY <1>1, <1>2 DEF Removal, Entry
  <2>2. CASE subject \in processed_timers \cup pending
    BY <1>2, <2>2 DEF Removal
  <2>3. CASE Aborted(entry[subject])
    <3>1. Aborted(entry[subject])'
      BY <1>1, <1>2, <2>1, <2>3 DEF Removal, Aborted
    <3> QED BY <1>2, <3>1 DEF Removal
  <2> QED BY <1>2, <2>2, <2>3 DEF Removal
<1>3. ASSUME NEW e \in Timers, NEW z \in Entry, Handles(e, z)
      PROVE  Removal'
  <2>1. /\ Refiles(e, z) /\ now' = now
        /\ entry'[e] = z
        /\ \A f \in Timers : f # e => entry'[f] = entry[f]
        /\ processed_timers \ {e} \subseteq processed_timers' \cup pending'
        /\ z.state = Ended => e \in processed_timers'
        /\ z.begin \in Int /\ z.end \in Int
    BY <1>1, <1>3, HandlesGoes, RefilesLeaves DEF Refiles, Entry
  <2>2. CASE Requested(e, z)
    BY <2>2, GoesOn DEF Requested, Retimes, Goes, Removal, Removing
  <2>3. CASE Removed(e, z)
    <3>1. /\ pc = "idle" /\ subject' = e
          /\ z.repeated = {} /\ ~z.autoincrease
          /\ z.end <= now /\ z.begin <= now /\ z.cancelled
          /\ \/ z.state = Ended
             \/ z.state # Ended /\ ~Skipped(z) /\ Recalculates("increase")
      BY <2>3 DEF Removed, Retimes
    <3>2. CASE z.state = Ended
      BY <2>1, <3>1, <3>2 DEF Removal
    <3>3. CASE z.state # Ended /\ ~Skipped(z) /\ Recalculates("increase")
      <4>1. z.state \in {Prepared, Running}
        BY <3>1, <3>3
           DEF Skipped, ShouldSkip, Entry, Waiting, Prepared, Running, Ended
      <4>2. /\ pc' \in {"activate", "timewarp"}
            /\ pc' = "activate" => threshold' = NextSecond
        BY <3>3 DEF Recalculates, CalcNextActivation
      <4>3. Aborted(entry[subject])'
        BY <1>1, <2>1, <3>1, <4>1, <4>2 DEF Aborted
      <4> QED BY <2>1, <3>1, <4>3 DEF Removal
    <3> QED BY <3>1, <3>2, <3>3
  <2>4. CASE Stops(e, z) \/ Stopped(e, z) \/ Shortens(e, z)
    BY <2>4, GoesOn DEF Stops, Stopped, Shortens, Retimes, Goes, Removal, Removing
  <2>5. CASE Increases(e, z)
    <3>1. /\ pc = "increase" /\ subject' = subject /\ entry[e].autoincrease
      BY <2>5 DEF Increases
    <3>2. Removing /\ pending = {}
      BY <1>1, <3>1 DEF Removing
    <3>3. /\ subject \in Timers
          /\ entry[subject].repeated = {} /\ ~entry[subject].autoincrease
          /\ entry[subject].end <= now
          /\ subject \in processed_timers
      BY <3>1, <3>2 DEF Removal, Aborted
    <3>4. subject # e /\ entry'[subject] = entry[subject]
      BY <2>1, <3>1, <3>3
    <3> QED BY <2>1, <3>1, <3>3, <3>4 DEF Removal
  <2>6. CASE Turns(e, z)
    <3>1. /\ pc = "activate" /\ subject' = subject /\ e \in Range(timer_list)
          /\ Goes(after) /\ Turn(entry[e], z)
      BY <2>6 DEF Turns
    <3>2. /\ after' = after
          /\ \/ pc' = "activate" /\ UNCHANGED threshold
             \/ pc' = "timewarp"
             \/ pc' = "activate" /\ threshold' = NextSecond
      BY <3>1, GoesOn
    <3>3. CASE after # "increase"
      BY <3>2, <3>3 DEF Removal, Removing
    <3>4. CASE after = "increase" /\ subject # e
      <4>1. Removing /\ subject \in Timers
        BY <3>1, <3>4 DEF Removing, Removal
      <4> QED BY <1>1, <1>2, <2>1, <3>1, <3>2, <3>4, <4>1
    <3>5. CASE after = "increase" /\ subject = e
      <4>1. /\ Removing /\ entry[e].state # Ended
            /\ e \notin processed_timers \cup pending
        BY <1>1, <3>1, <3>5 DEF Removing, Coherent
      <4>2. /\ entry[e].repeated = {} /\ ~entry[e].autoincrease
            /\ entry[e].end <= now /\ entry[e].begin <= now
            /\ entry[e].state \in {Prepared, Running} /\ entry[e].cancelled
            /\ entry[e].begin < threshold /\ entry[e].end < threshold
        BY <3>1, <3>5, <4>1 DEF Removal, Aborted
      <4>3. SameTimes(entry[e], z) /\ z.state \in {Running, Ended}
        BY <3>1, <4>2 DEF Turn
      <4>4. CASE z.state = Ended
        BY <2>1, <3>1, <3>5, <4>2, <4>3, <4>4 DEF Removal, SameTimes
      <4>5. CASE z.state = Running
        <5>1. /\ z.begin = entry[e].begin /\ z.end = entry[e].end /\ z.cancelled
              /\ z.begin \in Int /\ z.end \in Int
          BY <2>1, <4>2, <4>3 DEF SameTimes
        <5>2. /\ pc' # "increase"
              /\ pc' = "activate" => z.begin < threshold' /\ z.end < threshold'
          BY <1>1, <3>2, <4>2, <5>1
        <5>3. entry'[subject'] = z /\ z.begin <= now'
          BY <2>1, <3>1, <3>5, <4>2, <5>1
        <5>4. Aborted(entry[subject])'
          BY <4>5, <5>1, <5>2, <5>3 DEF Aborted
        <5> QED BY <2>1, <3>1, <3>5, <4>2, <4>3, <5>4 DEF Removal, SameTimes
      <4> QED BY <4>3, <4>4, <4>5
    <3> QED BY <3>3, <3>4, <3>5
  <2>7. CASE ReEvaluates(e, z)
    <3>1. /\ pc = "timewarp" /\ UNCHANGED <<pc, threshold, after, subject>>
          /\ pending' = pending \ {e} /\ e \in pending
          /\ processed_timers \subseteq processed_timers'
          /\ entry[e].repeated = {} /\ entry[e].end <= now =>
               /\ z.state = Ended /\ z.end = entry[e].end /\ z.repeated = {}
               /\ z.autoincrease = entry[e].autoincrease
      BY <2>7 DEF ReEvaluates
    <3>2. Removing /\ subject \in Timers
      BY <3>1 DEF Removing, Removal
    <3>3. CASE subject # e
      BY <1>2, <2>1, <3>1, <3>2, <3>3
    <3>4. CASE subject = e
      <4>1. /\ entry[e].repeated = {} /\ ~entry[e].autoincrease
            /\ entry[e].end <= now
        BY <3>2, <3>4 DEF Removal
      <4> QED BY <2>1, <3>1, <3>2, <3>4, <4>1 DEF Removal
    <3> QED BY <3>3, <3>4
  <2> QED BY <1>3, <2>2, <2>3, <2>4, <2>5, <2>6, <2>7 DEF Handles
<1>4. CASE \E e \in Timers, z \in Entry : Handles(e, z)
  BY <1>3, <1>4 DEF Removal
<1>5. CASE TimerExpires
  BY <1>5 DEF TimerExpires, CalcNextActivation, Removing
<1>6. CASE AllReEvaluated
  <2>1. /\ Removing /\ pc' = "activate" /\ threshold' = NextSecond
        /\ subject' = subject /\ now' = now /\ entry' = entry
        /\ processed_timers' = processed_timers /\ pending' = pending
    BY <1>6 DEF AllReEvaluated, Removing, queue, request, dialogs
  <2> QED BY <1>2, <2>1 DEF Removal
<1>7. CASE SetNextActivation
  <2>1. /\ pc = "activate" /\ ~HeadIsDue /\ pc' = after /\ after' = "idle"
        /\ pending = {}
        /\ UNCHANGED <<now, entry, timer_list, processed_timers, pending, subject>>
    BY <1>1, <1>7 DEF SetNextActivation, queue, request, dialogs
  <2>2. Removing /\ pc' = "increase"
    BY <2>1 DEF Removing, Returns, Continuations
  <2>3. ~Aborted(entry[subject])
    <3>1. SUFFICES ASSUME Aborted(entry[subject]) PROVE FALSE
      OBVIOUS
    <3> DEFINE x == entry[subject]
               h == entry[Head(timer_list)]
    <3>2. subject \in Timers /\ x \in Entry
      BY <1>1, <2>2 DEF Removal
    <3>3. /\ x.state \in {Prepared, Running}
          /\ x.begin < threshold /\ x.end < threshold
      BY <2>1, <3>1 DEF Aborted
    <3>4. subject \in Range(timer_list)
      BY <1>1, <3>2, <3>3 DEF Coherent, Prepared, Running, Ended
    <3>5. NextActivation(x) < threshold
      BY <3>3 DEF NextActivation, Waiting, Prepared, Running
    <3>6. /\ timer_list # <<>> /\ h \in Entry
          /\ NextActivation(h) <= NextActivation(x)
      BY <1>1, <3>4, HeadIsFirst
    <3> HIDE DEF x, h
    <3>7. NextActivation(h) < threshold
      BY <1>1, <3>2, <3>5, <3>6, NextActivationIsTime
    <3> QED BY <2>1, <3>6, <3>7 DEF HeadIsDue, h
  <2> QED BY <2>1, <2>2, <2>3 DEF Removal
<1>8. CASE ForgetEntry \/ Shutdown \/ Crashes
  BY <1>8 DEF ForgetEntry, Shutdown, Crashes, Removing
<1>9. CASE Cleanup \/ ClockStep
  BY <1>9 DEF Cleanup, ClockStep, Requests, Removing, control
<1>10. CASE Tick
  <2>1. /\ now' = now + 1 /\ Removing
        /\ UNCHANGED <<entry, processed_timers, pc, threshold, pending, subject>>
    BY <1>10 DEF Tick, queue, control, request, dialogs, Removing
  <2>2. entry[subject].end \in Int /\ entry[subject].begin \in Int
    BY <1>1, <2>1 DEF Removal, Entry
  <2> QED BY <1>1, <2>1, <2>2 DEF Removal, Aborted
<1>11. CASE Stutters \/ Rewrites
  <2>1. pc # "idle" /\ ~Rewrites
    BY <1>11 DEF Stutters, Rewrites, control, Removing
  <2>2. UNCHANGED <<now, entry, queue, control, subject>>
    BY <1>11, <2>1 DEF Stutters
  <2> QED BY <2>2 DEF Removal, Removing, Aborted, queue, control
<1> QED
  BY <1>4, <1>5, <1>6, <1>7, <1>8, <1>9, <1>10, <1>11 DEF StepCases, Removal

-----------------------------------------------------------------------------
(* The sleep of the main loop.                                             *)

\* When no recalculation is under way or owed, the eTimer expires before any
\* entry of the list is due.  Between the stop the dialog asked for and the
\* timeChanged() that follows it, that leaves the subject out.
Sleeps ==
  /\ pc \in {"idle", "increase", "shorten"} =>
       \A e \in Range(timer_list) : wakeup <= NextActivation(entry[e])
  /\ pc \in {"stoponlycurrent", "stopall"} =>
       \A e \in Range(timer_list) \ {subject} : wakeup <= NextActivation(entry[e])

\* With a clock that is only ever set back: an eTimer does not notice that it
\* was set forward.
LEMMA SleepsNext ==
  /\ FiledAtOnce /\ (\A d \in ClockSteps : d <= 0)
  /\ IInv /\ Returns /\ Sorted /\ Sleeps /\ StepCases
  => Sleeps'
<1> SUFFICES ASSUME FiledAtOnce, \A d \in ClockSteps : d <= 0,
                    IInv, Returns, Sorted, Sleeps, StepCases
             PROVE  Sleeps'
  OBVIOUS
<1>1. /\ TypeOK /\ Filed /\ entry \in [Timers -> Entry] /\ now \in Int
      /\ wakeup \in Int
      /\ Range(timer_list) \subseteq Timers
      /\ \A e \in Timers : NextActivation(entry[e]) \in Int
  BY NextActivationIsTime DEF IInv, TypeOK, Filed, Coherent
\* a handler that starts a recalculation owes the rest
<1>2. CASE pc' \notin Continuations
  BY <1>2 DEF Sleeps, Continuations
<1>3. ASSUME NEW e \in Timers, NEW z \in Entry, Handles(e, z)
      PROVE  Sleeps'
  <2>1. /\ Refiles(e, z) /\ wakeup' = wakeup
        /\ \A f \in Timers : f # e => entry'[f] = entry[f]
        /\ Range(timer_list') = IF z.state = Ended THEN Range(timer_list) \ {e}
                                ELSE Range(timer_list) \cup {e}
    BY <1>1, <1>3, HandlesGoes, RefilesLeaves
  <2>2. ASSUME NEW f \in Range(timer_list) \ {e},
               wakeup <= NextActivation(entry[f])
        PROVE  wakeup' <= NextActivation(entry'[f])
    BY <1>1, <2>1, <2>2
  \* what is not over is recalculated for
  <2>3. ASSUME NEW k, Retimes(e, z, k),
               \A f \in Range(timer_list) \ {e} :
                 wakeup <= NextActivation(entry[f]),
               pc' \in {"idle", "increase", "shorten"}
        PROVE  Sleeps'
    <3>1. z.state = Ended
      BY <2>3 DEF Retimes, Recalculates, CalcNextActivation
    <3>2. \A f \in Range(timer_list') : wakeup' <= NextActivation(entry'[f])
      BY <2>1, <2>2, <2>3, <3>1
    <3> QED BY <2>3, <3>2 DEF Sleeps, NextActivation
  <2>4. CASE \/ Requested(e, z) \/ Removed(e, z) \/ Increases(e, z)
             \/ Shortens(e, z)
    <3>1. \A f \in Range(timer_list) : wakeup <= NextActivation(entry[f])
      BY <2>4 DEF Requested, Removed, Increases, Shortens, Sleeps
    <3>2. \E k \in {"idle", "increase", "shorten"} :
            Retimes(e, z, k) /\ pc # "activate"
      BY <2>4 DEF Requested, Removed, Increases, Shortens
    <3>3. pc' \in {"idle", "increase", "shorten", "activate", "timewarp"}
      BY <3>2, GoesOn DEF Retimes, Goes
    <3> QED BY <1>2, <2>3, <3>1, <3>2, <3>3 DEF Continuations
  <2>5. CASE Stopped(e, z)
    <3>1. /\ \A f \in Range(timer_list) \ {e} :
               wakeup <= NextActivation(entry[f])
          /\ Retimes(e, z, "idle") /\ pc # "activate"
      BY <2>5 DEF Stopped, Sleeps
    <3>2. pc' \in {"idle", "activate", "timewarp"}
      BY <3>1, GoesOn DEF Retimes, Goes
    <3> QED BY <1>2, <2>3, <3>1, <3>2 DEF Continuations
  <2>6. CASE Stops(e, z)
    <3>1. /\ \A f \in Range(timer_list) : wakeup <= NextActivation(entry[f])
          /\ subject' = e
      BY <2>6 DEF Stops, Sleeps
    <3>2. pc' \notin {"idle", "increase", "shorten"}
      BY <2>6, GoesOn DEF Stops
    <3>3. \A f \in Range(timer_list') \ {e} :
            wakeup' <= NextActivation(entry'[f])
      BY <2>1, <2>2, <3>1
    <3> QED BY <3>1, <3>2, <3>3 DEF Sleeps, NextActivation
  <2>7. CASE Turns(e, z)
    <3>1. pc' \in {"activate", "timewarp"}
      BY <2>7, GoesOn DEF Turns
    <3> QED BY <1>2, <3>1 DEF Continuations
  <2>8. CASE ReEvaluates(e, z)
    BY <1>2, <2>8 DEF ReEvaluates, Continuations
  <2> QED BY <1>3, <2>4, <2>5, <2>6, <2>7, <2>8 DEF Handles
<1>4. CASE \E e \in Timers, z \in Entry : Handles(e, z)
  BY <1>3, <1>4
<1>5. CASE SetNextActivation
  <2>1. /\ UNCHANGED <<entry, timer_list>> /\ wakeup' = NextWakeup
    BY <1>5 DEF SetNextActivation, queue
  <2>2. ASSUME NEW e \in Range(timer_list)
        PROVE  wakeup' <= NextActivation(entry'[e])
    <3> DEFINE h == NextActivation(entry[Head(timer_list)])
    <3>1. timer_list # <<>> /\ h \in Int /\ h <= NextActivation(entry[e])
      BY <1>1, HeadIsFirst
    <3>2. Poll \in Int
      BY <1>1, TimerAssumption, WholeSecondsProperties DEF Poll
    <3> HIDE DEF h
    <3>3. Least({Poll, h}) \in Int /\ Least({Poll, h}) <= h
      BY <3>1, <3>2, LeastOfTwo
    <3>4. wakeup' = Least({Poll, h})
      BY <2>1, <3>1 DEF NextWakeup, h
    <3>5. NextActivation(entry'[e]) = NextActivation(entry[e])
          /\ NextActivation(entry[e]) \in Int
      BY <1>1, <2>1
    <3> QED BY <3>1, <3>3, <3>4, <3>5
  <2> QED BY <2>1, <2>2 DEF Sleeps, NextActivation
<1>6. ASSUME UNCHANGED <<entry, timer_list>>, wakeup' <= wakeup, wakeup' \in Int,
             \/ UNCHANGED <<pc, subject>>
             \/ {pc, pc'} \subseteq {"idle", "increase", "shorten"}
      PROVE  Sleeps'
  <2>1. \A e \in Range(timer_list) :
          wakeup <= NextActivation(entry[e])
            => wakeup' <= NextActivation(entry'[e])
    BY <1>1, <1>6
  <2> QED BY <1>6, <2>1 DEF Sleeps, NextActivation
<1>7. CASE ForgetEntry
  BY <1>1, <1>6, <1>7 DEF ForgetEntry
<1>8. CASE Cleanup
  BY <1>1, <1>6, <1>8 DEF Cleanup, control, dialogs
<1>9. CASE Tick
  BY <1>1, <1>6, <1>9 DEF Tick, queue, control, request, dialogs
<1>10. CASE ClockStep
  <2>1. PICK d \in ClockSteps : wakeup' = wakeup + d
    BY <1>10 DEF ClockStep
  <2>2. d \in Int /\ d <= 0
    BY TimerAssumption
  <2>3. UNCHANGED <<entry, timer_list, pc, subject>>
    BY <1>10 DEF ClockStep, queue, control, dialogs
  <2> QED BY <1>1, <1>6, <2>1, <2>2, <2>3
<1>11. CASE Stutters
  BY <1>1, <1>6, <1>11 DEF Stutters, queue, control
<1>12. CASE TimerExpires \/ AllReEvaluated \/ Shutdown \/ Crashes
  BY <1>2, <1>12 DEF TimerExpires, CalcNextActivation, AllReEvaluated, Shutdown,
     Crashes, Continuations
<1>13. CASE Rewrites
  BY <1>1, <1>6, <1>13 DEF Rewrites, FiledAtOnce, queue
<1> QED
  BY <1>4, <1>5, <1>7, <1>8, <1>9, <1>10, <1>11, <1>12, <1>13 DEF StepCases

-----------------------------------------------------------------------------
(* The handlers that wait for a recalculation.                             *)

\* Without a change of kind the main loop raises no exception.
NotCrashed == "retype" \notin Edits => pc # "crashed"

LEMMA NotCrashedNext == Returns /\ NotCrashed /\ StepCases => NotCrashed'
<1> SUFFICES ASSUME Returns, NotCrashed, StepCases, "retype" \notin Edits
             PROVE  pc' # "crashed"
  BY DEF NotCrashed
<1>1. pc # "crashed" /\ ~Crashes
  BY DEF NotCrashed, Crashes
<1>2. ASSUME NEW k \in Continuations, Goes(k)
      PROVE  pc' # "crashed"
  BY <1>1, <1>2, GoesOn DEF Continuations
<1>3. CASE \E e \in Timers, z \in Entry : Handles(e, z)
  BY <1>1, <1>2, <1>3, HandlesGoes DEF Turns, ReEvaluates, Returns
<1>4. CASE TimerExpires \/ SetNextActivation
  BY <1>4 DEF TimerExpires, CalcNextActivation, SetNextActivation, Returns,
     Continuations
<1>5. CASE AllReEvaluated \/ ForgetEntry \/ Shutdown
  BY <1>5 DEF AllReEvaluated, ForgetEntry, Shutdown
<1>6. CASE Cleanup \/ Tick \/ ClockStep \/ Stutters \/ Rewrites
  BY <1>1, <1>6 DEF Cleanup, Tick, ClockStep, Stutters, Rewrites, control
<1> QED
  BY <1>1, <1>3, <1>4, <1>5, <1>6 DEF StepCases

\* A request that is not done when its recalculation starts.
Unfinished == {"increase", "stoponlycurrent", "stopall"}
Busy == pc \in Unfinished \/ (pc \in {"activate", "timewarp"} /\ after \in Unfinished)

\* The timer it is about is in the queue or waits to be re-evaluated.
InHand == Range(timer_list) \cup processed_timers \cup pending
SubjectFiled == Busy => subject \in Timers /\ subject \in InHand

LEMMA SubjectFiledNext == IInv /\ SubjectFiled /\ StepCases => SubjectFiled'
<1> SUFFICES ASSUME IInv, SubjectFiled, StepCases PROVE SubjectFiled'
  OBVIOUS
<1>1. /\ TypeOK /\ Filed
      /\ pc # "timewarp" => pending = {}
  BY DEF IInv, Filed
<1>2. CASE ~Busy'
  BY <1>2 DEF SubjectFiled
<1>3. CASE Busy /\ UNCHANGED subject /\ InHand \subseteq InHand'
  BY <1>3 DEF SubjectFiled
<1>4. ASSUME NEW e \in Timers, NEW z \in Entry, Handles(e, z)
      PROVE  SubjectFiled'
  <2>1. /\ Refiles(e, z)
        /\ Range(timer_list') = IF z.state = Ended THEN Range(timer_list) \ {e}
                                ELSE Range(timer_list) \cup {e}
        /\ processed_timers \ {e} \subseteq processed_timers' \cup pending'
        /\ z.state = Ended => e \in processed_timers'
    BY <1>1, <1>4, HandlesGoes, RefilesLeaves DEF Refiles
  <2>2. pending \ {e} \subseteq pending'
    <3>1. CASE ReEvaluates(e, z)
      BY <3>1 DEF ReEvaluates
    <3>2. CASE ~ReEvaluates(e, z)
      BY <1>1, <1>4, <3>2 DEF Handles, Requested, Removed, Stops, Stopped,
         Increases, Shortens, Turns
    <3> QED BY <3>1, <3>2
  <2>3. InHand \cup {e} \subseteq InHand'
    BY <2>1, <2>2 DEF InHand
  <2>4. CASE Requested(e, z) \/ Stopped(e, z) \/ Shortens(e, z)
    <3>1. (Goes("idle") \/ Goes("shorten")) /\ pc # "activate"
      BY <2>4 DEF Requested, Stopped, Shortens, Retimes, Goes
    <3> QED BY <1>2, <3>1, GoesOn DEF Busy, Unfinished
  <2>5. CASE Removed(e, z) \/ Stops(e, z)
    BY <2>3, <2>5 DEF Removed, Stops, SubjectFiled
  <2>6. CASE Increases(e, z)
    BY <1>3, <2>3, <2>6 DEF Increases, Busy, Unfinished
  <2>7. CASE Turns(e, z)
    <3>1. pc = "activate" /\ Goes(after) /\ UNCHANGED subject
      BY <2>7 DEF Turns
    <3>2. pc' \in {"activate", "timewarp"} /\ after' = after
      BY <3>1, GoesOn
    <3>3. CASE after \in Unfinished
      BY <1>3, <2>3, <3>1, <3>3 DEF Busy
    <3>4. CASE after \notin Unfinished
      BY <1>2, <3>2, <3>4 DEF Busy, Unfinished
    <3> QED BY <3>3, <3>4
  <2>8. CASE ReEvaluates(e, z)
    BY <1>2, <1>3, <2>3, <2>8 DEF ReEvaluates, Busy
  <2> QED BY <1>4, <2>4, <2>5, <2>6, <2>7, <2>8 DEF Handles
<1>5. CASE \E e \in Timers, z \in Entry : Handles(e, z)
  BY <1>4, <1>5
<1>6. CASE TimerExpires \/ ForgetEntry \/ Shutdown \/ Crashes
  BY <1>2, <1>6 DEF TimerExpires, CalcNextActivation, ForgetEntry, Shutdown,
     Crashes, Busy, Unfinished
<1>7. CASE Cleanup \/ ClockStep \/ Rewrites
  BY <1>2, <1>7
     DEF Cleanup, ClockStep, Requests, Rewrites, control, Busy, Unfinished
<1>8. CASE AllReEvaluated \/ SetNextActivation \/ Tick
  <2>1. UNCHANGED <<subject, InHand>>
    BY <1>8 DEF AllReEvaluated, SetNextActivation, Tick, queue, control, request,
       dialogs, InHand
  <2>2. Busy' => Busy
    BY <1>8 DEF AllReEvaluated, SetNextActivation, Tick, control, Busy, Unfinished
  <2> QED BY <1>2, <1>3, <2>1, <2>2
<1>9. CASE Stutters
  BY <1>2, <1>3, <1>9 DEF Stutters, queue, control, InHand, Busy, Unfinished
<1> QED
  BY <1>5, <1>6, <1>7, <1>8, <1>9 DEF StepCases

\* No timer leaves the queue but by removeEntry and the cleanup of the list.
LEMMA InHandGrows ==
  ASSUME IInv, StepCases, ~ForgetEntry, ~Cleanup
  PROVE  InHand \subseteq InHand'
<1>1. Filed /\ (pc # "timewarp" => pending = {})
  BY DEF IInv, Filed
<1>2. ASSUME NEW e \in Timers, NEW z \in Entry, Handles(e, z)
      PROVE  InHand \subseteq InHand'
  <2>1. /\ Refiles(e, z)
        /\ Range(timer_list') = IF z.state = Ended THEN Range(timer_list) \ {e}
                                ELSE Range(timer_list) \cup {e}
        /\ processed_timers \ {e} \subseteq processed_timers' \cup pending'
        /\ z.state = Ended => e \in processed_timers'
    BY <1>1, <1>2, HandlesGoes, RefilesLeaves DEF Refiles
  <2>2. pending \ {e} \subseteq pending'
    BY <1>1, <1>2 DEF Handles, Requested, Removed, Stops, Stopped, Increases,
       Shortens, Turns, ReEvaluates
  <2> QED BY <2>1, <2>2 DEF InHand
<1>3. CASE TimerExpires
  BY <1>1, <1>3 DEF TimerExpires, CalcNextActivation, InHand
<1>4. CASE \/ AllReEvaluated \/ SetNextActivation \/ Shutdown \/ Tick \/ ClockStep
           \/ Stutters \/ Rewrites \/ Crashes
  BY <1>4 DEF AllReEvaluated, SetNextActivation, Shutdown, Tick, ClockStep,
     Stutters, Rewrites, Crashes, queue, control, InHand
<1> QED
  BY <1>2, <1>3, <1>4 DEF StepCases

\* removeEntry starts when nothing else is open.
LEMMA RemovingStarts ==
  ASSUME Returns, StepCases, Removing'
  PROVE  Removing \/ subject = NoTimer
<1>1. ASSUME NEW k, k # "increase", Goes(k) PROVE Removing
  BY <1>1, GoesOn DEF Removing
<1>2. ASSUME NEW e \in Timers, NEW z \in Entry, Handles(e, z)
      PROVE  Removing \/ subject = NoTimer
  <2>1. CASE Requested(e, z) \/ Stops(e, z) \/ Stopped(e, z) \/ Shortens(e, z)
    BY <1>1, <2>1 DEF Requested, Stops, Stopped, Shortens, Retimes, Goes
  <2>2. CASE Removed(e, z) \/ Increases(e, z) \/ ReEvaluates(e, z)
    BY <2>2 DEF Removed, Increases, ReEvaluates, Removing
  <2>3. CASE Turns(e, z)
    BY <2>3, GoesOn DEF Turns, Removing
  <2> QED BY <1>2, <2>1, <2>2, <2>3 DEF Handles
<1>3. CASE TimerExpires \/ AllReEvaluated \/ SetNextActivation \/ ForgetEntry
           \/ Shutdown \/ Crashes
  BY <1>3 DEF TimerExpires, CalcNextActivation, AllReEvaluated,
     SetNextActivation, ForgetEntry, Shutdown, Crashes, Removing
<1>4. CASE Cleanup \/ Tick \/ ClockStep \/ Stutters \/ Rewrites
  BY <1>4 DEF Cleanup, Tick, ClockStep, Stutters, Rewrites, control, Removing
<1> QED
  BY <1>2, <1>3, <1>4 DEF StepCases

LEMMA RetimeGoes ==
  ASSUME NEW e, NEW x, NEW k, Retime(e, x, k)
  PROVE  Goes(k)
BY DEF Retime, AddTimerEntry, Goes, Recalculates

\* The timer an open dialog is about stays in hand, unless it is a new one;
\* while one is open no other timer is removed.
OfFiled == {"stop", "edited", "editConflict"}

DialogFiled == dialog # "none" =>
  /\ subject \in Timers /\ ~Removing
  /\ dialog \in OfFiled => subject \in InHand

LEMMA DialogFiledNext ==
  IInv /\ Returns /\ DialogFiled /\ [Next]_vars => DialogFiled'
<1> SUFFICES ASSUME IInv, Returns, DialogFiled, [Next]_vars PROVE DialogFiled'
  OBVIOUS
<1>1. /\ StepCases /\ NoTimer \notin Timers /\ Range(timer_list) \subseteq Timers
      /\ pc # "timewarp" => pending = {}
  BY Steps, TimerAssumption DEF IInv, Filed, Coherent
<1>2. ~ForgetEntry /\ ~Cleanup => InHand \subseteq InHand'
  BY <1>1, InHandGrows
<1>3. ASSUME UNCHANGED <<subject, dialog>>
      PROVE  DialogFiled'
  <2>1. CASE dialog = "none"
    BY <1>3, <2>1 DEF DialogFiled
  <2>2. CASE dialog # "none"
    <3>1. subject \in Timers /\ ~Removing /\ (dialog \in OfFiled => subject \in InHand)
      BY <2>2 DEF DialogFiled
    <3>2. ~ForgetEntry /\ ~Cleanup
      BY <1>1, <3>1 DEF ForgetEntry, Cleanup, Removing
    <3>3. ~Removing'
      BY <1>1, <3>1, RemovingStarts
    <3> QED BY <1>2, <1>3, <3>1, <3>2, <3>3 DEF DialogFiled
  <2> QED BY <2>1, <2>2
<1>4. CASE NoDialogs
  BY <1>4 DEF NoDialogs, DialogFiled
\* a request finds its timer and leaves something open about it
<1>5. ASSUME subject' \in Timers, pc' \in {"idle", "shorten"},
             dialog' \in OfFiled => subject' \in InHand,
             ~ForgetEntry, ~Cleanup
      PROVE  DialogFiled'
  BY <1>2, <1>5 DEF DialogFiled, Removing
<1>6. ASSUME NEW e \in Timers, Requests(e), InQueue(e)
      PROVE  pc = "idle" /\ e \in InHand
  BY <1>6 DEF Requests, InQueue, InHand
<1>7. ASSUME NEW e \in Timers, NEW d, OpenConflict(e, d)
      PROVE  /\ dialog' = d /\ subject' \in Timers
             /\ subject' = e \/ subject' \in InHand
  BY <1>1, <1>7 DEF OpenConflict, InHand
<1>8. CASE TimerExpires \/ ReEvaluate \/ AllReEvaluated \/ ProcessActivation
           \/ SetNextActivation \/ IncreaseNext \/ StandbyCloses \/ Shutdown
  BY <1>3, <1>8 DEF TimerExpires, ReEvaluate, AllReEvaluated,
     ProcessActivation, SetNextActivation, IncreaseNext, StandbyCloses,
     Shutdown, request, dialogs
<1>9. CASE Cleanup \/ ToggleStandby \/ Tick \/ ClockStep \/ UNCHANGED vars
  BY <1>3, <1>9 DEF Cleanup, ToggleStandby, Tick, ClockStep, vars, request, dialogs
<1>10. CASE ForgetEntry
  BY <1>10 DEF ForgetEntry, DialogFiled, Removing
<1>11. CASE RetimeStopped
  BY <1>4, <1>11 DEF RetimeStopped
<1>12. ASSUME NEW e \in Timers,
              \/ Shorten(e) \/ StartInstantRecording(e) \/ ChangeEnd(e)
              \/ StopOnlyComing(e) \/ StopCurrent(e) \/ CancelDialog(e)
       PROVE  DialogFiled'
  BY <1>3, <1>4, <1>12 DEF Shorten, StartInstantRecording, ChangeEnd,
     StopOnlyComing, StopCurrent, CancelDialog, dialogs
<1>13. ASSUME NEW e \in Timers, RemoveEntry(e) PROVE DialogFiled'
  BY <1>1, <1>13 DEF RemoveEntry, DialogFiled
<1>14. ASSUME NEW e \in Timers, Record(e) PROVE DialogFiled'
  <2>1. CASE UNCHANGED dialogs
    BY <1>3, <2>1 DEF dialogs
  <2>2. CASE Conflict(e, "added")
    <3>1. /\ subject' \in Timers /\ pc' = "shorten" /\ dialog' = "added"
      BY <2>2 DEF Conflict
    <3> QED BY <3>1 DEF DialogFiled, Removing, OfFiled
  <2> QED BY <1>14, <2>1, <2>2 DEF Record
<1>15. ASSUME NEW e \in Timers, EditTimer(e) PROVE DialogFiled'
  <2>1. pc = "idle" /\ e \in InHand /\ ~ForgetEntry
    BY <1>6, <1>15 DEF EditTimer, ForgetEntry
  <2>2. CASE UNCHANGED dialogs
    BY <1>3, <2>2 DEF dialogs
  <2>3. CASE UNCHANGED queue /\ Conflict(e, "edited")
    <3>1. subject' = e /\ pc' = "shorten" /\ InHand' = InHand
      BY <2>3 DEF Conflict, queue, InHand
    <3> QED BY <2>1, <3>1 DEF DialogFiled, Removing
  <2>4. CASE subject' = e /\ UNCHANGED <<queue, control>>
    <3>1. pc' = "idle" /\ InHand' = InHand
      BY <2>1, <2>4 DEF queue, control, InHand
    <3> QED BY <2>1, <2>4, <3>1 DEF DialogFiled, Removing
  <2> QED BY <1>15, <2>2, <2>3, <2>4 DEF EditTimer
<1>16. ASSUME NEW e \in Timers, Finish(e) PROVE DialogFiled'
  <2>1. CASE NoDialogs
    BY <1>4, <2>1
  <2>2. CASE UNCHANGED <<entry, queue>> /\ Conflict(e, dialog)
    <3>1. /\ subject = e /\ subject' = e /\ pc' = "shorten" /\ InHand' = InHand
          /\ dialog' = dialog
      BY <1>16, <2>2 DEF Finish, Conflict, queue, InHand
    <3> QED BY <3>1 DEF DialogFiled, Removing
  <2> QED BY <1>16, <2>1, <2>2 DEF Finish
<1>17. ASSUME NEW e \in Timers, ToggleDisabledState(e) PROVE DialogFiled'
  <2>1. /\ pc = "idle" /\ e \in InHand /\ ~ForgetEntry
        /\ subject = NoTimer /\ dialog = "none"
    BY <1>1, <1>6, <1>17 DEF ToggleDisabledState, ForgetEntry, DialogFiled
  <2>2. \/ UNCHANGED dialogs
        \/ /\ \E x : Retime(e, x, "idle")
           /\ subject' = e \/ OpenConflict(e, "editConflict")
    BY <1>17 DEF ToggleDisabledState
  <2>3. CASE UNCHANGED dialogs
    BY <1>3, <2>3 DEF dialogs
  <2>4. CASE /\ \E x : Retime(e, x, "idle")
             /\ subject' = e \/ OpenConflict(e, "editConflict")
    <3>1. Goes("idle")
      BY <2>4, RetimeGoes
    <3>2. ~Removing'
      BY <2>1, <3>1, GoesOn DEF Removing
    <3>3. subject' \in Timers /\ subject' \in InHand
      BY <1>7, <2>1, <2>4
    <3>4. CASE Cleanup
      BY <1>9, <3>4
    <3> QED BY <1>2, <2>1, <3>2, <3>3, <3>4 DEF DialogFiled
  <2> QED BY <2>2, <2>3, <2>4
<1>18. ASSUME NEW e \in Timers, Shortened(e) PROVE DialogFiled'
  <2>1. CASE NoDialogs
    BY <1>4, <2>1
  <2>2. CASE /\ UNCHANGED <<entry, queue>> /\ Continue("idle")
             /\ OpenConflict(e, IF dialog = "edited" THEN "editConflict"
                                ELSE "addConflict")
    <3>1. /\ pc = "shorten" /\ pc' = "idle" /\ subject = e /\ InHand' = InHand
      BY <1>18, <2>2 DEF Shortened, Continue, queue, InHand
    <3>2. /\ dialog' = IF dialog = "edited" THEN "editConflict" ELSE "addConflict"
          /\ subject' \in Timers /\ (subject' = e \/ subject' \in InHand)
      BY <1>7, <2>2
    <3>3. dialog' \in OfFiled => subject' \in InHand
      BY <3>1, <3>2 DEF OfFiled, DialogFiled
    <3> QED BY <3>1, <3>2, <3>3 DEF DialogFiled, Removing
  <2> QED BY <1>18, <2>1, <2>2 DEF Shortened
<1>19. ASSUME NEW e \in Timers, ConflictAnswer(e) PROVE DialogFiled'
  <2>1. /\ pc = "idle" /\ pc' = "idle" /\ subject = e /\ subject' = e
        /\ InHand' = InHand
        /\ dialog \in {"editConflict", "addConflict"}
        /\ dialog' = IF dialog = "editConflict" THEN "edited" ELSE "added"
    BY <1>19 DEF ConflictAnswer, Requests, queue, control, InHand
  <2> QED BY <2>1 DEF DialogFiled, Removing, OfFiled
<1> QED
  BY <1>8, <1>9, <1>10, <1>11, <1>12, <1>13, <1>14, <1>15, <1>16, <1>17, <1>18,
     <1>19 DEF Next, MainLoop, User

-----------------------------------------------------------------------------
(* The invariant of the clock and the lists, and what follows from it.     *)

TimeInv ==
  /\ Returns /\ Polls /\ ClockRuns /\ NotAhead /\ OverOrOff /\ AllRegular
  /\ NotCrashed /\ SubjectFiled /\ DialogFiled
  /\ "dialog" \notin Edits => NoDialog
  /\ FiledAtOnce => Sorted /\ Removal
  /\ FiledAtOnce /\ (\A d \in ClockSteps : d <= 0) => Sleeps

LEMMA InitTimeInv == Init => TimeInv
<1> SUFFICES ASSUME Init PROVE TimeInv
  OBVIOUS
<1>1. TypeOK
  BY InitIInv DEF IInv
<1>2. Returns /\ Polls /\ NotAhead /\ OverOrOff /\ NoDialog /\ Removal
  BY <1>1 DEF Init, Returns, Continuations, Polls, NotAhead, OverOrOff, NoDialog,
     Stopping, Removal, Removing, TypeOK
<1>3. ClockRuns
  BY TimerAssumption DEF Init, ClockRuns
<1>4. AllRegular
  <2> DEFINE s == [begin |-> 0, end |-> 0, repeated |-> {}, justplay |-> FALSE,
                   deepstandby |-> FALSE]
  <2>1. s \in [begin : Int, end : Int, repeated : SUBSET (0 .. Week - 1),
               justplay : BOOLEAN, deepstandby : BOOLEAN] /\ s.repeated = {}
    OBVIOUS
  <2>2. Unrecorded = [NewEntry(s) EXCEPT !.state = Ended]
    BY DEF Unrecorded
  <2> HIDE DEF s
  <2>3. NewEntry(s) \in Entry /\ Regular(NewEntry(s))
    BY <2>1, NewEntryProperties, NewEntryRegular
  <2>4. Ended \in Waiting .. Ended
    BY DEF Waiting, Ended
  <2>5. Regular(Unrecorded)
    BY <2>2, <2>3, <2>4, StateRegular
  <2> QED BY <2>5 DEF Init, AllRegular
<1>5. timer_list = <<>> /\ DOMAIN timer_list = {} /\ Range(timer_list) = {}
  BY EmptySeq DEF Init, Range
<1>6. Sorted /\ Sleeps
  BY <1>5 DEF Sorted, Sleeps
<1>7. NotCrashed /\ SubjectFiled /\ DialogFiled
  BY DEF Init, NotCrashed, SubjectFiled, Busy, Unfinished, DialogFiled
<1> QED
  BY <1>2, <1>3, <1>4, <1>6, <1>7 DEF TimeInv

LEMMA NextTimeInv == IInv /\ IInv' /\ TimeInv /\ [Next]_vars => TimeInv'
<1> SUFFICES ASSUME IInv, IInv', TimeInv, [Next]_vars PROVE TimeInv'
  OBVIOUS
<1>1. /\ TypeOK /\ StepCases
      /\ Returns /\ Polls /\ ClockRuns /\ NotAhead /\ OverOrOff /\ AllRegular
      /\ NotCrashed /\ SubjectFiled /\ DialogFiled
  BY Steps DEF IInv, TimeInv
<1>2. Returns' /\ Polls' /\ ClockRuns' /\ NotAhead' /\ OverOrOff' /\ AllRegular'
  BY <1>1, ReturnsNext, PollsNext, ClockRunsNext, NotAheadNext, OverOrOffNext,
     AllRegularNext
<1>6. NotCrashed' /\ SubjectFiled' /\ DialogFiled'
  BY <1>1, NotCrashedNext, SubjectFiledNext, DialogFiledNext
<1>3. "dialog" \notin Edits => NoDialog'
  BY <1>1, NoDialogNext DEF TimeInv
<1>4. FiledAtOnce => Sorted' /\ Removal'
  BY <1>1, SortedNext, RemovalNext DEF TimeInv
<1>5. FiledAtOnce /\ (\A d \in ClockSteps : d <= 0) => Sleeps'
  BY <1>1, SleepsNext DEF TimeInv
<1> QED
  BY <1>2, <1>3, <1>4, <1>5, <1>6 DEF TimeInv, FiledAtOnce

\* Every reachable state satisfies the two invariants.
THEOREM TimeInvariant == Spec => [](IInv /\ TimeInv)
<1>1. Init => IInv /\ TimeInv
  BY InitIInv, InitTimeInv
<1>2. IInv /\ TimeInv /\ [Next]_vars => (IInv /\ TimeInv)'
  BY NextIInv, NextTimeInv
<1> QED
  BY <1>1, <1>2, PTL DEF Spec

\* Whatever the clock is set to, forward or back, and whatever the user and
\* the tuners do, the eTimer never sleeps longer than MaxWaitTime: the poll
\* that notices a new clock comes in time.
THEOREM PollsAgainAlways == Spec => []PollsAgain
<1>1. TimeInv => PollsAgain
  BY DEF TimeInv, Polls, PollsAgain
<1> QED
  BY <1>1, TimeInvariant, PTL

\* timer_list stays sorted by the activation times its entries have now, as
\* long as every change of an entry is followed at once by its timeChanged():
\* an edit that has found a conflict, or that waits for an answer, is not.
THEOREM SortedAlways ==
  ASSUME FiledAtOnce
  PROVE  Spec => []Sorted
<1>1. TimeInv => Sorted
  BY DEF TimeInv
<1> QED
  BY <1>1, TimeInvariant, PTL

\* When removeEntry comes to drop its timer from processed_timers, the loop of
\* processActivation has brought the timer to its end, whatever state it was
\* in, whatever else was due, and through a step back of the clock.
THEOREM RemovedTimerHasEndedAlways ==
  ASSUME FiledAtOnce
  PROVE  Spec => []RemovedTimerHasEnded
<1>1. IInv /\ TimeInv => RemovedTimerHasEnded
  BY DEF TimeInv, Removal, Removing, Aborted, IInv, Filed, RemovedTimerHasEnded
<1> QED
  BY <1>1, TimeInvariant, PTL

\* No handler of the timers ends the program by an exception of start() or of
\* stopRecordService(), unless a prepared or running timer changed its kind.
THEOREM NeverCrashes ==
  ASSUME "retype" \notin Edits
  PROVE  Spec => [](pc # "crashed")
<1>1. TimeInv => pc # "crashed"
  BY DEF TimeInv, NotCrashed
<1> QED
  BY <1>1, TimeInvariant, PTL

\* A timer whose request is interrupted by a recalculation (removeEntry, the
\* dialog about a running timer) is still in the queue when the recalculation
\* has activated, repeated and re-evaluated what it had to, and so is a timer
\* that was edited, or whose dialog was open, however long that took: the
\* remove() or timeChanged() that is left finds it.
THEOREM SubjectStaysFiled ==
  Spec => [](\/ pc \in Unfinished
             \/ pc # "timewarp" /\ dialog \in {"stop", "edited", "editConflict"}
             => InQueue(subject))
<1>1. IInv /\ TimeInv => (\/ pc \in Unfinished
                          \/ pc # "timewarp" /\ dialog \in OfFiled
                          => InQueue(subject))
  BY DEF IInv, Filed, TimeInv, SubjectFiled, DialogFiled, Busy, Unfinished,
     OfFiled, InHand, InQueue
<1> QED
  BY <1>1, TimeInvariant, PTL DEF OfFiled

\* The main loop never sleeps past the activation of a timer, when every change
\* is filed at once and the clock is not set forward.
THEOREM NeverOversleepsAlways ==
  ASSUME FiledAtOnce, \A d \in ClockSteps : d <= 0
  PROVE  Spec => []NeverOversleeps
<1>1. TimeInv => NeverOversleeps
  BY DEF TimeInv, Sleeps, NeverOversleeps
<1> QED
  BY <1>1, TimeInvariant, PTL

\* When the re-evaluation after a step back of the clock is done, a timer
\* among the processed ones is over or disabled, however many there were.
THEOREM TimewarpRestoresTimersAlways == Spec => TimewarpRestoresTimers
<1>1. TimeInv => (AllReEvaluated =>
        \A e \in processed_timers : entry[e].disabled \/ entry[e].end <= now)
  BY DEF TimeInv, OverOrOff, AllReEvaluated
<1> QED
  BY <1>1, TimeInvariant, PTL DEF TimewarpRestoresTimers

-----------------------------------------------------------------------------
(* What a step does to a tuner, to a start and to a failed activation.     *)

\* An entry changes in a handler, or is written in place.
LEMMA EntryChanges ==
  ASSUME IInv, [Next]_vars, NEW f \in Timers, entry'[f] # entry[f]
  PROVE  \/ Handles(f, entry'[f]) /\ entry'[f] \in Entry
         \/ /\ entry'[f].state = entry[f].state
            /\ entry'[f].record_service => entry[f].record_service
<1>1. StepCases /\ Filed /\ entry \in [Timers -> Entry]
  BY Steps DEF IInv, Filed, QueueTypeOK
<1>2. entry' # entry
  OBVIOUS
<1>3. CASE \E e \in Timers, z \in Entry : Handles(e, z)
  <2>1. PICK e \in Timers, z \in Entry : Handles(e, z)
    BY <1>3
  <2>2. entry'[e] = z /\ \A g \in Timers : g # e => entry'[g] = entry[g]
    BY <1>1, <2>1, HandlesGoes, RefilesLeaves
  <2> QED BY <2>1, <2>2
<1>4. CASE Rewrites
  BY <1>1, <1>2, <1>4 DEF Rewrites
<1>5. CASE TimerExpires \/ AllReEvaluated \/ SetNextActivation \/ ForgetEntry
           \/ Shutdown \/ Cleanup \/ Tick \/ ClockStep
  BY <1>2, <1>5 DEF TimerExpires, AllReEvaluated, SetNextActivation,
     ForgetEntry, Shutdown, Cleanup, Tick, ClockStep
<1>6. CASE Stutters \/ Crashes
  BY <1>2, <1>6 DEF Stutters, Crashes
<1> QED
  BY <1>1, <1>3, <1>4, <1>5, <1>6 DEF StepCases

\* No edit, repetition, re-evaluation or activation ever gives a tuner to a
\* timer that is disabled, unless the conflict screen has disabled it in place.
THEOREM DisabledTakesNoTunerAlways ==
  ASSUME "conflict" \notin Edits
  PROVE  Spec => DisabledTakesNoTuner
<1> DEFINE A == \A e \in Timers : ~entry[e].record_service /\ entry'[e].record_service
                                  => ~entry[e].disabled
<1>1. IInv /\ [Next]_vars => A
  <2> SUFFICES ASSUME IInv, [Next]_vars, NEW e \in Timers,
                      ~entry[e].record_service, entry'[e].record_service
               PROVE  ~entry[e].disabled
    OBVIOUS
  <2>1. Handles(e, entry'[e]) /\ entry'[e] \in Entry
    BY EntryChanges
  <2> QED BY <2>1, HandlesGoes DEF Refiles
<1> QED
  BY <1>1, Invariant, PTL DEF Spec, DisabledTakesNoTuner

\* Unless the dialog stops it, a recording starts in the second its timer
\* begins in or later, although prepare() ran long before, start() may have
\* failed meanwhile and the clock may have been set back.
THEOREM NeverStartsEarlyAlways ==
  ASSUME "dialog" \notin Edits
  PROVE  Spec => NeverStartsEarly
<1> DEFINE A == \A e \in Timers :
                  /\ entry[e].state = Prepared /\ entry'[e].state = Running
                  /\ ~entry[e].cancelled
                  => entry[e].begin < NextSecond /\ entry'[e].begin < NextSecond
<1>1. IInv /\ TimeInv /\ [Next]_vars => A
  <2> SUFFICES ASSUME IInv, TimeInv, [Next]_vars, NEW e \in Timers,
                      entry[e].state = Prepared, entry'[e].state = Running
               PROVE  entry[e].begin < NextSecond /\ entry'[e].begin < NextSecond
    OBVIOUS
  <2> DEFINE x == entry[e]
             z == entry'[e]
  <2>1. Prepared # Running /\ Prepared # Ended /\ Running # Ended /\ Prepared # Waiting
    BY DEF Waiting, Prepared, Running, Ended
  <2>2. Handles(e, z) /\ z \in Entry
    BY <2>1, EntryChanges
  <2>3. /\ ~Requested(e, z) /\ ~Removed(e, z) /\ ~Stopped(e, z)
        /\ ~Increases(e, z) /\ ~Shortens(e, z)
    BY <2>1 DEF Requested, Removed, Stopped, Increases, Shortens, Retimes
  <2>4. ~Stops(e, z)
    BY DEF Stops, TimeInv, NoDialog
  <2>5. ~ReEvaluates(e, z)
    BY <2>1 DEF ReEvaluates, IInv, Filed, Coherent
  <2>6. /\ pc = "activate" /\ HeadIsDue /\ e = Head(timer_list)
        /\ z.begin = x.begin
    <3>1. Turns(e, z)
      BY <2>2, <2>3, <2>4, <2>5 DEF Handles
    <3> QED BY <3>1 DEF Turns, Turn
  <2>7. NextActivation(x) = x.begin
    BY <2>1 DEF NextActivation
  <2>8. /\ x.begin < threshold /\ threshold <= NextSecond
        /\ threshold \in Int /\ NextSecond \in Int
    BY <2>6, <2>7, NextSecondProperties DEF HeadIsDue, TimeInv, NotAhead, IInv, TypeOK
  <2>9. x.begin \in Int
    BY DEF IInv, TypeOK, Entry
  <2> QED BY <2>6, <2>8, <2>9
<1> QED
  BY <1>1, TimeInvariant, PTL DEF Spec, NeverStartsEarly

\* With delays of a second and more, a service that can be found, and a
\* prepare() or start() that fails however often, an activation that is not
\* accepted is due again only after this loop of processActivation, and after
\* a delay that never shrinks.
THEOREM RejectedIsDelayedAlways ==
  ASSUME "noService" \notin Faults,
         TicksPerSecond <= BackoffMin, BackoffMin <= BackoffMax
  PROVE  Spec => RejectedIsDelayed
<1> DEFINE A == LET w == Head(timer_list) IN
                pc = "activate" /\ ProcessActivation /\ Alive'
                  /\ entry[w].state < Running /\ entry'[w].state = entry[w].state
                  /\ entry'[w].repeated = {}
                => /\ NextActivation(entry'[w]) >= threshold
                   /\ NextActivation(entry'[w]) >= now + BackoffMin
                   /\ entry'[w].backoff >= entry[w].backoff
                   /\ entry'[w].backoff <= BackoffMax
<1>1. IInv /\ TimeInv => A
  <2> SUFFICES ASSUME IInv, TimeInv,
                      pc = "activate", ProcessActivation, Alive',
                      entry[Head(timer_list)].state < Running,
                      entry'[Head(timer_list)].state = entry[Head(timer_list)].state,
                      entry'[Head(timer_list)].repeated = {}
               PROVE  /\ NextActivation(entry'[Head(timer_list)]) >= threshold
                      /\ NextActivation(entry'[Head(timer_list)]) >= now + BackoffMin
                      /\ entry'[Head(timer_list)].backoff
                           >= entry[Head(timer_list)].backoff
                      /\ entry'[Head(timer_list)].backoff <= BackoffMax
    BY DEF A
  <2> DEFINE w == Head(timer_list)
             x == entry[w]
             z == entry'[w]
  <2>1. ~Crashes
    BY DEF Crashes, Alive
  <2>2. PICK v \in Entry : Turns(w, v)
    BY <2>1, ProcessActivationCase
  <2>3. w \in Timers /\ z = v /\ Turn(x, z)
    BY <2>2, RefilesLeaves DEF Turns, Refiles, IInv
  <2>4. Delay(x.backoff)
    BY <2>3 DEF TimeInv, AllRegular, Regular
  <2>5. /\ z.backoff \in BackoffMin .. BackoffMax /\ z.backoff >= x.backoff
        /\ NextActivation(z) = now + z.backoff
    BY <2>3, <2>4 DEF Turn
  <2>6. /\ now \in Int /\ TicksPerSecond \in Int /\ threshold \in Int
        /\ BackoffMin \in Int /\ BackoffMax \in Int
        /\ WholeSeconds(now) \in Int /\ WholeSeconds(now) <= now
    <3>1. now \in Int /\ threshold \in Int
      BY DEF IInv, TypeOK
    <3> QED BY <3>1, TimerAssumption, WholeSecondsProperties
  <2>7. threshold <= WholeSeconds(now) + TicksPerSecond
    BY DEF TimeInv, NotAhead, NextSecond
  <2> HIDE DEF x, z
  <2>8. NextActivation(z) >= threshold /\ NextActivation(z) >= now + BackoffMin
    BY <2>5, <2>6, <2>7
  <2> QED BY <2>5, <2>6, <2>8 DEF x, z
<1> QED
  BY <1>1, TimeInvariant, PTL DEF RejectedIsDelayed

-----------------------------------------------------------------------------
(* The shutdown.                                                           *)

\* Only an activation quits the main loop.
LEMMA QuitsInActivation ==
  ASSUME NoDialog, [Next]_vars, ~quit, quit'
  PROVE  ProcessActivation
<1>1. ~(UNCHANGED power)
  BY DEF power
<1>2. ~StandbyCloses /\ ~ToggleStandby
  BY DEF StandbyCloses, ToggleStandby
<1>3. ASSUME NEW e \in Timers PROVE ~StopCurrent(e)
  BY DEF StopCurrent, NoDialog
<1>4. ~TimerExpires /\ ~ReEvaluate /\ ~AllReEvaluated /\ ~SetNextActivation
      /\ ~RetimeStopped /\ ~IncreaseNext /\ ~ForgetEntry /\ ~Shutdown
      /\ ~Cleanup /\ ~Tick /\ ~ClockStep
  BY <1>1 DEF TimerExpires, ReEvaluate, AllReEvaluated, SetNextActivation,
     RetimeStopped, IncreaseNext, ForgetEntry, Shutdown, Cleanup, Tick, ClockStep
<1>5. ASSUME NEW e \in Timers
      PROVE  /\ ~Record(e) /\ ~StartInstantRecording(e) /\ ~ChangeEnd(e)
             /\ ~EditTimer(e) /\ ~ToggleDisabledState(e) /\ ~StopOnlyComing(e)
             /\ ~CancelDialog(e) /\ ~RemoveEntry(e) /\ ~Finish(e)
             /\ ~ConflictAnswer(e) /\ ~Shorten(e) /\ ~Shortened(e)
  BY <1>1 DEF Record, StartInstantRecording, ChangeEnd, EditTimer,
     ToggleDisabledState, StopOnlyComing, CancelDialog, RemoveEntry, Finish,
     ConflictAnswer, Shorten, Shortened
<1> QED
  BY <1>1, <1>2, <1>3, <1>4, <1>5 DEF Next, MainLoop, User, vars

\* getNextRecordingTime of a sorted list is not later than any recording of
\* the list that is not overdue.
LEMMA NextRecordingTimeIsFirst ==
  ASSUME TypeOK, Sorted, NEW e \in Range(timer_list),
         ~entry[e].justplay, NextActivation(entry[e]) >= now
  PROVE  /\ NextRecordingTime(entry) \in Int
         /\ now <= NextRecordingTime(entry)
         /\ NextRecordingTime(entry) <= NextActivation(entry[e])
<1> DEFINE U == {i \in DOMAIN timer_list :
                   LET y == entry[timer_list[i]]
                   IN ~y.justplay /\ NextActivation(y) >= now}
           l == Least(U)
<1>1. /\ DOMAIN timer_list = 1 .. Len(timer_list) /\ Len(timer_list) \in Nat
      /\ \A i \in DOMAIN timer_list : timer_list[i] \in Timers
      /\ \A f \in Timers : NextActivation(entry[f]) \in Int
  BY LenProperties, ElementOfSeq, NextActivationIsTime DEF TypeOK
<1>2. PICK j \in DOMAIN timer_list : timer_list[j] = e
  BY DEF Range
<1>3. j \in U /\ U \in SUBSET Nat
  BY <1>1, <1>2
<1>4. l \in U /\ l <= j
  <2> HIDE DEF U
  <2> QED BY <1>3, LeastOfNats
<1>5. NextRecordingTime(entry) = NextActivation(entry[timer_list[l]])
  BY <1>3 DEF NextRecordingTime
<1> HIDE DEF l
<1>6. l \in DOMAIN timer_list /\ NextActivation(entry[timer_list[l]]) >= now
  BY <1>4
<1>7. NextActivation(entry[timer_list[l]]) <= NextActivation(entry[e])
  <2>1. CASE l = j
    BY <1>1, <1>2, <2>1
  <2>2. CASE l # j
    BY <1>1, <1>2, <1>4, <1>6, <2>2 DEF Sorted
  <2> QED BY <2>1, <2>2
<1> QED
  BY <1>1, <1>5, <1>6, <1>7

\* A recording whose prepare() has just failed is tried again so soon that it
\* forbids a shutdown.
LEMMA FailedPrepareIsSoon ==
  ASSUME TypeOK, ClockRuns, timer_list # <<>>,
         NEW y \in Entry, ~y.justplay,
         NextActivation(y) = now + y.backoff,
         0 <= y.backoff, y.backoff < ShutdownGuard
  PROVE  RecordingSoon(Fields(Head(timer_list), y))
<1> DEFINE es == Fields(Head(timer_list), y)
           U == {i \in DOMAIN timer_list :
                   LET x == es[timer_list[i]]
                   IN ~x.justplay /\ NextActivation(x) >= now}
<1>1. /\ timer_list \in Seq(Timers) /\ now \in Int /\ y.backoff \in Int
      /\ ShutdownGuard \in Nat /\ entry \in [Timers -> Entry]
  BY TimerAssumption DEF TypeOK, Entry
<1>2. /\ DOMAIN timer_list = 1 .. Len(timer_list) /\ 1 \in DOMAIN timer_list
      /\ Head(timer_list) = timer_list[1] /\ timer_list[1] \in Timers
  BY <1>1, LenProperties, EmptySeq, ElementOfSeq
<1>3. es[timer_list[1]] = y
  BY <1>1, <1>2 DEF Fields
<1>4. 1 \in U /\ U \in SUBSET Nat /\ \A i \in U : 1 <= i
  <2>1. NextActivation(y) >= now
    BY <1>1
  <2> HIDE DEF es
  <2> QED BY <1>2, <1>3, <2>1
<1>5. Least(U) = 1
  <2> HIDE DEF U
  <2>1. Least(U) \in U /\ Least(U) <= 1
    BY <1>4, LeastOfNats
  <2>2. Least(U) \in Nat /\ 1 <= Least(U)
    BY <1>4, <2>1
  <2> QED BY <2>1, <2>2
<1>6. NextRecordingTime(es) = NextActivation(es[timer_list[Least(U)]])
  BY <1>4 DEF NextRecordingTime
<1> HIDE DEF es, U
<1>7. NextRecordingTime(es) = now + y.backoff
  BY <1>3, <1>5, <1>6
<1>8. RecordingSoon(es)
  BY <1>1, <1>7 DEF RecordingSoon, ClockRuns
<1> QED
  BY <1>8 DEF es

\* What is known when the main loop is told to quit.  The one entry that may be
\* filed anew is the head, whose end asks for the shutdown.
LEMMA ShutdownDecision ==
  ASSUME IInv, TimeInv, IInv', [Next]_vars, ~quit, quit',
         "retype" \notin Edits, FiledAtOnce, "dialog" \notin Edits,
         BackoffMin <= BackoffMax, BackoffMax < ShutdownGuard
  PROVE  /\ \A e \in Timers : ~Holding(entry'[e])
         /\ Range(timer_list') \subseteq Range(timer_list)
         /\ entry[Head(timer_list)].repeated = {} =>
              Head(timer_list) \notin Range(timer_list')
         /\ \A e \in Range(timer_list) \ {Head(timer_list)} :
              LET due == NextActivation(entry'[e]) IN
              ~entry[e].justplay /\ due >= now => due >= now + ShutdownGuard
<1> DEFINE w == Head(timer_list)
           x == entry[w]
<1>1. ProcessActivation
  BY QuitsInActivation DEF TimeInv
<1>2. /\ TypeOK /\ Filed /\ Sorted /\ TunerHeld /\ TunerHeld' /\ ClockRuns
      /\ timer_list # <<>> /\ pc = "activate"
      /\ Coherent(entry, timer_list, processed_timers, pending)
  BY <1>1
     DEF IInv, TimeInv, ProcessActivation, HeadIsDue, Filed
<1>3. /\ timer_list \in Seq(Timers) /\ w \in Range(timer_list) /\ w \in Timers
      /\ entry \in [Timers -> Entry] /\ x \in Entry
      /\ now \in Int /\ ShutdownGuard \in Int
  <2>1. timer_list \in Seq(Timers) /\ entry \in [Timers -> Entry] /\ now \in Int
    BY <1>2 DEF TypeOK
  <2>2. 1 \in DOMAIN timer_list /\ w = timer_list[1] /\ timer_list[1] \in Timers
    BY <1>2, <2>1, LenProperties, EmptySeq, ElementOfSeq
  <2> QED BY <2>1, <2>2, TimerAssumption DEF Range
<1>4. Delay(x.backoff)
  BY <1>3 DEF TimeInv, AllRegular, Regular
<1>5. PrepareFailed(w, x, after) \/ StopRecording(w, x, after)
  BY <1>1 DEF ProcessActivation, DoActivate, SkipPassed, PrepareOk,
     PrepareRefused, StartCancelled, Zap, StartOk, StartFailed, Autoincrease,
     Crash, power
<1>6. CASE PrepareFailed(w, x, after)
  <2> DEFINE b == DoBackoff(x)
             n == now + b.backoff
             y == [b EXCEPT !.start_prepare = n]
  <2>1. /\ ~x.justplay /\ x.state = Waiting
        /\ RecordEnds(Fields(w, y), m_recordings, receiveRecordEvents)
    BY <1>6 DEF PrepareFailed
  <2>2. /\ b \in Entry /\ b.justplay = x.justplay /\ b.state = Waiting
        /\ b.backoff \in BackoffMin .. BackoffMax
    BY <1>3, <1>4, <2>1, DoBackoffProperties, DoBackoffTimes DEF Kept
  <2> HIDE DEF b
  <2>3. n \in Int
    BY <1>3, <2>2, TimerAssumption
  <2> HIDE DEF n
  <2>4. /\ y \in Entry /\ y.justplay = b.justplay /\ y.state = b.state
        /\ y.backoff = b.backoff /\ y.start_prepare = n
    BY <2>2, <2>3 DEF Entry
  <2> HIDE DEF y
  <2>5. /\ ~y.justplay /\ NextActivation(y) = now + y.backoff
        /\ 0 <= y.backoff /\ y.backoff < ShutdownGuard
    <3>1. BackoffMin \in Nat /\ BackoffMax \in Nat /\ ShutdownGuard \in Nat
      BY TimerAssumption
    <3>2. NextActivation(y) = y.start_prepare
      BY <2>2, <2>4 DEF NextActivation, Waiting, Prepared
    <3>3. y.start_prepare = now + y.backoff
      BY <2>4 DEF n
    <3> QED BY <2>1, <2>2, <2>4, <3>1, <3>2, <3>3
  <2>6. RecordingSoon(Fields(w, y))
    BY <1>2, <2>4, <2>5, FailedPrepareIsSoon
  <2> QED BY <2>1, <2>6 DEF RecordEnds
<1>7. CASE StopRecording(w, x, after)
  <2> DEFINE s == IF ~x.justplay THEN FALSE ELSE x.record_service
             v == [x EXCEPT !.record_service = s]
             u == Accepted(v)
  <2>1. /\ x.state = Running
        /\ Requeue(w, u, after)
        /\ \E left, subscribed :
             /\ m_recordings' = left
             /\ RecordEnds(Fields(w, x), left, subscribed)
    BY <1>7 DEF StopRecording
  <2>2. m_recordings' = {} /\ ~RecordingSoon(Fields(w, x))
    BY <2>1 DEF RecordEnds
  <2>3. Fields(w, x) = entry
    BY <1>3 DEF Fields
  <2>4. v \in Entry /\ v.state = Running /\ v.repeated = x.repeated
    <3>1. s \in BOOLEAN
      BY <1>3 DEF Entry
    <3> HIDE DEF s
    <3> QED BY <1>3, <2>1, <3>1 DEF Entry
  <2> HIDE DEF v
  <2>5. u.state = Ended /\ u.repeated = x.repeated
    <3>1. v.state # Ended /\ v.state + 1 = Ended
      BY <2>4 DEF Running, Ended
    <3> QED BY <2>4, <3>1, AcceptedProperties, AcceptedTimes DEF SameTimes
  <2> HIDE DEF u
  <2>6. PICK z \in Entry : Turns(w, z)
    <3>1. ~Crashes
      BY DEF Crashes, power
    <3> QED BY <1>1, <3>1, ProcessActivationCase
  <2>7. /\ Range(timer_list') \subseteq Range(timer_list)
        /\ \A e \in Timers \ {w} : entry'[e] = entry[e]
    <3>1. Refiles(w, z)
      BY <2>6 DEF Turns
    <3> QED BY <1>2, <1>3, <3>1, RefilesLeaves
  <2>8. ASSUME x.repeated = {} PROVE w \notin Range(timer_list')
    <3>1. timer_list' = Without(timer_list, w)
      BY <2>1, <2>5, <2>8 DEF Requeue
    <3> QED BY <1>2, <1>3, <3>1, WithoutProperties DEF Coherent
  <2>9. \A e \in Timers : ~Holding(entry'[e])
    <3>1. ASSUME NEW e \in Timers PROVE ~Holding(entry'[e])
      <4>1. /\ entry'[e].record_service = Holding(entry'[e])
            /\ ~entry'[e].record_service
        BY <1>2, <2>2 DEF TunerHeld, Holding
      <4> QED BY <4>1
    <3> QED BY <3>1
  <2>10. ASSUME NEW e \in Range(timer_list) \ {w}, ~entry[e].justplay,
               NextActivation(entry'[e]) >= now
        PROVE  NextActivation(entry'[e]) >= now + ShutdownGuard
    <3>1. e \in Range(timer_list) /\ e # w /\ e \in Timers
      BY <1>2, <2>10 DEF Coherent
    <3>2. entry'[e] = entry[e] /\ NextActivation(entry[e]) \in Int
      BY <1>3, <2>7, <3>1, NextActivationIsTime
    <3>3. /\ NextRecordingTime(entry) \in Int
          /\ now <= NextRecordingTime(entry)
          /\ NextRecordingTime(entry) <= NextActivation(entry[e])
      BY <1>2, <2>10, <3>1, <3>2, NextRecordingTimeIsFirst
    <3>4. NextRecordingTime(entry) - now >= ShutdownGuard
      BY <1>2, <1>3, <2>2, <2>3, <3>3 DEF RecordingSoon, ClockRuns
    <3> QED BY <1>3, <3>2, <3>3, <3>4
  <2> QED BY <2>7, <2>8, <2>9, <2>10
<1> QED BY <1>5, <1>6, <1>7

\* When a retry comes sooner than the guard, a shutdown is decided only while
\* no tuner is held and no other recording is near, although doActivate has not
\* yet filed the entry that asks for it.  Its own next occurrence is the one
\* the decision does not see.
THEOREM ShutdownSparesOthers ==
  ASSUME "retype" \notin Edits, FiledAtOnce, "dialog" \notin Edits,
         BackoffMin <= BackoffMax, BackoffMax < ShutdownGuard
  PROVE  Spec =>
           [][~quit /\ quit' =>
                /\ \A e \in Timers : ~Holding(entry'[e])
                /\ \A e \in Range(timer_list') \ {Head(timer_list)} :
                     LET due == NextActivation(entry'[e]) IN
                     ~entry[e].justplay /\ due >= now
                       => due >= now + ShutdownGuard]_vars
<1> DEFINE Spared == /\ \A e \in Timers : ~Holding(entry'[e])
                     /\ \A e \in Range(timer_list') \ {Head(timer_list)} :
                          LET due == NextActivation(entry'[e]) IN
                          ~entry[e].justplay /\ due >= now
                            => due >= now + ShutdownGuard
<1>1. IInv /\ TimeInv /\ (IInv /\ TimeInv)' /\ [Next]_vars
        => (~quit /\ quit' => Spared)
  BY ShutdownDecision
<1> QED
  BY <1>1, TimeInvariant, PTL DEF Spec

\* When recordings are not repeated either, no recording at all is near.
THEOREM ShutdownSparesRecordingsAlways ==
  ASSUME "retype" \notin Edits, FiledAtOnce, "dialog" \notin Edits,
         \A s \in Schedules : s.repeated = {},
         BackoffMin <= BackoffMax, BackoffMax < ShutdownGuard
  PROVE  Spec => ShutdownSparesRecordings
<1> DEFINE Spared == /\ \A e \in Timers : ~Holding(entry'[e])
                     /\ \A e \in Range(timer_list') :
                          LET due == NextActivation(entry'[e]) IN
                          ~entry[e].justplay /\ due >= now
                            => due >= now + ShutdownGuard
<1>1. ASSUME IInv, TimeInv, IInv', [Next]_vars, ~quit, quit'
      PROVE  Spared
  <2>1. Head(timer_list) \in Timers
    <3>1. ProcessActivation
      BY <1>1, QuitsInActivation DEF TimeInv
    <3>2. timer_list # <<>> /\ timer_list \in Seq(Timers)
      BY <1>1, <3>1 DEF ProcessActivation, HeadIsDue, IInv, TypeOK
    <3> QED BY <3>2, HeadTailProperties
  <2>2. entry[Head(timer_list)].repeated = {}
    BY <1>1, <2>1 DEF TimeInv, AllRegular, Regular
  <2> QED BY <1>1, <2>2, ShutdownDecision
<1>2. IInv /\ TimeInv /\ (IInv /\ TimeInv)' /\ [Next]_vars
        => (~quit /\ quit' => Spared)
  BY <1>1
<1> QED
  BY <1>2, TimeInvariant, PTL DEF Spec, ShutdownSparesRecordings
=============================================================================
