---------------------------- MODULE RecordTimer ----------------------------
(***************************************************************************)
(* The recording timers of enigma2: the generic timer queue of timer.py,   *)
(* the recording entries of RecordTimer.py, the recordings that            *)
(* eNavigation (lib/nav/core.cpp) keeps for them, and the requests the      *)
(* screens of the user interface make of them.                             *)
(*                                                                         *)
(* Everything here runs in the one main loop of enigma2.  A request of a   *)
(* screen and the expiry of the eTimer each start a handler, and nothing   *)
(* else runs until it returns.  A handler that recalculates the next       *)
(* activation goes through the loop of processActivation; since each       *)
(* turn of that loop asks time() again and has an outcome of its own (a    *)
(* tuner, a disk), a turn is one step and the clock may move in between.   *)
(*                                                                         *)
(* addTimerEntry called from inside the loop (a repeated timer that has    *)
(* ended) calls calcNextActivation recursively.  When that inner call      *)
(* returns, the head of the list is not due, so the outer loop and the     *)
(* outer recalculation change nothing more: the model continues with the   *)
(* inner loop and returns from both at once.                               *)
(*                                                                         *)
(* Time is counted in ticks, TicksPerSecond of them to the second: time()  *)
(* is a float and int(time()) its whole seconds.                           *)
(***************************************************************************)
EXTENDS Integers, Sequences, FiniteSets, Functions, SequencesExt, FiniteSetsExt

CONSTANTS
  Timers,             \* identities of RecordTimerEntry objects
  TicksPerSecond,
  PrepareTime,        \* TimerEntry.prepare_time (20 s)
  MaxWaitTime,        \* Timer.MaxWaitTime (100 s)
  BackoffMin,         \* first retry delay (5 s)
  BackoffMax,         \* largest retry delay (100 s)
  AutoIncreaseTime,   \* autoincreasetime (one day)
  AutoIncreaseGap,    \* kept free before a conflicting timer (30 s)
  ShutdownGuard,      \* a recording this close forbids a shutdown (360 s)
  Day, Week,          \* ticks in a day; days in a week
  Schedules,          \* what the user may ask to record
  Faults,             \* what a recording service may refuse
  Edits,              \* which unguarded things the user may do
  ClockSteps,         \* corrections of the wall clock
  MaxClock,           \* bound: the wall clock stops there
  MaxRequests,        \* bound: requests of the user and clock corrections
  NoTimer

ASSUME TimerAssumption ==
  /\ NoTimer \notin Timers
  /\ IsFiniteSet(Timers)
  /\ TicksPerSecond \in Nat \ {0}
  /\ {PrepareTime, MaxWaitTime, BackoffMin, BackoffMax, AutoIncreaseTime,
      AutoIncreaseGap, ShutdownGuard, MaxClock, MaxRequests} \subseteq Nat
  /\ {Day, Week} \subseteq Nat \ {0}
  /\ ClockSteps \subseteq Int

\* What a screen fills in: begin <= end, the weekdays of a repeated timer,
\* zap (justplay) or record, and whether it asks for deep standby at its end.
ASSUME ScheduleAssumption ==
  Schedules \subseteq [begin : Nat, end : Nat, repeated : SUBSET (0 .. Week - 1),
                       justplay : BOOLEAN, deepstandby : BOOLEAN]

ASSUME FaultAssumption ==
  /\ Faults \subseteq {"noService", "prepare", "start"}
  /\ Edits \subseteq {"retype", "conflict", "open", "late", "dialog"}

VARIABLES
  now,               \* time()
  entry,             \* the fields of each RecordTimerEntry
  timer_list,        \* sorted by insort
  processed_timers,  \* its order is used by displays only: a set
  lastActivation,
  wakeup,            \* when the eTimer expires, on the wall clock
  m_recordings,      \* eNavigation::m_recordings, by the entry that holds it
  inStandby,         \* Screens.Standby.inStandby is set
  closing,           \* that screen was told to close, and will
  receiveRecordEvents, \* staticGotRecordEvent is subscribed
  quit,              \* quitMainloop was called
  pc,                \* what the main loop executes
  threshold,         \* the local t of processActivation
  after,             \* where the recalculation returns to
  pending,           \* the local tl of calcNextActivation
  subject,           \* the entry a request or an open dialog is about
  dialog,            \* what its answer goes to
  rivals,            \* other timers of simulTimerList
  position,          \* loop index of removeEntry
  requests           \* requests made so far (bound)

queue   == <<timer_list, processed_timers>>
control == <<pc, threshold, after, pending>>
dialogs == <<subject, dialog, rivals>>
request == <<dialogs, position, requests>>
power   == <<inStandby, closing, receiveRecordEvents, quit>>
vars == <<now, entry, queue, lastActivation, wakeup, m_recordings, power,
          control, request>>

Waiting  == 0
Prepared == 1
Running  == 2
Ended    == 3

Entry == [begin : Int, end : Int, start_prepare : Int, state : Waiting .. Ended,
          backoff : Int, repeated : SUBSET (0 .. Week - 1),
          disabled : BOOLEAN, cancelled : BOOLEAN, justplay : BOOLEAN,
          deepstandby : BOOLEAN, autoincrease : BOOLEAN, dontSave : BOOLEAN,
          record_service : BOOLEAN]

-----------------------------------------------------------------------------
(* The methods of an entry, as functions of its fields.                    *)

WholeSeconds(x) == x - (x % TicksPerSecond)          \* int(x)
NextSecond == WholeSeconds(now) + TicksPerSecond     \* int(time()) + 1

PreparedStarts(x) ==  \* variant: started at start_prepare
  IF x.state \in {Waiting, Prepared} THEN x.start_prepare ELSE x.end

NextActivation(x) ==
  CASE x.state = Waiting  -> x.start_prepare
    [] x.state = Prepared -> x.begin
    [] OTHER              -> x.end

TimeChanged(x) ==
  [x EXCEPT !.start_prepare = x.begin - PrepareTime, !.backoff = 0]

\* variant: the state is not reset
ResetNoState(x) == TimeChanged([x EXCEPT !.cancelled = FALSE])

ResetState(x) ==
  TimeChanged([x EXCEPT !.state = Waiting, !.cancelled = FALSE])

NewEntry(s) ==
  ResetState([begin |-> s.begin, end |-> s.end, start_prepare |-> 0,
              state |-> Waiting, backoff |-> 0, repeated |-> s.repeated,
              disabled |-> FALSE, cancelled |-> FALSE, justplay |-> s.justplay,
              deepstandby |-> s.deepstandby, autoincrease |-> FALSE,
              dontSave |-> FALSE, record_service |-> FALSE])

ShouldSkip(x) == x.end <= now /\ x.state = Waiting

\* variant: the end is not moved to now
AbortNoEnd(x) == [x EXCEPT !.cancelled = TRUE]

Abort(x) ==
  [x EXCEPT !.end = now, !.begin = IF @ > now THEN now ELSE @,
            !.cancelled = TRUE]

DoBackoffUncapped(x) ==  \* variant: no largest delay
  [x EXCEPT !.backoff = IF @ = 0 THEN BackoffMin ELSE 2 * @]

DoBackoff(x) ==
  [x EXCEPT !.backoff = IF @ = 0 THEN BackoffMin
                        ELSE IF 2 * @ > BackoffMax THEN BackoffMax ELSE 2 * @]

\* variant: activate() advances the state as well
AcceptedTwice(x) == [x EXCEPT !.state = @ + 2]

\* doActivate: w.state += 1 when activate() accepted
Accepted(x) == [x EXCEPT !.state = @ + 1]

\* The first day, counted from the entry's own, on which it occurs: one of
\* its weekdays, and not over yet (findRunningEvent) or not begun yet.
\* The date a repetition starts at (repeatedbegindate) is its first begin.
Occurs(x, findRunningEvent, k) ==
  /\ ((x.begin + k * Day) \div Day) % Week \in x.repeated
  /\ (IF findRunningEvent THEN x.end ELSE x.begin) + k * Day >= NextSecond

OccurrenceDays(x, findRunningEvent) ==
  {k \in 0 .. Week + NextSecond : Occurs(x, findRunningEvent, k)}

Least(S) == CHOOSE k \in S : \A j \in S : k <= j

ProcessRepeated(x, findRunningEvent) ==
  IF x.repeated = {} \/ OccurrenceDays(x, findRunningEvent) = {} THEN x
  ELSE LET shift == Day * Least(OccurrenceDays(x, findRunningEvent)) IN
       TimeChanged([x EXCEPT
         !.begin = @ + shift,
         !.end = IF x.end = x.begin THEN @ + shift + TicksPerSecond
                 ELSE @ + shift])

-----------------------------------------------------------------------------
(* The queue.  Activations(es, ...) reads the fields es of the entries.    *)

\* variant: append instead of insort
AppendLast(es, list, e) == {Append(list, e)}

\* The indices bisect looks at in lo .. hi - 1 when it ends at p; the last of
\* them are the neighbours of p.
Compared[lo, hi, p \in Nat] ==
  IF lo >= hi THEN {}
  ELSE LET mid == (lo + hi) \div 2
       IN {mid} \cup IF p <= mid THEN Compared[lo, mid, p]
                     ELSE Compared[mid + 1, hi, p]

\* bisect.insort, which does not notice when the list is not sorted: the
\* list (one, as a set) with e in the place its binary search ends at
Insort(es, list, e) ==
  {InsertAt(list, p + 1, e) :
     p \in {q \in 0 .. Len(list) :
             \A i \in (Compared[0, Len(list), q] \cup {q - 1, q})
                        \cap 0 .. Len(list) - 1 :
               q <= i <=> NextActivation(es[e]) < NextActivation(es[list[i + 1]])}}

Without(list, e) == RemoveAt(list, CHOOSE i \in DOMAIN list : list[i] = e)

InQueue(e) == e \in Range(timer_list) \cup processed_timers

\* calcNextActivation up to the loop of processActivation; it returns to k
CalcNextActivation(processed, k) ==
  /\ after' = k
  /\ IF lastActivation > now
     THEN /\ pc' = "timewarp"
          /\ pending' = processed
          /\ processed_timers' = {}
          /\ UNCHANGED threshold
     ELSE /\ pc' = "activate"
          /\ processed_timers' = processed
          /\ threshold' = NextSecond
          /\ UNCHANGED pending

\* a handler that does not recalculate continues at once: in the loop it is
\* in, or else at k
Continue(k) ==
  /\ IF pc = "activate" THEN UNCHANGED <<pc, after>>
     ELSE pc' = k /\ after' = "idle"
  /\ UNCHANGED <<threshold, pending>>

\* variant: disabled is not looked at
SkippedButDisabled(x) == ShouldSkip(x) \/ x.state = Ended

Skipped(x) ==
  \/ ShouldSkip(x)
  \/ x.state = Ended
  \/ x.state = Waiting /\ x.disabled

\* addTimerEntry: entry e with the fields x enters the lists tl and pl
AddTimerEntry(e, x, tl, pl, k) ==
  LET y  == ProcessRepeated(x, TRUE)
      es == [entry EXCEPT ![e] = y]
  IN \/ /\ Skipped(y)
        /\ entry' = [entry EXCEPT ![e] = [y EXCEPT !.state = Ended]]
        /\ timer_list' = tl
        /\ processed_timers' = pl \cup {e}
        /\ Continue(k)
     \/ /\ ~Skipped(y)
        /\ entry' = es
        /\ timer_list' \in Insort(es, tl, e)
        /\ CalcNextActivation(pl, k)

\* Timer.timeChanged(e), for fields x the caller has just written
Retime(e, x, k) ==
  /\ InQueue(e)
  /\ LET y == TimeChanged(x) IN
     IF x.state = Ended
     THEN AddTimerEntry(e, [y EXCEPT !.state = Waiting], timer_list,
                        processed_timers \ {e}, k)
     ELSE AddTimerEntry(e, y, Without(timer_list, e), processed_timers, k)

RequeueLost(w, x, k) ==  \* variant: a started timer is not put back
  /\ entry' = [entry EXCEPT ![w] = x]
  /\ timer_list' \in IF x.state < Running
                     THEN Insort(entry', Without(timer_list, w), w)
                     ELSE {Without(timer_list, w)}
  /\ processed_timers' = IF x.state = Ended THEN processed_timers \cup {w}
                         ELSE processed_timers
  /\ Continue(k)

RequeueTwice(w, x, k) ==  \* variant: not taken out of the list
  /\ entry' = [entry EXCEPT ![w] = x]
  /\ timer_list' \in IF x.state # Ended THEN Insort(entry', timer_list, w)
                     ELSE {Without(timer_list, w)}
  /\ processed_timers' = IF x.state = Ended THEN processed_timers \cup {w}
                         ELSE processed_timers
  /\ Continue(k)

\* RecordTimer.doActivate after w.activate(), which left the fields x
Requeue(w, x, k) ==
  LET es   == [entry EXCEPT ![w] = x]
      rest == Without(timer_list, w)
  IN \/ /\ x.state # Ended
        /\ entry' = es
        /\ timer_list' \in Insort(es, rest, w)
        /\ UNCHANGED processed_timers
        /\ Continue(k)
     \/ /\ x.state = Ended /\ x.repeated # {}
        /\ AddTimerEntry(w, [ProcessRepeated(x, TRUE) EXCEPT !.state = Waiting],
                         rest, processed_timers, k)
     \/ /\ x.state = Ended /\ x.repeated = {}
        /\ entry' = es
        /\ timer_list' = rest
        /\ processed_timers' = processed_timers \cup {w}
        /\ Continue(k)

-----------------------------------------------------------------------------
(* RecordTimerEntry.activate, one operator per outcome.  Each activates    *)
(* entry w with the fields x and lets doActivate return to k.              *)

\* getNextRecordingTime: the first entry of the list that is not overdue
NextRecordingTime(es) ==
  LET upcoming == {i \in DOMAIN timer_list :
                     LET y == es[timer_list[i]]
                     IN ~y.justplay /\ NextActivation(y) >= now}
  IN IF upcoming = {} THEN -1
     ELSE NextActivation(es[timer_list[Least(upcoming)]])

\* variant: upcoming recordings are not looked at
NothingSoon(es) == FALSE

RecordingSoon(es) ==
  /\ NextRecordingTime(es) > 0
  /\ NextRecordingTime(es) - now < ShutdownGuard

\* stopRecordService sends evEnd: staticGotRecordEvent, when it is subscribed
RecordEnds(es, recordings, subscribed) ==
  quit' = (quit \/ (subscribed /\ recordings = {} /\ ~RecordingSoon(es)))

RecordService(recordings, w) == recordings \cup {w}

\* variant: eNavigation does not forget the recording
StopRecordServiceLeaks(recordings, w) == recordings
StopRecordService(recordings, w) == recordings \ {w}

Fields(w, x) == [entry EXCEPT ![w] = x]

\* doActivate does not activate a waiting entry that has already passed
SkipPassed(w, x, k) ==
  /\ ShouldSkip(x)
  /\ Requeue(w, [x EXCEPT !.state = Ended], k)
  /\ UNCHANGED <<m_recordings, power>>

PrepareOk(w, x, k) ==
  /\ x.state = Waiting /\ ~ShouldSkip(x)
  /\ Requeue(w, Accepted([x EXCEPT !.backoff = 0,
                                   !.record_service = ~x.justplay]), k)
  /\ m_recordings' = IF x.justplay THEN m_recordings
                     ELSE RecordService(m_recordings, w)
  /\ UNCHANGED power

\* no service was found in the group, or recordService returned None
PrepareRefused(w, x, k) ==
  /\ "noService" \in Faults
  /\ x.state = Waiting /\ ~ShouldSkip(x) /\ ~x.justplay
  /\ Requeue(w, x, k)
  /\ UNCHANGED <<m_recordings, power>>

\* prepare() failed: back off, and give the service back
PrepareFailed(w, x, k) ==
  LET y == [DoBackoff(x) EXCEPT !.start_prepare = now + DoBackoff(x).backoff]
  IN /\ "prepare" \in Faults
     /\ x.state = Waiting /\ ~ShouldSkip(x) /\ ~x.justplay
     /\ Requeue(w, y, k)
     /\ RecordEnds(Fields(w, y), m_recordings, receiveRecordEvents)
     /\ UNCHANGED <<m_recordings, inStandby, closing, receiveRecordEvents>>

StartCancelled(w, x, k) ==
  /\ x.state = Prepared /\ x.cancelled
  /\ Requeue(w, Accepted(x), k)
  /\ UNCHANGED <<m_recordings, power>>

\* wakes the box from standby; a screen closes when its handler has returned
Zap(w, x, k) ==
  /\ x.state = Prepared /\ ~x.cancelled /\ x.justplay
  /\ Requeue(w, Accepted(x), k)
  /\ closing' = (closing \/ inStandby)
  /\ UNCHANGED <<m_recordings, inStandby, receiveRecordEvents, quit>>

StartOk(w, x, k) ==
  /\ x.state = Prepared /\ ~x.cancelled /\ ~x.justplay /\ x.record_service
  /\ Requeue(w, Accepted(x), k)
  /\ UNCHANGED <<m_recordings, power>>

StartFailedAtOnce(w, x, k) ==  \* variant: begin is not moved
  /\ "start" \in Faults
  /\ x.state = Prepared /\ ~x.cancelled /\ ~x.justplay /\ x.record_service
  /\ Requeue(w, DoBackoff(x), k)
  /\ UNCHANGED <<m_recordings, power>>

StartFailed(w, x, k) ==
  /\ "start" \in Faults
  /\ x.state = Prepared /\ ~x.cancelled /\ ~x.justplay /\ x.record_service
  /\ LET y == DoBackoff(x)
     IN Requeue(w, [y EXCEPT !.begin = now + y.backoff], k)
  /\ UNCHANGED <<m_recordings, power>>

\* setAutoincreaseEnd: up to first, a day more where it is not said, or up to
\* a timer it would conflict with, the entry itself among them: which timers
\* conflict is up to TimerSanityCheck and the tuners
Limits(first) ==
  {first} \cup {entry[y].begin - AutoIncreaseGap :
                 y \in {z \in Range(timer_list) : ~entry[z].disabled}}

DayMore == WholeSeconds(now) + AutoIncreaseTime
IncreasedEnds(first) == {n \in Limits(first) : n > now}
NotIncreased(first) == \E n \in Limits(first) : n <= now

Autoincrease(w, x, k) ==
  /\ x.state = Running /\ x.autoincrease
  /\ \E n \in IncreasedEnds(DayMore) : Requeue(w, [x EXCEPT !.end = n], k)
  /\ UNCHANGED <<m_recordings, power>>

\* stopRecordService, then the entry's after-event
StopRecording(w, x, k) ==
  LET stops == ~x.justplay
      left  == IF stops THEN StopRecordService(m_recordings, w) ELSE m_recordings
      arms  == x.deepstandby /\ inStandby /\ ~receiveRecordEvents
  IN /\ x.state = Running
     /\ x.autoincrease => NotIncreased(DayMore)
     /\ stops => x.record_service
     /\ Requeue(w, Accepted([x EXCEPT !.record_service = IF stops THEN FALSE
                                                         ELSE @]), k)
     /\ m_recordings' = left
     /\ receiveRecordEvents' = (receiveRecordEvents \/ arms)
     /\ RecordEnds(Fields(w, x), left, arms \/ (stops /\ receiveRecordEvents))
     /\ UNCHANGED <<inStandby, closing>>

\* start() or stopRecordService of None: the exception ends the program
Crash(w, x) ==
  /\ ~x.justplay /\ ~x.record_service
  /\ \/ x.state = Prepared /\ ~x.cancelled
     \/ x.state = Running /\ ~x.autoincrease
  /\ pc' = "crashed"
  /\ UNCHANGED <<entry, queue, m_recordings, power, threshold, after, pending>>

DoActivate(w, x, k) ==
  \/ SkipPassed(w, x, k)
  \/ PrepareOk(w, x, k)
  \/ PrepareRefused(w, x, k)
  \/ PrepareFailed(w, x, k)
  \/ StartCancelled(w, x, k)
  \/ Zap(w, x, k)
  \/ StartOk(w, x, k)
  \/ StartFailed(w, x, k)
  \/ Autoincrease(w, x, k)
  \/ StopRecording(w, x, k)
  \/ Crash(w, x)

-----------------------------------------------------------------------------
(* The main loop.                                                          *)

\* the eTimer has expired: its callback is calcNextActivation
TimerExpires ==
  /\ pc = "idle" /\ ~quit
  /\ wakeup <= now
  /\ CalcNextActivation(processed_timers, "idle")
  /\ UNCHANGED <<now, entry, timer_list, lastActivation, wakeup, m_recordings,
                 power, request>>

\* the clock was set back: give a processed timer a chance to re-occur
ReEvaluate ==
  /\ pc = "timewarp"
  /\ \E e \in pending :
       LET x  == ProcessRepeated(ResetState(entry[e]), TRUE)
           es == [entry EXCEPT ![e] = x]
       IN /\ pending' = pending \ {e}
          /\ IF Skipped(x)
             THEN /\ entry' = [entry EXCEPT ![e] = [x EXCEPT !.state = Ended]]
                  /\ processed_timers' = processed_timers \cup {e}
                  /\ UNCHANGED timer_list
             ELSE /\ entry' = es
                  /\ timer_list' \in Insort(es, timer_list, e)
                  /\ UNCHANGED processed_timers
  /\ UNCHANGED <<now, lastActivation, wakeup, m_recordings, power, pc,
                 threshold, after, request>>

AllReEvaluated ==
  /\ pc = "timewarp" /\ pending = {}
  /\ pc' = "activate"
  /\ threshold' = NextSecond
  /\ UNCHANGED <<now, entry, queue, lastActivation, wakeup, m_recordings,
                 power, after, pending, request>>

HeadIsDue ==
  timer_list # <<>> /\ NextActivation(entry[Head(timer_list)]) < threshold

\* one turn of the loop of processActivation
ProcessActivation ==
  /\ pc = "activate" /\ HeadIsDue
  /\ DoActivate(Head(timer_list), entry[Head(timer_list)], after)
  /\ UNCHANGED <<now, lastActivation, wakeup, request>>

Poll == WholeSeconds(now) + MaxWaitTime

\* variant: no poll every MaxWaitTime
NextWakeupHead ==
  IF timer_list = <<>> THEN Poll ELSE NextActivation(entry[Head(timer_list)])

NextWakeup ==
  IF timer_list = <<>> THEN Poll
  ELSE Least({Poll, NextActivation(entry[Head(timer_list)])})

\* the rest of calcNextActivation: setNextActivation
SetNextActivation ==
  /\ pc = "activate" /\ ~HeadIsDue
  /\ lastActivation' = now
  /\ wakeup' = NextWakeup
  /\ pc' = after
  /\ after' = "idle"
  /\ threshold' = 0
  /\ UNCHANGED <<now, entry, queue, m_recordings, power, pending, request>>

-----------------------------------------------------------------------------
(* The requests.  A request is handled when the main loop is free and, as  *)
(* expired timers come first in every iteration, when no timer is due; the *)
(* "late" ones arrive while one is.                                        *)

Requests(e) ==
  /\ pc = "idle" /\ ~quit
  /\ requests < MaxRequests
  /\ "late" \in Edits \/ now < wakeup
  /\ subject \in {e, NoTimer}
  /\ requests' = requests + 1

\* the request is over, or was none to wait for
NoDialogs == subject' = NoTimer /\ dialog' = "none" /\ rivals' = {}

\* check() failed for e: the first conflict may lie between other timers.  Of
\* simulTimerList the loop of finishedEdit and finishedAdd may change only
\* those with autoincrease; the rest is left out of rivals.
Conflict(e, d) ==
  /\ "conflict" \in Edits
  /\ pc' = "shorten"
  /\ subject' = e /\ dialog' = d
  /\ rivals' \in SUBSET {x \in Range(timer_list) \cup {e} :
                           entry'[x].autoincrease /\ ~entry'[x].disabled}
  /\ UNCHANGED <<threshold, after, pending>>

\* TimerSanityConflict opens with timer[0], which need not be e, and the others
OpenConflict(e, d) ==
  \E S \in SUBSET ({x \in Range(timer_list) : ~entry[x].disabled} \cup {e}) :
    /\ subject' \in S
    /\ dialog' = d
    /\ rivals' = S \ {subject'}

\* check() passed: finishedEdit files the entry anew; record() adds it, if
\* doubleCheck does not find it in the list already.  An old timer the
\* conflict screen offered may have ended meanwhile and be processed already.
Accept(e, d) ==
  \/ d = "edited" /\ Retime(e, entry[e], "idle")
  \/ /\ d = "added" /\ e \notin Range(timer_list)
     /\ AddTimerEntry(e, IF e \in processed_timers THEN TimeChanged(entry[e])
                         ELSE ResetState(entry[e]),
                      timer_list, processed_timers \ {e}, "idle")
  \/ /\ d = "added" /\ e \in Range(timer_list)
     /\ UNCHANGED <<entry, queue>>
     /\ Continue("idle")

\* record() for a new entry; until it is filed it counts as ended
Record(e) ==
  /\ ~InQueue(e) /\ Requests(e) /\ subject = NoTimer
  /\ \E s \in Schedules :
       \/ /\ AddTimerEntry(e, NewEntry(s), timer_list, processed_timers, "idle")
          /\ UNCHANGED dialogs
       \/ /\ entry' = [entry EXCEPT ![e] = [NewEntry(s) EXCEPT !.state = Ended]]
          /\ UNCHANGED queue
          /\ Conflict(e, "added")
  /\ UNCHANGED <<now, lastActivation, wakeup, m_recordings, power, position>>

\* startInstantRecording without a limit
StartInstantRecording(e) ==
  /\ ~InQueue(e) /\ Requests(e) /\ subject = NoTimer
  /\ \E n \in IncreasedEnds(DayMore) :
       LET x == [NewEntry([begin |-> WholeSeconds(now), end |-> n,
                           repeated |-> {}, justplay |-> FALSE,
                           deepstandby |-> FALSE])
                 EXCEPT !.autoincrease = TRUE, !.dontSave = TRUE]
       IN AddTimerEntry(e, x, timer_list, processed_timers, "idle")
  /\ UNCHANGED <<now, lastActivation, wakeup, m_recordings, power, dialogs,
                 position>>

\* changeDuration and setEndtime of an instant recording, which stays one that
\* is extended when the end is not changed or the duration is 0
ChangeEnd(e) ==
  /\ InQueue(e) /\ entry[e].dontSave /\ Requests(e) /\ subject = NoTimer
  /\ LET x == entry[e] IN
     \/ \E s \in Schedules :
          Retime(e, [x EXCEPT !.end = s.end, !.autoincrease = FALSE], "idle")
     \/ \E n \in {x.end, WholeSeconds(now)} :
          Retime(e, [x EXCEPT !.end = n], "idle")
  /\ UNCHANGED <<now, lastActivation, wakeup, m_recordings, power, dialogs,
                 position>>

\* the fields the TimerEntry screen writes into the entry in place (keyGo)
Edited(x, s) ==
  [x EXCEPT !.begin = s.begin, !.end = s.end, !.repeated = s.repeated,
            !.justplay = s.justplay, !.deepstandby = s.deepstandby]

Editable(x, s) ==
  "retype" \in Edits \/ x.state \notin {Prepared, Running} \/ s.justplay = x.justplay

Edit(e, s) ==
  /\ Editable(entry[e], s)
  /\ entry' = [entry EXCEPT ![e] = Edited(@, s)]

\* keyGo and finishedEdit, or keyGo alone when something comes between them:
\* the box that asks for a subservice, or only the next turn of the main loop
EditTimer(e) ==
  /\ InQueue(e) /\ Requests(e) /\ subject = NoTimer
  /\ \E s \in Schedules :
       \/ /\ Editable(entry[e], s)
          /\ Retime(e, Edited(entry[e], s), "idle")
          /\ UNCHANGED dialogs
       \/ Edit(e, s) /\ UNCHANGED queue /\ Conflict(e, "edited")
       \/ /\ "open" \in Edits
          /\ Edit(e, s)
          /\ subject' = e /\ dialog' = "edited"
          /\ UNCHANGED <<queue, control, rivals>>
  /\ UNCHANGED <<now, lastActivation, wakeup, m_recordings, power, position>>

\* finishedEdit and finishedAdd, called back when the screen has closed
Finish(e) ==
  /\ pc = "idle" /\ ~quit
  /\ subject = e /\ dialog \in {"edited", "added"}
  /\ \/ Accept(e, dialog) /\ NoDialogs
     \/ UNCHANGED <<entry, queue>> /\ Conflict(e, dialog)
  /\ UNCHANGED <<now, lastActivation, wakeup, m_recordings, power, position,
                 requests>>

\* toggleDisabledState; enabling is undone when the sanity check fails or
\* finds a double, and a conflict opens its screen
ToggleDisabledState(e) ==
  /\ InQueue(e) /\ Requests(e) /\ subject = NoTimer
  /\ LET x == entry[e] IN
     \/ /\ x.disabled
        /\ \E double \in BOOLEAN :
             Retime(e, [x EXCEPT !.disabled = double], "idle")
        /\ UNCHANGED dialogs
     \/ /\ x.disabled /\ "conflict" \in Edits
        /\ Retime(e, x, "idle")
        /\ OpenConflict(e, "editConflict")
     \/ /\ ~x.disabled /\ x.state # Running
        /\ Retime(e, [x EXCEPT !.disabled = TRUE], "idle")
        /\ UNCHANGED dialogs
     \/ /\ ~x.disabled /\ x.state = Running
        /\ Retime(e, x, "idle")
        /\ UNCHANGED dialogs
     \/ /\ ~x.disabled /\ x.state = Running
        /\ x.repeated # {} /\ "dialog" \in Edits
        /\ Retime(e, x, "idle")
        /\ subject' = e /\ dialog' = "stop" /\ UNCHANGED rivals
  /\ UNCHANGED <<now, lastActivation, wakeup, m_recordings, power, position>>

\* runningEventCallback, however long the ChoiceBox was open
StopOnlyComing(e) ==
  /\ subject = e /\ dialog = "stop" /\ Requests(e)
  /\ Retime(e, [entry[e] EXCEPT !.disabled = TRUE], "idle")
  /\ NoDialogs
  /\ UNCHANGED <<now, lastActivation, wakeup, m_recordings, power, position>>

StopCurrent(e) ==
  /\ subject = e /\ dialog = "stop" /\ e \in Range(timer_list) /\ Requests(e)
  /\ \E k \in {"stoponlycurrent", "stopall"} :
       DoActivate(e, ProcessRepeated([entry[e] EXCEPT !.disabled = FALSE], FALSE), k)
  /\ UNCHANGED <<now, lastActivation, wakeup, dialogs, position>>

RetimeStopped ==
  /\ pc \in {"stoponlycurrent", "stopall"}
  /\ Retime(subject, [entry[subject] EXCEPT !.disabled = (pc = "stopall")], "idle")
  /\ NoDialogs
  /\ UNCHANGED <<now, lastActivation, wakeup, m_recordings, power, position,
                 requests>>

\* the ChoiceBox and the conflict screen are left without an answer
CancelDialog(e) ==
  /\ subject = e /\ dialog \in {"stop", "editConflict", "addConflict"}
  /\ Requests(e)
  /\ NoDialogs
  /\ UNCHANGED <<now, entry, queue, lastActivation, wakeup, m_recordings, power,
                 control, position>>

\* In the conflict screen the user changes nothing, toggles a timer or edits
\* one, in place; the screen closes with timer[0], which is checked again.
ConflictAnswer(e) ==
  /\ "conflict" \in Edits
  /\ subject = e /\ dialog \in {"editConflict", "addConflict"} /\ Requests(e)
  /\ \/ UNCHANGED entry
     \/ \E x \in rivals \cup {e} :
          /\ entry[x].disabled \/ entry[x].state # Running
          /\ entry' = [entry EXCEPT ![x].disabled = ~@]
     \/ \E x \in rivals \cup {e}, s \in Schedules : Edit(x, s)
  /\ dialog' = IF dialog = "editConflict" THEN "edited" ELSE "added"
  /\ rivals' = {}
  /\ UNCHANGED <<now, queue, lastActivation, wakeup, m_recordings, power,
                 control, subject, position>>

\* setAutoincreaseEnd, and timeChanged when it answered True
Extend(x, first, k) ==
  \/ /\ entry[x].autoincrease
     /\ \E n \in IncreasedEnds(first) : Retime(x, [entry[x] EXCEPT !.end = n], k)
  \/ /\ entry[x].autoincrease => NotIncreased(first)
     /\ UNCHANGED <<entry, queue, control>>

\* the loop over simulTimerList: recordings that are extended give way to the
\* new timer and are filed anew, while an edited one still lies where it did
Shorten(e) ==
  /\ pc = "shorten" /\ subject = e
  /\ \E x \in rivals :
       /\ rivals' = rivals \ {x}
       /\ Extend(x, entry[e].begin - AutoIncreaseGap, "shorten")
  /\ UNCHANGED <<now, lastActivation, wakeup, m_recordings, power, subject,
                 dialog, position, requests>>

\* the second check
Shortened(e) ==
  /\ pc = "shorten" /\ subject = e /\ rivals = {}
  /\ \/ Accept(e, dialog) /\ NoDialogs
     \/ /\ UNCHANGED <<entry, queue>>
        /\ Continue("idle")
        /\ OpenConflict(e, IF dialog = "edited" THEN "editConflict"
                                 ELSE "addConflict")
  /\ UNCHANGED <<now, lastActivation, wakeup, m_recordings, power, position,
                 requests>>

\* removeEntry: abort, timeChanged, extend instant recordings, forget
RemoveEntry(e) ==
  /\ InQueue(e) /\ Requests(e) /\ subject = NoTimer
  /\ subject' = e
  /\ position' = 1
  /\ LET x == Abort([entry[e] EXCEPT !.repeated = {}, !.autoincrease = FALSE,
                                     !.deepstandby = FALSE])
     IN \/ x.state # Ended /\ Retime(e, x, "increase")
        \/ /\ x.state = Ended
           /\ entry' = [entry EXCEPT ![e] = x]
           /\ UNCHANGED queue
           /\ Continue("increase")
  /\ UNCHANGED <<now, lastActivation, wakeup, m_recordings, power, dialog,
                 rivals>>

IncreaseNext ==
  /\ pc = "increase"
  /\ ~entry[subject].dontSave /\ position <= Len(timer_list)
  /\ position' = position + 1
  /\ Extend(timer_list[position], DayMore, "increase")
  /\ UNCHANGED <<now, lastActivation, wakeup, m_recordings, power, dialogs,
                 requests>>

ForgetEntry ==
  /\ pc = "increase"
  /\ entry[subject].dontSave \/ position > Len(timer_list)
  /\ subject \in processed_timers
  /\ processed_timers' = processed_timers \ {subject}
  /\ subject' = NoTimer
  /\ position' = 0
  /\ pc' = "idle"
  /\ UNCHANGED <<now, entry, timer_list, lastActivation, wakeup, m_recordings,
                 power, threshold, after, pending, dialog, rivals, requests>>

Cleanup ==
  /\ Requests(NoTimer) /\ subject = NoTimer
  /\ processed_timers' = {e \in processed_timers : entry[e].disabled}
  /\ UNCHANGED <<now, entry, timer_list, lastActivation, wakeup, m_recordings,
                 power, control, dialogs, position>>

\* The standby screen has closed; what is below it opens the queued
\* TryQuitMainloop screen, and that ends the subscription.
WakeUp ==
  /\ inStandby' = FALSE
  /\ closing' = FALSE
  /\ receiveRecordEvents' = FALSE

ToggleStandby ==
  /\ Requests(NoTimer) /\ subject = NoTimer
  /\ \/ ~inStandby /\ inStandby' = TRUE /\ UNCHANGED <<closing, receiveRecordEvents>>
     \/ inStandby /\ WakeUp
  /\ UNCHANGED <<now, entry, queue, lastActivation, wakeup, m_recordings, quit,
                 control, dialogs, position>>

StandbyCloses ==
  /\ pc = "idle" /\ closing
  /\ WakeUp
  /\ UNCHANGED <<now, entry, queue, lastActivation, wakeup, m_recordings, quit,
                 control, request>>

-----------------------------------------------------------------------------
(* The environment and the end of the program.                             *)

Alive == pc \notin {"crashed", "stopped"}

Tick ==
  /\ Alive /\ now < MaxClock
  /\ now' = now + 1
  /\ UNCHANGED <<entry, queue, lastActivation, wakeup, m_recordings, power,
                 control, request>>

\* eDVBLocalTimeHandler sets the clock from the transponder time.  An eTimer
\* counts monotonic time: its distance from now does not change.
ClockStep ==
  /\ pc = "idle" /\ ~quit
  /\ requests < MaxRequests
  /\ requests' = requests + 1
  /\ \E d \in ClockSteps :
       /\ now + d \in 1 .. MaxClock
       /\ now' = now + d
       /\ wakeup' = wakeup + d
  /\ UNCHANGED <<entry, queue, lastActivation, m_recordings, power, control,
                 dialogs, position>>

\* the main loop returns after quitMainloop
Shutdown ==
  /\ pc = "idle" /\ quit
  /\ pc' = "stopped"
  /\ UNCHANGED <<now, entry, queue, lastActivation, wakeup, m_recordings, power,
                 threshold, after, pending, request>>

MainLoop ==
  \/ TimerExpires
  \/ ReEvaluate
  \/ AllReEvaluated
  \/ ProcessActivation
  \/ SetNextActivation
  \/ RetimeStopped
  \/ IncreaseNext
  \/ ForgetEntry
  \/ \E e \in Timers : Shorten(e) \/ Shortened(e)
  \/ StandbyCloses
  \/ Shutdown

User ==
  \/ \E e \in Timers :
       \/ Record(e)
       \/ StartInstantRecording(e)
       \/ ChangeEnd(e)
       \/ EditTimer(e)
       \/ Finish(e)
       \/ ConflictAnswer(e)
       \/ ToggleDisabledState(e)
       \/ StopOnlyComing(e)
       \/ StopCurrent(e)
       \/ CancelDialog(e)
       \/ RemoveEntry(e)
  \/ Cleanup
  \/ ToggleStandby

Unrecorded ==
  [NewEntry([begin |-> 0, end |-> 0, repeated |-> {}, justplay |-> FALSE,
             deepstandby |-> FALSE]) EXCEPT !.state = Ended]

Init ==
  /\ now = TicksPerSecond
  /\ entry = [e \in Timers |-> Unrecorded]
  /\ timer_list = <<>>
  /\ processed_timers = {}
  /\ lastActivation = now
  /\ wakeup = now + MaxWaitTime
  /\ m_recordings = {}
  /\ inStandby \in BOOLEAN
  /\ closing = FALSE
  /\ receiveRecordEvents = FALSE
  /\ quit = FALSE
  /\ pc = "idle"
  /\ threshold = 0
  /\ after = "idle"
  /\ pending = {}
  /\ subject = NoTimer
  /\ dialog = "none"
  /\ rivals = {}
  /\ position = 0
  /\ requests = 0

Next == MainLoop \/ User \/ Tick \/ ClockStep

Spec == Init /\ [][Next]_vars

\* The main loop keeps running and time passes.
FairSpec == Spec /\ WF_vars(MainLoop) /\ WF_vars(Tick)

-----------------------------------------------------------------------------
(* Properties.                                                             *)

Controls == {"idle", "timewarp", "activate", "increase", "shorten",
             "stoponlycurrent", "stopall", "crashed", "stopped"}
Dialogs == {"none", "stop", "edited", "added", "editConflict", "addConflict"}

\* The types of the variables.
TypeOK ==
  /\ now \in Int
  /\ entry \in [Timers -> Entry]
  /\ timer_list \in Seq(Timers)
  /\ processed_timers \subseteq Timers
  /\ lastActivation \in Int
  /\ wakeup \in Int
  /\ m_recordings \subseteq Timers
  /\ {inStandby, closing, receiveRecordEvents, quit} \subseteq BOOLEAN
  /\ pc \in Controls
  /\ threshold \in Int
  /\ after \in Controls
  /\ pending \subseteq Timers
  /\ subject \in Timers \cup {NoTimer}
  /\ dialog \in Dialogs
  /\ rivals \subseteq Timers
  /\ position \in Int
  /\ requests \in Nat

Holding(x) == x.state \in {Prepared, Running} /\ ~x.justplay

\* An entry is filed once: in timer_list as long as it has not ended, among
\* the processed timers (or those being re-evaluated) afterwards.  doActivate,
\* timeChanged and removeEntry all take an entry out of one list by its state
\* and put it into another by its new state.
FiledOnce ==
  /\ IsInjective(timer_list)
  /\ \A e \in Range(timer_list) : entry[e].state # Ended
  /\ \A e \in processed_timers \cup pending : entry[e].state = Ended
  /\ processed_timers \cap pending = {}

\* A tuner is held exactly by the recordings that are prepared or running:
\* no path through failed preparation, removal, editing or the repetition of
\* a timer leaks a recording service or starts without one, and eNavigation
\* knows the same recordings as the timers do.
TunerHeld ==
  /\ \A e \in Timers : entry[e].record_service = Holding(entry[e])
  /\ m_recordings = {e \in Timers : entry[e].record_service}

\* timer_list is sorted by the activation times its entries have now, although
\* the fields of an entry are changed while it is in the list.  The code keeps
\* it only where every edit is filed at once: not through a conflict, nor while
\* a box is open between keyGo and finishedEdit.
Sorted ==
  \A i, j \in DOMAIN timer_list :
    i < j => NextActivation(entry[timer_list[i]])
               <= NextActivation(entry[timer_list[j]])

\* When the main loop sleeps, the eTimer wakes it before any timer is due.
NeverOversleeps ==
  pc = "idle" =>
    \A e \in Range(timer_list) : wakeup <= NextActivation(entry[e])

\* Whatever the clock was set to, the queue is polled again soon.
PollsAgain == pc = "idle" => wakeup <= now + MaxWaitTime

\* removeEntry drops the entry from processed_timers at its end without
\* asking: the recalculation before it must have aborted the timer, whatever
\* state it was in and whatever else was due.
RemovedTimerHasEnded == pc = "increase" => subject \in processed_timers

\* A disabled timer takes no tuner: it stays out of timer_list through every
\* edit, repetition and re-evaluation.  The conflict screen breaks this: it
\* disables waiting timers where they are.
DisabledTakesNoTuner ==
  [][\A e \in Timers : ~entry[e].record_service /\ entry'[e].record_service
       => ~entry[e].disabled]_vars

\* An activation that is not accepted is retried later, after this loop of
\* processActivation has returned, and ever more slowly: "the timer entry
\* itself will fix up the delay then" (timer.py:257).
RejectedIsDelayed ==
  [][LET w == Head(timer_list) IN
     pc = "activate" /\ ProcessActivation /\ Alive'
       /\ entry[w].state < Running /\ entry'[w].state = entry[w].state
       /\ entry'[w].repeated = {}
     => /\ NextActivation(entry'[w]) >= threshold
        /\ NextActivation(entry'[w]) >= now + BackoffMin
        /\ entry'[w].backoff >= entry[w].backoff
        /\ entry'[w].backoff <= BackoffMax]_vars

\* No recording starts before the second its timer begins in.
NeverStartsEarly ==
  [][\A e \in Timers :
       /\ entry[e].state = Prepared /\ entry'[e].state = Running
       /\ ~entry[e].cancelled
       => entry[e].begin < NextSecond /\ entry'[e].begin < NextSecond]_vars

\* A shutdown is decided only when nothing is being recorded and no timer
\* that is not yet due will be within ShutdownGuard, although the decision is
\* taken in the middle of an activation, before the list is updated.
ShutdownSparesRecordings ==
  [][~quit /\ quit' =>
       /\ \A e \in Timers : ~Holding(entry'[e])
       /\ \A e \in Range(timer_list') :
            LET due == NextActivation(entry'[e]) IN
            ~entry[e].justplay /\ due >= now => due >= now + ShutdownGuard]_vars

\* After the clock was set back, no timer that may still occur is left among
\* the processed ones.
TimewarpRestoresTimers ==
  [][AllReEvaluated =>
       \A e \in processed_timers : entry[e].disabled \/ entry[e].end <= now]_vars

\* Every handler of the main loop returns: processActivation does not keep
\* on activating timers.
HandlersReturn ==
  pc \notin {"idle", "crashed", "stopped"} ~> pc \in {"idle", "crashed", "stopped"}

\* Every recording with an end is stopped, and its tuner given back.
RecordingsEnd ==
  \A e \in Timers :
    Holding(entry[e]) /\ entry[e].state = Running /\ ~entry[e].autoincrease
      /\ entry[e].end < MaxClock
    ~> \/ ~entry[e].record_service
       \/ entry[e].end >= MaxClock
       \/ ~Alive
=============================================================================
