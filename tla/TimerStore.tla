----------------------------- MODULE TimerStore -----------------------------
(***************************************************************************)
(* The timer file of enigma2, timers.xml: what saveTimer writes, what      *)
(* loadTimer makes of it (RecordTimer.py), and which changes of the timers *)
(* are followed by a save.  The power may fail between any two steps.      *)
(*                                                                         *)
(* saveTimer opens the file for writing, which empties it, and the text    *)
(* reaches it when it is closed: in between the file does not parse.       *)
(* loadTimer records the timers of the file one by one, and record saves,  *)
(* each time, what has been loaded so far.                                 *)
(*                                                                         *)
(* The timers are those of one service: another's are no doubles, and      *)
(* which timers conflict is open.  A timer that repeats does so every Day; *)
(* processRepeated moves it whenever it is filed.  How long a timer lasts  *)
(* that is not saved (its end is moved by others, setAutoincreaseEnd) is   *)
(* open.  What is kept does not depend on the order of the lists: they are *)
(* sets, and the file is read in any order.  The steps of a recording are  *)
(* RecordTimer's business: here a timer waits, or runs and stays listed.   *)
(***************************************************************************)
EXTENDS Integers

CONSTANTS
  Timers,   \* identities of RecordTimerEntry objects
  Begins, Lengths, \* what the dialog offers
  Day,      \* from one occurrence of a repeated timer to the next
  LastTime, \* bound: the clock stops here
  NoTimer

ASSUME StoreAssumption ==
  /\ NoTimer \notin Timers
  /\ Begins \subseteq Nat /\ Lengths \subseteq Nat
  /\ Day \in Nat \ {0} /\ LastTime \in Nat

VARIABLES
  entry,             \* the fields of each RecordTimerEntry
  timer_list, processed_timers,
  now,
  file,              \* timers.xml: "absent", "torn" or "whole"
  text,              \* the elements in it, none if it is not whole
  rest,              \* the elements loadTimer has not come to yet
  pc,                \* what the main loop does next
  after,             \* and when saveTimer returns
  subject,           \* the entry a screen or removeEntry is about
  wanted,            \* observed: the starts the user knows to be stored
  gone               \* observed: the timers whose removal has returned

memory == <<entry, timer_list, processed_timers>>
disk   == <<file, text>>
seen   == <<wanted, gone>>
vars   == <<memory, now, disk, rest, pc, after, subject, seen>>

Entry ==
  [begin : Nat, length : Nat, repeated : BOOLEAN, disabled : BOOLEAN,
   dontSave : BOOLEAN]
Element == [id : Timers, timer : Entry]

Blank == [begin |-> 0, length |-> 0, repeated |-> FALSE, disabled |-> FALSE,
          dontSave |-> FALSE]

Filed == timer_list \cup processed_timers
Ids(elements) == {x.id : x \in elements}

\* the starts to come that elements of a file would have recorded
Planned(elements) ==
  {b \in {x.timer.begin : x \in {y \in elements : ~y.timer.disabled}} : b > now}

\* the starts to come that the list says will be recorded and are to be saved
Listed ==
  {b \in {entry[t].begin :
            t \in {u \in timer_list : ~entry[u].disabled /\ ~entry[u].dontSave}} :
     b > now}

-----------------------------------------------------------------------------
(* Parts of the handlers.                                                  *)

Over(x, at) == x.begin + x.length <= at

\* the first occurrence of x that comes later than the given time after it
NextOccurrence(x, later) == [x EXCEPT !.begin = @ + Day * ((later \div Day) + 1)]

\* processRepeated: to the first occurrence that is not over
ProcessRepeated(x, at) ==
  IF x.repeated /\ Over(x, at) THEN NextOccurrence(x, at - (x.begin + x.length)) ELSE x

\* what saveTimer writes
Text == {[id |-> t, timer |-> entry[t]] : t \in {u \in Filed : ~entry[u].dontSave}}

AddTimerEntryTwice(t, x) ==  \* variant: it is not taken out of the other list
  LET y == ProcessRepeated(x, now) IN
  /\ entry' = [entry EXCEPT ![t] = y]
  /\ \/ /\ y.disabled \/ Over(y, now) \/ y.dontSave
        /\ processed_timers' = processed_timers \cup {t}
        /\ UNCHANGED timer_list
     \/ /\ ~y.disabled /\ (~Over(y, now) \/ y.dontSave)
        /\ timer_list' = timer_list \cup {t}
        /\ UNCHANGED processed_timers

\* addTimerEntry
AddTimerEntry(t, x) ==
  LET y == ProcessRepeated(x, now) IN
  /\ entry' = [entry EXCEPT ![t] = y]
  /\ \/ /\ y.disabled \/ Over(y, now) \/ y.dontSave
        /\ timer_list' = timer_list \ {t}
        /\ processed_timers' = processed_timers \cup {t}
     \/ /\ ~y.disabled /\ (~Over(y, now) \/ y.dontSave)
        /\ timer_list' = timer_list \cup {t}
        /\ processed_timers' = processed_timers \ {t}

\* timeChanged: a timer that is prepared or runs stays in the list, disabled
\* or not
TimeChanged(t, x) ==
  \/ AddTimerEntry(t, x)
  \/ /\ t \in timer_list
     /\ entry' = [entry EXCEPT ![t] = x]
     /\ UNCHANGED <<timer_list, processed_timers>>

\* doubleCheck looks at the begin only: not at how long, how often or whether
Double(x) == \E u \in timer_list : entry[u].begin = x.begin

\* a call of saveTimer, and where it returns to
Save(next) ==
  /\ pc' = "save"
  /\ after' = next

-----------------------------------------------------------------------------
(* Requests of the screens, when the main loop is idle.  subject is then   *)
(* the entry for which the conflict screen is open, which shows it and     *)
(* listed timers.                                                          *)

Free == pc = "idle" /\ subject = NoTimer
Conflict == pc = "idle" /\ subject # NoTimer
Shown == timer_list \cup {subject}

New(t) == t \notin Filed \cup Ids(text) \cup gone

Finish(t) == IF t \in Filed THEN "finishedEdit" ELSE "finishedAdd"

\* The timer dialog is confirmed, for a new timer or for one of the list, or
\* from the conflict screen.  It writes the entry and saves before it closes
\* (TimerEntry.keyGo), unless a subservice is to be chosen first.
KeyGo(t, b, l, r) ==
  LET old == IF Free /\ New(t) THEN Blank ELSE entry[t] IN
  /\ \/ /\ Free /\ (t \in Filed \/ New(t)) /\ subject' = t
        /\ Save(Finish(t)) \/ (pc' = "subservice" /\ UNCHANGED after)
     \/ /\ Conflict /\ t \in Shown /\ UNCHANGED subject
        /\ Save(Finish(subject)) \/ UNCHANGED <<pc, after>>
  /\ entry' = [entry EXCEPT ![t] =
                 [old EXCEPT !.begin = b, !.length = l, !.repeated = r]]
  /\ wanted' = wanted \ {old.begin}
  /\ UNCHANGED <<timer_list, processed_timers, now, disk, rest, gone>>

\* subserviceSelected saves and closes the dialog, or the dialog is given up
Subservice ==
  /\ pc = "subservice"
  /\ \/ Save(Finish(subject)) /\ UNCHANGED subject
     \/ pc' = "idle" /\ subject' = NoTimer /\ UNCHANGED after
  /\ UNCHANGED <<memory, now, disk, rest, seen>>

\* finishedEdit: on a conflict that is not solved the conflict screen opens
FinishedEdit ==
  /\ pc = "finishedEdit"
  /\ \/ TimeChanged(subject, entry[subject]) /\ subject' = NoTimer
     \/ UNCHANGED <<memory, subject>>
  /\ pc' = "idle"
  /\ UNCHANGED <<now, disk, rest, after, seen>>

\* finishedAdd: a double is ignored, on a conflict the conflict screen opens
FinishedAdd ==
  /\ pc = "finishedAdd"
  /\ \/ /\ ~Double(entry[subject])
        /\ AddTimerEntry(subject, entry[subject])
        /\ Save("idle")
        /\ subject' = NoTimer
     \/ /\ Double(entry[subject])
        /\ pc' = "idle" /\ subject' = NoTimer
        /\ UNCHANGED <<memory, after>>
     \/ /\ pc' = "idle"
        /\ UNCHANGED <<memory, after, subject>>
  /\ UNCHANGED <<now, disk, rest, seen>>

\* The conflict screen is left, or finishedEdit or finishedAdd is tried again,
\* perhaps with a timer disabled or enabled in place.  Nothing is saved.
ConflictAnswer ==
  /\ Conflict
  /\ \/ subject' = NoTimer /\ UNCHANGED <<entry, pc, wanted>>
     \/ /\ pc' = Finish(subject)
        /\ \/ UNCHANGED <<entry, wanted>>
           \/ \E t \in Shown :
                /\ entry' = [entry EXCEPT ![t].disabled = ~@]
                /\ wanted' = wanted \ {entry[t].begin}
        /\ UNCHANGED subject
  /\ UNCHANGED <<timer_list, processed_timers, now, disk, rest, after, gone>>

\* an instant recording, which is not to be saved
Instant(t) ==
  LET x == [Blank EXCEPT !.begin = now, !.dontSave = TRUE] IN
  /\ Free /\ New(t) /\ ~Double(x)
  /\ AddTimerEntry(t, x)
  /\ Save("idle")
  /\ UNCHANGED <<now, disk, rest, subject, seen>>

\* toggleDisabledState does not save.
Disable(t) ==
  /\ Free /\ t \in Filed /\ ~entry[t].disabled
  /\ TimeChanged(t, [entry[t] EXCEPT !.disabled = TRUE])
  /\ wanted' = wanted \ {entry[t].begin}
  /\ UNCHANGED <<now, disk, rest, pc, after, subject, gone>>

\* A repeated timer that runs is stopped: it goes to the occurrence after this
\* one, and is disabled if so chosen.
StopCurrent(t) ==
  /\ Free /\ t \in timer_list /\ entry[t].repeated /\ entry[t].begin <= now
  /\ \E x \in {entry[t], [entry[t] EXCEPT !.disabled = TRUE]} :
       AddTimerEntry(t, NextOccurrence(x, now - x.begin))
  /\ UNCHANGED <<now, disk, rest, pc, after, subject, seen>>

\* An entry that is in the list is its own double, and is disabled again.  On
\* a conflict it is disabled again too, and the conflict screen opens.
Enable(t) ==
  /\ Free /\ t \in Filed /\ entry[t].disabled
  /\ \/ /\ ~Double(entry[t])
        /\ TimeChanged(t, [entry[t] EXCEPT !.disabled = FALSE])
        /\ UNCHANGED subject
     \/ /\ TimeChanged(t, entry[t])
        /\ subject' = t \/ (Double(entry[t]) /\ UNCHANGED subject)
  /\ UNCHANGED <<now, disk, rest, pc, after, seen>>

Cleanup ==
  /\ Free
  /\ processed_timers' = {t \in processed_timers : entry[t].disabled}
  /\ UNCHANGED <<entry, timer_list, now, disk, rest, pc, after, subject, seen>>

RemoveUnsaved(t) ==  \* variant: the file is left alone
  /\ Free /\ t \in Filed
  /\ timer_list' = timer_list \ {t}
  /\ processed_timers' = processed_timers \ {t}
  /\ wanted' = wanted \ {entry[t].begin}
  /\ gone' = gone \cup {t}
  /\ UNCHANGED <<entry, now, disk, rest, pc, after, subject>>

RemoveEntry(t) ==
  /\ Free /\ t \in Filed
  /\ timer_list' = timer_list \ {t}
  /\ processed_timers' = processed_timers \ {t}
  /\ wanted' = wanted \ {entry[t].begin}
  /\ subject' = t
  /\ Save("removed")
  /\ UNCHANGED <<entry, now, disk, rest, gone>>

Removed ==
  /\ pc = "removed"
  /\ gone' = gone \cup {subject}
  /\ entry' = [entry EXCEPT ![subject] = Blank]
  /\ subject' = NoTimer
  /\ pc' = "idle"
  /\ UNCHANGED <<timer_list, processed_timers, now, disk, rest, after, wanted>>

Shutdown ==
  /\ pc = "idle"
  /\ Save("off")
  /\ UNCHANGED <<memory, now, disk, rest, subject, seen>>

\* Time passes, and timers end: one that repeats, and is not disabled, is filed
\* at its next occurrence.  Nothing is saved.
Tick ==
  /\ pc \in {"idle", "subservice", "off"} /\ now < LastTime
  /\ now' = now + 1
  /\ \E ended \in SUBSET timer_list :
       LET again == {t \in ended : entry[t].repeated /\ ~entry[t].disabled} IN
       /\ \A t \in timer_list :
            ~entry[t].dontSave => (t \in ended <=> Over(entry[t], now + 1))
       /\ entry' = [t \in Timers |-> IF t \in ended
                                     THEN ProcessRepeated(entry[t], now + 1)
                                     ELSE entry[t]]
       /\ timer_list' = timer_list \ (ended \ again)
       /\ processed_timers' = processed_timers \cup (ended \ again)
  /\ wanted' = {b \in wanted : b > now + 1}
  /\ UNCHANGED <<disk, rest, pc, after, subject, gone>>

-----------------------------------------------------------------------------
(* saveTimer.                                                              *)

\* open(self.Filename, "w")
OpenFile ==
  /\ pc = "save"
  /\ file' = "torn"
  /\ text' = {}
  /\ pc' = "write"
  /\ UNCHANGED <<memory, now, rest, after, subject, seen>>

\* What is listed and in the file now is stored, as the user may think.
Close ==
  /\ pc = "write"
  /\ file' = "whole"
  /\ text' = Text
  /\ wanted' = wanted \cup Listed
  /\ pc' = after
  /\ after' = "off"
  /\ UNCHANGED <<memory, now, rest, subject, gone>>

\* The memory of the program is lost.
Forget ==
  /\ entry' = [t \in Timers |-> Blank]
  /\ timer_list' = {}
  /\ processed_timers' = {}
  /\ subject' = NoTimer
  /\ rest' = {}
  /\ pc' = "off"
  /\ after' = "off"

\* A full disk.  __init__ catches what loadTimer raises, everywhere else the
\* program ends.
WriteFails ==
  /\ pc = "write"
  /\ IF after = "loading"
       THEN /\ rest' = {}
            /\ pc' = "idle"
            /\ after' = "off"
            /\ UNCHANGED <<memory, subject>>
       ELSE Forget
  /\ wanted' = {}
  /\ UNCHANGED <<now, disk, gone>>

-----------------------------------------------------------------------------
(* The power fails, and the next start.                                    *)

Loading == pc = "loading" \/ (pc \in {"save", "write"} /\ after = "loading")

\* A save in progress loses the file, a load what has not been recorded.
PowerFails ==
  /\ pc # "off"
  /\ Forget
  /\ wanted' = IF pc = "write" \/ Loading THEN wanted \cap Planned(text) ELSE wanted
  /\ UNCHANGED <<now, disk, gone>>

\* loadTimer.  A file that does not parse is renamed, if it can be.
Boot ==
  /\ pc = "off"
  /\ \/ /\ file = "whole"
        /\ rest' = text
        /\ pc' = "loading"
        /\ UNCHANGED file
     \/ /\ file # "whole"
        /\ file' = "absent" \/ UNCHANGED file
        /\ pc' = "idle"
        /\ UNCHANGED rest
  /\ timer_list' = {}
  /\ processed_timers' = {}
  /\ subject' = NoTimer
  /\ UNCHANGED <<entry, now, text, after, seen>>

LoadRefuses(x) ==  \* variant: a conflict is not ignored
  /\ pc = "loading" /\ x \in rest
  /\ rest' = rest \ {x}
  /\ \/ /\ AddTimerEntry(x.id, x.timer)
        /\ Save("loading")
     \/ UNCHANGED <<memory, pc, after>>
  /\ UNCHANGED <<now, disk, subject, seen>>

\* record(newTimer, True, True): a conflict is ignored, and then a double is
\* not looked for.  The begin that is compared is the one in the file; filing
\* the entry may move it.
Load(x) ==
  /\ pc = "loading" /\ x \in rest
  /\ rest' = rest \ {x}
  /\ \/ /\ AddTimerEntry(x.id, x.timer)
        /\ Save("loading")
     \/ /\ Double(x.timer)
        /\ UNCHANGED <<memory, pc, after>>
  /\ UNCHANGED <<now, disk, subject, seen>>

Loaded ==
  /\ pc = "loading" /\ rest = {}
  /\ pc' = "idle"
  /\ UNCHANGED <<memory, now, disk, rest, after, subject, seen>>

-----------------------------------------------------------------------------
Init ==
  /\ entry = [t \in Timers |-> Blank]
  /\ timer_list = {}
  /\ processed_timers = {}
  /\ now = 0
  /\ file = "absent"
  /\ text = {}
  /\ rest = {}
  /\ pc = "off"
  /\ after = "off"
  /\ subject = NoTimer
  /\ wanted = {}
  /\ gone = {}

Request(t) ==
  \/ \E b \in Begins, l \in Lengths, r \in BOOLEAN : KeyGo(t, b, l, r)
  \/ Instant(t)
  \/ Disable(t)
  \/ StopCurrent(t)
  \/ Enable(t)
  \/ RemoveEntry(t)

Next ==
  \/ \E t \in Timers : Request(t)
  \/ Subservice \/ FinishedEdit \/ FinishedAdd \/ ConflictAnswer \/ Removed
  \/ Cleanup \/ Shutdown
  \/ Tick
  \/ OpenFile \/ Close \/ WriteFails
  \/ PowerFails \/ Boot
  \/ \E x \in rest : Load(x)
  \/ Loaded

Spec == Init /\ [][Next]_vars

-----------------------------------------------------------------------------
(* Properties.                                                             *)

\* The types of the variables.  A timer is in one list, although the screens
\* file timers that are listed already.
TypeOK ==
  /\ entry \in [Timers -> Entry]
  /\ timer_list \subseteq Timers
  /\ processed_timers \subseteq Timers
  /\ timer_list \cap processed_timers = {}
  /\ now \in Nat
  /\ file \in {"absent", "torn", "whole"}
  /\ text \subseteq Element
  /\ rest \subseteq Element
  /\ pc \in {"idle", "subservice", "finishedEdit", "finishedAdd", "removed",
             "save", "write", "loading", "off"}
  /\ after \in {"idle", "finishedEdit", "finishedAdd", "removed", "loading", "off"}
  /\ subject \in Timers \cup {NoTimer}
  /\ wanted \subseteq Nat
  /\ gone \subseteq Timers

\* A start that was listed, and not disabled, when a save completed is kept
\* until the user disposes of its timer, or it comes: whatever else is edited,
\* toggled, repeated, cleaned up or ignored as a double, the file has an enabled
\* timer that starts then, and after a load the list has one.  Only a power
\* failure or a full disk while the file is written, or while it is loaded,
\* takes that away.  How long that timer lasts and whether it repeats is not
\* promised: doubleCheck does not look at it, and loadTimer drops a longer or a
\* daily timer for another that begins with it.
WantedSurvive ==
  /\ pc \notin {"write", "loading"} /\ ~Loading => wanted \subseteq Planned(text)
  /\ pc = "write" => wanted \subseteq Planned(Text) \cup Planned(rest)
  /\ Loading => wanted \subseteq Planned(Text) \cup Planned(rest)
  /\ pc \in {"idle", "subservice"} => wanted \subseteq Listed

\* A timer whose removal has returned does not come back, although power
\* failures and restarts load files that were written by other saves.
RemovedStaysAway == gone \cap (Filed \cup Ids(text) \cup Ids(rest)) = {}
=============================================================================
