------------------------- MODULE TimerStore_proofs -------------------------
(***************************************************************************)
(* Proofs about TimerStore for any timers, times and lengths, and any Day. *)
(*                                                                         *)
(* What is wanted is followed from the list to the file and back: it is    *)
(* Listed as long as the program acts on its lists, Planned by the file    *)
(* between two saves, and while the file is read it is planned by what has *)
(* been read or by what is left.  That a removed timer stays away rests on *)
(* one fact more: where its identity may be while a save is under way.     *)
(***************************************************************************)
EXTENDS TimerStore, TLAPS

\* Between a request and the end of its save, and when nothing happens.
Awake == pc \notin {"off", "loading"} /\ ~Loading

Saving == pc \in {"save", "write"}

\* What the main loop does next says where subject is.
Subject ==
  /\ subject \notin gone
  /\ pc \in {"subservice", "finishedEdit", "finishedAdd"}
       \/ (Saving /\ after \in {"finishedEdit", "finishedAdd"})
     => subject \in Timers
  /\ pc = "removed" \/ (Saving /\ after = "removed") => subject \in Timers \ Filed
  /\ pc = "removed" => subject \notin Ids(text)

\* An identity stands for one element of the file, and for one of the rest, and
\* none is of a timer that is not to be saved.
OneElement ==
  /\ \A x, y \in text : x.id = y.id => x = y
  /\ \A x, y \in rest : x.id = y.id => x = y
  /\ \A x \in text \cup rest : ~x.timer.dontSave

\* Only a load has something left to read, and only a whole file something in it.
Reading ==
  /\ ~Loading => rest = {}
  /\ file # "whole" => text = {}

\* What has been loaded: each enabled timer waits, none that is left is there,
\* and the file is what was saved last, or what is being read.
SoFar ==
  Loading =>
    /\ Ids(rest) \cap Filed = {}
    /\ \A t \in Filed : ~entry[t].dontSave
    /\ \A t \in timer_list : ~entry[t].disabled
    /\ pc = "loading" => text = Text \/ (Filed = {} /\ text = rest)

\* A wanted start is to come, and is listed.
Wanted ==
  /\ \A b \in wanted : b > now
  /\ Awake => wanted \subseteq Listed
  /\ ~Loading /\ pc # "write" => wanted \subseteq Planned(text)
  /\ Loading => wanted \subseteq Listed \cup Planned(rest)

IInv ==
  /\ TypeOK
  /\ Subject
  /\ OneElement
  /\ Reading
  /\ SoFar
  /\ Wanted
  /\ RemovedStaysAway

-----------------------------------------------------------------------------
(* Entries, and what filing one does.                                      *)

\* A later occurrence differs in its begin only.
LEMMA Occurrence ==
  ASSUME NEW x \in Entry, NEW later \in Nat
  PROVE  /\ NextOccurrence(x, later) \in Entry
         /\ NextOccurrence(x, later).disabled = x.disabled
         /\ NextOccurrence(x, later).dontSave = x.dontSave
<1> DEFINE q == later \div Day
<1>1. q \in Nat
  BY StoreAssumption
<1> HIDE DEF q
<1>2. x.begin + Day * (q + 1) \in Nat
  BY <1>1, StoreAssumption DEF Entry
<1> QED
  BY <1>2 DEF NextOccurrence, Entry, q

\* processRepeated moves an entry that is over, and no other.
LEMMA Processed ==
  ASSUME NEW x \in Entry, NEW at \in Nat
  PROVE  /\ ProcessRepeated(x, at) \in Entry
         /\ ProcessRepeated(x, at).disabled = x.disabled
         /\ ProcessRepeated(x, at).dontSave = x.dontSave
         /\ x.begin > at => ProcessRepeated(x, at) = x /\ ~Over(x, at)
<1>1. x.begin \in Nat /\ x.length \in Nat
  BY DEF Entry
<1>2. CASE x.repeated /\ Over(x, at)
  <2>1. at - (x.begin + x.length) \in Nat /\ ~(x.begin > at)
    BY <1>1, <1>2 DEF Over
  <2> QED BY <1>2, <2>1, Occurrence DEF ProcessRepeated
<1>3. CASE ~(x.repeated /\ Over(x, at))
  BY <1>1, <1>3 DEF ProcessRepeated, Over
<1> QED
  BY <1>2, <1>3

\* The part of the types that handlers of an entry preserve.
Typed ==
  /\ entry \in [Timers -> Entry]
  /\ timer_list \subseteq Timers /\ processed_timers \subseteq Timers
  /\ timer_list \cap processed_timers = {}

\* The lists after t was filed as y.
Files(t, x, y) ==
  /\ y \in Entry /\ y.disabled = x.disabled /\ y.dontSave = x.dontSave
  /\ x.begin > now => y = x
  /\ entry' = [entry EXCEPT ![t] = y]
  /\ Filed' = Filed \cup {t}
  /\ \A u \in Timers \ {t} : u \in timer_list' <=> u \in timer_list
  /\ ~x.disabled /\ ~x.dontSave /\ x.begin > now => t \in timer_list'

\* addTimerEntry files the entry, wherever it was
LEMMA Filing ==
  ASSUME Typed, now \in Nat, NEW t \in Timers, NEW x \in Entry, AddTimerEntry(t, x)
  PROVE  /\ Typed' /\ \E y \in Entry : Files(t, x, y)
         /\ t \in timer_list' => ~x.disabled
<1> DEFINE y == ProcessRepeated(x, now)
<1>1. /\ y \in Entry /\ y.disabled = x.disabled /\ y.dontSave = x.dontSave
      /\ x.begin > now => y = x /\ ~Over(x, now)
  BY Processed
<1> HIDE DEF y
<1>2. /\ entry' = [entry EXCEPT ![t] = y]
      /\ \/ /\ y.disabled \/ Over(y, now) \/ y.dontSave
            /\ timer_list' = timer_list \ {t}
            /\ processed_timers' = processed_timers \cup {t}
         \/ /\ ~y.disabled
            /\ timer_list' = timer_list \cup {t}
            /\ processed_timers' = processed_timers \ {t}
  BY DEF AddTimerEntry, y
<1>3. Typed'
  BY <1>1, <1>2 DEF Typed
<1>4. Filed' = Filed \cup {t}
  BY <1>2 DEF Filed
<1>5. /\ \A u \in Timers \ {t} : u \in timer_list' <=> u \in timer_list
      /\ ~x.disabled /\ ~x.dontSave /\ x.begin > now => t \in timer_list'
      /\ t \in timer_list' => ~x.disabled
  BY <1>1, <1>2
<1> QED
  BY <1>1, <1>2, <1>3, <1>4, <1>5 DEF Files

\* timeChanged likewise, or it stays where it is
LEMMA Changing ==
  ASSUME Typed, now \in Nat, NEW t \in Timers, NEW x \in Entry, TimeChanged(t, x)
  PROVE  Typed' /\ \E y \in Entry : Files(t, x, y)
<1>1. CASE AddTimerEntry(t, x)
  BY <1>1, Filing
<1>2. CASE /\ t \in timer_list
           /\ entry' = [entry EXCEPT ![t] = x]
           /\ UNCHANGED <<timer_list, processed_timers>>
  <2>1. Typed' /\ Filed' = Filed \cup {t}
    BY <1>2 DEF Typed, Filed
  <2> QED BY <1>2, <2>1 DEF Files
<1> QED
  BY <1>1, <1>2 DEF TimeChanged

\* The start of a timer that is disabled or enabled is what it was.
LEMMA Switched ==
  ASSUME NEW x \in Entry, NEW d \in BOOLEAN
  PROVE  [x EXCEPT !.disabled = d] \in Entry
BY DEF Entry

\* A file that is saved now plans what is listed.
LEMMA ListedPlanned == Listed \subseteq Planned(Text)
<1> SUFFICES ASSUME NEW t \in timer_list, ~entry[t].disabled, ~entry[t].dontSave,
                    entry[t].begin > now
             PROVE  entry[t].begin \in Planned(Text)
  BY DEF Listed
<1>1. [id |-> t, timer |-> entry[t]] \in Text
  BY DEF Text, Filed
<1> QED
  BY <1>1 DEF Planned

\* What is saved has the type of a file, and what is listed is a time.
LEMMA TextTyped ==
  ASSUME TypeOK
  PROVE  Text \subseteq Element /\ Listed \subseteq Nat
BY DEF TypeOK, Text, Listed, Entry, Element, Filed

\* A step about one timer loses no wanted start but its own.
LEMMA ListedKept ==
  ASSUME Typed, NEW t \in Timers, now \in Nat, now' = now, wanted \subseteq Listed,
         wanted' \subseteq wanted,
         \A u \in Timers \ {t} :
           entry'[u] = entry[u] /\ (u \in timer_list' <=> u \in timer_list),
         \/ t \notin timer_list \/ entry[t].disabled \/ entry[t].dontSave
         \/ entry[t].begin <= now \/ entry[t].begin \notin wanted'
         \/ t \in timer_list' /\ entry'[t] = entry[t]
  PROVE  wanted' \subseteq Listed'
<1> SUFFICES ASSUME NEW b \in wanted' PROVE b \in Listed'
  OBVIOUS
<1>1. PICK u \in timer_list :
        /\ ~entry[u].disabled /\ ~entry[u].dontSave /\ b = entry[u].begin /\ b > now
  BY DEF Listed
<1>2. u \in timer_list' /\ entry'[u] = entry[u]
  <2>1. CASE u # t
    BY <2>1 DEF Typed
  <2>2. CASE u = t
    <3>1. entry[t].begin \in Nat
      BY DEF Typed, Entry
    <3>2. ~(entry[t].begin <= now)
      BY <1>1, <2>2, <3>1
    <3> QED BY <1>1, <2>2, <3>2
  <2> QED BY <2>1, <2>2
<1> QED
  BY <1>1, <1>2 DEF Listed

-----------------------------------------------------------------------------
(* Steps of the program between two saves.                                 *)

\* Such a step keeps the invariant if it keeps what is wanted in the list.
LEMMA AwakeKeeps ==
  ASSUME IInv, Awake, pc # "write",
         pc' \in {"idle", "subservice", "finishedEdit", "finishedAdd"}
           \/ (pc' = "save" /\ after' # "loading"),
         UNCHANGED <<now, disk, rest>>,
         Typed', after' \in {"idle", "finishedEdit", "finishedAdd", "removed",
                            "loading", "off"},
         subject' \in Timers \cup {NoTimer}, Subject',
         gone' \subseteq Timers, gone' \cap (Filed' \cup Ids(text)) = {},
         wanted' \subseteq wanted, wanted' \subseteq Listed'
  PROVE  IInv'
<1> USE DEF disk
<1>1. Awake' /\ ~Loading /\ pc' # "write"
  BY DEF Awake, Loading
<1>2. TypeOK'
  BY DEF IInv, TypeOK, Typed
<1>3. OneElement' /\ Reading' /\ SoFar'
  BY <1>1 DEF IInv, OneElement, Reading, SoFar, Awake
<1>4. Planned(text)' = Planned(text)
  BY DEF Planned
<1>5. Wanted'
  BY <1>1, <1>4 DEF IInv, Wanted, Awake
<1>6. rest = {}
  BY <1>1 DEF IInv, Reading
<1>7. RemovedStaysAway'
  BY <1>6 DEF IInv, RemovedStaysAway, Ids
<1> QED
  BY <1>2, <1>3, <1>5, <1>7 DEF IInv

\* What is used of the invariant there.
LEMMA Awakened ==
  ASSUME IInv, pc \in {"idle", "subservice", "finishedEdit", "finishedAdd"}
  PROVE  /\ Awake /\ pc # "write" /\ Typed /\ now \in Nat /\ wanted \subseteq Listed
         /\ gone \subseteq Timers /\ gone \cap (Filed \cup Ids(text)) = {}
         /\ subject \in Timers \cup {NoTimer} /\ subject \notin gone
         /\ after \in {"idle", "finishedEdit", "finishedAdd", "removed", "loading", "off"}
         /\ \A t \in Timers : entry[t] \in Entry
BY DEF IInv, TypeOK, Typed, Awake, Loading, Wanted, RemovedStaysAway, Subject

\* The dialog changes one entry, and takes its start from what is wanted.
LEMMA KeyGoKeeps ==
  ASSUME IInv, NEW t \in Timers, NEW b \in Begins, NEW l \in Lengths,
         NEW r \in BOOLEAN, KeyGo(t, b, l, r)
  PROVE  IInv'
<1> DEFINE old == IF Free /\ New(t) THEN Blank ELSE entry[t]
           x == [old EXCEPT !.begin = b, !.length = l, !.repeated = r]
<1>1. pc = "idle"
  BY DEF KeyGo, Free, Conflict
<1>2. old \in Entry
  BY <1>1, Awakened DEF Blank, Entry
<1>3. b \in Nat /\ l \in Nat
  BY StoreAssumption
<1>4. x \in Entry
  BY <1>2, <1>3 DEF Entry
<1>5. /\ entry' = [entry EXCEPT ![t] = x]
      /\ wanted' = wanted \ {old.begin}
      /\ UNCHANGED <<timer_list, processed_timers, now, disk, rest, gone>>
  BY DEF KeyGo
<1>6. t \in timer_list => old = entry[t]
  BY DEF New, Filed
<1> HIDE DEF x, old
<1>7. Typed' /\ Filed' = Filed
  BY <1>1, <1>4, <1>5, Awakened DEF Typed, Filed
<1>8. wanted' \subseteq Listed'
  BY <1>1, <1>5, <1>6, ListedKept, Awakened DEF Typed
<1>9. /\ subject' \in Timers /\ subject' \notin gone
      /\ \/ Save("finishedEdit") \/ Save("finishedAdd")
         \/ pc' \in {"idle", "subservice"} /\ after' = after
  <2>1. CASE Free /\ (t \in Filed \/ New(t)) /\ subject' = t
    BY <1>1, <2>1, Awakened DEF KeyGo, Finish, Save, New, Free, Conflict
  <2>2. CASE Conflict /\ UNCHANGED subject
    BY <1>1, <2>2, Awakened DEF KeyGo, Finish, Save, Free, Conflict
  <2> QED BY <2>1, <2>2 DEF KeyGo
<1>10. Subject'
  BY <1>5, <1>9 DEF Subject, Save, Saving
<1> QED
  BY <1>1, <1>5, <1>7, <1>8, <1>9, <1>10, Awakened, AwakeKeeps DEF Save

\* The choice of a subservice saves, or is given up.
LEMMA SubserviceKeeps ==
  ASSUME IInv, Subservice
  PROVE  IInv'
<1>1. pc = "subservice" /\ UNCHANGED <<memory, now, disk, rest, seen>>
  BY DEF Subservice
<1>2. Typed' /\ Filed' = Filed /\ Listed' = Listed
  BY <1>1, Awakened DEF Typed, Filed, Listed, memory
<1>3. subject \in Timers
  BY <1>1 DEF IInv, Subject
<1>4. \/ (Save("finishedEdit") \/ Save("finishedAdd")) /\ UNCHANGED subject
      \/ pc' = "idle" /\ subject' = NoTimer /\ UNCHANGED after
  BY DEF Subservice, Finish
<1>5. Subject'
  BY <1>1, <1>3, <1>4, Awakened, StoreAssumption
     DEF Subject, Save, Saving, seen
<1> QED
  BY <1>1, <1>2, <1>3, <1>4, <1>5, Awakened, AwakeKeeps DEF Save, seen

\* Filing an entry, with the start it has, keeps what is wanted.
LEMMA FilesKeep ==
  ASSUME IInv, pc \in {"idle", "finishedEdit", "finishedAdd"},
         NEW t \in Timers, t \notin gone,
         NEW x \in Entry, NEW y \in Entry, Files(t, x, y), Typed',
         \/ x = entry[t] \/ t \notin timer_list \/ entry[t].disabled
         \/ entry[t].begin <= now \/ entry[t].begin \notin wanted',
         UNCHANGED <<now, disk, rest, gone>>, wanted' \subseteq wanted,
         \/ pc' = "idle" /\ UNCHANGED after
         \/ pc' = "save" /\ after' = "idle",
         subject' \in Timers \cup {NoTimer}, subject' \notin gone
  PROVE  IInv'
<1>1. wanted' \subseteq Listed'
  <2>1. \A u \in Timers \ {t} :
          entry'[u] = entry[u] /\ (u \in timer_list' <=> u \in timer_list)
    BY Awakened DEF Files, Typed
  <2>2. \/ t \notin timer_list \/ entry[t].disabled \/ entry[t].dontSave
        \/ entry[t].begin <= now \/ entry[t].begin \notin wanted'
        \/ t \in timer_list' /\ entry'[t] = entry[t]
    <3>1. entry[t].begin \in Nat /\ now \in Nat /\ entry \in [Timers -> Entry]
      BY Awakened DEF Entry, Typed
    <3> QED BY <3>1 DEF Files
  <2> QED BY <2>1, <2>2, Awakened, ListedKept
<1>2. Subject'
  BY DEF Subject, Saving
<1>3. gone' \cap (Filed' \cup Ids(text)) = {}
  BY Awakened DEF Files
<1> QED
  BY <1>1, <1>2, <1>3, Awakened, AwakeKeeps

\* An edit that is accepted is filed.
LEMMA FinishedEditKeeps ==
  ASSUME IInv, FinishedEdit
  PROVE  IInv'
<1>1. /\ pc = "finishedEdit" /\ pc' = "idle" /\ subject \in Timers
      /\ UNCHANGED <<now, disk, rest, after, wanted, gone>>
  BY DEF FinishedEdit, IInv, Subject, seen
<1>2. CASE TimeChanged(subject, entry[subject]) /\ subject' = NoTimer
  <2>1. PICK y \in Entry : Files(subject, entry[subject], y)
    BY <1>1, <1>2, Awakened, Changing
  <2>2. Typed'
    BY <1>1, <1>2, Awakened, Changing
  <2> QED BY <1>1, <1>2, <2>1, <2>2, Awakened, FilesKeep, StoreAssumption
<1>3. CASE UNCHANGED <<memory, subject>>
  <2>1. Typed' /\ Filed' = Filed /\ Listed' = Listed
    BY <1>1, <1>3, Awakened DEF Typed, Filed, Listed, memory
  <2>2. Subject'
    BY <1>1, <1>3, Awakened DEF Subject, Saving
  <2> QED BY <1>1, <1>3, <2>1, <2>2, Awakened, AwakeKeeps
<1> QED
  BY <1>2, <1>3 DEF FinishedEdit

\* A new entry is recorded or dropped, or the conflict screen opens.
LEMMA FinishedAddKeeps ==
  ASSUME IInv, FinishedAdd
  PROVE  IInv'
<1>1. /\ pc = "finishedAdd" /\ subject \in Timers
      /\ UNCHANGED <<now, disk, rest, wanted, gone>>
  BY DEF FinishedAdd, IInv, Subject, seen
<1>2. CASE AddTimerEntry(subject, entry[subject]) /\ Save("idle") /\ subject' = NoTimer
  <2>1. PICK y \in Entry : Files(subject, entry[subject], y)
    BY <1>1, <1>2, Awakened, Filing
  <2>2. Typed'
    BY <1>1, <1>2, Awakened, Filing
  <2> QED BY <1>1, <1>2, <2>1, <2>2, Awakened, FilesKeep, StoreAssumption DEF Save
<1>3. CASE pc' = "idle" /\ UNCHANGED <<memory, after>>
             /\ subject' \in {subject, NoTimer}
  <2>1. Typed' /\ Filed' = Filed /\ Listed' = Listed
    BY <1>1, <1>3, Awakened DEF Typed, Filed, Listed, memory
  <2>2. Subject'
    BY <1>1, <1>3, Awakened, StoreAssumption DEF Subject, Saving
  <2> QED BY <1>1, <1>3, <2>1, <2>2, Awakened, AwakeKeeps
<1> QED
  BY <1>2, <1>3 DEF FinishedAdd

\* The conflict screen switches one timer, whose start is wanted no more.
LEMMA ConflictAnswerKeeps ==
  ASSUME IInv, ConflictAnswer
  PROVE  IInv'
<1>1. /\ pc = "idle" /\ subject \in Timers
      /\ UNCHANGED <<timer_list, processed_timers, now, disk, rest, after, gone>>
      /\ \/ pc' = "idle" /\ subject' = NoTimer
         \/ pc' \in {"finishedEdit", "finishedAdd"} /\ subject' = subject
  BY Awakened DEF ConflictAnswer, Conflict, Finish
<1>2. Typed' /\ wanted' \subseteq wanted /\ wanted' \subseteq Listed'
  <2>1. CASE UNCHANGED <<entry, wanted>>
    BY <1>1, <2>1, Awakened DEF Typed, Listed
  <2>2. ASSUME NEW t \in Shown, entry' = [entry EXCEPT ![t].disabled = ~@],
               wanted' = wanted \ {entry[t].begin}
        PROVE  Typed' /\ wanted' \subseteq Listed'
    <3>1. t \in Timers
      BY <1>1, Awakened DEF Shown, Typed
    <3>2. [entry[t] EXCEPT !.disabled = ~entry[t].disabled] \in Entry
      BY <1>1, <3>1, Awakened, Switched
    <3>3. Typed'
      BY <1>1, <2>2, <3>1, <3>2, Awakened DEF Typed
    <3> QED BY <1>1, <2>2, <3>1, <3>3, Awakened, ListedKept DEF Typed
  <2> QED BY <2>1, <2>2 DEF ConflictAnswer
<1>3. Filed' = Filed /\ Subject'
  BY <1>1, Awakened, StoreAssumption DEF Subject, Saving, Filed
<1> QED
  BY <1>1, <1>2, <1>3, Awakened, AwakeKeeps

\* An instant recording is listed but never stored.
LEMMA InstantKeeps ==
  ASSUME IInv, NEW t \in Timers, Instant(t)
  PROVE  IInv'
<1> DEFINE x == [Blank EXCEPT !.begin = now, !.dontSave = TRUE]
<1>1. pc = "idle" /\ AddTimerEntry(t, x) /\ t \notin Filed \cup gone
  BY DEF Instant, Free, New
<1>2. /\ Save("idle")
      /\ UNCHANGED <<now, disk, rest, subject, wanted, gone>>
  BY DEF Instant, seen
<1>3. x \in Entry
  BY <1>1, Awakened DEF Blank, Entry
<1> HIDE DEF x
<1>4. PICK y \in Entry : Files(t, x, y)
  BY <1>1, <1>3, Awakened, Filing
<1>5. Typed'
  BY <1>1, <1>3, Awakened, Filing
<1>6. t \notin timer_list
  BY <1>1 DEF Filed
<1> QED
  BY <1>1, <1>2, <1>3, <1>4, <1>5, <1>6, Awakened, FilesKeep DEF Save

\* Disabling takes the start of the entry from what is wanted.
LEMMA DisableKeeps ==
  ASSUME IInv, NEW t \in Timers, Disable(t)
  PROVE  IInv'
<1> DEFINE x == [entry[t] EXCEPT !.disabled = TRUE]
<1>1. /\ pc = "idle" /\ t \in Filed /\ TimeChanged(t, x)
      /\ wanted' = wanted \ {entry[t].begin}
      /\ UNCHANGED <<now, disk, rest, pc, after, subject, gone>>
  BY DEF Disable, Free
<1>2. x \in Entry
  BY <1>1, Awakened, Switched
<1> HIDE DEF x
<1>3. PICK y \in Entry : Files(t, x, y)
  BY <1>1, <1>2, Awakened, Changing
<1>4. Typed' /\ t \notin gone
  BY <1>1, <1>2, Awakened, Changing
<1> QED
  BY <1>1, <1>2, <1>3, <1>4, Awakened, FilesKeep

\* The occurrence that is stopped has started, so that nobody waits for it.
LEMMA StopCurrentKeeps ==
  ASSUME IInv, NEW t \in Timers, StopCurrent(t)
  PROVE  IInv'
<1>1. /\ pc = "idle" /\ t \in timer_list /\ entry[t].begin <= now
      /\ UNCHANGED <<now, disk, rest, pc, after, subject, wanted, gone>>
  BY DEF StopCurrent, Free, seen
<1>2. PICK x \in {entry[t], [entry[t] EXCEPT !.disabled = TRUE]} :
        AddTimerEntry(t, NextOccurrence(x, now - x.begin))
  BY DEF StopCurrent
<1>3. x \in Entry /\ x.begin = entry[t].begin
  <2>1. CASE x = entry[t]
    BY <1>1, <2>1, Awakened
  <2>2. CASE x = [entry[t] EXCEPT !.disabled = TRUE]
    BY <1>1, <2>2, Awakened, Switched DEF Entry
  <2> QED BY <2>1, <2>2
<1>4. now - x.begin \in Nat
  BY <1>1, <1>3, Awakened DEF Entry
<1> DEFINE z == NextOccurrence(x, now - x.begin)
<1>5. z \in Entry
  BY <1>3, <1>4, Occurrence
<1> HIDE DEF z
<1>6. AddTimerEntry(t, z)
  BY <1>2 DEF z
<1>7. PICK y \in Entry : Files(t, z, y)
  BY <1>1, <1>5, <1>6, Awakened, Filing
<1>8. Typed' /\ t \notin gone
  BY <1>1, <1>5, <1>6, Awakened, Filing DEF Filed
<1> QED
  BY <1>1, <1>5, <1>7, <1>8, Awakened, FilesKeep

\* Enabling can only add to what is listed.
LEMMA EnableKeeps ==
  ASSUME IInv, NEW t \in Timers, Enable(t)
  PROVE  IInv'
<1> DEFINE on == [entry[t] EXCEPT !.disabled = FALSE]
<1>1. /\ pc = "idle" /\ t \in Filed /\ entry[t].disabled
      /\ UNCHANGED <<now, disk, rest, pc, after, wanted, gone>>
      /\ subject' \in {subject, t}
  BY DEF Enable, Free, seen
<1>2. PICK x \in {on, entry[t]} : TimeChanged(t, x)
  BY DEF Enable
<1>3. on \in Entry /\ entry[t] \in Entry
  BY <1>1, Awakened, Switched
<1> HIDE DEF on
<1>4. x \in Entry
  BY <1>2, <1>3
<1>5. PICK y \in Entry : Files(t, x, y)
  BY <1>1, <1>2, <1>4, Awakened, Changing
<1>6. Typed' /\ t \notin gone
  BY <1>1, <1>2, <1>4, Awakened, Changing
<1> QED
  BY <1>1, <1>4, <1>5, <1>6, Awakened, FilesKeep

\* Cleaning up touches processed timers only.
LEMMA CleanupKeeps ==
  ASSUME IInv, Cleanup
  PROVE  IInv'
<1>1. /\ pc = "idle" /\ subject = NoTimer
      /\ processed_timers' \subseteq processed_timers
      /\ UNCHANGED <<entry, timer_list, now, disk, rest, pc, after, subject, wanted, gone>>
  BY DEF Cleanup, Free, seen
<1>2. Typed' /\ Filed' \subseteq Filed /\ Listed' = Listed
  BY <1>1, Awakened DEF Typed, Filed, Listed
<1>3. Subject'
  BY <1>1, Awakened DEF Subject, Saving
<1> QED
  BY <1>1, <1>2, <1>3, Awakened, AwakeKeeps

\* The entry leaves the lists before the file is written.
LEMMA RemoveEntryKeeps ==
  ASSUME IInv, NEW t \in Timers, RemoveEntry(t)
  PROVE  IInv'
<1>1. /\ pc = "idle" /\ t \in Filed
      /\ timer_list' = timer_list \ {t} /\ processed_timers' = processed_timers \ {t}
      /\ wanted' = wanted \ {entry[t].begin} /\ subject' = t
      /\ pc' = "save" /\ after' = "removed"
      /\ UNCHANGED <<entry, now, disk, rest, gone>>
  BY DEF RemoveEntry, Free, Save
<1>2. Typed' /\ Filed' = Filed \ {t}
  BY <1>1, Awakened DEF Typed, Filed
<1>3. wanted' \subseteq Listed'
  BY <1>1, Awakened, ListedKept
<1>4. Subject' /\ t \notin gone
  BY <1>1, <1>2, Awakened DEF Subject, Saving
<1> QED
  BY <1>1, <1>2, <1>3, <1>4, Awakened, AwakeKeeps

\* The file was written without the timer.
LEMMA RemovedKeeps ==
  ASSUME IInv, Removed
  PROVE  IInv'
<1>1. /\ pc = "removed" /\ pc' = "idle" /\ subject' = NoTimer
      /\ gone' = gone \cup {subject} /\ entry' = [entry EXCEPT ![subject] = Blank]
      /\ UNCHANGED <<timer_list, processed_timers, now, disk, rest, after, wanted>>
  BY DEF Removed
<1>2. Awake /\ Typed /\ now \in Nat /\ wanted \subseteq Listed /\ gone \subseteq Timers
  BY <1>1 DEF IInv, TypeOK, Typed, Awake, Loading, Wanted
<1>3. subject \in Timers \ Filed /\ subject \notin Ids(text)
  BY <1>1 DEF IInv, Subject
<1>4. Typed' /\ Filed' = Filed
  BY <1>1, <1>2 DEF Typed, Filed, Blank, Entry
<1>5. wanted' \subseteq Listed'
  BY <1>1, <1>2, <1>3, ListedKept DEF Typed, Filed
<1>6. gone' \cap (Filed' \cup Ids(text)) = {}
  BY <1>1, <1>3, <1>4 DEF IInv, RemovedStaysAway
<1>7. Subject' /\ gone' \subseteq Timers
  BY <1>1, <1>2, <1>3, StoreAssumption DEF Subject, Saving
<1>8. after' \in {"idle", "finishedEdit", "finishedAdd", "removed", "loading", "off"}
  BY <1>1 DEF IInv, TypeOK
<1> QED
  BY <1>1, <1>2, <1>4, <1>5, <1>6, <1>7, <1>8, AwakeKeeps

\* A save, with nothing after it.
LEMMA ShutdownKeeps ==
  ASSUME IInv, Shutdown
  PROVE  IInv'
<1>1. /\ pc = "idle" /\ pc' = "save" /\ after' = "off"
      /\ UNCHANGED <<memory, now, disk, rest, subject, wanted, gone>>
  BY DEF Shutdown, Save, seen
<1>2. Typed' /\ Filed' = Filed /\ Listed' = Listed
  BY <1>1, Awakened DEF Typed, Filed, Listed, memory
<1>3. Subject'
  BY <1>1, Awakened DEF Subject, Saving
<1> QED
  BY <1>1, <1>2, <1>3, Awakened, AwakeKeeps

\* A timer that ends starts no more, and the others are what they were.
LEMMA TickKeeps ==
  ASSUME IInv, Tick
  PROVE  IInv'
<1>1. /\ pc \in {"idle", "subservice", "off"} /\ now' = now + 1 /\ now \in Nat
      /\ wanted' = {b \in wanted : b > now + 1}
      /\ UNCHANGED <<disk, rest, pc, after, subject, gone>>
      /\ ~Loading /\ ~Loading'
  BY DEF Tick, IInv, TypeOK, Loading
<1>2. PICK ended \in SUBSET timer_list :
        LET again == {t \in ended : entry[t].repeated /\ ~entry[t].disabled} IN
        /\ \A t \in timer_list :
             ~entry[t].dontSave => (t \in ended <=> Over(entry[t], now + 1))
        /\ entry' = [t \in Timers |-> IF t \in ended
                                      THEN ProcessRepeated(entry[t], now + 1)
                                      ELSE entry[t]]
        /\ timer_list' = timer_list \ (ended \ again)
        /\ processed_timers' = processed_timers \cup (ended \ again)
  BY DEF Tick
<1>3. Typed /\ \A t \in Timers : entry[t] \in Entry
  BY DEF IInv, TypeOK, Typed
<1>4. \A t \in Timers : ProcessRepeated(entry[t], now + 1) \in Entry
  BY <1>1, <1>3, Processed
<1>5. entry' \in [Timers -> Entry]
  BY <1>2, <1>3, <1>4
<1>6. Typed' /\ Filed' = Filed
  BY <1>2, <1>3, <1>5 DEF Typed, Filed
<1>7. TypeOK'
  <2>1. wanted \subseteq Nat
    BY DEF IInv, TypeOK
  <2>2. wanted' \subseteq wanted /\ now' \in Nat
    BY <1>1
  <2>3. UNCHANGED <<file, text, rest, pc, after, subject, gone>>
    BY <1>1 DEF disk
  <2> QED BY <1>6, <2>1, <2>2, <2>3 DEF IInv, TypeOK, Typed
<1>8. Subject' /\ OneElement' /\ Reading' /\ SoFar' /\ RemovedStaysAway'
  BY <1>1, <1>6 DEF IInv, Subject, OneElement, Reading, SoFar, RemovedStaysAway, disk,
     Saving
<1>9. wanted \subseteq Planned(text) /\ (pc # "off" => wanted \subseteq Listed)
  BY <1>1 DEF IInv, Wanted, Awake
<1>10. wanted' \subseteq Planned(text)'
  BY <1>1, <1>9 DEF Planned, disk
<1>11. pc # "off" => wanted' \subseteq Listed'
  <2>1. SUFFICES ASSUME NEW b \in wanted', pc # "off" PROVE b \in Listed'
    OBVIOUS
  <2>2. b \in Listed /\ b > now + 1
    BY <1>1, <1>9, <2>1
  <2>3. PICK t \in timer_list :
          ~entry[t].disabled /\ ~entry[t].dontSave /\ b = entry[t].begin
    BY <2>2 DEF Listed
  <2>4. entry[t].begin \in Nat /\ entry[t].length \in Nat /\ t \in Timers
    BY <1>3, <2>3 DEF Typed, Entry
  <2>5. ~Over(entry[t], now + 1)
    BY <1>1, <2>2, <2>3, <2>4 DEF Over
  <2>6. t \in timer_list' /\ entry'[t] = entry[t]
    BY <1>2, <2>3, <2>4, <2>5
  <2> QED BY <1>1, <2>2, <2>3, <2>6 DEF Listed
<1>12. Wanted'
  BY <1>1, <1>10, <1>11 DEF Wanted, Awake
<1> QED
  BY <1>7, <1>8, <1>12 DEF IInv

-----------------------------------------------------------------------------
(* The file, and the next start.                                           *)

\* The file is empty now; the lists are not.
LEMMA OpenFileKeeps ==
  ASSUME IInv, OpenFile
  PROVE  IInv'
<1>1. /\ pc = "save" /\ pc' = "write" /\ file' = "torn" /\ text' = {}
      /\ UNCHANGED <<memory, now, rest, after, subject, wanted, gone>>
  BY DEF OpenFile, seen
<1>2. /\ Filed' = Filed /\ Listed' = Listed /\ Planned(rest)' = Planned(rest)
      /\ Loading' = Loading /\ Awake' = Awake
  BY <1>1 DEF Filed, Listed, Planned, Loading, Awake, memory
<1>3. TypeOK' /\ Subject'
  BY <1>1, <1>2 DEF IInv, TypeOK, Subject, Saving, memory
<1>4. OneElement' /\ Reading' /\ SoFar'
  BY <1>1, <1>2 DEF IInv, OneElement, Reading, SoFar, memory
<1>5. Wanted' /\ RemovedStaysAway'
  BY <1>1, <1>2 DEF IInv, Wanted, RemovedStaysAway, Ids
<1> QED
  BY <1>3, <1>4, <1>5 DEF IInv

\* The file says what the lists say.
LEMMA CloseKeeps ==
  ASSUME IInv, Close
  PROVE  IInv'
<1>1. /\ pc = "write" /\ pc' = after /\ after' = "off" /\ file' = "whole"
      /\ text' = Text /\ wanted' = wanted \cup Listed
      /\ UNCHANGED <<memory, now, rest, subject, gone>>
  BY DEF Close
<1>2. /\ Filed' = Filed /\ Listed' = Listed /\ Planned(rest)' = Planned(rest)
      /\ Text' = Text /\ Planned(text)' = Planned(Text)
  BY <1>1 DEF Filed, Listed, Planned, Text, memory
<1>3. after \in {"idle", "finishedEdit", "finishedAdd", "removed", "loading", "off"}
  BY DEF IInv, TypeOK
<1>4. Loading' = Loading /\ (Awake' => Awake)
  BY <1>1, <1>3 DEF Loading, Awake
<1>5. TypeOK'
  BY <1>1, <1>3, TextTyped DEF IInv, TypeOK, memory
<1>6. Ids(Text) \subseteq Filed
  BY DEF Ids, Text
<1>7. Subject'
  BY <1>1, <1>2, <1>3, <1>6 DEF IInv, Subject, Saving, Ids
<1>8. OneElement' /\ Reading'
  BY <1>1, <1>4 DEF IInv, OneElement, Reading, Text
<1>9. SoFar'
  BY <1>1, <1>2, <1>4 DEF IInv, SoFar, memory
<1>10. Wanted'
  <2>1. \A b \in wanted' : b > now'
    BY <1>1 DEF IInv, Wanted, Listed
  <2>2. CASE Loading
    BY <1>1, <1>2, <1>4, <2>1, <2>2 DEF IInv, Wanted, Awake
  <2>3. CASE ~Loading
    <3>1. wanted' = Listed
      BY <1>1, <2>3 DEF IInv, Wanted, Awake
    <3> QED BY <1>2, <1>4, <2>1, <2>3, <3>1, ListedPlanned DEF Wanted
  <2> QED BY <2>2, <2>3
<1>11. RemovedStaysAway'
  BY <1>1, <1>2, <1>6 DEF IInv, RemovedStaysAway, Ids
<1> QED
  BY <1>5, <1>7, <1>8, <1>9, <1>10, <1>11 DEF IInv

\* Nothing is in memory any more, and what is wanted is in the file.
LEMMA ForgetKeeps ==
  ASSUME IInv, Forget, UNCHANGED <<now, disk, gone>>, wanted' \subseteq wanted,
         wanted' \subseteq Planned(text)
  PROVE  IInv'
<1>1. /\ entry' = [t \in Timers |-> Blank] /\ timer_list' = {}
      /\ processed_timers' = {} /\ subject' = NoTimer /\ rest' = {}
      /\ pc' = "off" /\ after' = "off"
      /\ UNCHANGED <<now, file, text, gone>>
  BY DEF Forget, disk
<1>2. ~Loading' /\ ~Awake' /\ Filed' = {}
  BY <1>1 DEF Loading, Awake, Filed
<1>3. Blank \in Entry
  BY DEF Blank, Entry
<1>4. TypeOK'
  BY <1>1, <1>3 DEF IInv, TypeOK
<1>5. Subject' /\ OneElement' /\ Reading' /\ SoFar'
  BY <1>1, <1>2, StoreAssumption
     DEF IInv, TypeOK, Subject, Saving, OneElement, Reading, SoFar
<1>6. Wanted'
  BY <1>1, <1>2 DEF IInv, Wanted, Planned
<1>7. RemovedStaysAway'
  BY <1>1, <1>2 DEF IInv, RemovedStaysAway, Ids
<1> QED
  BY <1>4, <1>5, <1>6, <1>7 DEF IInv

\* A save that fails leaves nothing to be wanted.
LEMMA WriteFailsKeeps ==
  ASSUME IInv, WriteFails
  PROVE  IInv'
<1>1. CASE after = "loading"
  <2>1. /\ pc = "write" /\ pc' = "idle" /\ after' = "off" /\ rest' = {} /\ wanted' = {}
        /\ UNCHANGED <<memory, now, file, text, subject, gone>>
    BY <1>1 DEF WriteFails, disk
  <2>2. ~Loading' /\ Filed' = Filed
    BY <2>1 DEF Loading, Filed, memory
  <2>3. TypeOK' /\ Subject' /\ OneElement' /\ Reading' /\ SoFar'
    BY <2>1, <2>2 DEF IInv, TypeOK, Subject, Saving, OneElement, Reading, SoFar, memory
  <2>4. Wanted' /\ RemovedStaysAway'
    BY <2>1, <2>2 DEF IInv, Wanted, RemovedStaysAway, Ids
  <2> QED BY <2>3, <2>4 DEF IInv
<1>2. CASE after # "loading"
  BY <1>2, ForgetKeeps DEF WriteFails
<1> QED
  BY <1>1, <1>2

\* What the file planned is still wanted, unless it was being written.
LEMMA PowerFailsKeeps ==
  ASSUME IInv, PowerFails
  PROVE  IInv'
<1>1. wanted' \subseteq wanted /\ wanted' \subseteq Planned(text)
  BY DEF PowerFails, IInv, Wanted
<1> QED
  BY <1>1, ForgetKeeps DEF PowerFails

\* What the file planned is left to be loaded.
LEMMA BootKeeps ==
  ASSUME IInv, Boot
  PROVE  IInv'
<1>1. /\ pc = "off" /\ timer_list' = {} /\ processed_timers' = {} /\ subject' = NoTimer
      /\ UNCHANGED <<entry, now, text, after, wanted, gone>>
      /\ \/ file = "whole" /\ rest' = text /\ pc' = "loading" /\ file' = file
         \/ file # "whole" /\ file' \in {"absent", file} /\ pc' = "idle" /\ rest' = rest
  BY DEF Boot, seen
<1>2. ~Loading /\ rest = {} /\ wanted \subseteq Planned(text) /\ Filed' = {}
  BY <1>1 DEF Loading, IInv, Reading, Wanted, Filed
<1>3. TypeOK' /\ Subject'
  BY <1>1, StoreAssumption DEF IInv, TypeOK, Subject, Saving
<1>4. OneElement' /\ Reading' /\ SoFar'
  BY <1>1, <1>2 DEF IInv, OneElement, Reading, SoFar, Loading
<1>5. RemovedStaysAway'
  BY <1>1, <1>2 DEF IInv, RemovedStaysAway, Ids
<1>6. Planned(text)' = Planned(text)
  BY <1>1 DEF Planned
<1>7. CASE pc' = "loading"
  <2>1. Loading' /\ ~Awake' /\ Planned(rest)' = Planned(text)
    BY <1>1, <1>7 DEF Loading, Awake, Planned
  <2>2. Wanted'
    BY <1>1, <1>2, <2>1 DEF IInv, Wanted
  <2> QED BY <1>3, <1>4, <1>5, <2>2 DEF IInv
<1>8. CASE pc' = "idle"
  <2>1. text = {}
    BY <1>1, <1>8 DEF IInv, Reading
  <2>2. wanted = {}
    BY <1>2, <2>1 DEF Planned
  <2>3. Wanted'
    BY <1>1, <1>8, <2>2 DEF Wanted, Loading
  <2> QED BY <1>3, <1>4, <1>5, <2>3 DEF IInv
<1> QED
  BY <1>1, <1>7, <1>8

\* The element moves from the rest to the lists, or its start was there.
LEMMA LoadKeeps ==
  ASSUME IInv, NEW x \in rest, Load(x)
  PROVE  IInv'
<1>1. /\ pc = "loading" /\ rest' = rest \ {x}
      /\ UNCHANGED <<now, file, text, subject, wanted, gone>>
  BY DEF Load, disk, seen
<1>2. Loading /\ ~Awake /\ Typed /\ now \in Nat /\ x \in Element
  BY <1>1 DEF Loading, Awake, IInv, TypeOK, Typed
<1>3. x.id \in Timers /\ x.timer \in Entry /\ x.id \notin Filed /\ ~x.timer.dontSave
  BY <1>1, <1>2 DEF Element, IInv, SoFar, Ids, OneElement
<1>4. wanted \subseteq Listed \cup Planned(rest)
  BY <1>2 DEF IInv, Wanted
<1>5. Planned(rest) \subseteq Planned(rest)' \cup
        {b \in {x.timer.begin} : ~x.timer.disabled /\ b > now}
  BY <1>1 DEF Planned
<1>6. OneElement'
  BY <1>1 DEF IInv, OneElement
<1>7. CASE AddTimerEntry(x.id, x.timer) /\ Save("loading")
  <2>1. Loading' /\ ~Awake' /\ pc' = "save" /\ after' = "loading"
    BY <1>7 DEF Save, Loading, Awake
  <2>2. PICK y \in Entry : Files(x.id, x.timer, y)
    BY <1>2, <1>3, <1>7, Filing
  <2>3. Typed' /\ (x.id \in timer_list' => ~x.timer.disabled)
    BY <1>2, <1>3, <1>7, Filing
  <2>4. /\ \A u \in Timers \ {x.id} : entry'[u] = entry[u]
        /\ entry'[x.id] = y /\ Filed' = Filed \cup {x.id} /\ timer_list' \subseteq Timers
    BY <1>2, <1>3, <2>2, <2>3 DEF Files, Typed
  <2>5. TypeOK'
    BY <1>1, <2>1, <2>3 DEF IInv, TypeOK, Typed
  <2>6. Subject' /\ Reading'
    BY <1>1, <2>1 DEF IInv, Subject, Saving, Reading
  <2>7. SoFar'
    <3>1. (Ids(rest) \cap Filed = {})'
      BY <1>1, <1>2, <2>4 DEF IInv, SoFar, Ids, OneElement
    <3>2. \A u \in Filed' : ~entry'[u].dontSave
      BY <1>2, <1>3, <2>2, <2>4 DEF IInv, SoFar, Files, Filed, Typed
    <3>3. \A u \in timer_list' : ~entry'[u].disabled
      BY <1>2, <1>3, <2>2, <2>3, <2>4 DEF IInv, SoFar, Files
    <3> QED BY <2>1, <3>1, <3>2, <3>3 DEF SoFar
  <2>8. Listed \cup {b \in {x.timer.begin} : ~x.timer.disabled /\ b > now}
          \subseteq Listed'
    <3>1. Listed \subseteq Listed'
      <4>1. SUFFICES ASSUME NEW t \in timer_list, ~entry[t].disabled,
                            ~entry[t].dontSave, entry[t].begin > now
                     PROVE  entry[t].begin \in Listed'
        BY DEF Listed
      <4>2. t # x.id /\ t \in Timers
        BY <1>2, <1>3 DEF Filed, Typed
      <4>3. t \in timer_list' /\ entry'[t] = entry[t]
        BY <2>2, <2>4, <4>2 DEF Files
      <4> QED BY <1>1, <4>1, <4>3 DEF Listed
    <3>2. ASSUME ~x.timer.disabled, x.timer.begin > now
          PROVE  x.timer.begin \in Listed'
      <4>1. x.id \in timer_list' /\ entry'[x.id] = x.timer
        BY <1>3, <2>2, <2>4, <3>2 DEF Files
      <4> QED BY <1>1, <1>3, <3>2, <4>1 DEF Listed
    <3> QED BY <3>1, <3>2
  <2>9. Wanted'
    BY <1>1, <1>4, <1>5, <2>1, <2>8 DEF IInv, Wanted
  <2>10. RemovedStaysAway'
    BY <1>1, <2>4 DEF IInv, RemovedStaysAway, Ids
  <2> QED BY <1>6, <2>5, <2>6, <2>7, <2>9, <2>10 DEF IInv
<1>8. CASE Double(x.timer) /\ UNCHANGED <<memory, pc, after>>
  <2>1. PICK u \in timer_list : entry[u].begin = x.timer.begin
    BY <1>8 DEF Double
  <2>2. ~entry[u].disabled /\ ~entry[u].dontSave
    BY <1>2, <2>1 DEF IInv, SoFar, Filed
  <2>3. {b \in {x.timer.begin} : ~x.timer.disabled /\ b > now} \subseteq Listed
    BY <2>1, <2>2 DEF Listed
  <2>4. /\ Listed' = Listed /\ Filed' = Filed /\ Text' = Text /\ pc' = pc
        /\ Loading' /\ ~Awake' /\ after' = after /\ entry' = entry
        /\ timer_list' = timer_list
    BY <1>1, <1>8 DEF Listed, Filed, Text, Loading, Awake, memory
  <2>5. TypeOK' /\ Subject' /\ Reading'
    BY <1>1, <1>8, <2>4 DEF IInv, TypeOK, Subject, Saving, Reading, memory
  <2>6. SoFar'
    <3>1. Filed # {}
      BY <2>1 DEF Filed
    <3> QED BY <1>1, <1>2, <2>4, <3>1 DEF IInv, SoFar, Ids
  <2>7. Wanted'
    BY <1>1, <1>4, <1>5, <2>3, <2>4 DEF IInv, Wanted
  <2>8. RemovedStaysAway'
    BY <1>1, <2>4 DEF IInv, RemovedStaysAway, Ids
  <2> QED BY <1>6, <2>5, <2>6, <2>7, <2>8 DEF IInv
<1> QED
  BY <1>7, <1>8 DEF Load

\* Nothing is left to load, so that all is listed.
LEMMA LoadedKeeps ==
  ASSUME IInv, Loaded
  PROVE  IInv'
<1>1. /\ pc = "loading" /\ rest = {} /\ pc' = "idle"
      /\ UNCHANGED <<memory, now, file, text, rest, after, subject, wanted, gone>>
  BY DEF Loaded, disk, seen
<1>2. Loading /\ ~Loading' /\ Filed' = Filed /\ Listed' = Listed
      /\ Planned(text)' = Planned(text)
  BY <1>1 DEF Loading, Filed, Listed, Planned, memory
<1>3. TypeOK' /\ Subject' /\ OneElement' /\ Reading' /\ SoFar'
  BY <1>1, <1>2 DEF IInv, TypeOK, Subject, Saving, OneElement, Reading, SoFar, memory
<1>4. wanted \subseteq Listed
  BY <1>1, <1>2 DEF IInv, Wanted, Planned
<1>5. wanted \subseteq Planned(text)
  <2>1. CASE text = Text
    BY <1>4, <2>1, ListedPlanned
  <2>2. CASE Filed = {}
    BY <1>4, <2>2 DEF Listed, Filed
  <2> QED BY <1>1, <1>2, <2>1, <2>2 DEF IInv, SoFar
<1>6. Wanted' /\ RemovedStaysAway'
  BY <1>1, <1>2, <1>4, <1>5 DEF IInv, Wanted, RemovedStaysAway, Ids
<1> QED
  BY <1>3, <1>6 DEF IInv

-----------------------------------------------------------------------------
\* Nothing is stored, and nothing wanted, before the first start.
LEMMA InitIInv == Init => IInv
<1> SUFFICES ASSUME Init
             PROVE  IInv
  OBVIOUS
<1>1. Blank \in Entry
  BY DEF Blank, Entry
<1>2. TypeOK
  BY <1>1 DEF Init, TypeOK
<1>3. Subject /\ OneElement /\ Reading /\ SoFar /\ Wanted /\ RemovedStaysAway
  BY DEF Init, Subject, Saving, OneElement, Reading, SoFar, Wanted, RemovedStaysAway,
     Filed, Ids, Loading, Awake
<1> QED
  BY <1>2, <1>3 DEF IInv

\* The invariant is inductive: one step for each action.
LEMMA NextKeepsIInv == IInv /\ [Next]_vars => IInv'
<1> SUFFICES ASSUME IInv, [Next]_vars
             PROVE  IInv'
  OBVIOUS
<1>1. CASE UNCHANGED vars
  BY <1>1 DEF vars, memory, disk, seen, IInv, TypeOK, Subject, Saving, OneElement,
     Reading, SoFar, Wanted, RemovedStaysAway, Filed, Ids, Loading, Awake, Text, Planned,
     Listed
<1>2. ASSUME NEW t \in Timers, Request(t)
      PROVE  IInv'
  BY <1>2, KeyGoKeeps, InstantKeeps, DisableKeeps, StopCurrentKeeps, EnableKeeps,
     RemoveEntryKeeps DEF Request
<1>3. CASE Subservice \/ FinishedEdit \/ FinishedAdd \/ ConflictAnswer \/ Removed
  BY <1>3, SubserviceKeeps, FinishedEditKeeps, FinishedAddKeeps, ConflictAnswerKeeps,
     RemovedKeeps
<1>4. CASE Cleanup \/ Shutdown \/ Tick
  BY <1>4, CleanupKeeps, ShutdownKeeps, TickKeeps
<1>5. CASE OpenFile \/ Close \/ WriteFails \/ PowerFails \/ Boot
  BY <1>5, OpenFileKeeps, CloseKeeps, WriteFailsKeeps, PowerFailsKeeps, BootKeeps
<1>6. ASSUME NEW x \in rest, Load(x)
      PROVE  IInv'
  BY <1>6, LoadKeeps
<1>7. CASE Loaded
  BY <1>7, LoadedKeeps
<1> QED
  BY <1>1, <1>2, <1>3, <1>4, <1>5, <1>6, <1>7 DEF Next

\* The invariant implies what it was strengthened from.
LEMMA IInvImplies == IInv => TypeOK /\ WantedSurvive /\ RemovedStaysAway
<1> SUFFICES ASSUME IInv
             PROVE  WantedSurvive
  BY DEF IInv
<1>1. Awake => wanted \subseteq Listed /\ wanted \subseteq Planned(Text)
  BY ListedPlanned DEF IInv, Wanted
<1>2. Loading => wanted \subseteq Planned(Text) \cup Planned(rest)
  BY ListedPlanned DEF IInv, Wanted
<1>3. ~Loading /\ pc # "write" => wanted \subseteq Planned(text)
  BY DEF IInv, Wanted
<1> QED
  BY <1>1, <1>2, <1>3 DEF WantedSurvive, Awake, Loading

\* The invariant holds in every reachable state.
LEMMA Invariant == Spec => []IInv
BY InitIInv, NextKeepsIInv, PTL DEF Spec

\* The variables keep their types, and a timer is in one list: whatever the
\* screens file anew, and whatever a load files.
THEOREM StoreTypeCorrect == Spec => []TypeOK
BY Invariant, IInvImplies, PTL

\* Through saves, power failures, loads, repetition and all requests of the
\* user, a start that was stored has an enabled timer in the file or in the lists.
THEOREM WantedSurviveAlways == Spec => []WantedSurvive
BY Invariant, IInvImplies, PTL

\* A timer whose removal has returned is in no list and in no file again.
THEOREM RemovedStaysAwayAlways == Spec => []RemovedStaysAway
BY Invariant, IInvImplies, PTL
=============================================================================
