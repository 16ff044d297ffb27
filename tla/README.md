# Verification of evolux-spark-sh4

The repository builds the firmware of Spark (sh4) satellite receivers: the user
interface *enigma2* (C++ and Python), kernel drivers, libraries, and the build
system (`tdt/cvs/cdk`). Most of its 17,000 files are makefiles, patches, skins
and vendor code. This directory holds TLA+ models of the parts that carry the
program's own logic, model-checking configurations for them, and proofs.

Paths below are relative to `src/tdt/cvs/apps/enigma2-nightly/` unless they start
with `tdt/` (then relative to `src/`).

## 1. Inventory

| Component | State | Operations | Hard because |
|---|---|---|---|
| **Timer queue** `timer.py` | `timer_list` sorted by `getNextActivation`, `processed_timers`, `lastActivation`, one eTimer | `addTimerEntry`, `timeChanged`, `doActivate`, `processActivation`, `calcNextActivation`, `setNextActivation`, `cleanup`, `processRepeated`, `abort` | sort keys change while an entry is in the list; handlers call each other from inside the activation loop; the wall clock jumps |
| **Recording timers** `RecordTimer.py` | per entry: state, begin, end, backoff, repetition, `record_service`, `autoincrease`, `cancelled`, after-event | `activate`, `tryPrepare`, `do_backoff`, `timeChanged`, `record`, `removeEntry`, `getNextRecordingTime` | tuners are taken and released along many paths; failed preparations are retried; the shutdown is decided in an event callback in the middle of an activation |
| **Timer file** `RecordTimer.py` 495-615 | `timers.xml`, and the lists in memory | `saveTimer`, `loadTimer` | written in place, and rewritten while it is loaded; some changes save, others do not; a restart sees what was saved last |
| **Timer screens** `lib/python/Screens/TimerEdit.py`, `TimerEntry.py`, `InfoBarGenerics.py` | the entry an open dialog is about, the timers a conflict screen shows | add, edit, disable, stop, remove, clean up; solve a conflict; instant recording | dialogs stay open while the queue moves on; the editor and the conflict screen write into entries that are filed |
| **eNavigation** `lib/nav/core.cpp` | `m_recordings` | `recordService`, `stopRecordService`, `getRecordings`, the `evEnd` event | the event is delivered from inside the call that stops the recording |
| **Navigation, standby** `Navigation.py`, `lib/python/Screens/Standby.py` | `inStandby`, `receiveRecordEvents`, quit | standby on and off, `TryQuitMainloop`, `quitMainloop` | who still needs the box when it is about to be switched off |
| **Main loop, clock** `lib/base/ebase.cpp`, `lib/dvb/dvbtime.cpp` | list of eTimers (monotonic), wall clock | timers before events; clock set from the transponder | the eTimer and `time()` are different clocks |
| **Conflict check** `lib/python/Components/TimerSanityCheck.py` | none | `check`, `doubleCheck` | repeated timers, several tuners |
| **Sleep timer** `SleepTimer.py` | one entry in a queue of its own | set, clear, message box | answer after the time is over |
| **Threads** `lib/base/thread.cpp`, `thread.h`, `elock.cpp` | `m_state` (semaphore), `m_alive`, `m_started`, `the_thread` | `run`, `runAsync`, `sync`, `kill`, `sendSignal`; the wrapper and its cleanup handler | start, end, cancellation and rerun race |
| **Recording pump** `lib/base/filepush.cpp`, `lib/dvb/demux.cpp` | `m_stop`, buffer, file descriptors | `start`, `stop`, `pause`, `resume`, `flush`, the pump loop | a stop flag and a signal against a blocking read |
| **File eraser** `lib/components/file_eraser.cpp` | message pump, idle timer, `app_quit_now`, thread | `erase`, destructor, the thread's loop | a request or the quit message while the thread starts or ends; threads are run again without being joined |
| **Plane memory** `tdt/cvs/driver/bpamem/bpamem.c` | `bpamem_dev`: 32 devices, one semaphore | `ALLOCMEM`, `FREEMEM`, mmap, unload | only the search is locked; four ways out of a failed allocation |
| **Front panel** `tdt/cvs/driver/frontcontroller/aotom/aotom_main.c` | display thread, `draw_thread_stop`, two semaphores, last text | write, ioctl, draw thread | one flag tells the states of several threads; arguments are handed over by pointer; locks on error paths |
| **DVB resources** `lib/dvb/dvb.cpp`, `lib/service/servicedvbrecord.cpp` | frontends, channels, reference counts | allocate, tune, release | priorities; asynchronous release |
| Common interface, other drivers, other user interfaces, libraries, build system | | | vendor code, plain hardware access, or no program logic |

How they interact: screens call the record timer directly; the record timer asks
eNavigation for recordings and gets `evEnd` back as a nested call; eNavigation
creates `eDVBServiceRecord`, whose recorder owns a pump thread; the main loop
delivers eTimers and events; standby and shutdown are decided by timers.

What makes each part correct:

* queue: each timer in exactly one list, list sorted as long as every edit is
  filed at once, eTimer never late, polled again whatever the clock does,
  handlers return;
* recording timers: tuners held exactly by prepared and running recordings, no
  early start, retries delayed and bounded, recordings stopped at their end, no
  shutdown under a recording, disabled timers passive;
* timer file: a recording that was saved is started unless the file itself is
  hit (how long it lasts and whether it repeats is not certain: section 5), a
  removed timer does not come back;
* threads: no assertion fails, `sync()` tells the truth, every call returns, no
  pthread is lost;
* pump: `stop()` returns, nothing is lost or reordered, each block is filtered
  once, the end of a file is announced, nothing is used after `stop()`;
* eraser: one thread at a time, no request dropped that the thread can see, the
  destructor returns;
* plane memory: one owner for a device, no page freed twice or leaked;
* front panel: the last text is shown, arguments outlive their use, calls return.

## 2. Modules and how they correspond to the code

| Module | Models | Used by |
|---|---|---|
| `RecordTimer` | timer queue, recording timers, screens, eNavigation's recordings, standby, main loop, clock | `MCRecordTimer`, `RecordTimer_proofs`, `RecordTimer_time_proofs` |
| `ThreadStates` | the thread as the comment in `thread.h` describes it: four states and the answers of `sync()` (abstract) | `EThread` |
| `EThread` | `thread.cpp` step by step; implements `ThreadStates` | `MCEThread`, `EThread_proofs` |
| `FilePush` | the pump of `filepush.cpp` and its owner, over the thread `thread.h` describes | `MCFilePush`, `FilePush_proofs` |
| `Bpamem` | the driver `bpamem.c` and the processes that use it | `MCBpamem`, `Bpamem_proofs` |
| `TimerStore` | `timers.xml`: what is saved when, loading, power failures and a full disk | `MCTimerStore`, `TimerStore_proofs` |
| `FileEraser` | `file_eraser.cpp`, composed with `EThread` (INSTANCE) | `MCFileEraser`, `FileEraser_proofs` |
| `Aotom` | the text display of `aotom_main.c`: calls, semaphores, draw threads | `MCAotom`, `Aotom_proofs` |

`PROJECT.json` names for every definition the lines it stands for. Definitions
marked *variant* in a module are not part of the model: each states what a
plausible mistake in the code above or below it would be, and shows, put in the
place of the right definition, that some property notices.

### RecordTimer

*State.* `entry` holds the fields of each `RecordTimerEntry`; `timer_list`,
`processed_timers` and `lastActivation` are those of `Timer`; `wakeup` is the
expiry of its eTimer; `m_recordings` is eNavigation's set. `pc` is where the main
loop is: idle, in the loop of `processActivation` ("activate"), in the
re-evaluation of `calcNextActivation` ("timewarp"), in the second half of
`removeEntry` ("increase") or in the loop over the timers an edited one
conflicts with ("shorten"). `dialog` is where the answer of an open screen goes:
the stop dialog, the editor or the subservice box (`finishedEdit`), the conflict
screen; `subject` is the entry it is about, `rivals` are the others of
`simulTimerList`.

*Conflicts.* When `check` fails, `finishedEdit` and `finishedAdd` give the
conflicting recordings that are extended a new end and file each of them anew
(`Conflict`, `Shorten`), while the edited entry lies where it did with its new
times; then they check again (`Shortened`), and either go on or open the conflict
screen (`OpenConflict`). There the user toggles or edits a timer in place, or
nothing (`ConflictAnswer`); it closes with the first timer, which is checked again
(`Finish`). `Insort` is a set: the list that results if the binary search of
`bisect` is made in a list which may not be sorted.

*Actions.* A request of a screen (`Record`, `EditTimer`, `ToggleDisabledState`,
`StopOnlyComing`, `RemoveEntry`, `Cleanup`, ...) and the expiry of the eTimer
(`TimerExpires`) begin a handler; requests are taken only when no eTimer is due,
as `eMainloop::processOneEvent` does. Each turn of the activation loop is one
step (`ProcessActivation`), with the whole of `doActivate`, `activate`,
`tryPrepare` and the nested `evEnd` callback in it, because each turn asks the
time again and has its own outcome. Between turns the clock may move (`Tick`) and
be corrected (`ClockStep`), never to the epoch or before it: those who ask
`getNextRecordingTime` take an answer that is not positive for "none".

*Time.* `TicksPerSecond` ticks are a second, so that `time()` and `int(time())`
differ as they do in the code. Intervals are constants, and their order is kept:
preparation, backoff, maximal wait, auto-increase, the shutdown guard (360 s)
above the largest backoff (100 s).

*Data.* A service, a tuner and a disk are the outcomes that `recordService`,
`prepare` and `start` may have (`Faults`). Whether a timer conflicts with others
is open: both answers are explored. `Edits` opens what the code does not guard:
"retype" changes zap/record of a running timer, "conflict" lets `check` fail, with
all that follows, "open" lets other steps come between the editor's writing into
the entry and `finishedEdit` (the subservice box of `TimerEntry.py:348`, or just a
timer that expires before the screen has closed), "late" makes requests while a
timer is due, "dialog" leaves the stop dialog open.

### ThreadStates and EThread

`stage[t]` is how far pthread `t` is in `wrapper()` and `thread_completed()`;
`pc` and `goal` are where the owner is in `sync`, `runAsync` or `kill`. The steps
lie between the accesses to what is shared: the semaphore `m_state`, `m_alive`
and `m_started`. Where an `ASSERT` would stop a debug build, the model goes on and
`AssertionsHold` says what was asserted. `pthread_cancel` only makes a body end
earlier, which a body may always do. `Uses` opens a rerun without join, a
`pthread_create` that fails, a body that dies before `hasStarted`.

`State` maps the flags to the four states of the header; `TS!Spec` is the
refinement that run *thread* checks and `ImplementsHeader` proves.

### FilePush

`pump` is where `thread()` is. Entering a blocking call and the call itself are
two steps, because a signal between them is lost. The buffer is the blocks of the
last read with the three indices of the code; `written`, `filtered` and `dropped`
record what became of each block. The owner's calls are those of
`eDVBRecordFileThread` and the channel: `Resume`, `Stop` (three steps), `Flush`
while paused, and the modes set before the first start. The filter may return
less than it was given ("strip"). The thread under it is the abstract one; what
happens inside it is `EThread`'s business.

### Bpamem

`used`, `part` and `phys_addr` are the fields of `bpamem_dev`. Every single
access to the table is a step, so nothing rests on the kernel running one ioctl
at a time. `taken` is what bpa2 has given out. `device_num` is the device a
process was given and `lost` are the devices of processes that ended.

### TimerStore

*State.* `timer_list` and `processed_timers` as sets, `entry` with what matters to
the file: `begin`, `length`, `repeated`, `disabled` and `dontSave`; `now`. `file`
and `text` are `timers.xml`; it is "torn" from `open(..., "w")` until `close`.
`rest` is what `loadTimer` has not recorded yet. `wanted` and `gone` observe what
the user may rely on: the starts to come that were listed, enabled and to be saved
when a save completed, until the user disposes of the timer or the time comes,
and the timers whose removal has returned.

*Actions.* Each request of a screen; `saveTimer` as `OpenFile` and `Close` with the
return in `after`; `loadTimer` as `Boot`, one `Load` for each element and the save
it calls. `KeyGo` writes an entry in place and saves before `FinishedEdit` or
`FinishedAdd` file it, or a box for the subservice stays open in between.
`ProcessRepeated` moves a repeated timer to its next occurrence whenever it is
filed: when it is loaded, edited, toggled, stopped, and when it ends (`Tick`).
`Double` is what `doubleCheck` compares: the begin (all timers are of one service).
`check`'s answer is open; on a conflict the conflict screen opens, and what is
toggled or edited there is written in place and saved only by the editor.
`PowerFails` may come between any two steps, `WriteFails` (a full disk) while
writing: `__init__` catches it during a load, everywhere else it ends the program.
Elements are loaded in any order, so no property depends on the order of lists.

### FileEraser

`T == INSTANCE EThread` with the variables of that module and the owner's habit
"rerun": `RunThread` and `KillThread` are `EThread`'s operations, `body` says how
far each pthread is in `thread()`, and `pipe`, `app_quit_now` and `bActive` are
the message pump, the loop's quit flag and the idle timer. The second of the
timer passes only in `poll()`. `at = "dead"` is the `eFatal` of `sync()`.

### Aotom

`pc` is where each calling process is, `stage` where each kernel thread is.
Steps lie between accesses to `draw_thread_stop`, `draw_task`, `last_draw_data`,
`vfd_data` (one for all ioctls), the argument of a `write()` (on its stack: it is
gone when the call returns) and the display. Texts are short or long; a long text
is scrolled, and `Part` is what the display shows meanwhile. `Faults` opens a
failing `copy_from_user` and a failing `kthread_run`; `Interrupted` is a signal
in `down_interruptible`.

## 3. Runs

| Run | Checks | Shows |
|---|---|---|
| record | TypeOK, TunerHeld, RejectedIsDelayed, NeverStartsEarly, ShutdownSparesRecordings, HandlersReturn, RecordingsEnd | two recordings back to back with two ticks to the second, one asking for deep standby, while preparing and starting may fail at every attempt; with time passing, handlers return and recordings are stopped |
| user | Sorted, NeverOversleeps, RemovedTimerHasEnded, DisabledTakesNoTuner | four requests over one-shot, zap and daily timers, stop dialogs that stay open, overdue timers, services that are gone; no conflicts |
| clock | FiledOnce, PollsAgain, TimewarpRestoresTimers | the clock set forward and back between any two turns; retyped timers, open boxes, conflicts with all that the code does about them |
| no_service | RejectedIsDelayed (violated) | finding 1 |
| timer_store | TypeOK, WantedSurvive, RemovedStaysAway | adding, editing, toggling, stopping, repeating, removing, conflicts, ignored doubles, saving and loading, with a power failure or a full disk anywhere, also for deadlock |
| thread | AssertionsHold, NoThreadLost, KeepsPromises, CallsReturn | an owner that joins before it runs again, with early deaths and failing `pthread_create` |
| eraser | OneBody, RequestsDone, DestructorReturns | a thread that quits, is run again without a join, and is stopped by the destructor |
| eraser_rerun | AssertionsHold (violated) | finding 2 |
| pump | TypeOK, NothingLost, FilteredOnce, NoUseAfterStop, StopReturns, EndIsAnnounced | recording and playback, short transfers, write errors, interrupted and busy calls, a stripping filter, pauses and flushes |
| pump_signal | StopReturns (violated) | finding 3 |
| bpamem | TypeOK, OneOwner, PagesAccounted, MappingsOwned, ExitFreesAll, CallsReturn | allocation, failure at every step, mapping, freeing, death and unloading, also for deadlock |
| aotom | TypeOK, ShowsLast, ArgumentStays, CallsReturn | two processes, two scrolling texts and a short one, interrupted calls, failing copies and threads, also for deadlock |

*Bounds.* All are constants. Two timers are enough for the properties that relate
timers (order in the list, one being due while another is activated, the shutdown
looking at "the others"); they are symmetric where nothing names one. `MaxClock` lets
a timer be prepared, fail, back off, start, end and repeat; `MaxRequests` lets a
dialog be opened, another request come between, and the dialog be answered. Two
pthreads are one that ends and one that follows it. Two blocks of buffer are the
least in which a short write or a stripped tail leaves something behind, four blocks
of source are two fillings; four calls are a start, a stop, a flush and a start.
Three processes compete for two devices, so that the search finds nothing; one
partition has a single run of pages, so that it is exhausted. `TimerStore` has two
timers that begin at 1 or 4 and last 2, with days of 3 and a clock up to 4, so that a
daily timer ends and moves to the begin of another, and one of them is edited or
removed when the other is its double; timers are never reused after their removal.
`FileEraser` has three files and as many pthreads: a thread, one that is run while
the first cleans up, and one more when the semaphore is wrong. `Aotom` has two
processes and two threads: a thread that still ends and the one that replaces it;
draw_thread_sem admits no third.

*Deadlock* is not checked where time, requests, calls or the source end by a bound,
or the program may stop (`quit`, a finished pump, a destroyed eraser); it is checked
for `Bpamem`, `TimerStore` and `Aotom`.

*Fairness.* `RecordTimer`: the main loop runs and time passes. `EThread`: threads
are scheduled; a body need not end, except when its owner is about to join it,
which the users of the class see to. `FilePush`: both threads are scheduled;
reads return unless the source is "quiet", writes unless the destination is
"full", and EBUSY or EAGAIN do not come for ever. `Bpamem`: processes in the
kernel are scheduled, and `down()` serves waiting processes in turn (a kernel
semaphore is a queue). `FileEraser`: every thread is scheduled. `Aotom`: the same
as for `Bpamem`; a draw thread is scheduled, and its scrolling ends because it is
a `for` loop. No fairness is assumed of users, of clock corrections or
of the end of a process.

## 4. Proofs

TLAPS checks them for every value of the constants that satisfies the `ASSUME`s
of the module: any set of timers (finite), schedules, faults, clock steps and
intervals; any set of pthreads; any buffer and source; any set of processes,
devices, pages and partitions; any timers, shows, files, threads and texts.

* **RecordTimer_proofs**: `TypeCorrect`, `FiledOnceAlways`, `TunerHeldAlways`.
  `FiledOnce` is not inductive: it does not say that an entry which has not ended is
  in `timer_list` at all, so taking it out of "its" list could fail. `Coherent` adds
  that `timer_list` holds exactly the entries that have not ended. It is stated of
  whatever lists a handler passes on, so that the lemmas about `AddTimerEntry`,
  `Requeue`, `Retime` and `CalcNextActivation` serve every action. `TunerHeld` needs
  "retype" not in `Edits`; without it, it is false (below). That a waiting entry is
  enabled (`EnabledIfWaiting`) is claimed only if no timers conflict: the conflict
  screen disables waiting timers where they are.
* **RecordTimer_time_proofs**: `TimeInvariant` and, by it and the invariant above:
  `PollsAgainAlways`, `TimewarpRestoresTimersAlways` and `SubjectStaysFiled` without
  further assumption; `SortedAlways`, `NeverOversleepsAlways` and
  `RemovedTimerHasEndedAlways` if every edit is filed at once (`FiledAtOnce`: neither
  "conflict" nor "open" in `Edits`); `DisabledTakesNoTunerAlways` without "conflict";
  `NeverCrashes`, `NeverStartsEarlyAlways`, `RejectedIsDelayedAlways`,
  `ShutdownSparesRecordingsAlways` and `ShutdownSparesOthers` under the conditions
  their statements name. `Steps` reduces each step to a few cases, of which one
  covers every handler: it files one entry (`Refiles`) and goes on, through a
  recalculation or not (`Goes`), and one covers what is written in place
  (`Rewrites`). The clauses of `TimeInv` are preserved case by case:
  * `Polls`: the eTimer is at most `MaxWaitTime` ahead; `ClockRuns`: the clock is
    after the epoch; `NotAhead`: inside the activation loop `threshold` is not
    later than the second after the one that runs, though the clock may have
    moved; `Returns`: a recalculation returns to one of the places that begin one.
  * `Sorted` follows from `InsortSorts` and `WithoutSorts`: a list that is sorted
    but for an entry whose fields changed is sorted once that entry is taken out
    and put in again. `Sleeps` strengthens `NeverOversleeps`: it also
    covers `removeEntry` between its two halves, and leaves out the one entry the
    stop dialog has changed and not yet filed.
  * `OverOrOff`: while processed timers are re-evaluated, one that has been put
    back among them is over or disabled. `Removal`: a timer that is being removed is
    not repeated, has an end that is over, and is among the processed or pending
    ones or about to be activated: it begins and ends before `threshold`, so the
    loop cannot leave before it has ended it.
    `SubjectFiled` and `DialogFiled`: the timer of an interrupted request, or of
    an open editor, stop dialog or conflict screen, is filed or about to be.
  * `AllRegular`: the delay is 0 or between `BackoffMin` and `BackoffMax`, and no
    timer is repeated if none is asked for. `NotCrashed` and `NoDialog` say which
    places cannot be reached.

  The conditions are the ones the code needs. A conflict, solved or not, or a
  timer that expires while a box is open leaves the list unsorted, a conflict screen
  disables waiting timers, a dialog answered late starts a timer early, a timer without a
  service is not delayed, a retyped one crashes (section 5). `NeverOversleeps`
  excepts a clock set forward: the eTimer is monotonic, and only the next poll
  notices. The shutdown is decided before `doActivate` files the next occurrence
  of the recording that ended, so with repeated schedules
  `ShutdownSparesRecordings` fails for that one timer when its next occurrence is
  nearer than the guard; `ShutdownSparesOthers` has no such condition.
* **EThread_proofs**: `AssertionsAlwaysHold`, `NoThreadIsLost`,
  `ImplementsHeader`, when "rerun" is not in `Uses`. The invariant says that one
  party holds the semaphore: the owner inside `sync()`, or a start that is not
  over, which the thread or its cleanup handler gives back exactly once. So
  `WaitsForAThread`: a `sync()` that waits, waits for a thread that owes the
  semaphore, unless `pthread_create` failed, after which nobody gives it back; and
  `OwesUntilUp`: the thread owes it until it raises it.
* **FilePush_proofs**: `NothingLostAlways`, `FilteredOnceAlways`,
  `NoUseAfterStopAlways`, without further assumption. The invariant says that the
  buffer holds consecutive blocks, above all that was written, and that the part
  behind `m_filter_end` is above all that was filtered. `StopClosesIn` counts what
  is left to the pump when `stop()` has set `m_stop`: at most seven steps, whatever
  is in the buffer, and none of them is undone.
* **Bpamem_proofs**: `OneOwnerAlways`, `PagesAccountedAlways`,
  `MappingsOwnedAlways`, `ExitFreesAllAlways`. The invariant adds that one caller
  at a time searches, that what it found is unused until it is reserved, and at
  which places of a call its device has pages. `WaitsForASearch` and
  `SearchGoesOn`: `sem_find_dev` is taken only while another caller searches, and a
  search only goes to the next device or gives it back.
* **TimerStore_proofs**: `StoreTypeCorrect`, `WantedSurviveAlways`,
  `RemovedStaysAwayAlways`, for any begins, lengths and any `Day`, without further
  assumption. The two properties are not inductive: they do not say that what is
  loaded is what was saved. `SoFar` adds that during a load the lists and what is
  left to read have no timer in common, that every enabled timer read so far waits,
  and that the file is the text of the lists as of the last save; `Subject` adds
  where a removed timer may be while the save that follows its removal is under
  way. Filing a timer moves its begin only if its occurrence is over, so that no
  start to come is lost by it, and a timer is dropped as a double only if one that
  is listed starts with it. Longer and repeated doubles are lost (section 5), and
  the theorem does not speak of them.
* **Aotom_proofs**: `DisplayTypeCorrect`, `ShowsLastAlways`,
  `ArgumentStaysAlways`. The invariant says that one process at a time is between
  `down` and `up` of `draw_thread_sem` and one ioctl between its copy and its
  return (so that `vfd_data` is its own), that a thread which exists is
  `draw_task`, in a stage that `draw_thread_stop` agrees with, and that its text
  is the last one unless a process is just about to stop it. A leaked `write_sem`
  does no harm to this, and a call that waits for ever neither. `WaitsForSomebody`:
  each wait of a call is for somebody who is there, and who at the join has been
  told to stop; a failed copy and a failed `kthread_run` are the only exceptions.
* **FileEraser_proofs**: `OneBodyAlways`. The argument is about `m_alive` alone:
  only the owner sets it, only a body that has ended clears it, and the owner
  creates a thread only after it has seen it cleared. It does not rest on the
  semaphore, which finding 2 leaves in a wrong state. `DestructorIsHeard`: the
  thread `kill()` waits for has the quit message before it or has been told, even
  when it is just starting and has `app_quit_now = false` still to do, because it
  does that before it reads; `ServesUntilRead`: it reads on until then.

Only model-checked: liveness (`HandlersReturn`, `RecordingsEnd`, `CallsReturn`,
`StopReturns`, `EndIsAnnounced`, `RequestsDone`, `DestructorReturns`), which the
provers cannot do. Every invariant and action property of a passing run is
stated by a theorem. Of the waits in five of these the safety half is proved, for
every value of the constants: who waits waits for somebody who can go on
(`CallsReturn` of `EThread`, `Bpamem` and `Aotom`, and the message of
`DestructorReturns`), or for something that comes nearer with every step
(`StopReturns`). What fairness adds, that those steps are taken, is TLC's.

## 5. Findings

1. **A timer without a service is retried without delay** (`RecordTimer.py:171-182`).
   `timer.py:255-257`: "the timer entry itself will fix up the delay then".
   `tryPrepare` returns False without `do_backoff` when no service of the group
   is playable or `recordService` returns None; the activation loop spins.
2. **Running an ended thread again hits the old one's cleanup** (`thread.cpp:13`).
   `erase()` does it (`file_eraser.cpp:61`): a request that comes just after the
   idle thread has quit starts a pthread while the old one is in its cleanup
   handler, which takes the new one's flags for its own and raises the semaphore a
   second time; the next `sync()` ends enigma2 with `eFatal` (`thread.cpp:93-94`).
3. **A signal between the test of `m_stop` and the read is lost**
   (`filepush.cpp:86, 425-426`): `stop()` waits for a source that may be silent.

Seen while modelling, without a run of their own:

* `getNextRecordingTime` skips overdue entries (`RecordTimer.py:629`), so that the
  decision to shut down, which "check[s] if ... other timers start in a few
  seconds" (lines 85-86), overlooks a recording that is due in this very second;
* "Stop current event but not coming events" (`TimerEdit.py:117`) does not look
  whether the timer still runs: answered after the recording ended and the next
  occurrence is prepared, it starts that occurrence at once (with "dialog" in
  `Edits`, `NeverStartsEarly` does not hold);
* a timer disabled by "stoponlycoming" while it runs cannot be enabled again
  before it has ended: `doubleCheck` finds it itself in the list
  (`TimerEdit.py:94`);
* an edit of a timer in the processed list that is given up in the conflict screen
  has been saved by `keyGo` already: memory and file disagree;
* a full disk while timers are loaded is caught (`RecordTimer.py:456`), and leaves
  a torn file and the timers loaded so far;
* a request that comes when the eraser's thread has decided to quit, and before
  `sync()` sees it, stays in the pipe until the next `erase()`; each pthread that
  has quit without a join keeps its stack;
* `kthread_stop` may be called for a draw thread that has returned
  (`aotom_main.c:322-323`): the flag is tested, but nothing keeps the task;
  the same holds at unloading (996-997), where `up` before `kthread_stop` (1001)
  also lets an LED thread sleep again;
* `VFDSTANDBY` clears the display without `draw_thread_sem`, and `read()` of the
  remote control returns the length of the next entry (`aotom_main.c:510`);
* a timer that passes its end after it was prepared is started nevertheless:
  `shouldSkip` (`timer.py:111`) looks at waiting timers only, `doActivate`
  (`RecordTimer.py:460-462`) at nothing else;
* the editor writes `justplay` into prepared and running entries
  (`TimerEntry.py:285`): a recording turned zap keeps its tuner for good, a zap
  turned recording calls `start()` of None and ends the program (modelled as
  `Crash`, reachable with "retype");
* a timer edited in the conflict screen is not filed anew (`TimerEdit.py:371-386`):
  only the screen's first timer is. The list stays unsorted, `bisect` puts an aborted
  timer behind one that is not due, and `removeEntry`, for which "now the timer
  should be in the processed_timers list" (`RecordTimer.py:750`), raises ValueError
  in the next line (`RemovedTimerHasEnded` does not hold with "conflict" and three
  timers);
* on a conflict `timeChanged(x)` files a shortened recording by bisection while the
  edited entry is still at its old place with its new times
  (`TimerEdit.py:264-266`); the list is left unsorted although the conflict is
  solved, and the eTimer may sleep past a timer. The same holds of any timer that is
  filed while the subservice box or the conflict screen is open, and of an edit
  abandoned there ("conflict", "open": `Sorted` and `NeverOversleeps` do not hold);
* the conflict screen disables waiting timers in place (`TimerEdit.py:363-380`).
  Neither `activate` nor `doActivate` looks at `disabled`: such a timer takes a tuner
  and records ("conflict": `DisabledTakesNoTuner` does not hold);
* a failing `pthread_create` leaves `m_state` taken (`thread.cpp:62-67`), so
  that every later `sync()` blocks; `CallsReturn` excepts this state;
* `sync()` answers 0 while the cleanup handler still runs (`thread.cpp:10-16, 97`);
* `continue` in `do { } while (0)` (`filepush.cpp:128`) would leave the block
  instead of filtering again; no filter of the program asks for it;
* a write error ends the pump for good (`filepush.cpp:152-154`), while
  `idemux.h:45-47` speaks of a recording that goes on;
* a longer or repeated timer is dropped as a "double timer" (`RecordTimer.py:655-657`):
  `doubleCheck` compares begin and service only (`TimerSanityCheck.py:31-52`). A daily
  timer whose next occurrence meets a one-shot timer, or two timers edited to the
  same begin, are both listed and saved; after a restart the one that is read second
  is dropped, with its later occurrences or the rest of its time, and the next save
  makes it final;
* `loadTimer` calls `record(newTimer, True, True)`, against the comment at
  `RecordTimer.py:646` that it is called with `dosave=False`: each timer that is loaded
  truncates the file and writes those loaded so far, and a power failure in
  between loses the rest;
* `bpamem_mmap` refuses `used && !phys_addr` (`bpamem.c:151`), and so lets a
  device that is not in use be mapped; a process that ends keeps its device until
  the driver is unloaded (`bpamem.c:138`).

## 6. Not modelled

*Within the modelled parts.* The recursion of `calcNextActivation` inside the
activation loop is continued in the inner loop and returns from both at once (module
comment of `RecordTimer`). `TryQuitMainloop`'s own box, the zap offered by
`failureCB`, the after-event AUTO, `isInTimer`, requests while in standby and
EPG-driven fields (`eit`, `evStart`, names) are left out; an instant recording with a
limit is one like any other, and the value that `startInstantRecording` keeps in its
own list when `record` refused the timer is left out (`timeChanged` of it would raise
ValueError); an eTimer that is due at once expires before a screen has closed only
with "open"; `processed_timers` is a set, as only displays show its order; a repeated
timer's `repeatedbegindate` is its first begin, and days have a fixed length (no
daylight saving in `addOneDay`). `TimerStore` leaves out what else an element holds
(names, tags, log), the order of the lists, all services but one, weekdays (a
repeated timer repeats daily), a clock that is set back, the conflicts themselves,
and what `doubleCheck` answers at a timer with the same begin whose service is a
group if the new one's is not (it stops there, and a double further on is not found);
the end of a timer that is not saved is open, and that a timer may be activated
meanwhile is left to `RecordTimer`. The pump leaves out which bytes are read
(`seek()`, source spans), files the destination is split into, and `posix_fadvise`.
`Bpamem` leaves out sizes and offsets, and callers that free or map devices they were
not given: there are none in the repository. `FileEraser` takes `pthread_create` not
to fail (`EThread` has that case) and the clock of the idle timer to be exact in
order, not in length. `Aotom` leaves out icons, time, standby, LED threads, buttons,
the remote control queue and the unloading of the driver; a kernel thread that has
returned is gone at once.

*Parts.* The common interface and the tuners need their hardware; player2,
multicom, stgfb, pti, the wireless drivers, logfs and compcache are vendor or
vendored code; the other user interfaces are alternatives to the one modelled;
makefiles, patches and start scripts hold no logic of the program. `PROJECT.json`
lists each.

## 7. Plan

In this order, each with its abstract specification or reference definition,
its configuration and, where named, theorems:

1. **RecordDescriptors**: who closes which descriptor: `eRawFile`, `demux.cpp`
   (689-699), splitting in `filepush.cpp` (177-188) and
   `eDVBServiceRecord::m_target_fd`. Property: a number is closed only by who
   opened it. Theorem: the same.
2. **TimerSanityCheck**: `check` and `doubleCheck` as operators against a
   definition by intervals.
3. **DVB resource manager**: `lib/dvb/dvb.cpp`: reference counts, priorities and
   the delayed release of channels.
4. The rest of **aotom**: the remote control queue (`receiveCount` is read outside
   its semaphore), the LED threads and the unloading.
5. **SleepTimer** on the operators of the queue.
6. The pump of `FilePush` over the thread of `EThread`, as `FileEraser` has it.
