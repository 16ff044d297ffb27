------------------------------- MODULE Aotom -------------------------------
(***************************************************************************)
(* The text display of the front panel driver (aotom_main.c).  Processes   *)
(* come by write() or by ioctl(); run_draw_thread shows a short text at    *)
(* once and starts a kernel thread that scrolls a longer one, after it has *)
(* stopped the thread that scrolls the text before.                        *)
(*                                                                         *)
(* Each step lies between two accesses to what others see.  A kernel       *)
(* thread that has returned is gone.  Not here: icons, time, standby, LEDs *)
(* and buttons.                                                            *)
(***************************************************************************)
EXTENDS Naturals

CONSTANTS
  Callers,      \* processes that have the device open
  Tasks,        \* kernel threads
  NoTask, NoCaller,
  Short, Long,  \* texts that fit, and texts that are drawn by a thread
  Blank,        \* the empty text
  Faults        \* "copy": copy_from_user fails; "kthread": kthread_run fails

Texts == Short \cup Long

ASSUME AotomAssumption ==
  /\ NoTask \notin Tasks
  /\ NoCaller \notin Callers
  /\ Short \cap Long = {}
  /\ Blank \in Short
  /\ Faults \subseteq {"copy", "kthread"}

Part == "a part of a text"

VARIABLES
  write_sem, draw_thread_sem,
  mode,              \* the static of ioctl: the next text is not meant for us
  vfd_data,          \* the text of ioctl, one for all
  data,              \* the text of each write()
  last_draw_data, draw_task, draw_thread_stop,
  shown,             \* the text on the display, or a part of one
  pc, call,          \* where each caller is, and in which call
  stage, buf, owner, \* of each thread: where it is, its text, and the caller whose
                     \* argument it has yet to copy
  should_stop        \* of each thread: kthread_stop was called

semaphores == <<write_sem, draw_thread_sem>>
args    == <<mode, vfd_data, data>>
draw    == <<last_draw_data, draw_task, draw_thread_stop>>
callers == <<pc, call>>
threads == <<stage, buf, owner, should_stop>>
vars    == <<semaphores, args, draw, shown, callers, threads>>

Goes(p, from, to) ==
  /\ pc[p] = from
  /\ pc' = [pc EXCEPT ![p] = to]
  /\ UNCHANGED call

-----------------------------------------------------------------------------
(* The calls.                                                              *)

Write(p, text) ==
  /\ pc[p] = "idle"
  /\ pc' = [pc EXCEPT ![p] = "down"]
  /\ call' = [call EXCEPT ![p] = "write"]
  /\ data' = [data EXCEPT ![p] = text]
  /\ UNCHANGED <<semaphores, mode, vfd_data, draw, shown, threads>>

Ioctl(p) ==
  /\ pc[p] = "idle"
  /\ pc' = [pc EXCEPT ![p] = "claim"]
  /\ call' = [call EXCEPT ![p] = "ioctl"]
  /\ UNCHANGED <<semaphores, args, draw, shown, threads>>

ClaimNothing(p) ==  \* variant: write_sem is not taken
  /\ Goes(p, "claim", "switch")
  /\ UNCHANGED <<semaphores, args, draw, shown, threads>>

Claim(p) ==
  /\ write_sem > 0
  /\ write_sem' = write_sem - 1
  /\ Goes(p, "claim", "switch")
  /\ UNCHANGED <<draw_thread_sem, args, draw, shown, threads>>

\* a signal ends a down_interruptible
Interrupted(p) ==
  /\ \/ Goes(p, "claim", "idle")
     \/ call[p] = "write" /\ Goes(p, "down", "idle")
     \/ call[p] = "ioctl" /\ Goes(p, "down", "release")
  /\ data' = [data EXCEPT ![p] = Blank]
  /\ UNCHANGED <<semaphores, mode, vfd_data, draw, shown, threads>>

\* return -EFAULT, with write_sem
CopyFails(p) ==
  /\ "copy" \in Faults
  /\ Goes(p, "switch", "idle")
  /\ UNCHANGED <<semaphores, args, draw, shown, threads>>

\* VFDSETMODE, and the commands that reset the mode
SetMode(p) ==
  /\ Goes(p, "switch", "release")
  /\ mode' \in {0, 1}
  /\ UNCHANGED <<semaphores, vfd_data, data, draw, shown, threads>>

DisplayChars(p, text) ==
  /\ mode = 0
  /\ Goes(p, "switch", "down")
  /\ vfd_data' = text
  /\ UNCHANGED <<semaphores, mode, data, draw, shown, threads>>

\* a text that is not meant for us
SkipChars(p) ==
  /\ mode # 0
  /\ Goes(p, "switch", "release")
  /\ mode' = 0
  /\ UNCHANGED <<semaphores, vfd_data, data, draw, shown, threads>>

DisplayClear(p) ==
  /\ Goes(p, "switch", "down")
  /\ vfd_data' = Blank
  /\ UNCHANGED <<semaphores, mode, data, draw, shown, threads>>

Release(p) ==
  /\ Goes(p, "release", "idle")
  /\ write_sem' = write_sem + 1
  /\ UNCHANGED <<draw_thread_sem, args, draw, shown, threads>>

-----------------------------------------------------------------------------
(* run_draw_thread.                                                        *)

\* where its argument points to
Argument(p) == IF call[p] = "ioctl" THEN vfd_data ELSE data[p]

Drawing == draw_thread_stop = 0 /\ draw_task # NoTask

Down(p) ==
  /\ draw_thread_sem > 0
  /\ draw_thread_sem' = draw_thread_sem - 1
  /\ Goes(p, "down", "compare")
  /\ UNCHANGED <<write_sem, args, draw, shown, threads>>

SameTextKeeps(p) ==  \* variant: the return without up
  /\ Drawing /\ last_draw_data = Argument(p)
  /\ Goes(p, "compare", IF call[p] = "ioctl" THEN "release" ELSE "idle")
  /\ UNCHANGED <<semaphores, args, draw, shown, threads>>

SameText(p) ==
  /\ Drawing /\ last_draw_data = Argument(p)
  /\ Goes(p, "compare", "up")
  /\ UNCHANGED <<semaphores, args, draw, shown, threads>>

NewText(p) ==
  /\ ~(Drawing /\ last_draw_data = Argument(p))
  /\ Goes(p, "compare", "replace")
  /\ last_draw_data' = Argument(p)
  /\ UNCHANGED <<semaphores, args, draw_task, draw_thread_stop, shown, threads>>

ReplaceNothing(p) ==  \* variant: the old thread is left running
  /\ Goes(p, "replace", "draw")
  /\ UNCHANGED <<semaphores, args, draw, shown, threads>>

Replace(p) ==
  /\ \/ Drawing /\ Goes(p, "replace", "stop")
     \/ ~Drawing /\ Goes(p, "replace", "draw")
  /\ UNCHANGED <<semaphores, args, draw, shown, threads>>

\* kthread_stop: if the thread has returned since, its task is not there any
\* more; here the call then finds nothing to wait for
KthreadStop(p) ==
  /\ Goes(p, "stop", "join")
  /\ should_stop' = [should_stop EXCEPT ![draw_task] = stage[draw_task] # "none"]
  /\ UNCHANGED <<semaphores, args, draw, shown, stage, buf, owner>>

Join(p) ==
  /\ Goes(p, "join", "draw")
  /\ stage[draw_task] = "none" /\ draw_thread_stop # 0
  /\ draw_task' = NoTask
  /\ UNCHANGED <<semaphores, args, last_draw_data, draw_thread_stop, shown, threads>>

DrawShort(p) ==
  /\ Argument(p) \in Short
  /\ Goes(p, "draw", "up")
  /\ shown' = Argument(p)
  /\ UNCHANGED <<semaphores, args, draw, threads>>

DrawLong(p) ==
  /\ Argument(p) \in Long
  /\ Goes(p, "draw", "create")
  /\ draw_thread_stop' = 2
  /\ UNCHANGED <<semaphores, args, last_draw_data, draw_task, shown, threads>>

KthreadRun(p) ==
  /\ Goes(p, "create", "wait")
  /\ \E k \in Tasks :
       /\ stage[k] = "none"
       /\ stage' = [stage EXCEPT ![k] = "start"]
       /\ owner' = [owner EXCEPT ![k] = p]
       /\ draw_task' = k
  /\ UNCHANGED <<semaphores, args, last_draw_data, draw_thread_stop, shown, buf,
                 should_stop>>

KthreadRunFails(p) ==
  /\ "kthread" \in Faults
  /\ Goes(p, "create", "wait")
  /\ UNCHANGED <<semaphores, args, draw, shown, threads>>

WaitNot(p) ==  \* variant: the argument is not kept for the thread
  /\ Goes(p, "wait", "up")
  /\ UNCHANGED <<semaphores, args, draw, shown, threads>>

\* "wait until thread has copied the argument"
Wait(p) ==
  /\ draw_thread_stop # 2
  /\ Goes(p, "wait", "up")
  /\ UNCHANGED <<semaphores, args, draw, shown, threads>>

\* up, and the return: what a write() has on its stack is gone then
Up(p) ==
  /\ Goes(p, "up", IF call[p] = "ioctl" THEN "release" ELSE "idle")
  /\ draw_thread_sem' = draw_thread_sem + 1
  /\ data' = [data EXCEPT ![p] = Blank]
  /\ UNCHANGED <<write_sem, mode, vfd_data, draw, shown, threads>>

-----------------------------------------------------------------------------
(* draw_thread.                                                            *)

Steps(k, from, to) ==
  /\ stage[k] = from
  /\ stage' = [stage EXCEPT ![k] = to]
  /\ UNCHANGED <<semaphores, args, last_draw_data, draw_task, callers>>

Copy(k) ==
  /\ Steps(k, "start", "copied")
  /\ buf' = [buf EXCEPT ![k] = Argument(owner[k])]
  /\ owner' = [owner EXCEPT ![k] = NoCaller]
  /\ UNCHANGED <<draw_thread_stop, shown, should_stop>>

Started(k) ==
  /\ Steps(k, "copied", "scroll")
  /\ draw_thread_stop' = 0
  /\ UNCHANGED <<shown, buf, owner, should_stop>>

Scroll(k) ==
  /\ Steps(k, "scroll", "scroll")
  /\ shown' = Part
  /\ UNCHANGED <<draw_thread_stop, buf, owner, should_stop>>

ScrollStopped(k) ==
  /\ should_stop[k]
  /\ Steps(k, "scroll", "return")
  /\ UNCHANGED <<draw_thread_stop, shown, buf, owner, should_stop>>

ScrollEnds(k) ==
  /\ Steps(k, "scroll", "show")
  /\ UNCHANGED <<draw_thread_stop, shown, buf, owner, should_stop>>

Show(k) ==
  /\ Steps(k, "show", "return")
  /\ shown' = buf[k]
  /\ UNCHANGED <<draw_thread_stop, buf, owner, should_stop>>

\* draw_thread_stop = 1, and the thread returns
Return(k) ==
  /\ Steps(k, "return", "none")
  /\ draw_thread_stop' = 1
  /\ buf' = [buf EXCEPT ![k] = Blank]
  /\ should_stop' = [should_stop EXCEPT ![k] = FALSE]
  /\ UNCHANGED <<shown, owner>>

-----------------------------------------------------------------------------
Init ==
  /\ write_sem = 1 /\ draw_thread_sem = 1
  /\ mode = 0
  /\ vfd_data = Blank
  /\ data = [p \in Callers |-> Blank]
  /\ last_draw_data = Blank
  /\ draw_task = NoTask
  /\ draw_thread_stop = 1
  /\ shown = Blank
  /\ pc = [p \in Callers |-> "idle"]
  /\ call = [p \in Callers |-> "write"]
  /\ stage = [k \in Tasks |-> "none"]
  /\ buf = [k \in Tasks |-> Blank]
  /\ owner = [k \in Tasks |-> NoCaller]
  /\ should_stop = [k \in Tasks |-> FALSE]

Dispatch(p) ==
  \/ CopyFails(p) \/ SetMode(p) \/ SkipChars(p) \/ DisplayClear(p)
  \/ \E text \in Texts : DisplayChars(p, text)

Run(p) ==
  \/ SameText(p) \/ NewText(p) \/ Replace(p) \/ KthreadStop(p) \/ Join(p)
  \/ DrawShort(p) \/ DrawLong(p) \/ KthreadRun(p) \/ KthreadRunFails(p)
  \/ Wait(p) \/ Up(p)

Caller(p) ==
  \/ Ioctl(p)
  \/ \E text \in Texts : Write(p, text)
  \/ Claim(p) \/ Interrupted(p) \/ Dispatch(p) \/ Release(p)
  \/ Down(p) \/ Run(p)

Ends(k) == ScrollStopped(k) \/ ScrollEnds(k)

Thread(k) ==
  \/ Copy(k) \/ Started(k) \/ Scroll(k) \/ Ends(k) \/ Show(k) \/ Return(k)

Next == (\E p \in Callers : Caller(p)) \/ (\E k \in Tasks : Thread(k))

Spec == Init /\ [][Next]_vars

\* A call goes on, a semaphore serves those who wait in turn, and a thread is
\* scheduled; its scrolling is a for loop.
FairSpec ==
  /\ Spec
  /\ \A p \in Callers : /\ WF_vars(Dispatch(p) \/ Release(p) \/ Run(p))
                        /\ SF_vars(Claim(p)) /\ SF_vars(Down(p))
  /\ \A k \in Tasks : WF_vars(Copy(k) \/ Started(k) \/ Ends(k) \/ Show(k)
                              \/ Return(k))

-----------------------------------------------------------------------------
(* Properties.                                                             *)

\* The types of the variables.
TypeOK ==
  /\ write_sem \in {0, 1} /\ draw_thread_sem \in {0, 1}
  /\ mode \in {0, 1}
  /\ {vfd_data, last_draw_data} \subseteq Texts /\ shown \in Texts \cup {Part}
  /\ data \in [Callers -> Texts]
  /\ draw_task \in Tasks \cup {NoTask}
  /\ draw_thread_stop \in {0, 1, 2}
  /\ pc \in [Callers -> {"idle", "claim", "switch", "release", "down", "compare",
                         "replace", "stop", "join", "draw", "create", "wait", "up"}]
  /\ call \in [Callers -> {"write", "ioctl"}]
  /\ stage \in [Tasks -> {"none", "start", "copied", "scroll", "show", "return"}]
  /\ buf \in [Tasks -> Texts]
  /\ owner \in [Tasks -> Callers \cup {NoCaller}]
  /\ should_stop \in [Tasks -> BOOLEAN]

\* When nothing is being drawn, the display shows the last text asked
\* for, all of it: no thread that was stopped, or that was about to end when
\* it was to be stopped, draws over the text that came after its own.
ShowsLast ==
  draw_thread_stop = 1 /\ draw_thread_sem = 1 => shown = last_draw_data

\* A thread reads its argument, which is on the stack of a write() or in the
\* one buffer of ioctl, only while the call that started it waits.
ArgumentStays == \A k \in Tasks : stage[k] = "start" => pc[owner[k]] = "wait"

\* write_sem was kept by a call that has returned
Leaked == write_sem = 0 /\ \A p \in Callers : call[p] = "ioctl" => pc[p] \in {"idle", "claim"}

\* the wait for a thread that was not created
NoThread == draw_thread_stop = 2 /\ \A k \in Tasks : stage[k] = "none"

\* Every call returns, unless a thread cannot be created.  A failed copy takes
\* write_sem for good and stops ioctl, but it does not stop write().
CallsReturn ==
  \A p \in Callers :
    pc[p] # "idle" ~> \/ pc[p] = "idle"
                      \/ pc[p] = "claim" /\ Leaked
                      \/ NoThread /\ \E q \in Callers : pc[q] = "wait"
=============================================================================
