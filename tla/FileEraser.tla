----------------------------- MODULE FileEraser -----------------------------
(***************************************************************************)
(* The background file eraser (lib/components/file_eraser.cpp): erase()    *)
(* renames a file, puts its name into the pipe of a message pump and runs  *)
(* a thread, which unlinks what it finds in the pipe and quits when no     *)
(* message has come for a second.  The thread is an eThread: T is the      *)
(* module of that class, and this one says what its owner asks of it and   *)
(* what its body does.                                                     *)
(*                                                                         *)
(* Nothing joins a thread that has quit, so that each run() but the first  *)
(* is one that EThread calls a "rerun".  eFatal, in sync(), ends enigma2.  *)
(*                                                                         *)
(* Time: the second of the timer passes in poll(), never while messages    *)
(* wait to be read, since the timer is started anew after each unlink.     *)
(***************************************************************************)
EXTENDS Naturals, Sequences, SequencesExt

CONSTANTS
  Threads, NoThread,
  Files,      \* the files that can be renamed, each erased once: a bound
  Quit        \* the message of the destructor

ASSUME EraserAssumption ==
  /\ NoThread \notin Threads
  /\ Quit \notin Files

VARIABLES
  m_state, m_alive, m_started, the_thread, stage, pc, goal, res,  \* of T
  pipe,          \* the message pump
  app_quit_now,
  bActive,       \* of stop_thread_timer
  body,          \* how far each pthread is in thread()
  at,            \* what the main thread does with the eraser
  files          \* the files that have not been renamed

T == INSTANCE EThread WITH Uses <- {"rerun"}

ethread  == <<m_state, m_alive, m_started, the_thread, stage, pc, goal, res>>
mainloop == <<app_quit_now, bActive, body>>
main     == <<at, files>>
vars     == <<ethread, pipe, mainloop, main>>

Running == at # "dead"

-----------------------------------------------------------------------------
(* The main thread.                                                        *)

Erase(f) ==
  /\ at = "idle" /\ pc = "idle"
  /\ f \in files
  /\ files' = files \ {f}
  /\ pipe' = Append(pipe, f)
  /\ at' = "run"
  /\ UNCHANGED <<ethread, mainloop>>

RunThread ==
  /\ at = "run"
  /\ T!Run
  /\ at' = "idle"
  /\ UNCHANGED <<pipe, mainloop, files>>

\* ~eBackgroundFileEraser
DestroyQuits ==  \* variant: the loop is told to quit, and not the thread
  /\ at = "idle" /\ pc = "idle"
  /\ app_quit_now' = TRUE
  /\ at' = "kill"
  /\ UNCHANGED <<ethread, pipe, bActive, body, files>>

Destroy ==
  /\ at = "idle" /\ pc = "idle"
  /\ pipe' = Append(pipe, Quit)
  /\ at' = "kill"
  /\ UNCHANGED <<ethread, mainloop, files>>

KillThread ==
  /\ at = "kill"
  /\ T!Kill \/ (the_thread = NoThread /\ UNCHANGED ethread)
  /\ at' = "end"
  /\ UNCHANGED <<pipe, mainloop, files>>

Owner ==
  /\ Running
  /\ pc = "read" => m_state = 0
  /\ T!Owner
  /\ UNCHANGED <<pipe, mainloop, main>>

\* sync() finds the semaphore free that it has just taken
Fatal ==
  /\ Running
  /\ pc = "read" /\ m_state # 0
  /\ at' = "dead"
  /\ UNCHANGED <<ethread, pipe, mainloop, files>>

-----------------------------------------------------------------------------
(* A thread: thread(), with the loop of eMainloop.                         *)

Goes(t, from, to) ==
  /\ Running
  /\ stage[t] = "work" /\ body[t] = from
  /\ body' = [body EXCEPT ![t] = to]
  /\ UNCHANGED main

ResetForgotten(t) ==  \* variant: the last quit() is still in force
  /\ Goes(t, "reset", "loop")
  /\ UNCHANGED <<ethread, pipe, app_quit_now, bActive>>

Reset(t) ==
  /\ Goes(t, "reset", "loop")
  /\ app_quit_now' = FALSE
  /\ UNCHANGED <<ethread, pipe, bActive>>

\* iterate, when no timer is ready
Iterate(t) ==
  /\ ~app_quit_now
  /\ Goes(t, "loop", "poll")
  /\ UNCHANGED <<ethread, pipe, app_quit_now, bActive>>

\* do_recv and gotMessage
GotMessage(t) ==
  /\ pipe # <<>>
  /\ Goes(t, "poll", "loop")
  /\ pipe' = Tail(pipe)
  /\ bActive' = (bActive \/ Head(pipe) # Quit)
  /\ app_quit_now' = (app_quit_now \/ Head(pipe) = Quit)
  /\ UNCHANGED ethread

\* poll() waits as long as the timer says, or not at all after idle(); without
\* a timer it waits for a message
PollTimesOut(t) ==
  /\ pipe = <<>>
  /\ \/ bActive /\ Goes(t, "poll", "due")
     \/ app_quit_now /\ ~bActive /\ Goes(t, "poll", "loop")
  /\ UNCHANGED <<ethread, pipe, app_quit_now, bActive>>

\* the timer fires, and what came meanwhile is looked at once more
Idle(t) ==
  /\ Goes(t, "due", "poll")
  /\ bActive' = FALSE
  /\ app_quit_now' = TRUE
  /\ UNCHANGED <<ethread, pipe>>

\* the loop ends, and stop_thread_timer is stopped
ThreadEnds(t) ==
  /\ app_quit_now
  /\ Goes(t, "loop", "reset")
  /\ bActive' = FALSE
  /\ T!BodyEnds(t)
  /\ UNCHANGED <<pipe, app_quit_now>>

Body(t) ==
  \/ Reset(t) \/ Iterate(t) \/ GotMessage(t) \/ PollTimesOut(t) \/ Idle(t)
  \/ ThreadEnds(t)

\* wrapper() and thread_completed()
Wrapper(t) ==
  /\ Running
  /\ T!Thread(t)
  /\ UNCHANGED <<pipe, mainloop, main>>

-----------------------------------------------------------------------------
Init ==
  /\ T!Init
  /\ pipe = <<>>
  /\ app_quit_now = FALSE
  /\ bActive = FALSE
  /\ body = [t \in Threads |-> "reset"]
  /\ at = "idle"
  /\ files = Files

Next ==
  \/ \E f \in Files : Erase(f)
  \/ RunThread \/ Destroy \/ KillThread \/ Owner \/ Fatal
  \/ \E t \in Threads : Body(t) \/ Wrapper(t)

Spec == Init /\ [][Next]_vars

\* Every thread is scheduled.
FairSpec ==
  /\ Spec
  /\ WF_vars(RunThread \/ KillThread \/ Owner \/ Fatal)
  /\ \A t \in Threads : WF_vars(Body(t) \/ Wrapper(t))

-----------------------------------------------------------------------------
(* Properties.                                                             *)

\* thread.cpp's assertions, for a user that does not join its thread.
AssertionsHold == T!AssertionsHold

\* Two pthreads never serve the loop at a time, although they are not joined:
\* the one pipe, timer and app_quit_now have no lock.
OneBody ==
  \A t, u \in Threads : stage[t] = "work" /\ stage[u] \in {"start", "started", "work"} => t = u

\* a thread that reads on
Serves(t) ==
  \/ stage[t] \in {"start", "started"}
  \/ stage[t] = "work" /\ body[t] = "reset"
  \/ stage[t] = "work" /\ body[t] \in {"loop", "poll"} /\ ~app_quit_now

\* A file whose message is in the pipe while a thread reads on is unlinked: the
\* thread does not quit before.  (One that comes when the thread has decided to
\* quit may stay in the pipe until the next erase().)
RequestsDone ==
  \A f \in Files :
    f \in Range(pipe) /\ (\E t \in Threads : Serves(t)) ~> f \notin Range(pipe) \/ ~Running

\* The destructor returns: its message reaches the thread, in whatever state it
\* is, and a thread that starts only now is not left in poll() for ever.
DestructorReturns == at = "kill" ~> (at = "end" /\ pc = "idle") \/ ~Running
=============================================================================
