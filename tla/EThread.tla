------------------------------ MODULE EThread ------------------------------
(***************************************************************************)
(* enigma2's thread class (lib/base/thread.cpp): one owner, which starts,  *)
(* asks after and joins a thread, and the pthreads it has started.  They   *)
(* meet in the semaphore m_state and in the two flags m_alive and          *)
(* m_started, which no lock protects.                                      *)
(*                                                                         *)
(* Each step of the model is the code between two points where another     *)
(* thread can see or change something.  pthread_cancel only lets a body    *)
(* end earlier, which a body may do here at any time.  Where an ASSERT     *)
(* would end a debug build the model goes on: AssertionsHold says what the *)
(* assertions ask for.                                                     *)
(***************************************************************************)
EXTENDS Naturals

CONSTANTS
  Threads,    \* pthread identities
  NoThread,   \* the_thread == 0
  Uses        \* what may happen beside the orderly use, see EThreadAssumption

\* "rerun": run() while an ended thread has not been joined
\* "createFails": pthread_create has no resources left
\* "dies": a body ends before it has called hasStarted
ASSUME EThreadAssumption ==
  /\ NoThread \notin Threads
  /\ Uses \subseteq {"rerun", "createFails", "dies"}

VARIABLES
  m_state,    \* eSemaphore
  m_alive, m_started,
  the_thread,
  stage,      \* how far each pthread is in wrapper() and thread_completed()
  pc,         \* what the owner does next
  goal,       \* what for
  res         \* the local of sync()

owner == <<pc, goal, res>>
vars == <<m_state, m_alive, m_started, the_thread, stage, owner>>

Stages == {"free", "start", "started", "work", "ending", "completing", "lateUp",
           "finishing", "exited"}
-----------------------------------------------------------------------------
(* The owner.                                                              *)

Call(what) ==
  /\ pc = "idle"
  /\ pc' = "down"
  /\ goal' = what
  /\ UNCHANGED <<m_state, m_alive, m_started, the_thread, stage, res>>

\* run() and runAsync() begin with a sync()
Run == ("rerun" \in Uses \/ the_thread = NoThread) /\ Call("run")

Sync == Call("sync")

\* kill(); without a thread it returns at once
Kill == the_thread # NoThread /\ Call("kill")

SyncDown ==
  /\ pc = "down" /\ m_state > 0
  /\ m_state' = m_state - 1
  /\ pc' = "read"
  /\ UNCHANGED <<m_alive, m_started, the_thread, stage, goal, res>>

SyncRead ==
  /\ pc = "read"
  /\ res' = m_alive
  /\ pc' = "up"
  /\ UNCHANGED <<m_state, m_alive, m_started, the_thread, stage, goal>>

SyncUpInsists ==  \* variant: run() waits until the thread runs
  /\ pc = "up"
  /\ m_state' = m_state + 1
  /\ pc' = CASE goal = "run" /\ ~res     -> "take"
             [] goal = "kill"            -> "join"
             [] goal = "created" /\ ~res -> "down"
             [] OTHER                    -> "idle"
  /\ UNCHANGED <<m_alive, m_started, the_thread, stage, goal, res>>

SyncUpIgnores ==  \* variant: a thread that is alive does not keep run() from going on
  /\ pc = "up"
  /\ m_state' = m_state + 1
  /\ pc' = CASE goal = "run"  -> "take"
             [] goal = "kill" -> "join"
             [] OTHER         -> "idle"
  /\ UNCHANGED <<m_alive, m_started, the_thread, stage, goal, res>>

SyncUp ==
  /\ pc = "up"
  /\ m_state' = m_state + 1
  /\ pc' = CASE goal = "run" /\ ~res -> "take"
             [] goal = "kill"        -> "join"
             [] OTHER                -> "idle"
  /\ UNCHANGED <<m_alive, m_started, the_thread, stage, goal, res>>

TakeNothing ==  \* variant: the semaphore is not taken
  /\ pc = "take"
  /\ m_alive' = TRUE
  /\ m_started' = FALSE
  /\ pc' = "create"
  /\ UNCHANGED <<m_state, the_thread, stage, goal, res>>

\* runAsync after its sync()
Take ==
  /\ pc = "take" /\ m_state > 0
  /\ m_state' = m_state - 1
  /\ m_alive' = TRUE
  /\ m_started' = FALSE
  /\ pc' = "create"
  /\ UNCHANGED <<the_thread, stage, goal, res>>

\* pthread_create; run() waits for the thread with another sync()
Create ==
  /\ pc = "create"
  /\ \E t \in Threads :
       /\ stage[t] = "free"
       /\ stage' = [stage EXCEPT ![t] = "start"]
       /\ the_thread' = t
  /\ pc' = "down"
  /\ goal' = "created"
  /\ UNCHANGED <<m_state, m_alive, m_started, res>>

CreateFails ==
  /\ "createFails" \in Uses
  /\ pc = "create"
  /\ m_alive' = FALSE
  /\ pc' = "idle"
  /\ UNCHANGED <<m_state, m_started, the_thread, stage, goal, res>>

JoinForgets ==  \* variant: the thread is not waited for
  /\ pc = "join"
  /\ the_thread' = NoThread
  /\ pc' = "idle"
  /\ UNCHANGED <<m_state, m_alive, m_started, stage, goal, res>>

\* pthread_join
Join ==
  /\ pc = "join" /\ stage[the_thread] = "exited"
  /\ stage' = [stage EXCEPT ![the_thread] = "free"]
  /\ the_thread' = NoThread
  /\ pc' = "idle"
  /\ UNCHANGED <<m_state, m_alive, m_started, goal, res>>

Owner ==
  SyncDown \/ SyncRead \/ SyncUp \/ Take \/ Create \/ CreateFails \/ Join

-----------------------------------------------------------------------------
(* A pthread.                                                              *)

Goes(t, from, to) ==
  /\ stage[t] = from
  /\ stage' = [stage EXCEPT ![t] = to]

\* hasStarted, up to m_state.up()
Started(t, from, to) ==
  /\ Goes(t, from, to)
  /\ m_started' = TRUE
  /\ UNCHANGED <<m_state, m_alive, the_thread, owner>>

Up(t, from, to) ==
  /\ Goes(t, from, to)
  /\ m_state' = m_state + 1
  /\ UNCHANGED <<m_alive, m_started, the_thread, owner>>

HasStarted(t) == Started(t, "start", "started")
HasStartedUp(t) == Up(t, "started", "work")

BodyEnds(t) ==
  /\ \/ Goes(t, "work", "ending")
     \/ "dies" \in Uses /\ Goes(t, "start", "ending")
  /\ UNCHANGED <<m_state, m_alive, m_started, the_thread, owner>>

\* the cleanup handler
ThreadCompleted(t) ==
  /\ Goes(t, "ending", "completing")
  /\ m_alive' = FALSE
  /\ UNCHANGED <<m_state, m_started, the_thread, owner>>

NothingToRecover(t) ==
  /\ m_started
  /\ Goes(t, "completing", "finishing")
  /\ UNCHANGED <<m_state, m_alive, m_started, the_thread, owner>>

RecoverAlways(t) == Started(t, "completing", "lateUp")  \* variant: no guard

\* the thread ended before it called hasStarted
Recover(t) == ~m_started /\ Started(t, "completing", "lateUp")
RecoverUp(t) == Up(t, "lateUp", "finishing")

\* thread_finished(), and the pthread is gone
ThreadFinished(t) ==
  /\ Goes(t, "finishing", "exited")
  /\ UNCHANGED <<m_state, m_alive, m_started, the_thread, owner>>

Thread(t) ==
  \/ HasStarted(t)
  \/ HasStartedUp(t)
  \/ ThreadCompleted(t)
  \/ NothingToRecover(t)
  \/ Recover(t)
  \/ RecoverUp(t)
  \/ ThreadFinished(t)

-----------------------------------------------------------------------------
Init ==
  /\ m_state = 1
  /\ m_alive = FALSE
  /\ m_started = FALSE
  /\ the_thread = NoThread
  /\ stage = [t \in Threads |-> "free"]
  /\ pc = "idle"
  /\ goal = "sync"
  /\ res = FALSE

Next ==
  \/ Run \/ Sync \/ Kill
  \/ Owner
  \/ \E t \in Threads : Thread(t) \/ BodyEnds(t)

Spec == Init /\ [][Next]_vars

\* Every thread is scheduled.  A body need not end by itself, but the users of
\* the class ask it to before they call kill().
FairSpec ==
  /\ Spec
  /\ WF_vars(Owner)
  /\ \A t \in Threads : WF_vars(Thread(t)) /\ WF_vars(pc = "join" /\ BodyEnds(t))

-----------------------------------------------------------------------------
(* Properties.                                                             *)

\* The types of the variables.
TypeOK ==
  /\ m_state \in {0, 1}
  /\ m_alive \in BOOLEAN
  /\ m_started \in BOOLEAN
  /\ the_thread \in Threads \cup {NoThread}
  /\ stage \in [Threads -> Stages]
  /\ pc \in {"idle", "down", "read", "up", "take", "create", "join"}
  /\ goal \in {"run", "created", "sync", "kill"}
  /\ res \in BOOLEAN

\* No ASSERT and no eFatal of thread.cpp is ever hit: sync() finds the semaphore
\* as it left it, runAsync finds it free and no thread alive, and hasStarted
\* finds it taken, whether the thread itself or the cleanup handler calls it.
AssertionsHold ==
  /\ pc = "up" => m_state = 0
  /\ pc = "take" => m_state = 1 /\ ~m_alive
  /\ \A t \in Threads :
       stage[t] = "start" \/ (stage[t] = "completing" /\ ~m_started) => m_state = 0

\* Every pthread that exists is known by its handle, so that it can be joined.
NoThreadLost == \A t \in Threads : stage[t] # "free" => the_thread = t

\* The thread as the comment in thread.h sees it.
State ==
  CASE the_thread = NoThread -> "none"
    [] the_thread # NoThread /\ ~m_alive -> "finished"
    [] the_thread # NoThread /\ m_alive /\ ~m_started -> "starting"
    [] OTHER -> "running"

TS == INSTANCE ThreadStates WITH state <- State, answer <- res

\* The class keeps the promises of its header: the states follow each other as
\* documented, and sync() answers only when the thread has started or ended,
\* and then as documented.
KeepsPromises == TS!Spec

\* Every call of run(), sync() and kill() returns, also when the thread dies
\* before it has started: "it will wait when state is 2" (thread.h:19), and in
\* no other state.  Only a failed pthread_create takes m_state for good, which
\* leaves no thread and no way on.
CallsReturn ==
  pc # "idle" ~> pc = "idle" \/ (pc = "down" /\ the_thread = NoThread /\ m_state = 0)
=============================================================================
