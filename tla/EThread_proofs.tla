--------------------------- MODULE EThread_proofs ---------------------------
(***************************************************************************)
(* Proofs about EThread for its orderly use: run() only after the thread   *)
(* that ended has been joined.  What follows is false without that.        *)
(*                                                                         *)
(* The heart of the invariant is that exactly one party may hold the       *)
(* semaphore: the owner inside sync(), or a start that is not over yet,    *)
(* which the new thread gives back (hasStarted, or the cleanup handler).   *)
(* So who waits for the semaphore waits for a thread that gives it back.   *)
(***************************************************************************)
EXTENDS EThread, TLAPS

\* A start that took the semaphore and has not given it back.
Owes(t) ==
  \/ stage[t] \in {"start", "started", "lateUp"}
  \/ stage[t] \in {"ending", "completing"} /\ ~m_started

\* Where a thread is says what the flags are.
Flags(t) ==
  /\ m_alive = (stage[t] \in {"start", "started", "work", "ending"})
  /\ stage[t] = "start" => ~m_started
  /\ stage[t] \in {"started", "work", "lateUp", "finishing", "exited"} => m_started

\* What the owner knows while it is in a call.
Calls ==
  /\ pc = "create" => m_alive /\ ~m_started /\ m_state = 0
  /\ pc \in {"take", "create"} => the_thread = NoThread
  /\ pc \in {"down", "read", "up"} /\ goal = "run" => the_thread = NoThread
  /\ pc \in {"down", "read", "up"} /\ goal = "kill" => the_thread # NoThread
  /\ pc = "join" => the_thread # NoThread
  /\ pc = "take" => m_state = 1

Handles ==
  /\ the_thread = NoThread /\ pc # "create" => ~m_alive
  /\ the_thread # NoThread => stage[the_thread] # "free" /\ Flags(the_thread)

Semaphore ==
  /\ pc \in {"read", "up"} => m_state = 0
  /\ the_thread # NoThread /\ Owes(the_thread) =>
       m_state = 0 /\ pc \notin {"read", "up"}

IInv ==
  /\ TypeOK
  /\ NoThreadLost
  /\ Calls
  /\ Handles
  /\ Semaphore

\* Initially there is no thread and the semaphore is free.
LEMMA InitIInv == Init => IInv
BY EThreadAssumption
   DEF Init, IInv, TypeOK, NoThreadLost, Calls, Handles, Semaphore, Stages

\* The owner's steps keep the invariant.
LEMMA OwnerKeeps ==
  ASSUME IInv, "rerun" \notin Uses, Run \/ Sync \/ Kill \/ Owner
  PROVE  IInv'
<1> USE EThreadAssumption DEF IInv, TypeOK, NoThreadLost, Calls, Handles, Semaphore,
        Owes, Flags, Stages
<1>1. CASE Run \/ Sync \/ Kill
  BY <1>1 DEF Run, Sync, Kill, Call
<1>2. CASE SyncDown
  BY <1>2 DEF SyncDown
<1>3. CASE SyncRead
  BY <1>3 DEF SyncRead
<1>4. CASE SyncUp
  BY <1>4 DEF SyncUp
<1>5. CASE Take
  <2>1. m_alive' /\ ~m_started' /\ m_alive' \in BOOLEAN /\ m_started' \in BOOLEAN
    BY <1>5, Zenon DEF Take
  <2>2. /\ m_state' = 0 /\ pc' = "create" /\ the_thread = NoThread
        /\ UNCHANGED <<the_thread, stage, goal, res>>
    BY <1>5 DEF Take
  <2> QED BY <2>1, <2>2
<1>6. CASE Create
  <2>1. PICK t \in Threads : /\ stage[t] = "free"
                             /\ stage' = [stage EXCEPT ![t] = "start"]
                             /\ the_thread' = t
    BY <1>6 DEF Create
  <2>2. \A u \in Threads : stage[u] = "free"
    BY <1>6 DEF Create
  <2>3. stage' \in [Threads -> Stages] /\ stage'[t] = "start"
        /\ \A u \in Threads : u # t => stage'[u] = "free"
    BY <2>1, <2>2
  <2> QED BY <1>6, <2>1, <2>3 DEF Create
<1>7. CASE CreateFails
  BY <1>7 DEF CreateFails
<1>8. CASE Join
  <2>1. the_thread \in Threads /\ the_thread' = NoThread
    BY <1>8 DEF Join
  <2>2. stage' \in [Threads -> Stages] /\ \A u \in Threads : stage'[u] = "free"
    BY <1>8, <2>1 DEF Join
  <2> QED BY <1>8, <2>1, <2>2 DEF Join
<1> QED
  BY <1>1, <1>2, <1>3, <1>4, <1>5, <1>6, <1>7, <1>8 DEF Owner

\* A thread's steps keep the invariant.
LEMMA ThreadKeeps ==
  ASSUME IInv, NEW t \in Threads, Thread(t) \/ BodyEnds(t)
  PROVE  IInv'
<1> USE EThreadAssumption DEF IInv, TypeOK, NoThreadLost, Calls, Handles, Semaphore,
        Owes, Flags, Stages, Goes, owner
<1>1. the_thread = t /\ stage[t] # "free" /\ t # NoThread
  BY DEF Thread, HasStarted, HasStartedUp, ThreadCompleted, NothingToRecover,
         Recover, RecoverUp, ThreadFinished, BodyEnds, Started, Up
<1>2. CASE HasStarted(t)
  BY <1>1, <1>2 DEF HasStarted, Started
<1>3. CASE HasStartedUp(t)
  BY <1>1, <1>3 DEF HasStartedUp, Up
<1>4. CASE BodyEnds(t)
  BY <1>1, <1>4 DEF BodyEnds
<1>5. CASE ThreadCompleted(t)
  <2>1. ~m_alive' /\ m_alive' \in BOOLEAN
    BY <1>5, Zenon DEF ThreadCompleted
  <2>2. /\ stage[t] = "ending" /\ stage' = [stage EXCEPT ![t] = "completing"]
        /\ UNCHANGED <<m_state, m_started, the_thread, pc, goal, res>>
    BY <1>5 DEF ThreadCompleted
  <2> QED BY <1>1, <2>1, <2>2
<1>6. CASE NothingToRecover(t)
  BY <1>1, <1>6 DEF NothingToRecover
<1>7. CASE Recover(t)
  BY <1>1, <1>7 DEF Recover, Started
<1>8. CASE RecoverUp(t)
  BY <1>1, <1>8 DEF RecoverUp, Up
<1>9. CASE ThreadFinished(t)
  BY <1>1, <1>9 DEF ThreadFinished
<1> QED
  BY <1>2, <1>3, <1>4, <1>5, <1>6, <1>7, <1>8, <1>9 DEF Thread

\* Every step keeps the invariant.
LEMMA NextIInv == "rerun" \notin Uses /\ IInv /\ [Next]_vars => IInv'
<1> SUFFICES ASSUME "rerun" \notin Uses, IInv, [Next]_vars PROVE IInv'
  OBVIOUS
<1>1. CASE UNCHANGED vars
  BY <1>1 DEF vars, owner, IInv, TypeOK, NoThreadLost, Calls, Handles, Semaphore,
              Owes, Flags
<1> QED
  BY <1>1, OwnerKeeps, ThreadKeeps DEF Next

\* In orderly use the invariant holds for ever, however many pthreads the
\* system has.
THEOREM Invariant ==
  ASSUME "rerun" \notin Uses
  PROVE  Spec => []IInv
BY InitIInv, NextIInv, PTL DEF Spec

\* The variables keep their types; the semaphore never exceeds one.
THEOREM TypeCorrect ==
  ASSUME "rerun" \notin Uses
  PROVE  Spec => []TypeOK
<1>1. IInv => TypeOK
  BY DEF IInv
<1> QED
  BY <1>1, Invariant, PTL

\* In orderly use no assertion of thread.cpp fails, even when threads die
\* during their initialization or cannot be created.
THEOREM AssertionsAlwaysHold ==
  ASSUME "rerun" \notin Uses
  PROVE  Spec => []AssertionsHold
<1>1. IInv => AssertionsHold
  <2> SUFFICES ASSUME IInv PROVE AssertionsHold
    OBVIOUS
  <2>1. pc = "up" => m_state = 0
    BY DEF IInv, Semaphore
  <2>2. pc = "take" => m_state = 1 /\ ~m_alive
    BY DEF IInv, Calls, Handles
  <2>3. ASSUME NEW t \in Threads,
               stage[t] = "start" \/ (stage[t] = "completing" /\ ~m_started)
        PROVE  m_state = 0
    BY <2>3, EThreadAssumption DEF IInv, NoThreadLost, Semaphore, Owes
  <2> QED BY <2>1, <2>2, <2>3 DEF AssertionsHold
<1> QED
  BY <1>1, Invariant, PTL

\* In orderly use every pthread can be joined.
THEOREM NoThreadIsLost ==
  ASSUME "rerun" \notin Uses
  PROVE  Spec => []NoThreadLost
<1>1. IInv => NoThreadLost
  BY DEF IInv
<1> QED
  BY <1>1, Invariant, PTL

\* A step of the class is a step of the documented states, or none of them.
LEMMA StepKeepsPromises ==
  ASSUME "rerun" \notin Uses, IInv, IInv', [Next]_vars
  PROVE  [TS!Next]_TS!vars
<1> USE EThreadAssumption DEF TS!vars, State
<1>1. CASE UNCHANGED vars
  BY <1>1 DEF vars, owner
<1>2. CASE Run \/ Sync \/ Kill \/ SyncDown \/ SyncUp
  BY <1>2 DEF Run, Sync, Kill, Call, SyncDown, SyncUp
<1>3. CASE SyncRead
  <2>1. State' = State /\ res' = m_alive
    BY <1>3 DEF SyncRead
  <2>2. /\ m_alive => State \in {"running", "finished"}
        /\ ~m_alive => State \in {"none", "finished"}
    BY <1>3 DEF SyncRead, IInv, TypeOK, Calls, Handles, Semaphore, Flags, Owes, Stages
  <2>3. m_alive \in BOOLEAN
    BY DEF IInv, TypeOK
  <2> QED BY <2>1, <2>2, <2>3 DEF TS!Next, TS!Sync
<1>4. CASE Take
  BY <1>4 DEF Take, IInv, Calls
<1>5. CASE Create
  BY <1>5 DEF Create, IInv, Calls, TS!Next, TS!Run
<1>6. CASE CreateFails
  BY <1>6 DEF CreateFails, IInv, Calls
<1>7. CASE Join
  BY <1>7 DEF Join, IInv, Calls, Handles, Flags, TS!Next, TS!Join
<1>8. ASSUME NEW t \in Threads, Thread(t) \/ BodyEnds(t)
      PROVE  [TS!Next]_TS!vars
  <2>1. the_thread = t /\ stage[t] # "free" /\ t # NoThread
    BY <1>8
       DEF Thread, HasStarted, HasStartedUp, ThreadCompleted, NothingToRecover,
           Recover, RecoverUp, ThreadFinished, BodyEnds, Started, Up, Goes,
           IInv, NoThreadLost
  <2>2. CASE HasStarted(t)
    BY <2>1, <2>2
       DEF HasStarted, Started, Goes, owner, IInv, Handles, Flags, TS!Next,
           TS!HasStarted
  <2>3. CASE ThreadCompleted(t)
    BY <2>1, <2>3
       DEF ThreadCompleted, Goes, owner, IInv, Handles, Flags, TS!Next, TS!Finish
  <2>4. CASE Recover(t)
    BY <2>1, <2>4
       DEF Recover, Started, Goes, owner, IInv, Handles, Flags
  <2>5. CASE \/ HasStartedUp(t) \/ BodyEnds(t) \/ NothingToRecover(t)
             \/ RecoverUp(t) \/ ThreadFinished(t)
    BY <2>1, <2>5
       DEF HasStartedUp, BodyEnds, NothingToRecover, RecoverUp, ThreadFinished, Up,
           owner
  <2> QED BY <1>8, <2>2, <2>3, <2>4, <2>5 DEF Thread
<1> QED
  BY <1>1, <1>2, <1>3, <1>4, <1>5, <1>6, <1>7, <1>8 DEF Next, Owner

\* In orderly use the class implements the thread its header describes.
THEOREM ImplementsHeader ==
  ASSUME "rerun" \notin Uses
  PROVE  Spec => KeepsPromises
<1>1. Init => TS!Init
  BY DEF Init, TS!Init, State
<1>2. IInv /\ IInv' /\ [Next]_vars => [TS!Next]_TS!vars
  BY StepKeepsPromises
<1> QED
  BY <1>1, <1>2, Invariant, PTL DEF Spec, TS!Spec, KeepsPromises

-----------------------------------------------------------------------------
(* Who waits for the semaphore is let in.                                  *)

\* A semaphore that is taken is in someone's hands: the owner's inside a sync()
\* or a start, or those of a thread that has not given it back.  Only a failed
\* pthread_create leaves it in nobody's.
InHands ==
  m_state = 0 =>
    \/ pc \in {"read", "up", "create"}
    \/ the_thread # NoThread /\ Owes(the_thread)
    \/ "createFails" \in Uses /\ the_thread = NoThread

LEMMA InHandsNext ==
  ASSUME "rerun" \notin Uses, IInv, InHands, [Next]_vars
  PROVE  InHands'
<1> USE EThreadAssumption DEF InHands
<1>1. CASE UNCHANGED vars
  BY <1>1 DEF vars, owner, Owes
<1>2. CASE Run \/ Sync \/ Kill
  BY <1>2 DEF Run, Sync, Kill, Call, Owes
<1>3. CASE SyncDown \/ SyncRead \/ SyncUp
  BY <1>3 DEF SyncDown, SyncRead, SyncUp, Owes, IInv, TypeOK, Semaphore
<1>4. CASE Take
  BY <1>4 DEF Take
<1>5. CASE Create
  <2>1. PICK t \in Threads : stage' = [stage EXCEPT ![t] = "start"] /\ the_thread' = t
    BY <1>5 DEF Create
  <2>2. stage'[t] = "start" /\ the_thread' # NoThread
    BY <2>1 DEF IInv, TypeOK
  <2> QED BY <2>1, <2>2 DEF Owes
<1>6. CASE CreateFails
  BY <1>6 DEF CreateFails, IInv, Calls
<1>7. CASE Join
  BY <1>7 DEF Join, IInv, TypeOK, Calls, Handles, Flags, Owes
<1>8. ASSUME NEW t \in Threads, Thread(t) \/ BodyEnds(t)
      PROVE  InHands'
  <2> USE DEF Owes, IInv, TypeOK, Handles, Flags, Goes, owner
  <2>1. the_thread = t /\ stage[t] # "free" /\ t # NoThread
    BY <1>8
       DEF Thread, HasStarted, HasStartedUp, ThreadCompleted, NothingToRecover,
           Recover, RecoverUp, ThreadFinished, BodyEnds, Started, Up, NoThreadLost
  <2>2. CASE HasStarted(t) \/ Recover(t)
    BY <2>1, <2>2 DEF HasStarted, Recover, Started
  <2>3. CASE HasStartedUp(t) \/ RecoverUp(t)
    BY <2>1, <2>3 DEF HasStartedUp, RecoverUp, Up
  <2>4. CASE BodyEnds(t)
    BY <2>1, <2>4 DEF BodyEnds
  <2>5. CASE ThreadCompleted(t)
    BY <2>1, <2>5 DEF ThreadCompleted
  <2>6. CASE NothingToRecover(t) \/ ThreadFinished(t)
    BY <2>1, <2>6 DEF NothingToRecover, ThreadFinished
  <2> QED BY <1>8, <2>2, <2>3, <2>4, <2>5, <2>6 DEF Thread
<1> QED
  BY <1>1, <1>2, <1>3, <1>4, <1>5, <1>6, <1>7, <1>8 DEF Next, Owner

\* A sync() that finds the semaphore taken waits for a thread that will give it
\* back, whether it starts or dies before it has; only after a failed
\* pthread_create is there nobody to wait for.
THEOREM WaitsForAThread ==
  ASSUME "rerun" \notin Uses
  PROVE  Spec => [](pc = "down" /\ m_state = 0 =>
                      \/ the_thread # NoThread /\ Owes(the_thread)
                      \/ "createFails" \in Uses /\ the_thread = NoThread)
<1>1. Init => InHands
  BY DEF Init, InHands
<1>2. IInv /\ InHands /\ [Next]_vars => InHands'
  BY InHandsNext
<1>3. IInv /\ InHands => (pc = "down" /\ m_state = 0 =>
                            \/ the_thread # NoThread /\ Owes(the_thread)
                            \/ "createFails" \in Uses /\ the_thread = NoThread)
  BY DEF InHands
<1> QED
  BY <1>1, <1>2, <1>3, Invariant, PTL DEF Spec

\* The thread gives it back: it owes it until the step that raises it.
THEOREM OwesUntilUp ==
  ASSUME "rerun" \notin Uses
  PROVE  Spec => [][\A t \in Threads :
                      Owes(t) => Owes(t)' \/ m_state' = m_state + 1]_vars
<1>1. ASSUME IInv, [Next]_vars, NEW t \in Threads, Owes(t)
      PROVE  Owes(t)' \/ m_state' = m_state + 1
  <2> USE DEF Owes
  <2>1. the_thread = t /\ m_state = 0 /\ t # NoThread
    BY <1>1, EThreadAssumption DEF IInv, NoThreadLost, Semaphore
  <2>2. CASE UNCHANGED vars
    BY <1>1, <2>2 DEF vars, owner
  <2>3. CASE Run \/ Sync \/ Kill
    BY <1>1, <2>3 DEF Run, Sync, Kill, Call
  <2>4. CASE Owner
    <3>1. CASE SyncDown \/ SyncRead \/ SyncUp
      BY <1>1, <3>1 DEF SyncDown, SyncRead, SyncUp
    <3>2. pc \notin {"take", "create"}
      BY <1>1, <2>1 DEF IInv, Calls
    <3>3. ~Join
      BY <1>1, <2>1 DEF Join
    <3> QED BY <2>4, <3>1, <3>2, <3>3 DEF Owner, Take, Create, CreateFails
  <2>5. ASSUME NEW u \in Threads, Thread(u) \/ BodyEnds(u)
        PROVE  Owes(t)' \/ m_state' = m_state + 1
    <3> USE DEF Goes, owner, IInv, TypeOK, Handles, Flags
    <3>1. u = t
      BY <1>1, <2>1, <2>5
         DEF Thread, HasStarted, HasStartedUp, ThreadCompleted, NothingToRecover,
             Recover, RecoverUp, ThreadFinished, BodyEnds, Started, Up, NoThreadLost
    <3>2. CASE HasStarted(t) \/ Recover(t)
      BY <1>1, <2>1, <3>2 DEF HasStarted, Recover, Started
    <3>3. CASE HasStartedUp(t) \/ RecoverUp(t)
      BY <1>1, <2>1, <3>3 DEF HasStartedUp, RecoverUp, Up
    <3>4. CASE BodyEnds(t)
      BY <1>1, <2>1, <3>4 DEF BodyEnds
    <3>5. CASE ThreadCompleted(t)
      BY <1>1, <2>1, <3>5 DEF ThreadCompleted
    <3>6. CASE NothingToRecover(t) \/ ThreadFinished(t)
      BY <1>1, <2>1, <3>6 DEF NothingToRecover, ThreadFinished
    <3> QED BY <2>5, <3>1, <3>2, <3>3, <3>4, <3>5, <3>6 DEF Thread
  <2> QED BY <1>1, <2>2, <2>3, <2>4, <2>5 DEF Next
<1>2. IInv /\ [Next]_vars => \A t \in Threads :
                               Owes(t) => Owes(t)' \/ m_state' = m_state + 1
  BY <1>1
<1> QED
  BY <1>2, Invariant, PTL DEF Spec
=============================================================================
