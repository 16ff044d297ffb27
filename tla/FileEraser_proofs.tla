------------------------- MODULE FileEraser_proofs -------------------------
(***************************************************************************)
(* Proof that the file eraser never has two threads in its loop, for any   *)
(* number of files and pthreads, although it joins none of them.           *)
(*                                                                         *)
(* The argument is about m_alive alone, and holds however the semaphore is *)
(* left by what FileEraser.AssertionsHold does not rule out: only a body   *)
(* that has ended clears m_alive, only the owner sets it, and the owner    *)
(* creates a thread only after it has seen it cleared.                     *)
(*                                                                         *)
(* Then: the destructor's message reaches the thread it waits for.         *)
(***************************************************************************)
EXTENDS FileEraser, SequenceTheorems, TLAPS

\* Where m_alive has not been cleared yet.
InBody(t) == stage[t] \in {"start", "started", "work", "ending"}

\* A pthread in its body is alive, and is alone.
AliveAlone ==
  \A t \in Threads :
    InBody(t) => m_alive /\ \A u \in Threads : InBody(u) => t = u

\* From a sync() that said no until pthread_create nothing is in a body.
SeenEnded ==
  /\ pc = "take" \/ (pc = "up" /\ ~res) => ~m_alive
  /\ pc = "create" => m_alive /\ \A t \in Threads : ~InBody(t)

Typed ==
  /\ stage \in [Threads -> T!Stages]
  /\ m_alive \in BOOLEAN /\ res \in BOOLEAN

IInv == Typed /\ AliveAlone /\ SeenEnded

\* The owner's steps do not end a body, and begin one where there is none.
LEMMA OwnerKeeps ==
  ASSUME IInv, T!Owner
  PROVE  IInv'
<1> USE DEF IInv, Typed, AliveAlone, SeenEnded, InBody, T!Stages, T!owner
<1>1. CASE T!SyncDown
  BY <1>1 DEF T!SyncDown
<1>2. CASE T!SyncRead
  BY <1>2 DEF T!SyncRead
<1>3. CASE T!SyncUp
  BY <1>3 DEF T!SyncUp
<1>4. CASE T!Take
  <2>1. \A t \in Threads : ~InBody(t)
    BY <1>4 DEF T!Take
  <2>2. pc' = "create" /\ UNCHANGED <<stage, res>> /\ m_alive' /\ m_alive' \in BOOLEAN
    <3>1. m_alive' /\ m_alive' \in BOOLEAN
      BY <1>4, Zenon DEF T!Take
    <3>2. QED
      BY <1>4, <3>1 DEF T!Take
  <2>3. QED
    BY <2>1, <2>2
<1>5. CASE T!Create
  <2>1. PICK t \in Threads : stage' = [stage EXCEPT ![t] = "start"]
    BY <1>5 DEF T!Create
  <2>2. pc = "create" /\ pc' = "down" /\ UNCHANGED <<m_alive, res>>
    BY <1>5 DEF T!Create
  <2>3. stage'[t] = "start" /\ \A u \in Threads \ {t} : stage'[u] = stage[u]
    BY <2>1
  <2>4. QED
    BY <2>1, <2>2, <2>3
<1>6. CASE T!CreateFails
  BY <1>6 DEF T!CreateFails
<1>7. CASE T!Join
  BY <1>7 DEF T!Join
<1>8. QED
  BY <1>1, <1>2, <1>3, <1>4, <1>5, <1>6, <1>7 DEF T!Owner

\* A step of a thread ends at most its own body, which it begins by none.
LEMMA ThreadKeeps ==
  ASSUME IInv, NEW t \in Threads, T!Thread(t) \/ T!BodyEnds(t)
  PROVE  IInv'
<1> USE DEF IInv, Typed, AliveAlone, SeenEnded, InBody, T!Stages, T!owner, T!Goes
<1>1. CASE T!HasStarted(t) \/ T!Recover(t)
  BY <1>1 DEF T!HasStarted, T!Recover, T!Started
<1>2. CASE T!HasStartedUp(t) \/ T!RecoverUp(t)
  BY <1>2 DEF T!HasStartedUp, T!RecoverUp, T!Up
<1>3. CASE T!BodyEnds(t)
  BY <1>3 DEF T!BodyEnds
<1>4. CASE T!ThreadCompleted(t)
  <2>1. ~m_alive' /\ m_alive' \in BOOLEAN
    BY <1>4, Zenon DEF T!ThreadCompleted
  <2>2. /\ stage[t] = "ending" /\ stage' = [stage EXCEPT ![t] = "completing"]
        /\ UNCHANGED <<pc, res>>
    BY <1>4 DEF T!ThreadCompleted
  <2>3. \A u \in Threads : stage'[u] \notin {"start", "started", "work", "ending"}
    BY <2>2
  <2>4. QED
    BY <2>1, <2>2, <2>3
<1>5. CASE T!NothingToRecover(t) \/ T!ThreadFinished(t)
  BY <1>5 DEF T!NothingToRecover, T!ThreadFinished
<1>6. QED
  BY <1>1, <1>2, <1>3, <1>4, <1>5 DEF T!Thread

\* A call changes only where the owner is: it does not skip the sync().
LEMMA CallKeeps ==
  ASSUME IInv, T!Run \/ T!Kill
  PROVE  IInv'
BY DEF IInv, Typed, AliveAlone, SeenEnded, InBody, T!Run, T!Kill, T!Call

\* The rest of the eraser does not touch the state of the class.
LEMMA OthersKeep ==
  ASSUME IInv, UNCHANGED ethread
  PROVE  IInv'
BY DEF IInv, Typed, AliveAlone, SeenEnded, InBody, ethread

\* At first there is no thread.
LEMMA InitIInv == Init => IInv
<1> SUFFICES ASSUME Init
             PROVE  IInv
  OBVIOUS
<1>1. m_alive \in BOOLEAN /\ res \in BOOLEAN /\ ~m_alive
  BY Zenon DEF Init, T!Init
<1>2. pc = "idle" /\ stage = [t \in Threads |-> "free"]
  BY DEF Init, T!Init
<1>3. QED
  BY <1>1, <1>2 DEF IInv, Typed, AliveAlone, SeenEnded, InBody, T!Stages

\* The invariant is inductive.
LEMMA NextKeepsIInv == IInv /\ [Next]_vars => IInv'
<1> SUFFICES ASSUME IInv, [Next]_vars
             PROVE  IInv'
  OBVIOUS
<1>1. CASE UNCHANGED vars
  BY <1>1, OthersKeep DEF vars
<1>2. ASSUME NEW f \in Files, Erase(f)
      PROVE  IInv'
  BY <1>2, OthersKeep DEF Erase
<1>3. CASE RunThread
  BY <1>3, CallKeeps DEF RunThread
<1>4. CASE Destroy
  BY <1>4, OthersKeep DEF Destroy
<1>5. CASE KillThread
  BY <1>5, CallKeeps, OthersKeep DEF KillThread
<1>6. CASE Owner
  BY <1>6, OwnerKeeps DEF Owner
<1>7. CASE Fatal
  BY <1>7, OthersKeep DEF Fatal
<1>8. ASSUME NEW t \in Threads, Body(t)
      PROVE  IInv'
  <2>1. CASE ThreadEnds(t)
    BY <2>1, ThreadKeeps DEF ThreadEnds
  <2>2. CASE UNCHANGED ethread
    BY <2>2, OthersKeep
  <2>3. QED
    BY <1>8, <2>1, <2>2 DEF Body, Reset, Iterate, GotMessage, PollTimesOut, Idle
<1>9. ASSUME NEW t \in Threads, Wrapper(t)
      PROVE  IInv'
  BY <1>9, ThreadKeeps DEF Wrapper
<1>10. QED
  BY <1>1, <1>2, <1>3, <1>4, <1>5, <1>6, <1>7, <1>8, <1>9 DEF Next

\* The pipe, the timer and app_quit_now, which no lock protects, are used by one
\* pthread at a time.
THEOREM OneBodyAlways == Spec => []OneBody
<1>1. IInv => OneBody
  BY DEF IInv, AliveAlone, InBody, OneBody
<1>2. QED
  BY InitIInv, NextKeepsIInv, <1>1, PTL DEF Spec

-----------------------------------------------------------------------------
(* What reaches the thread.                                                *)

LoopTyped ==
  /\ pipe \in Seq(Files \cup {Quit})
  /\ app_quit_now \in BOOLEAN
  /\ body \in [Threads -> {"reset", "loop", "poll", "due"}]

\* Only a pthread in its body has left the place where the body begins.
AtRest == \A t \in Threads : stage[t] # "work" => body[t] = "reset"

\* The destructor calls nothing but kill().
Leaving ==
  /\ at = "kill" => pc = "idle"
  /\ at = "end" => pc = "idle" \/ (goal = "kill" /\ pc \notin {"take", "create"})

\* Once the destructor has put its message into the pipe, a thread finds it
\* there, or has been told: in particular one that has still to pass
\* app_quit_now = false.
Told(t) == stage[t] = "work" /\ body[t] # "reset" /\ app_quit_now
Heard ==
  at \in {"kill", "end"} =>
    \A t \in Threads :
      stage[t] \in {"start", "started", "work"} => Quit \in Range(pipe) \/ Told(t)

HInv == IInv /\ LoopTyped /\ AtRest /\ Leaving /\ Heard

\* A message put into the pipe leaves those in it, and the first one read
\* leaves the others.
LEMMA PipeKeeps ==
  ASSUME NEW M, NEW q \in Seq(M), NEW m \in M
  PROVE  /\ Append(q, m) \in Seq(M) /\ m \in Range(Append(q, m))
         /\ Range(q) \subseteq Range(Append(q, m))
         /\ q # <<>> => /\ Tail(q) \in Seq(M) /\ Head(q) \in M
                        /\ Range(q) \subseteq {Head(q)} \cup Range(Tail(q))
<1>1. DOMAIN q = 1 .. Len(q) /\ Len(q) \in Nat
  BY LenProperties
<1>2. /\ Append(q, m) \in Seq(M) /\ Len(Append(q, m)) = Len(q) + 1
      /\ \A i \in 1 .. Len(q) : Append(q, m)[i] = q[i]
      /\ Append(q, m)[Len(q) + 1] = m
      /\ DOMAIN Append(q, m) = 1 .. Len(q) + 1
  BY AppendProperties, LenProperties
<1>3. m \in Range(Append(q, m)) /\ Range(q) \subseteq Range(Append(q, m))
  BY <1>1, <1>2 DEF Range
<1>4. ASSUME q # <<>>
      PROVE  /\ Tail(q) \in Seq(M) /\ Head(q) \in M
             /\ Range(q) \subseteq {Head(q)} \cup Range(Tail(q))
  <2>1. /\ Head(q) \in M /\ Tail(q) \in Seq(M) /\ Len(Tail(q)) = Len(q) - 1
        /\ \A i \in 1 .. Len(Tail(q)) : Tail(q)[i] = q[i + 1]
        /\ Head(q) = q[1] /\ DOMAIN Tail(q) = 1 .. Len(Tail(q))
    BY <1>4, HeadTailProperties, LenProperties
  <2>2. ASSUME NEW i \in 1 .. Len(q), i # 1
        PROVE  q[i] \in Range(Tail(q))
    <3>1. i - 1 \in 1 .. Len(Tail(q)) /\ Tail(q)[i - 1] = q[i]
      BY <1>1, <2>1, <2>2
    <3> QED BY <2>1, <3>1 DEF Range
  <2> QED BY <1>1, <2>1, <2>2 DEF Range
<1> QED
  BY <1>2, <1>3, <1>4

\* The owner's own steps: they begin no body while the destructor is at work.
LEMMA OwnerHears ==
  ASSUME HInv, IInv', Owner
  PROVE  HInv'
<1> USE DEF HInv, LoopTyped, AtRest, Leaving, Heard, Told
<1>1. T!Owner /\ UNCHANGED <<pipe, app_quit_now, body, at>>
  BY DEF Owner, mainloop, main
<1>2. CASE T!Create
  <2>1. at \notin {"kill", "end"} /\ at' = at
    BY <1>1, <1>2 DEF T!Create
  <2>2. PICK u \in Threads : stage[u] = "free" /\ stage' = [stage EXCEPT ![u] = "start"]
    BY <1>2 DEF T!Create
  <2>3. AtRest'
    BY <1>1, <2>2 DEF IInv, Typed
  <2> QED BY <1>1, <2>1, <2>3
<1>3. CASE T!Join
  <2>1. /\ stage[the_thread] = "exited" /\ pc' = "idle"
        /\ stage' = [stage EXCEPT ![the_thread] = "free"]
    BY <1>3 DEF T!Join
  <2>2. AtRest' /\ Heard'
    BY <1>1, <2>1 DEF IInv, Typed
  <2>3. Leaving'
    BY <1>1, <2>1
  <2> QED BY <1>1, <2>2, <2>3
<1>4. CASE T!SyncUp
  BY <1>1, <1>4 DEF T!SyncUp
<1>5. CASE T!SyncDown \/ T!SyncRead
  BY <1>1, <1>5 DEF T!SyncDown, T!SyncRead
<1>6. CASE T!Take
  <2>1. at \notin {"kill", "end"} /\ UNCHANGED stage
    BY <1>1, <1>6 DEF T!Take
  <2> QED BY <1>1, <2>1
<1>7. CASE T!CreateFails
  BY <1>1, <1>7 DEF T!CreateFails
<1> QED
  BY <1>1, <1>2, <1>3, <1>4, <1>5, <1>6, <1>7 DEF T!Owner

\* The loop: what it reads, and what it does when told.
LEMMA BodyHears ==
  ASSUME HInv, IInv', NEW t \in Threads, Body(t)
  PROVE  HInv'
<1> USE DEF HInv, LoopTyped, AtRest, Leaving, Heard, Told, Goes, main, ethread
<1>1. /\ stage[t] = "work" /\ UNCHANGED <<at, pc, goal>>
      /\ \A u \in Threads : stage[u] \in {"start", "started", "work"} => u = t
  <2>1. stage[t] = "work" /\ UNCHANGED <<at, pc, goal>>
    BY DEF Body, Reset, Iterate, GotMessage, PollTimesOut, Idle, ThreadEnds, T!BodyEnds,
       T!owner
  <2> QED BY <2>1 DEF IInv, AliveAlone, InBody
<1>2. CASE Reset(t)
  BY <1>1, <1>2 DEF Reset
<1>3. CASE Iterate(t) \/ PollTimesOut(t)
  BY <1>1, <1>3 DEF Iterate, PollTimesOut
<1>4. CASE GotMessage(t)
  <2>1. /\ pipe # <<>> /\ pipe' = Tail(pipe) /\ UNCHANGED stage
        /\ app_quit_now' = (app_quit_now \/ Head(pipe) = Quit)
        /\ body[t] = "poll" /\ body' = [body EXCEPT ![t] = "loop"]
    BY <1>4 DEF GotMessage
  <2>2. pipe' \in Seq(Files \cup {Quit})
        /\ Range(pipe) \subseteq {Head(pipe)} \cup Range(pipe')
    BY <2>1, PipeKeeps
  <2>3. LoopTyped' /\ AtRest' /\ Leaving'
    BY <1>1, <2>1, <2>2
  <2>4. Heard'
    BY <1>1, <2>1, <2>2
  <2> QED BY <2>3, <2>4
<1>5. CASE Idle(t)
  BY <1>1, <1>5 DEF Idle
<1>6. CASE ThreadEnds(t)
  <2>1. /\ stage' = [stage EXCEPT ![t] = "ending"] /\ body' = [body EXCEPT ![t] = "reset"]
        /\ UNCHANGED <<pipe, app_quit_now>>
    BY <1>1, <1>6 DEF ThreadEnds, T!BodyEnds, T!Goes
  <2> QED BY <1>1, <2>1 DEF IInv, Typed
<1> QED
  BY <1>2, <1>3, <1>4, <1>5, <1>6 DEF Body

\* wrapper() and the cleanup handler.
LEMMA WrapperHears ==
  ASSUME HInv, IInv', NEW t \in Threads, Wrapper(t)
  PROVE  HInv'
<1>1. /\ stage[t] # "work" /\ stage' = [stage EXCEPT ![t] = stage'[t]]
      /\ stage'[t] \in {"start", "started", "work"} => stage[t] \in {"start", "started"}
      /\ UNCHANGED <<pipe, app_quit_now, body, at, pc, goal>>
  BY DEF HInv, Wrapper, mainloop, main, IInv, Typed, T!Thread, T!HasStarted,
     T!HasStartedUp, T!ThreadCompleted, T!NothingToRecover, T!Recover, T!RecoverUp,
     T!ThreadFinished, T!Started, T!Up, T!Goes, T!owner
<1>2. \A u \in Threads : u # t => stage'[u] = stage[u]
  BY <1>1 DEF HInv, IInv, Typed
<1> QED
  BY <1>1, <1>2 DEF HInv, LoopTyped, AtRest, Leaving, Heard, Told

LEMMA NextHInv == HInv /\ [Next]_vars => HInv'
<1> SUFFICES ASSUME HInv, [Next]_vars PROVE HInv'
  OBVIOUS
<1>1. IInv'
  BY NextKeepsIInv DEF HInv
<1> USE DEF HInv, LoopTyped, AtRest, Leaving, Heard, Told
<1>2. CASE UNCHANGED vars
  BY <1>1, <1>2 DEF vars, ethread, mainloop, main
<1>3. ASSUME NEW f \in Files, Erase(f)
      PROVE  HInv'
  BY <1>1, <1>3, PipeKeeps DEF Erase, ethread, mainloop
<1>4. CASE RunThread
  BY <1>1, <1>4 DEF RunThread, T!Run, T!Call, mainloop
<1>5. CASE Destroy
  BY <1>1, <1>5, PipeKeeps DEF Destroy, ethread, mainloop
<1>6. CASE KillThread
  BY <1>1, <1>6 DEF KillThread, T!Kill, T!Call, mainloop, ethread
<1>7. CASE Fatal
  BY <1>1, <1>7 DEF Fatal, ethread, mainloop
<1> QED
  BY <1>1, <1>2, <1>3, <1>4, <1>5, <1>6, <1>7, OwnerHears, BodyHears, WrapperHears
     DEF Next

LEMMA InitHInv == Init => HInv
<1> SUFFICES ASSUME Init PROVE HInv
  OBVIOUS
<1>1. IInv /\ app_quit_now \in BOOLEAN
  BY InitIInv, Zenon DEF Init
<1>2. /\ at = "idle" /\ body = [t \in Threads |-> "reset"]
      /\ pipe \in Seq(Files \cup {Quit})
  BY EmptySeq DEF Init
<1> QED
  BY <1>1, <1>2 DEF HInv, LoopTyped, AtRest, Leaving, Heard

\* The destructor's message is not lost on a thread that starts, is run again or
\* drops an earlier quit: the thread that kill() is about to wait for has the
\* message before it or has been told, so it does not wait in poll() for ever.
THEOREM DestructorIsHeard ==
  Spec => [](at \in {"kill", "end"} =>
               \A t \in Threads :
                 /\ stage[t] \in {"start", "started", "work"} =>
                      Quit \in Range(pipe) \/ Told(t)
                 /\ stage[t] = "work" /\ body[t] = "poll" =>
                      pipe # <<>> \/ app_quit_now)
<1>1. HInv => (at \in {"kill", "end"} =>
                 \A t \in Threads :
                   /\ stage[t] \in {"start", "started", "work"} =>
                        Quit \in Range(pipe) \/ Told(t)
                   /\ stage[t] = "work" /\ body[t] = "poll" =>
                        pipe # <<>> \/ app_quit_now)
  <2> SUFFICES ASSUME HInv, at \in {"kill", "end"}, NEW t \in Threads,
                      stage[t] = "work", body[t] = "poll", ~app_quit_now
               PROVE  pipe # <<>>
    BY DEF HInv, Heard
  <2>1. Quit \in Range(pipe)
    BY DEF HInv, Heard, Told
  <2> QED BY <2>1, EmptySeq, LenProperties DEF Range, HInv, LoopTyped
<1> QED
  BY <1>1, InitHInv, NextHInv, PTL DEF Spec

\* A thread that reads on goes on reading until it has taken the first message
\* of the pipe: it neither quits nor is told to quit by another thread's timer.
THEOREM ServesUntilRead ==
  Spec => [][\A t \in Threads :
               Serves(t) /\ pipe # <<>> => Serves(t)' \/ pipe' = Tail(pipe)]_vars
<1>1. ASSUME HInv, [Next]_vars, NEW t \in Threads, Serves(t), pipe # <<>>
      PROVE  Serves(t)' \/ pipe' = Tail(pipe)
  <2> USE DEF Serves, HInv, LoopTyped, AtRest
  <2>1. CASE UNCHANGED vars
    BY <1>1, <2>1 DEF vars, ethread, mainloop
  <2>2. CASE UNCHANGED <<stage, mainloop>>
    BY <1>1, <2>2 DEF mainloop
  <2>3. ASSUME T!Owner, UNCHANGED mainloop
        PROVE  Serves(t)'
    <3>1. stage[t] \in {"start", "started", "work"} => stage'[t] = stage[t]
      <4>1. CASE T!Create
        <5>1. PICK u \in Threads : stage[u] = "free" /\ stage' = [stage EXCEPT ![u] = "start"]
          BY <4>1 DEF T!Create
        <5> QED BY <5>1
      <4>2. CASE T!Join
        <5>1. /\ stage[the_thread] = "exited"
              /\ stage' = [stage EXCEPT ![the_thread] = "free"]
          BY <4>2 DEF T!Join
        <5> QED BY <1>1, <5>1 DEF HInv, IInv, Typed
      <4>3. CASE ~T!Create /\ ~T!Join
        BY <2>3, <4>3 DEF T!Owner, T!SyncDown, T!SyncRead, T!SyncUp, T!Take,
           T!CreateFails
      <4> QED BY <4>1, <4>2, <4>3
    <3> QED BY <1>1, <2>3, <3>1 DEF mainloop
  <2>4. ASSUME NEW u \in Threads, Body(u)
        PROVE  Serves(t)' \/ pipe' = Tail(pipe)
    <3> USE DEF Goes, main, ethread
    <3>1. stage[u] = "work" /\ (stage[t] \in {"start", "started", "work"})
      BY <1>1, <2>4 DEF Body, Reset, Iterate, GotMessage, PollTimesOut, Idle, ThreadEnds
    <3>2. u = t
      BY <1>1, <3>1 DEF HInv, IInv, AliveAlone, InBody
    <3>3. body' = [body EXCEPT ![t] = body'[t]]
      BY <2>4, <3>2 DEF Body, Reset, Iterate, GotMessage, PollTimesOut, Idle, ThreadEnds
    <3> QED BY <1>1, <2>4, <3>2
           DEF Body, Reset, Iterate, GotMessage, PollTimesOut, Idle, ThreadEnds
  <2>5. ASSUME NEW u \in Threads, Wrapper(u)
        PROVE  Serves(t)'
    BY <1>1, <2>5
       DEF Wrapper, mainloop, IInv, Typed, T!Thread, T!HasStarted, T!HasStartedUp,
           T!ThreadCompleted, T!NothingToRecover, T!Recover, T!RecoverUp,
           T!ThreadFinished, T!Started, T!Up, T!Goes
  <2>6. CASE \/ \E f \in Files : Erase(f)
             \/ RunThread \/ Destroy \/ KillThread \/ Fatal
    BY <2>2, <2>6 DEF Erase, RunThread, Destroy, KillThread, Fatal, T!Run, T!Kill,
       T!Call, ethread
  <2>7. CASE Owner
    BY <2>3, <2>7 DEF Owner
  <2> QED BY <1>1, <2>1, <2>4, <2>5, <2>6, <2>7 DEF Next
<1>2. HInv /\ [Next]_vars => \A t \in Threads :
        Serves(t) /\ pipe # <<>> => Serves(t)' \/ pipe' = Tail(pipe)
  BY <1>1
<1> QED
  BY <1>2, InitHInv, NextHInv, PTL DEF Spec
=============================================================================
