---------------------------- MODULE Aotom_proofs ----------------------------
(***************************************************************************)
(* Proofs about Aotom for any number of callers, kernel threads and texts. *)
(*                                                                         *)
(* The two semaphores put one caller at a time into run_draw_thread and    *)
(* one ioctl at a time between its copy and its return.  From that follows *)
(* that a thread which draws belongs to draw_task, that its text is the    *)
(* last one unless a caller is just about to stop it, and so that what is  *)
(* left on the display when all is quiet is the last text.                 *)
(***************************************************************************)
EXTENDS Aotom, TLAPS

\* The places between down and up of draw_thread_sem, and those where the text
\* of the call is last_draw_data and not yet on the display.
Inside == {"compare", "replace", "stop", "join", "draw", "create", "wait", "up"}
Replacing == {"replace", "stop", "join"}
Drawn == Replacing \cup {"draw", "create"}

\* One caller at a time is in run_draw_thread.
OneInside ==
  \A p \in Callers :
    pc[p] \in Inside => /\ draw_thread_sem = 0
                        /\ \A q \in Callers : pc[q] \in Inside => p = q

\* One ioctl at a time has write_sem.
Claimed(p) == call[p] = "ioctl" /\ pc[p] \in {"switch", "release", "down"} \cup Inside
OneClaims ==
  /\ \A p \in Callers : pc[p] \in {"claim", "switch", "release"} => call[p] = "ioctl"
  /\ \A p \in Callers :
       Claimed(p) => /\ write_sem = 0
                     /\ \A q \in Callers : Claimed(q) => p = q

\* While it is drawn, or copied, the argument of a call is last_draw_data.
ArgumentIsLast ==
  \A p \in Callers : pc[p] \in Drawn \cup {"wait"} => Argument(p) = last_draw_data

\* A thread that exists is draw_task; its stage agrees with draw_thread_stop and
\* with the call that started it, and none exists when one is to be created.
ThreadIsTask ==
  /\ \A k \in Tasks :
       stage[k] # "none" => /\ draw_task = k
                            /\ \A p \in Callers : pc[p] \notin {"draw", "create"}
  /\ \A k \in Tasks :
       /\ stage[k] \in {"start", "copied"} =>
            draw_thread_stop = 2 /\ \E p \in Callers : pc[p] = "wait"
       /\ stage[k] \in {"scroll", "show", "return"} => draw_thread_stop = 0
       /\ stage[k] = "start" => owner[k] \in Callers
  /\ \A p \in Callers : /\ pc[p] \in {"stop", "join"} => draw_task \in Tasks
                        /\ pc[p] = "create" => draw_thread_stop = 2

\* What a thread has yet to draw, or has drawn, is the last text, unless another
\* call is about to stop it; only that call makes it return early.
DrawsLast ==
  \A k \in Tasks :
    /\ stage[k] \in {"copied", "scroll", "show"} =>
         buf[k] = last_draw_data \/ \E p \in Callers : pc[p] \in Replacing
    /\ stage[k] = "return" =>
         shown = last_draw_data \/ \E p \in Callers : pc[p] \in Replacing
    /\ should_stop[k] => stage[k] # "none" /\ \E p \in Callers : pc[p] = "join"

\* When nothing is drawn and no call is about to draw, the last text is shown.
LastIsShown ==
  draw_thread_stop = 1 /\ (\A p \in Callers : pc[p] \notin Drawn) => shown = last_draw_data

IInv ==
  /\ TypeOK
  /\ OneInside
  /\ OneClaims
  /\ ArgumentIsLast
  /\ ThreadIsTask
  /\ ArgumentStays
  /\ DrawsLast
  /\ LastIsShown

-----------------------------------------------------------------------------

\* A call of write() brings its own text.
LEMMA WriteKeeps ==
  ASSUME IInv, NEW p \in Callers, NEW text \in Texts, Write(p, text)
  PROVE  IInv'
<1> USE AotomAssumption
    DEF IInv, Write, Goes, semaphores, args, draw, callers, threads, Argument, Drawing,
        Texts, Inside
<1>1. TypeOK'
  BY DEF TypeOK, OneInside, OneClaims, Claimed, ArgumentIsLast, ThreadIsTask
<1>2. OneInside'
  BY DEF TypeOK, OneInside
<1>3. OneClaims'
  BY DEF TypeOK, OneClaims, Claimed
<1>4. ArgumentIsLast'
  BY DEF TypeOK, OneInside, OneClaims, Claimed, ArgumentIsLast, Drawn, Replacing
<1>5. ThreadIsTask'
  BY DEF TypeOK, OneInside, ThreadIsTask, ArgumentStays
<1>6. ArgumentStays'
  BY DEF TypeOK, OneInside, ThreadIsTask, ArgumentStays
<1>7. DrawsLast'
  BY DEF TypeOK, OneInside, ThreadIsTask, ArgumentStays, ArgumentIsLast, DrawsLast,
     Drawn, Replacing
<1>8. LastIsShown'
  BY DEF TypeOK, OneInside, ThreadIsTask, ArgumentStays, ArgumentIsLast, DrawsLast,
     LastIsShown, Drawn, Replacing
<1>9. QED
  BY <1>1, <1>2, <1>3, <1>4, <1>5, <1>6, <1>7, <1>8

\* An ioctl() begins.
LEMMA BeginKeeps ==
  ASSUME IInv, NEW p \in Callers, Ioctl(p)
  PROVE  IInv'
<1> USE AotomAssumption
    DEF IInv, Ioctl, Goes, semaphores, args, draw, callers, threads, Argument, Drawing,
        Texts, Inside
<1>1. TypeOK'
  BY DEF TypeOK, OneInside, OneClaims, Claimed, ArgumentIsLast, ThreadIsTask
<1>2. OneInside'
  BY DEF TypeOK, OneInside
<1>3. OneClaims'
  BY DEF TypeOK, OneClaims, Claimed
<1>4. ArgumentIsLast'
  BY DEF TypeOK, OneInside, OneClaims, Claimed, ArgumentIsLast, Drawn, Replacing
<1>5. ThreadIsTask'
  BY DEF TypeOK, OneInside, ThreadIsTask, ArgumentStays
<1>6. ArgumentStays'
  BY DEF TypeOK, OneInside, ThreadIsTask, ArgumentStays
<1>7. DrawsLast'
  BY DEF TypeOK, OneInside, ThreadIsTask, ArgumentStays, ArgumentIsLast, DrawsLast,
     Drawn, Replacing
<1>8. LastIsShown'
  BY DEF TypeOK, OneInside, ThreadIsTask, ArgumentStays, ArgumentIsLast, DrawsLast,
     LastIsShown, Drawn, Replacing
<1>9. QED
  BY <1>1, <1>2, <1>3, <1>4, <1>5, <1>6, <1>7, <1>8

\* Nobody has write_sem when it is claimed.
LEMMA ClaimKeeps ==
  ASSUME IInv, NEW p \in Callers, Claim(p)
  PROVE  IInv'
<1> USE AotomAssumption
    DEF IInv, Claim, Goes, semaphores, args, draw, callers, threads, Argument, Drawing,
        Texts, Inside
<1>1. TypeOK'
  BY DEF TypeOK, OneInside, OneClaims, Claimed, ArgumentIsLast, ThreadIsTask
<1>2. OneInside'
  BY DEF TypeOK, OneInside
<1>3. OneClaims'
  BY DEF TypeOK, OneClaims, Claimed
<1>4. ArgumentIsLast'
  BY DEF TypeOK, OneInside, OneClaims, Claimed, ArgumentIsLast, Drawn, Replacing
<1>5. ThreadIsTask'
  BY DEF TypeOK, OneInside, ThreadIsTask, ArgumentStays
<1>6. ArgumentStays'
  BY DEF TypeOK, OneInside, ThreadIsTask, ArgumentStays
<1>7. DrawsLast'
  BY DEF TypeOK, OneInside, ThreadIsTask, ArgumentStays, ArgumentIsLast, DrawsLast,
     Drawn, Replacing
<1>8. LastIsShown'
  BY DEF TypeOK, OneInside, ThreadIsTask, ArgumentStays, ArgumentIsLast, DrawsLast,
     LastIsShown, Drawn, Replacing
<1>9. QED
  BY <1>1, <1>2, <1>3, <1>4, <1>5, <1>6, <1>7, <1>8

\* A call that fails before run_draw_thread leaves the drawing alone.
LEMMA LeaveKeeps ==
  ASSUME IInv, NEW p \in Callers, Interrupted(p) \/ CopyFails(p)
  PROVE  IInv'
<1> USE AotomAssumption
    DEF IInv, Interrupted, CopyFails, Goes, semaphores, args, draw, callers, threads,
        Argument, Drawing, Texts, Inside
<1>1. TypeOK'
  BY DEF TypeOK, OneInside, OneClaims, Claimed, ArgumentIsLast, ThreadIsTask
<1>2. OneInside'
  BY DEF TypeOK, OneInside
<1>3. OneClaims'
  BY DEF TypeOK, OneClaims, Claimed
<1>4. ArgumentIsLast'
  BY DEF TypeOK, OneInside, OneClaims, Claimed, ArgumentIsLast, Drawn, Replacing
<1>5. ThreadIsTask'
  BY DEF TypeOK, OneInside, ThreadIsTask, ArgumentStays
<1>6. ArgumentStays'
  BY DEF TypeOK, OneInside, ThreadIsTask, ArgumentStays
<1>7. DrawsLast'
  BY DEF TypeOK, OneInside, ThreadIsTask, ArgumentStays, ArgumentIsLast, DrawsLast,
     Drawn, Replacing
<1>8. LastIsShown'
  BY DEF TypeOK, OneInside, ThreadIsTask, ArgumentStays, ArgumentIsLast, DrawsLast,
     LastIsShown, Drawn, Replacing
<1>9. QED
  BY <1>1, <1>2, <1>3, <1>4, <1>5, <1>6, <1>7, <1>8

\* The mode is no text.
LEMMA ModeKeeps ==
  ASSUME IInv, NEW p \in Callers, SetMode(p) \/ SkipChars(p)
  PROVE  IInv'
<1> USE AotomAssumption
    DEF IInv, SetMode, SkipChars, Goes, semaphores, args, draw, callers, threads,
        Argument, Drawing, Texts, Inside
<1>1. TypeOK'
  BY DEF TypeOK, OneInside, OneClaims, Claimed, ArgumentIsLast, ThreadIsTask
<1>2. OneInside'
  BY DEF TypeOK, OneInside
<1>3. OneClaims'
  BY DEF TypeOK, OneClaims, Claimed
<1>4. ArgumentIsLast'
  BY DEF TypeOK, OneInside, OneClaims, Claimed, ArgumentIsLast, Drawn, Replacing
<1>5. ThreadIsTask'
  BY DEF TypeOK, OneInside, ThreadIsTask, ArgumentStays
<1>6. ArgumentStays'
  BY DEF TypeOK, OneInside, ThreadIsTask, ArgumentStays
<1>7. DrawsLast'
  BY DEF TypeOK, OneInside, ThreadIsTask, ArgumentStays, ArgumentIsLast, DrawsLast,
     Drawn, Replacing
<1>8. LastIsShown'
  BY DEF TypeOK, OneInside, ThreadIsTask, ArgumentStays, ArgumentIsLast, DrawsLast,
     LastIsShown, Drawn, Replacing
<1>9. QED
  BY <1>1, <1>2, <1>3, <1>4, <1>5, <1>6, <1>7, <1>8

\* No other ioctl has its text in vfd_data.
LEMMA CharsKeeps ==
  ASSUME IInv, NEW p \in Callers, NEW text \in Texts, DisplayChars(p, text)
  PROVE  IInv'
<1> USE AotomAssumption
    DEF IInv, DisplayChars, Goes, semaphores, args, draw, callers, threads, Argument,
        Drawing, Texts, Inside
<1>1. TypeOK'
  BY DEF TypeOK, OneInside, OneClaims, Claimed, ArgumentIsLast, ThreadIsTask
<1>2. OneInside'
  BY DEF TypeOK, OneInside
<1>3. OneClaims'
  BY DEF TypeOK, OneClaims, Claimed
<1>4. ArgumentIsLast'
  BY DEF TypeOK, OneInside, OneClaims, Claimed, ArgumentIsLast, Drawn, Replacing
<1>5. ThreadIsTask'
  BY DEF TypeOK, OneInside, ThreadIsTask, ArgumentStays
<1>6. ArgumentStays'
  BY DEF TypeOK, OneInside, ThreadIsTask, ArgumentStays
<1>7. DrawsLast'
  BY DEF TypeOK, OneInside, ThreadIsTask, ArgumentStays, ArgumentIsLast, DrawsLast,
     Drawn, Replacing
<1>8. LastIsShown'
  BY DEF TypeOK, OneInside, ThreadIsTask, ArgumentStays, ArgumentIsLast, DrawsLast,
     LastIsShown, Drawn, Replacing
<1>9. QED
  BY <1>1, <1>2, <1>3, <1>4, <1>5, <1>6, <1>7, <1>8

\* No other ioctl has its text in vfd_data.
LEMMA ClearKeeps ==
  ASSUME IInv, NEW p \in Callers, DisplayClear(p)
  PROVE  IInv'
<1> USE AotomAssumption
    DEF IInv, DisplayClear, Goes, semaphores, args, draw, callers, threads, Argument,
        Drawing, Texts, Inside
<1>1. TypeOK'
  BY DEF TypeOK, OneInside, OneClaims, Claimed, ArgumentIsLast, ThreadIsTask
<1>2. OneInside'
  BY DEF TypeOK, OneInside
<1>3. OneClaims'
  BY DEF TypeOK, OneClaims, Claimed
<1>4. ArgumentIsLast'
  BY DEF TypeOK, OneInside, OneClaims, Claimed, ArgumentIsLast, Drawn, Replacing
<1>5. ThreadIsTask'
  BY DEF TypeOK, OneInside, ThreadIsTask, ArgumentStays
<1>6. ArgumentStays'
  BY DEF TypeOK, OneInside, ThreadIsTask, ArgumentStays
<1>7. DrawsLast'
  BY DEF TypeOK, OneInside, ThreadIsTask, ArgumentStays, ArgumentIsLast, DrawsLast,
     Drawn, Replacing
<1>8. LastIsShown'
  BY DEF TypeOK, OneInside, ThreadIsTask, ArgumentStays, ArgumentIsLast, DrawsLast,
     LastIsShown, Drawn, Replacing
<1>9. QED
  BY <1>1, <1>2, <1>3, <1>4, <1>5, <1>6, <1>7, <1>8

\* write_sem was claimed by this call.
LEMMA ReleaseKeeps ==
  ASSUME IInv, NEW p \in Callers, Release(p)
  PROVE  IInv'
<1> USE AotomAssumption
    DEF IInv, Release, Goes, semaphores, args, draw, callers, threads, Argument, Drawing,
        Texts, Inside
<1>1. TypeOK'
  BY DEF TypeOK, OneInside, OneClaims, Claimed, ArgumentIsLast, ThreadIsTask
<1>2. OneInside'
  BY DEF TypeOK, OneInside
<1>3. OneClaims'
  BY DEF TypeOK, OneClaims, Claimed
<1>4. ArgumentIsLast'
  BY DEF TypeOK, OneInside, OneClaims, Claimed, ArgumentIsLast, Drawn, Replacing
<1>5. ThreadIsTask'
  BY DEF TypeOK, OneInside, ThreadIsTask, ArgumentStays
<1>6. ArgumentStays'
  BY DEF TypeOK, OneInside, ThreadIsTask, ArgumentStays
<1>7. DrawsLast'
  BY DEF TypeOK, OneInside, ThreadIsTask, ArgumentStays, ArgumentIsLast, DrawsLast,
     Drawn, Replacing
<1>8. LastIsShown'
  BY DEF TypeOK, OneInside, ThreadIsTask, ArgumentStays, ArgumentIsLast, DrawsLast,
     LastIsShown, Drawn, Replacing
<1>9. QED
  BY <1>1, <1>2, <1>3, <1>4, <1>5, <1>6, <1>7, <1>8

\* Nobody is inside when draw_thread_sem is taken.
LEMMA DownKeeps ==
  ASSUME IInv, NEW p \in Callers, Down(p)
  PROVE  IInv'
<1> USE AotomAssumption
    DEF IInv, Down, Goes, semaphores, args, draw, callers, threads, Argument, Drawing,
        Texts, Inside
<1>1. TypeOK'
  BY DEF TypeOK, OneInside, OneClaims, Claimed, ArgumentIsLast, ThreadIsTask
<1>2. OneInside'
  BY DEF TypeOK, OneInside
<1>3. OneClaims'
  BY DEF TypeOK, OneClaims, Claimed
<1>4. ArgumentIsLast'
  BY DEF TypeOK, OneInside, OneClaims, Claimed, ArgumentIsLast, Drawn, Replacing
<1>5. ThreadIsTask'
  BY DEF TypeOK, OneInside, ThreadIsTask, ArgumentStays
<1>6. ArgumentStays'
  BY DEF TypeOK, OneInside, ThreadIsTask, ArgumentStays
<1>7. DrawsLast'
  BY DEF TypeOK, OneInside, ThreadIsTask, ArgumentStays, ArgumentIsLast, DrawsLast,
     Drawn, Replacing
<1>8. LastIsShown'
  BY DEF TypeOK, OneInside, ThreadIsTask, ArgumentStays, ArgumentIsLast, DrawsLast,
     LastIsShown, Drawn, Replacing
<1>9. QED
  BY <1>1, <1>2, <1>3, <1>4, <1>5, <1>6, <1>7, <1>8

\* The text becomes the last one, and is then to be drawn.
LEMMA CompareKeeps ==
  ASSUME IInv, NEW p \in Callers, SameText(p) \/ NewText(p)
  PROVE  IInv'
<1> USE AotomAssumption
    DEF IInv, SameText, NewText, Goes, semaphores, args, draw, callers, threads,
        Argument, Drawing, Texts, Inside
<1>1. TypeOK'
  BY DEF TypeOK, OneInside, OneClaims, Claimed, ArgumentIsLast, ThreadIsTask
<1>2. OneInside'
  BY DEF TypeOK, OneInside
<1>3. OneClaims'
  BY DEF TypeOK, OneClaims, Claimed
<1>4. ArgumentIsLast'
  BY DEF TypeOK, OneInside, OneClaims, Claimed, ArgumentIsLast, Drawn, Replacing
<1>5. ThreadIsTask'
  BY DEF TypeOK, OneInside, ThreadIsTask, ArgumentStays
<1>6. ArgumentStays'
  BY DEF TypeOK, OneInside, ThreadIsTask, ArgumentStays
<1>7. DrawsLast'
  BY DEF TypeOK, OneInside, ThreadIsTask, ArgumentStays, ArgumentIsLast, DrawsLast,
     Drawn, Replacing
<1>8. LastIsShown'
  BY DEF TypeOK, OneInside, ThreadIsTask, ArgumentStays, ArgumentIsLast, DrawsLast,
     LastIsShown, Drawn, Replacing
<1>9. QED
  BY <1>1, <1>2, <1>3, <1>4, <1>5, <1>6, <1>7, <1>8

\* Without a thread to stop there is none at all.
LEMMA ReplaceKeeps ==
  ASSUME IInv, NEW p \in Callers, Replace(p)
  PROVE  IInv'
<1> USE AotomAssumption
    DEF IInv, Replace, Goes, semaphores, args, draw, callers, threads, Argument, Drawing,
        Texts, Inside
<1>1. TypeOK'
  BY DEF TypeOK, OneInside, OneClaims, Claimed, ArgumentIsLast, ThreadIsTask
<1>2. OneInside'
  BY DEF TypeOK, OneInside
<1>3. OneClaims'
  BY DEF TypeOK, OneClaims, Claimed
<1>4. ArgumentIsLast'
  BY DEF TypeOK, OneInside, OneClaims, Claimed, ArgumentIsLast, Drawn, Replacing
<1>5. ThreadIsTask'
  BY DEF TypeOK, OneInside, ThreadIsTask, ArgumentStays
<1>6. ArgumentStays'
  BY DEF TypeOK, OneInside, ThreadIsTask, ArgumentStays
<1>7. DrawsLast'
  BY DEF TypeOK, OneInside, ThreadIsTask, ArgumentStays, ArgumentIsLast, DrawsLast,
     Drawn, Replacing
<1>8. LastIsShown'
  BY DEF TypeOK, OneInside, ThreadIsTask, ArgumentStays, ArgumentIsLast, DrawsLast,
     LastIsShown, Drawn, Replacing
<1>9. QED
  BY <1>1, <1>2, <1>3, <1>4, <1>5, <1>6, <1>7, <1>8

\* The caller that asks a thread to stop waits for it.
LEMMA KthreadStopKeeps ==
  ASSUME IInv, NEW p \in Callers, KthreadStop(p)
  PROVE  IInv'
<1> USE AotomAssumption
    DEF IInv, KthreadStop, Goes, semaphores, args, draw, callers, threads, Argument,
        Drawing, Texts, Inside
<1>1. TypeOK'
  BY DEF TypeOK, OneInside, OneClaims, Claimed, ArgumentIsLast, ThreadIsTask
<1>2. OneInside'
  BY DEF TypeOK, OneInside
<1>3. OneClaims'
  BY DEF TypeOK, OneClaims, Claimed
<1>4. ArgumentIsLast'
  BY DEF TypeOK, OneInside, OneClaims, Claimed, ArgumentIsLast, Drawn, Replacing
<1>5. ThreadIsTask'
  BY DEF TypeOK, OneInside, ThreadIsTask, ArgumentStays
<1>6. ArgumentStays'
  BY DEF TypeOK, OneInside, ThreadIsTask, ArgumentStays
<1>7. DrawsLast'
  BY DEF TypeOK, OneInside, ThreadIsTask, ArgumentStays, ArgumentIsLast, DrawsLast,
     Drawn, Replacing
<1>8. LastIsShown'
  BY DEF TypeOK, OneInside, ThreadIsTask, ArgumentStays, ArgumentIsLast, DrawsLast,
     LastIsShown, Drawn, Replacing
<1>9. QED
  BY <1>1, <1>2, <1>3, <1>4, <1>5, <1>6, <1>7, <1>8

\* Then no thread is left.
LEMMA JoinKeeps ==
  ASSUME IInv, NEW p \in Callers, Join(p)
  PROVE  IInv'
<1> USE AotomAssumption
    DEF IInv, Join, Goes, semaphores, args, draw, callers, threads, Argument, Drawing,
        Texts, Inside
<1>1. TypeOK'
  BY DEF TypeOK, OneInside, OneClaims, Claimed, ArgumentIsLast, ThreadIsTask
<1>2. OneInside'
  BY DEF TypeOK, OneInside
<1>3. OneClaims'
  BY DEF TypeOK, OneClaims, Claimed
<1>4. ArgumentIsLast'
  BY DEF TypeOK, OneInside, OneClaims, Claimed, ArgumentIsLast, Drawn, Replacing
<1>5. ThreadIsTask'
  BY DEF TypeOK, OneInside, ThreadIsTask, ArgumentStays
<1>6. ArgumentStays'
  BY DEF TypeOK, OneInside, ThreadIsTask, ArgumentStays
<1>7. DrawsLast'
  BY DEF TypeOK, OneInside, ThreadIsTask, ArgumentStays, ArgumentIsLast, DrawsLast,
     Drawn, Replacing
<1>8. LastIsShown'
  BY DEF TypeOK, OneInside, ThreadIsTask, ArgumentStays, ArgumentIsLast, DrawsLast,
     LastIsShown, Drawn, Replacing
<1>9. QED
  BY <1>1, <1>2, <1>3, <1>4, <1>5, <1>6, <1>7, <1>8

\* A short text is shown at once.
LEMMA DrawShortKeeps ==
  ASSUME IInv, NEW p \in Callers, DrawShort(p)
  PROVE  IInv'
<1> USE AotomAssumption
    DEF IInv, DrawShort, Goes, semaphores, args, draw, callers, threads, Argument,
        Drawing, Texts, Inside
<1>1. TypeOK'
  BY DEF TypeOK, OneInside, OneClaims, Claimed, ArgumentIsLast, ThreadIsTask
<1>2. OneInside'
  BY DEF TypeOK, OneInside
<1>3. OneClaims'
  BY DEF TypeOK, OneClaims, Claimed
<1>4. ArgumentIsLast'
  BY DEF TypeOK, OneInside, OneClaims, Claimed, ArgumentIsLast, Drawn, Replacing
<1>5. ThreadIsTask'
  BY DEF TypeOK, OneInside, ThreadIsTask, ArgumentStays
<1>6. ArgumentStays'
  BY DEF TypeOK, OneInside, ThreadIsTask, ArgumentStays
<1>7. DrawsLast'
  BY DEF TypeOK, OneInside, ThreadIsTask, ArgumentStays, ArgumentIsLast, DrawsLast,
     Drawn, Replacing
<1>8. LastIsShown'
  BY DEF TypeOK, OneInside, ThreadIsTask, ArgumentStays, ArgumentIsLast, DrawsLast,
     LastIsShown, Drawn, Replacing
<1>9. QED
  BY <1>1, <1>2, <1>3, <1>4, <1>5, <1>6, <1>7, <1>8

\* A long one is left to a thread.
LEMMA DrawLongKeeps ==
  ASSUME IInv, NEW p \in Callers, DrawLong(p)
  PROVE  IInv'
<1> USE AotomAssumption
    DEF IInv, DrawLong, Goes, semaphores, args, draw, callers, threads, Argument,
        Drawing, Texts, Inside
<1>1. TypeOK'
  BY DEF TypeOK, OneInside, OneClaims, Claimed, ArgumentIsLast, ThreadIsTask
<1>2. OneInside'
  BY DEF TypeOK, OneInside
<1>3. OneClaims'
  BY DEF TypeOK, OneClaims, Claimed
<1>4. ArgumentIsLast'
  BY DEF TypeOK, OneInside, OneClaims, Claimed, ArgumentIsLast, Drawn, Replacing
<1>5. ThreadIsTask'
  BY DEF TypeOK, OneInside, ThreadIsTask, ArgumentStays
<1>6. ArgumentStays'
  BY DEF TypeOK, OneInside, ThreadIsTask, ArgumentStays
<1>7. DrawsLast'
  BY DEF TypeOK, OneInside, ThreadIsTask, ArgumentStays, ArgumentIsLast, DrawsLast,
     Drawn, Replacing
<1>8. LastIsShown'
  BY DEF TypeOK, OneInside, ThreadIsTask, ArgumentStays, ArgumentIsLast, DrawsLast,
     LastIsShown, Drawn, Replacing
<1>9. QED
  BY <1>1, <1>2, <1>3, <1>4, <1>5, <1>6, <1>7, <1>8

\* The thread that is created is the only one.
LEMMA KthreadRunKeeps ==
  ASSUME IInv, NEW p \in Callers, KthreadRun(p)
  PROVE  IInv'
<1> USE AotomAssumption
    DEF IInv, KthreadRun, Goes, semaphores, args, draw, callers, threads, Argument,
        Drawing, Texts, Inside
<1>a. PICK k \in Tasks :
        /\ stage[k] = "none"
        /\ stage' = [stage EXCEPT ![k] = "start"]
        /\ owner' = [owner EXCEPT ![k] = p]
        /\ draw_task' = k
  OBVIOUS
<1>b. \A j \in Tasks : stage[j] = "none"
  BY DEF ThreadIsTask
<1>c. pc' = [pc EXCEPT ![p] = "wait"] /\ draw_thread_stop' = draw_thread_stop
  OBVIOUS
<1>d. /\ stage'[k] = "start" /\ owner'[k] = p /\ pc'[p] = "wait"
      /\ \A j \in Tasks \ {k} : stage'[j] = "none"
  BY <1>a, <1>b, <1>c DEF TypeOK
<1>1. TypeOK'
  BY DEF TypeOK, OneInside, OneClaims, Claimed, ArgumentIsLast, ThreadIsTask
<1>2. OneInside'
  BY DEF TypeOK, OneInside
<1>3. OneClaims'
  BY DEF TypeOK, OneClaims, Claimed
<1>4. ArgumentIsLast'
  BY DEF TypeOK, OneInside, OneClaims, Claimed, ArgumentIsLast, Drawn, Replacing
<1>5. ThreadIsTask'
  BY <1>a, <1>c, <1>d DEF TypeOK, OneInside, ThreadIsTask
<1>6. ArgumentStays'
  BY DEF TypeOK, OneInside, ThreadIsTask, ArgumentStays
<1>7. DrawsLast'
  BY <1>a, <1>b, <1>c, <1>d DEF TypeOK, ThreadIsTask, DrawsLast, Drawn, Replacing
<1>8. LastIsShown'
  BY <1>c DEF TypeOK, OneInside, ThreadIsTask, LastIsShown, Drawn, Replacing
<1>9. QED
  BY <1>1, <1>2, <1>3, <1>4, <1>5, <1>6, <1>7, <1>8

\* The caller keeps its argument until it is copied.
LEMMA WaitKeeps ==
  ASSUME IInv, NEW p \in Callers, KthreadRunFails(p) \/ Wait(p)
  PROVE  IInv'
<1> USE AotomAssumption
    DEF IInv, KthreadRunFails, Wait, Goes, semaphores, args, draw, callers, threads,
        Argument, Drawing, Texts, Inside
<1>1. TypeOK'
  BY DEF TypeOK, OneInside, OneClaims, Claimed, ArgumentIsLast, ThreadIsTask
<1>2. OneInside'
  BY DEF TypeOK, OneInside
<1>3. OneClaims'
  BY DEF TypeOK, OneClaims, Claimed
<1>4. ArgumentIsLast'
  BY DEF TypeOK, OneInside, OneClaims, Claimed, ArgumentIsLast, Drawn, Replacing
<1>5. ThreadIsTask'
  BY DEF TypeOK, OneInside, ThreadIsTask, ArgumentStays
<1>6. ArgumentStays'
  BY DEF TypeOK, OneInside, ThreadIsTask, ArgumentStays
<1>7. DrawsLast'
  BY DEF TypeOK, OneInside, ThreadIsTask, ArgumentStays, ArgumentIsLast, DrawsLast,
     Drawn, Replacing
<1>8. LastIsShown'
  BY DEF TypeOK, OneInside, ThreadIsTask, ArgumentStays, ArgumentIsLast, DrawsLast,
     LastIsShown, Drawn, Replacing
<1>9. QED
  BY <1>1, <1>2, <1>3, <1>4, <1>5, <1>6, <1>7, <1>8

\* When the call leaves, its text is shown or on its way.
LEMMA UpKeeps ==
  ASSUME IInv, NEW p \in Callers, Up(p)
  PROVE  IInv'
<1> USE AotomAssumption
    DEF IInv, Up, Goes, semaphores, args, draw, callers, threads, Argument, Drawing,
        Texts, Inside
<1>1. TypeOK'
  BY DEF TypeOK, OneInside, OneClaims, Claimed, ArgumentIsLast, ThreadIsTask
<1>2. OneInside'
  BY DEF TypeOK, OneInside
<1>3. OneClaims'
  BY DEF TypeOK, OneClaims, Claimed
<1>4. ArgumentIsLast'
  BY DEF TypeOK, OneInside, OneClaims, Claimed, ArgumentIsLast, Drawn, Replacing
<1>5. ThreadIsTask'
  BY DEF TypeOK, OneInside, ThreadIsTask, ArgumentStays
<1>6. ArgumentStays'
  BY DEF TypeOK, OneInside, ThreadIsTask, ArgumentStays
<1>7. DrawsLast'
  BY DEF TypeOK, OneInside, ThreadIsTask, ArgumentStays, ArgumentIsLast, DrawsLast,
     Drawn, Replacing
<1>8. LastIsShown'
  BY DEF TypeOK, OneInside, ThreadIsTask, ArgumentStays, ArgumentIsLast, DrawsLast,
     LastIsShown, Drawn, Replacing
<1>9. QED
  BY <1>1, <1>2, <1>3, <1>4, <1>5, <1>6, <1>7, <1>8

\* The argument that is copied is the last text.
LEMMA CopyKeeps ==
  ASSUME IInv, NEW k \in Tasks, Copy(k)
  PROVE  IInv'
<1> USE AotomAssumption
    DEF IInv, Copy, Steps, semaphores, args, draw, callers, threads, Argument, Drawing,
        Texts, Inside
<1>1. TypeOK'
  BY DEF TypeOK, OneInside, OneClaims, Claimed, ArgumentIsLast, ThreadIsTask
<1>2. OneInside'
  BY DEF TypeOK, OneInside
<1>3. OneClaims'
  BY DEF TypeOK, OneClaims, Claimed
<1>4. ArgumentIsLast'
  BY DEF TypeOK, OneInside, OneClaims, Claimed, ArgumentIsLast, Drawn, Replacing
<1>5. ThreadIsTask'
  BY DEF TypeOK, OneInside, ThreadIsTask, ArgumentStays
<1>6. ArgumentStays'
  BY DEF TypeOK, OneInside, ThreadIsTask, ArgumentStays
<1>7. DrawsLast'
  BY DEF TypeOK, OneInside, ThreadIsTask, ArgumentStays, ArgumentIsLast, DrawsLast,
     Drawn, Replacing
<1>8. LastIsShown'
  BY DEF TypeOK, OneInside, ThreadIsTask, ArgumentStays, ArgumentIsLast, DrawsLast,
     LastIsShown, Drawn, Replacing
<1>9. QED
  BY <1>1, <1>2, <1>3, <1>4, <1>5, <1>6, <1>7, <1>8

\* The thread draws from now on.
LEMMA StartedKeeps ==
  ASSUME IInv, NEW k \in Tasks, Started(k)
  PROVE  IInv'
<1> USE AotomAssumption
    DEF IInv, Started, Steps, semaphores, args, draw, callers, threads, Argument,
        Drawing, Texts, Inside
<1>1. TypeOK'
  BY DEF TypeOK, OneInside, OneClaims, Claimed, ArgumentIsLast, ThreadIsTask
<1>2. OneInside'
  BY DEF TypeOK, OneInside
<1>3. OneClaims'
  BY DEF TypeOK, OneClaims, Claimed
<1>4. ArgumentIsLast'
  BY DEF TypeOK, OneInside, OneClaims, Claimed, ArgumentIsLast, Drawn, Replacing
<1>5. ThreadIsTask'
  BY DEF TypeOK, OneInside, ThreadIsTask, ArgumentStays
<1>6. ArgumentStays'
  BY DEF TypeOK, OneInside, ThreadIsTask, ArgumentStays
<1>7. DrawsLast'
  BY DEF TypeOK, OneInside, ThreadIsTask, ArgumentStays, ArgumentIsLast, DrawsLast,
     Drawn, Replacing
<1>8. LastIsShown'
  BY DEF TypeOK, OneInside, ThreadIsTask, ArgumentStays, ArgumentIsLast, DrawsLast,
     LastIsShown, Drawn, Replacing
<1>9. QED
  BY <1>1, <1>2, <1>3, <1>4, <1>5, <1>6, <1>7, <1>8

\* Scrolling shows parts, and goes on.
LEMMA ScrollKeeps ==
  ASSUME IInv, NEW k \in Tasks, Scroll(k)
  PROVE  IInv'
<1> USE AotomAssumption
    DEF IInv, Scroll, Steps, semaphores, args, draw, callers, threads, Argument, Drawing,
        Texts, Inside
<1>1. TypeOK'
  BY DEF TypeOK, OneInside, OneClaims, Claimed, ArgumentIsLast, ThreadIsTask
<1>2. OneInside'
  BY DEF TypeOK, OneInside
<1>3. OneClaims'
  BY DEF TypeOK, OneClaims, Claimed
<1>4. ArgumentIsLast'
  BY DEF TypeOK, OneInside, OneClaims, Claimed, ArgumentIsLast, Drawn, Replacing
<1>5. ThreadIsTask'
  BY DEF TypeOK, OneInside, ThreadIsTask, ArgumentStays
<1>6. ArgumentStays'
  BY DEF TypeOK, OneInside, ThreadIsTask, ArgumentStays
<1>7. DrawsLast'
  BY DEF TypeOK, OneInside, ThreadIsTask, ArgumentStays, ArgumentIsLast, DrawsLast,
     Drawn, Replacing
<1>8. LastIsShown'
  BY DEF TypeOK, OneInside, ThreadIsTask, ArgumentStays, ArgumentIsLast, DrawsLast,
     LastIsShown, Drawn, Replacing
<1>9. QED
  BY <1>1, <1>2, <1>3, <1>4, <1>5, <1>6, <1>7, <1>8

\* Only a thread that is being replaced is stopped early.
LEMMA EndsKeeps ==
  ASSUME IInv, NEW k \in Tasks, ScrollStopped(k) \/ ScrollEnds(k)
  PROVE  IInv'
<1> USE AotomAssumption
    DEF IInv, ScrollStopped, ScrollEnds, Steps, semaphores, args, draw, callers, threads,
        Argument, Drawing, Texts, Inside
<1>1. TypeOK'
  BY DEF TypeOK, OneInside, OneClaims, Claimed, ArgumentIsLast, ThreadIsTask
<1>2. OneInside'
  BY DEF TypeOK, OneInside
<1>3. OneClaims'
  BY DEF TypeOK, OneClaims, Claimed
<1>4. ArgumentIsLast'
  BY DEF TypeOK, OneInside, OneClaims, Claimed, ArgumentIsLast, Drawn, Replacing
<1>5. ThreadIsTask'
  BY DEF TypeOK, OneInside, ThreadIsTask, ArgumentStays
<1>6. ArgumentStays'
  BY DEF TypeOK, OneInside, ThreadIsTask, ArgumentStays
<1>7. DrawsLast'
  BY DEF TypeOK, OneInside, ThreadIsTask, ArgumentStays, ArgumentIsLast, DrawsLast,
     Drawn, Replacing
<1>8. LastIsShown'
  BY DEF TypeOK, OneInside, ThreadIsTask, ArgumentStays, ArgumentIsLast, DrawsLast,
     LastIsShown, Drawn, Replacing
<1>9. QED
  BY <1>1, <1>2, <1>3, <1>4, <1>5, <1>6, <1>7, <1>8

\* In the end the thread shows its text.
LEMMA ShowKeeps ==
  ASSUME IInv, NEW k \in Tasks, Show(k)
  PROVE  IInv'
<1> USE AotomAssumption
    DEF IInv, Show, Steps, semaphores, args, draw, callers, threads, Argument, Drawing,
        Texts, Inside
<1>1. TypeOK'
  BY DEF TypeOK, OneInside, OneClaims, Claimed, ArgumentIsLast, ThreadIsTask
<1>2. OneInside'
  BY DEF TypeOK, OneInside
<1>3. OneClaims'
  BY DEF TypeOK, OneClaims, Claimed
<1>4. ArgumentIsLast'
  BY DEF TypeOK, OneInside, OneClaims, Claimed, ArgumentIsLast, Drawn, Replacing
<1>5. ThreadIsTask'
  BY DEF TypeOK, OneInside, ThreadIsTask, ArgumentStays
<1>6. ArgumentStays'
  BY DEF TypeOK, OneInside, ThreadIsTask, ArgumentStays
<1>7. DrawsLast'
  BY DEF TypeOK, OneInside, ThreadIsTask, ArgumentStays, ArgumentIsLast, DrawsLast,
     Drawn, Replacing
<1>8. LastIsShown'
  BY DEF TypeOK, OneInside, ThreadIsTask, ArgumentStays, ArgumentIsLast, DrawsLast,
     LastIsShown, Drawn, Replacing
<1>9. QED
  BY <1>1, <1>2, <1>3, <1>4, <1>5, <1>6, <1>7, <1>8

\* The thread has shown the last text, or is being replaced.
LEMMA ReturnKeeps ==
  ASSUME IInv, NEW k \in Tasks, Return(k)
  PROVE  IInv'
<1> USE AotomAssumption
    DEF IInv, Return, Steps, semaphores, args, draw, callers, threads, Argument, Drawing,
        Texts, Inside
<1>1. TypeOK'
  BY DEF TypeOK, OneInside, OneClaims, Claimed, ArgumentIsLast, ThreadIsTask
<1>2. OneInside'
  BY DEF TypeOK, OneInside
<1>3. OneClaims'
  BY DEF TypeOK, OneClaims, Claimed
<1>4. ArgumentIsLast'
  BY DEF TypeOK, OneInside, OneClaims, Claimed, ArgumentIsLast, Drawn, Replacing
<1>5. ThreadIsTask'
  BY DEF TypeOK, OneInside, ThreadIsTask, ArgumentStays
<1>6. ArgumentStays'
  BY DEF TypeOK, OneInside, ThreadIsTask, ArgumentStays
<1>7. DrawsLast'
  BY DEF TypeOK, OneInside, ThreadIsTask, ArgumentStays, ArgumentIsLast, DrawsLast,
     Drawn, Replacing
<1>8. LastIsShown'
  BY DEF TypeOK, OneInside, ThreadIsTask, ArgumentStays, ArgumentIsLast, DrawsLast,
     LastIsShown, Drawn, Replacing
<1>9. QED
  BY <1>1, <1>2, <1>3, <1>4, <1>5, <1>6, <1>7, <1>8
-----------------------------------------------------------------------------
\* At first nobody calls and nothing is drawn.
LEMMA InitIInv == Init => IInv
<1> SUFFICES ASSUME Init
             PROVE  IInv
  OBVIOUS
<1> USE AotomAssumption DEF Init
<1>1. TypeOK
  BY DEF TypeOK, Texts
<1>2. OneInside /\ OneClaims /\ ArgumentIsLast
  BY DEF OneInside, OneClaims, ArgumentIsLast, Inside, Claimed, Drawn, Replacing
<1>3. ThreadIsTask /\ ArgumentStays /\ DrawsLast /\ LastIsShown
  BY DEF ThreadIsTask, ArgumentStays, DrawsLast, LastIsShown
<1>4. QED
  BY <1>1, <1>2, <1>3 DEF IInv

\* The invariant is inductive: one step for each kind of action.
LEMMA NextKeepsIInv == IInv /\ [Next]_vars => IInv'
<1> SUFFICES ASSUME IInv, [Next]_vars
             PROVE  IInv'
  OBVIOUS
<1>1. CASE UNCHANGED vars
  BY <1>1 DEF vars, semaphores, args, draw, callers, threads, IInv, TypeOK, OneInside,
              OneClaims, Claimed, ArgumentIsLast, Argument, ThreadIsTask, ArgumentStays,
              DrawsLast, LastIsShown
<1>2. ASSUME NEW p \in Callers, Caller(p)
      PROVE  IInv'
  <2>1. ASSUME NEW text \in Texts, Write(p, text)
        PROVE  IInv'
    BY <2>1, WriteKeeps
  <2>2. CASE Ioctl(p)
    BY <2>2, BeginKeeps
  <2>3. CASE Claim(p)
    BY <2>3, ClaimKeeps
  <2>4. CASE Interrupted(p) \/ CopyFails(p)
    BY <2>4, LeaveKeeps
  <2>5. CASE SetMode(p) \/ SkipChars(p)
    BY <2>5, ModeKeeps
  <2>6. ASSUME NEW text \in Texts, DisplayChars(p, text)
        PROVE  IInv'
    BY <2>6, CharsKeeps
  <2>7. CASE DisplayClear(p)
    BY <2>7, ClearKeeps
  <2>8. CASE Release(p)
    BY <2>8, ReleaseKeeps
  <2>9. CASE Down(p)
    BY <2>9, DownKeeps
  <2>10. CASE SameText(p) \/ NewText(p)
    BY <2>10, CompareKeeps
  <2>11. CASE Replace(p)
    BY <2>11, ReplaceKeeps
  <2>12. CASE KthreadStop(p)
    BY <2>12, KthreadStopKeeps
  <2>13. CASE Join(p)
    BY <2>13, JoinKeeps
  <2>14. CASE DrawShort(p)
    BY <2>14, DrawShortKeeps
  <2>15. CASE DrawLong(p)
    BY <2>15, DrawLongKeeps
  <2>16. CASE KthreadRun(p)
    BY <2>16, KthreadRunKeeps
  <2>17. CASE KthreadRunFails(p) \/ Wait(p)
    BY <2>17, WaitKeeps
  <2>18. CASE Up(p)
    BY <2>18, UpKeeps
  <2>19. QED
    BY <1>2, <2>1, <2>2, <2>3, <2>4, <2>5, <2>6, <2>7, <2>8, <2>9, <2>10, <2>11, <2>12,
       <2>13, <2>14, <2>15, <2>16, <2>17, <2>18 DEF Caller, Dispatch, Run
<1>3. ASSUME NEW k \in Tasks, Thread(k)
      PROVE  IInv'
  <2>1. CASE Copy(k)
    BY <2>1, CopyKeeps
  <2>2. CASE Started(k)
    BY <2>2, StartedKeeps
  <2>3. CASE Scroll(k)
    BY <2>3, ScrollKeeps
  <2>4. CASE ScrollStopped(k) \/ ScrollEnds(k)
    BY <2>4, EndsKeeps
  <2>5. CASE Show(k)
    BY <2>5, ShowKeeps
  <2>6. CASE Return(k)
    BY <2>6, ReturnKeeps
  <2>7. QED
    BY <1>3, <2>1, <2>2, <2>3, <2>4, <2>5, <2>6 DEF Thread, Ends
<1>4. QED
  BY <1>1, <1>2, <1>3 DEF Next

\* The invariant implies what it was strengthened from.
LEMMA IInvImplies == IInv => TypeOK /\ ShowsLast /\ ArgumentStays
BY DEF IInv, ShowsLast, LastIsShown, OneInside, Inside, Drawn, Replacing

\* The invariant holds in every reachable state.
LEMMA Invariant == Spec => []IInv
BY InitIInv, NextKeepsIInv, PTL DEF Spec

\* The variables keep their types: neither semaphore is ever given back by a
\* call that does not have it.
THEOREM DisplayTypeCorrect == Spec => []TypeOK
BY Invariant, IInvImplies, PTL

\* When nothing is being drawn, the display shows the last text, whatever
\* calls, threads and failures came before.
THEOREM ShowsLastAlways == Spec => []ShowsLast
BY Invariant, IInvImplies, PTL

\* No thread reads the argument of a call that has gone on.
THEOREM ArgumentStaysAlways == Spec => []ArgumentStays
BY Invariant, IInvImplies, PTL

-----------------------------------------------------------------------------
(* What a call waits for.                                                  *)

DownAwaits == draw_thread_sem = 0 => \E p \in Callers : pc[p] \in Inside
ClaimAwaits == write_sem = 0 => (\E p \in Callers : Claimed(p)) \/ "copy" \in Faults
WaitAwaits ==
  draw_thread_stop = 2 => \/ \E k \in Tasks : stage[k] \in {"start", "copied"}
                          \/ \E p \in Callers : pc[p] = "create"
                          \/ "kthread" \in Faults
JoinAwaits ==
  /\ draw_thread_stop = 0 => \E k \in Tasks : stage[k] \in {"scroll", "show", "return"}
  /\ \A p \in Callers : pc[p] = "join" => stage[draw_task] = "none" \/ should_stop[draw_task]

Awaits == DownAwaits /\ ClaimAwaits /\ WaitAwaits /\ JoinAwaits

\* Steps of a call outside run_draw_thread.
LEMMA OutsideAwaits ==
  ASSUME IInv, Awaits, NEW p \in Callers,
         \/ \E text \in Texts : Write(p, text) \/ DisplayChars(p, text)
         \/ Ioctl(p) \/ Claim(p) \/ Interrupted(p) \/ CopyFails(p) \/ SetMode(p)
         \/ SkipChars(p) \/ DisplayClear(p) \/ Release(p)
  PROVE  Awaits'
<1> USE DEF Goes, semaphores, args, draw, callers, threads
<1>1. /\ \A q \in Callers : q # p => pc'[q] = pc[q] /\ call'[q] = call[q]
      /\ pc[p] \in {"idle", "claim", "switch", "release", "down"}
      /\ pc'[p] \in {"idle", "claim", "switch", "release", "down"}
      /\ UNCHANGED <<draw_thread_sem, draw, threads>>
  BY DEF IInv, TypeOK, Write, DisplayChars, Ioctl, Claim, Interrupted, CopyFails,
     SetMode, SkipChars, DisplayClear, Release
<1>2. DownAwaits' /\ WaitAwaits' /\ JoinAwaits'
  BY <1>1 DEF Awaits, DownAwaits, WaitAwaits, JoinAwaits, Inside
<1>3. ClaimAwaits'
  <2>1. CASE Claim(p)
    <3>1. Claimed(p)'
      BY <2>1 DEF Claim, Claimed, IInv, OneClaims, TypeOK
    <3> QED BY <3>1 DEF ClaimAwaits
  <2>2. CASE Release(p)
    BY <2>2 DEF Release, ClaimAwaits, IInv, TypeOK
  <2>3. CASE CopyFails(p)
    BY <2>3 DEF CopyFails, ClaimAwaits
  <2>4. CASE Ioctl(p) \/ \E text \in Texts : Write(p, text)
    <3>1. write_sem' = write_sem /\ ~Claimed(p)
      BY <2>4 DEF Write, Ioctl, Claimed, Inside
    <3> QED BY <1>1, <3>1 DEF Awaits, ClaimAwaits, Claimed
  <2>5. CASE \/ \E text \in Texts : DisplayChars(p, text)
             \/ SetMode(p) \/ SkipChars(p) \/ DisplayClear(p)
    <3>1. write_sem' = write_sem /\ (Claimed(p) => Claimed(p)')
      BY <1>1, <2>5 DEF DisplayChars, SetMode, SkipChars, DisplayClear, Claimed,
         IInv, TypeOK
    <3> QED BY <1>1, <3>1 DEF Awaits, ClaimAwaits, Claimed
  <2>6. CASE Interrupted(p)
    <3>1. write_sem' = write_sem /\ call' = call
      BY <2>6 DEF Interrupted
    <3>2. Claimed(p) => pc'[p] = "release"
      BY <2>6 DEF Interrupted, Claimed, Inside, IInv, TypeOK
    <3>3. Claimed(p) => Claimed(p)'
      BY <3>1, <3>2 DEF Claimed
    <3> QED BY <1>1, <3>1, <3>3 DEF Awaits, ClaimAwaits, Claimed
  <2> QED BY <2>1, <2>2, <2>3, <2>4, <2>5, <2>6
<1> QED
  BY <1>2, <1>3 DEF Awaits

\* Steps of run_draw_thread.
LEMMA InsideAwaits ==
  ASSUME IInv, Awaits, NEW p \in Callers, Down(p) \/ Run(p)
  PROVE  Awaits'
<1> USE DEF Goes, semaphores, args, draw, callers, threads
<1>1. /\ \A q \in Callers : q # p => pc'[q] = pc[q]
      /\ call' = call /\ write_sem' = write_sem
      /\ pc[p] \in Inside \cup {"down"}
      /\ pc'[p] \in Inside \cup {"idle", "release"}
      /\ call[p] = "ioctl" => pc'[p] # "idle"
      /\ \A q \in Callers : q # p => pc[q] \notin Inside
  BY DEF IInv, TypeOK, OneInside, Inside, Down, Run, SameText, NewText, Replace,
     KthreadStop, Join, DrawShort, DrawLong, KthreadRun, KthreadRunFails, Wait, Up
<1>2. ClaimAwaits'
  BY <1>1 DEF Awaits, ClaimAwaits, Claimed, Inside
<1>3. DownAwaits'
  <2>1. CASE Up(p)
    BY <2>1 DEF Up, DownAwaits, IInv, TypeOK
  <2>2. CASE ~Up(p)
    <3>1. pc'[p] \in Inside
      BY <2>2 DEF IInv, TypeOK, Inside, Down, Run, SameText, NewText, Replace,
         KthreadStop, Join, DrawShort, DrawLong, KthreadRun, KthreadRunFails, Wait
    <3> QED BY <3>1 DEF DownAwaits
  <2> QED BY <2>1, <2>2
<1>4. CASE Down(p) \/ SameText(p) \/ NewText(p) \/ Replace(p) \/ DrawShort(p)
             \/ Wait(p) \/ Up(p)
  <2>1. /\ UNCHANGED <<draw_task, draw_thread_stop, threads>>
        /\ pc[p] # "create" /\ pc'[p] # "join"
    BY <1>4 DEF Down, SameText, NewText, Replace, DrawShort, Wait, Up, IInv, TypeOK
  <2>2. WaitAwaits' /\ JoinAwaits'
    BY <1>1, <2>1 DEF Awaits, WaitAwaits, JoinAwaits
  <2> QED BY <1>2, <1>3, <2>2 DEF Awaits
<1>5. CASE KthreadStop(p)
  <2>1. /\ draw_task \in Tasks /\ pc'[p] = "join" /\ pc[p] = "stop"
        /\ UNCHANGED <<draw_task, draw_thread_stop, stage>>
        /\ should_stop'[draw_task] = (stage[draw_task] # "none")
    BY <1>5 DEF KthreadStop, IInv, TypeOK, ThreadIsTask
  <2>2. WaitAwaits' /\ JoinAwaits'
    BY <1>1, <2>1 DEF Awaits, WaitAwaits, JoinAwaits, Inside
  <2> QED BY <1>2, <1>3, <2>2 DEF Awaits
<1>6. CASE Join(p)
  <2>1. /\ pc[p] = "join" /\ pc'[p] = "draw"
        /\ UNCHANGED <<draw_thread_stop, threads>>
    BY <1>6 DEF Join, IInv, TypeOK
  <2>2. WaitAwaits' /\ JoinAwaits'
    BY <1>1, <2>1 DEF Awaits, WaitAwaits, JoinAwaits, Inside
  <2> QED BY <1>2, <1>3, <2>2 DEF Awaits
<1>7. CASE DrawLong(p)
  <2>1. pc'[p] = "create" /\ draw_thread_stop' = 2
    BY <1>7 DEF DrawLong, IInv, TypeOK
  <2>2. WaitAwaits' /\ JoinAwaits'
    BY <1>1, <2>1 DEF WaitAwaits, JoinAwaits, Inside
  <2> QED BY <1>2, <1>3, <2>2 DEF Awaits
<1>8. CASE KthreadRun(p) \/ KthreadRunFails(p)
  <2>1. /\ pc[p] = "create" /\ pc'[p] = "wait"
        /\ draw_thread_stop' = 2
    BY <1>8 DEF KthreadRun, KthreadRunFails, IInv, TypeOK, ThreadIsTask
  <2>2. (\E k \in Tasks : stage'[k] = "start") \/ "kthread" \in Faults
    BY <1>8 DEF KthreadRun, KthreadRunFails, IInv, TypeOK
  <2>3. WaitAwaits' /\ JoinAwaits'
    BY <1>1, <2>1, <2>2 DEF WaitAwaits, JoinAwaits, Inside
  <2> QED BY <1>2, <1>3, <2>3 DEF Awaits
<1> QED
  BY <1>4, <1>5, <1>6, <1>7, <1>8 DEF Run

\* Steps of a thread.
LEMMA ThreadAwaits ==
  ASSUME IInv, Awaits, NEW k \in Tasks, Thread(k)
  PROVE  Awaits'
<1> USE DEF Steps, semaphores, args, draw, callers, threads
<1>1. /\ UNCHANGED <<pc, call, write_sem, draw_thread_sem, draw_task>>
      /\ \A j \in Tasks : j # k => stage'[j] = stage[j] /\ should_stop'[j] = should_stop[j]
  BY DEF IInv, TypeOK, Thread, Copy, Started, Scroll, Ends, ScrollStopped, ScrollEnds,
     Show, Return
<1>2. DownAwaits' /\ ClaimAwaits'
  BY <1>1 DEF Awaits, DownAwaits, ClaimAwaits, Claimed
<1>3. stage[k] # "none" /\ draw_task = k
  BY DEF Thread, Copy, Started, Scroll, Ends, ScrollStopped, ScrollEnds, Show, Return,
     IInv, ThreadIsTask
<1>4. WaitAwaits' /\ JoinAwaits'
  <2>1. CASE Copy(k)
    <3>1. stage[k] = "start" /\ stage'[k] = "copied"
          /\ UNCHANGED <<draw_thread_stop, should_stop>>
      BY <2>1 DEF Copy, IInv, TypeOK
    <3> QED BY <1>1, <1>3, <3>1 DEF Awaits, WaitAwaits, JoinAwaits
  <2>2. CASE Started(k)
    <3>1. stage'[k] = "scroll" /\ draw_thread_stop' = 0 /\ UNCHANGED should_stop
      BY <2>2 DEF Started, IInv, TypeOK
    <3> QED BY <1>1, <1>3, <3>1 DEF Awaits, WaitAwaits, JoinAwaits
  <2>3. CASE Scroll(k) \/ Ends(k) \/ Show(k)
    <3>1. /\ stage'[k] \in {"scroll", "show", "return"}
          /\ stage[k] \notin {"start", "copied"}
          /\ UNCHANGED <<draw_thread_stop, should_stop>>
      BY <2>3 DEF Scroll, Ends, ScrollStopped, ScrollEnds, Show, IInv, TypeOK
    <3> QED BY <1>1, <1>3, <3>1 DEF Awaits, WaitAwaits, JoinAwaits
  <2>4. CASE Return(k)
    <3>1. stage'[k] = "none" /\ draw_thread_stop' = 1
      BY <2>4 DEF Return, IInv, TypeOK
    <3> QED BY <1>1, <1>3, <3>1 DEF WaitAwaits, JoinAwaits
  <2> QED BY <2>1, <2>2, <2>3, <2>4 DEF Thread
<1> QED
  BY <1>2, <1>4 DEF Awaits

LEMMA NextAwaits == IInv /\ Awaits /\ [Next]_vars => Awaits'
<1> SUFFICES ASSUME IInv, Awaits, [Next]_vars PROVE Awaits'
  OBVIOUS
<1>1. CASE UNCHANGED vars
  BY <1>1 DEF vars, semaphores, draw, callers, threads, Awaits, DownAwaits, ClaimAwaits,
     Claimed, WaitAwaits, JoinAwaits
<1>2. ASSUME NEW p \in Callers, Caller(p)
      PROVE  Awaits'
  BY <1>2, OutsideAwaits, InsideAwaits DEF Caller, Dispatch
<1> QED
  BY <1>1, <1>2, ThreadAwaits DEF Next

\* A call that waits for a semaphore, for its argument to be copied or for the
\* last thread to end waits for somebody who is there: a caller inside
\* run_draw_thread, an ioctl that has claimed write_sem, a thread that has yet
\* to copy, one that still draws and, at the join, has been told to stop.  Only
\* a failed copy and a thread that was not created leave nobody.
THEOREM WaitsForSomebody == Spec => []Awaits
<1>1. Init => Awaits
  BY DEF Init, Awaits, DownAwaits, ClaimAwaits, WaitAwaits, JoinAwaits
<1> QED
  BY <1>1, NextAwaits, Invariant, PTL DEF Spec
=============================================================================
