------------------------------ MODULE FilePush ------------------------------
(***************************************************************************)
(* The pump of a recording or a playback (lib/base/filepush.cpp): a thread *)
(* that reads blocks from a source into a buffer, has them filtered and    *)
(* writes them to a destination; and its owner, who starts it, pauses it   *)
(* with a flag and a signal, and flushes the buffer.                       *)
(*                                                                         *)
(* The thread is the one ThreadStates describes (thread.h); EThread shows  *)
(* what happens inside.  A new run after the pump has ended by itself is   *)
(* taken here as what it is meant to be.                                   *)
(*                                                                         *)
(* A signal interrupts the system call the pump is in, and is lost when    *)
(* the pump is not in one: so the way into a call that may block, and the  *)
(* call, are two steps.  A block is known by its place in the source.      *)
(***************************************************************************)
EXTENDS Naturals, Sequences, Functions

CONSTANTS
  BufferSize,      \* sizeof(m_buffer), in blocks
  Uses,            \* what may happen, see FilePushAssumption
  MaxBlocks,       \* bound: the source ends there
  MaxCalls         \* bound: calls of the owner

\* "quiet": the source may fall silent; "full": the destination may stop to
\* take data; "writeError"; "again": a call reports EBUSY or EAGAIN;
\* "strip": filterRecordData may return less than the length.  (A negative
\* result, to "re-sync", is left out: no filter of the program returns one.)
ASSUME FilePushAssumption ==
  /\ BufferSize \in Nat \ {0}
  /\ Uses \subseteq {"quiet", "full", "writeError", "again", "strip"}
  /\ {MaxBlocks, MaxCalls} \subseteq Nat

VARIABLES
  thread,        \* its state, as thread.h names them
  m_stop,
  m_stream_mode,     \* wait at the end of the source
  m_send_pvr_commit, \* wait there for the driver to drain
  m_buffer,      \* the blocks of the last read
  m_buf_start, m_buf_end, m_filter_end,
  already_empty, \* local of thread()
  pump,          \* where thread() is
  source,        \* blocks read so far
  written,       \* what the destination has got
  filtered,      \* what filterRecordData has seen
  dropped,       \* what a flush or the filter has thrown away
  sent,          \* events sent since the start
  owner,         \* where the owner is
  active,        \* between the start and the return of stop()
  calls          \* calls made so far (bound)

buffer == <<m_buffer, m_buf_start, m_buf_end, m_filter_end>>
history == <<written, filtered, dropped>>
modes == <<m_stream_mode, m_send_pvr_commit>>
request == <<owner, active, calls, modes>>
vars == <<thread, m_stop, buffer, already_empty, pump, source, history, sent,
          request>>

Blocks == 1 .. MaxBlocks
Pending == SubSeq(m_buffer, m_buf_start + 1, m_buf_end)
Unfiltered == SubSeq(m_buffer, m_filter_end + 1, m_buf_end)

-----------------------------------------------------------------------------
(* The pump: thread().                                                     *)

At(here) == thread = "running" /\ pump = here

HasStarted ==
  /\ thread = "starting"
  /\ thread' = "running"
  /\ pump' = "test"
  /\ already_empty' = FALSE
  /\ UNCHANGED <<m_stop, buffer, source, history, sent, request>>

\* while (!m_stop), and whether something is left to write
Test ==
  /\ At("test")
  /\ pump' = IF m_stop THEN "over"
             ELSE IF m_buf_start # m_buf_end THEN "filter" ELSE "fill"
  /\ UNCHANGED <<thread, m_stop, buffer, already_empty, source, history, sent,
                 request>>

\* filterRecordData has looked at the unfiltered part: start and end of what
\* the buffer holds now, and how far it is filtered
Filtered(start, end, upto) ==
  /\ m_buf_start' = start
  /\ m_buf_end' = end
  /\ m_filter_end' = upto
  /\ filtered' = filtered \o Unfiltered
  /\ dropped' = dropped \cup
       (Range(Pending) \ Range(SubSeq(m_buffer, start + 1, end)))
  /\ pump' = IF start = end THEN "test" ELSE "write"
  /\ UNCHANGED <<thread, m_stop, m_buffer, already_empty, source, written, sent,
                 request>>

KeepForgets ==  \* variant: the filtered part is not marked
  /\ At("filter")
  /\ Filtered(m_buf_start, m_buf_end, m_filter_end)

Keep ==
  /\ At("filter")
  /\ Filtered(m_buf_start, m_buf_end, m_buf_end)

\* only the first of the new blocks are used
Strip ==
  /\ At("filter") /\ "strip" \in Uses
  /\ \E end \in m_filter_end .. m_buf_end - 1 : Filtered(m_buf_start, end, end)

Enter(here, call) ==
  /\ At(here)
  /\ pump' = call
  /\ UNCHANGED <<thread, m_stop, already_empty, source, history, sent, request>>

EnterWrite == Enter("write", "writing") /\ UNCHANGED buffer

WriteAll ==  \* variant: a short write is taken for a whole one
  /\ At("writing")
  /\ \E n \in 1 .. m_buf_end - m_buf_start :
       written' = written \o SubSeq(m_buffer, m_buf_start + 1, m_buf_start + n)
  /\ m_buf_start' = m_buf_end
  /\ pump' = "test"
  /\ UNCHANGED <<thread, m_stop, m_buffer, m_buf_end, m_filter_end, already_empty,
                 source, filtered, dropped, sent, request>>

\* write() takes some of it
Write ==
  /\ At("writing")
  /\ \E n \in 1 .. m_buf_end - m_buf_start :
       /\ written' = written \o SubSeq(m_buffer, m_buf_start + 1, m_buf_start + n)
       /\ m_buf_start' = m_buf_start + n
  /\ pump' = "test"
  /\ UNCHANGED <<thread, m_stop, m_buffer, m_buf_end, m_filter_end, already_empty,
                 source, filtered, dropped, sent, request>>

Leave(event) ==
  /\ sent' = sent \cup {event}
  /\ pump' = "over"
  /\ UNCHANGED <<thread, m_stop, buffer, already_empty, source, history, request>>

WriteError == At("writing") /\ "writeError" \in Uses /\ Leave("writeError")

EnterRead ==
  /\ Enter("fill", "reading")
  /\ m_buffer' = <<>>
  /\ m_buf_start' = 0 /\ m_buf_end' = 0 /\ m_filter_end' = 0

ReadData ==
  /\ At("reading")
  /\ \E n \in 1 .. BufferSize :
       /\ source + n <= MaxBlocks
       /\ m_buffer' = [i \in 1 .. n |-> source + i]
       /\ m_buf_end' = n
       /\ source' = source + n
  /\ already_empty' = FALSE
  /\ pump' = "test"
  /\ UNCHANGED <<thread, m_stop, m_buf_start, m_filter_end, history, sent, request>>

Resumes == UNCHANGED <<thread, m_stop, buffer, already_empty, source, history,
                       sent, request>>

\* EBUSY or EAGAIN, or EOVERFLOW of a read
WriteAgain == At("writing") /\ "again" \in Uses /\ pump' = "test" /\ Resumes

ReadAgain == At("reading") /\ "again" \in Uses /\ pump' = "test" /\ Resumes

\* the source has nothing more for now, or the read failed
ReadNothing ==
  /\ At("reading")
  /\ pump' = IF m_send_pvr_commit THEN "polling" ELSE "eof"
  /\ Resumes

PollForgets ==  \* variant: a time-out is never counted
  /\ At("polling")
  /\ pump' = IF already_empty THEN "eof" ELSE "test"
  /\ Resumes

\* wait for the driver: it has drained, or it times out, at most twice
Poll ==
  /\ At("polling")
  /\ \/ pump' = "eof" /\ UNCHANGED already_empty
     \/ /\ pump' = IF already_empty THEN "eof" ELSE "test"
        /\ already_empty' = TRUE
  /\ UNCHANGED <<thread, m_stop, buffer, source, history, sent, request>>

Eof ==
  /\ At("eof")
  /\ sent' = sent \cup {"eof"}
  /\ pump' = IF m_stream_mode THEN "sleeping" ELSE "over"
  /\ UNCHANGED <<thread, m_stop, buffer, already_empty, source, history, request>>

SleptOn == At("sleeping") /\ pump' = "fill" /\ Resumes  \* variant: no test

Slept == At("sleeping") /\ pump' = "test" /\ Resumes

Finish ==
  /\ At("over")
  /\ thread' = "finished"
  /\ pump' = "off"
  /\ UNCHANGED <<m_stop, buffer, already_empty, source, history, sent, request>>

Computes ==
  \/ HasStarted \/ Test \/ Keep \/ Strip \/ EnterWrite \/ WriteError
  \/ EnterRead \/ Poll \/ Eof \/ Slept \/ Finish
Reads == ReadData \/ ReadNothing \/ ReadAgain
Writes == Write \/ WriteAgain

-----------------------------------------------------------------------------
(* The owner.                                                              *)

Unpumped == UNCHANGED <<already_empty, source, history, modes>>

\* sync() waits while the thread starts; one that ends may still be alive
Sync(alive) ==
  IF alive THEN thread \in {"running", "finished"}
  ELSE thread \in {"none", "finished"}

Call(next) ==
  /\ owner = "idle" /\ calls < MaxCalls
  /\ owner' = next
  /\ calls' = calls + 1

\* enablePVRCommit and setStreamMode, before the first start()
SetModes ==
  /\ calls = 0
  /\ m_stream_mode' \in BOOLEAN
  /\ m_send_pvr_commit' \in BOOLEAN
  /\ UNCHANGED <<thread, m_stop, buffer, already_empty, pump, source, history,
                 sent, owner, active, calls>>

\* start() and resume()
Resume ==
  /\ Call("run")
  /\ m_stop' = FALSE
  /\ active' = TRUE
  /\ sent' = {}
  /\ UNCHANGED <<thread, buffer, pump>> /\ Unpumped

\* run(): an alive thread is left alone
Run ==
  /\ owner = "run"
  /\ \/ Sync(TRUE) /\ owner' = "idle" /\ UNCHANGED thread
     \/ Sync(FALSE) /\ owner' = "wait" /\ thread' = "starting"
  /\ UNCHANGED <<m_stop, buffer, pump, sent, active, calls>> /\ Unpumped

Wait ==
  /\ owner = "wait"
  /\ \E alive \in BOOLEAN : Sync(alive)
  /\ owner' = "idle"
  /\ UNCHANGED <<thread, m_stop, buffer, pump, sent, active, calls>> /\ Unpumped

\* stop() and pause()
Stop ==
  /\ Call("stop")
  /\ UNCHANGED <<thread, m_stop, buffer, pump, sent, active>> /\ Unpumped

\* "if we aren't running, don't bother stopping"
NotRunning ==
  /\ owner = "stop" /\ Sync(FALSE)
  /\ owner' = "idle"
  /\ active' = FALSE
  /\ UNCHANGED <<thread, m_stop, buffer, pump, sent, calls>> /\ Unpumped

SetStop ==
  /\ owner = "stop" /\ Sync(TRUE)
  /\ m_stop' = TRUE
  /\ owner' = "signal"
  /\ UNCHANGED <<thread, buffer, pump, sent, active, calls>> /\ Unpumped

\* sendSignal(SIGUSR1)
SendSignal ==
  /\ owner = "signal"
  /\ owner' = "join"
  /\ pump' = IF pump \in {"writing", "reading", "polling", "sleeping"}
             THEN "test" ELSE pump
  /\ UNCHANGED <<thread, m_stop, buffer, sent, active, calls>> /\ Unpumped

JoinForgets ==  \* variant: the thread is not waited for
  /\ owner = "join"
  /\ owner' = "idle"
  /\ active' = FALSE
  /\ UNCHANGED <<thread, m_stop, buffer, pump, sent, calls>> /\ Unpumped

\* kill()
Join ==
  /\ owner = "join" /\ thread = "finished"
  /\ thread' = "none"
  /\ owner' = "idle"
  /\ active' = FALSE
  /\ UNCHANGED <<m_stop, buffer, pump, sent, calls>> /\ Unpumped

FlushPartly ==  \* variant: the end of the filtered part stays
  /\ Call("idle") /\ ~active
  /\ m_buf_start' = 0 /\ m_buf_end' = 0
  /\ dropped' = dropped \cup Range(Pending)
  /\ UNCHANGED <<thread, m_stop, m_buffer, m_filter_end, already_empty, pump,
                 source, written, filtered, sent, active, modes>>

\* flush(), while the pump is paused
Flush ==
  /\ Call("idle") /\ ~active
  /\ m_buf_start' = 0 /\ m_buf_end' = 0 /\ m_filter_end' = 0
  /\ dropped' = dropped \cup Range(Pending)
  /\ UNCHANGED <<thread, m_stop, m_buffer, already_empty, pump, source, written,
                 filtered, sent, active, modes>>

Returns == Run \/ Wait \/ NotRunning \/ SetStop \/ SendSignal \/ Join

-----------------------------------------------------------------------------
Init ==
  /\ thread = "none"
  /\ m_stop = FALSE
  /\ m_stream_mode = FALSE /\ m_send_pvr_commit = FALSE
  /\ m_buffer = <<>>
  /\ m_buf_start = 0 /\ m_buf_end = 0 /\ m_filter_end = 0
  /\ already_empty = FALSE
  /\ pump = "off"
  /\ source = 0
  /\ written = <<>> /\ filtered = <<>> /\ dropped = {}
  /\ sent = {}
  /\ owner = "idle"
  /\ active = FALSE
  /\ calls = 0

Next ==
  \/ Computes \/ Reads \/ Writes
  \/ SetModes \/ Resume \/ Stop \/ Flush
  \/ Returns

Spec == Init /\ [][Next]_vars

\* Both threads are scheduled; a read that is not "quiet" and a write that is
\* not "full" return, and not with EBUSY or EAGAIN for ever.
FairSpec ==
  /\ Spec
  /\ WF_vars(Computes)
  /\ WF_vars("quiet" \notin Uses /\ Reads)
  /\ SF_vars("quiet" \notin Uses /\ (ReadData \/ ReadNothing))
  /\ WF_vars("full" \notin Uses /\ Writes)
  /\ WF_vars(Returns)

-----------------------------------------------------------------------------
(* Properties.                                                             *)

\* The types of the variables; the three indices stay within the buffer.
TypeOK ==
  /\ thread \in {"none", "starting", "running", "finished"}
  /\ {m_stop, m_stream_mode, m_send_pvr_commit, already_empty, active} \subseteq BOOLEAN
  /\ m_buffer \in Seq(Blocks)
  /\ m_buf_start \in 0 .. m_buf_end
  /\ m_filter_end \in 0 .. m_buf_end
  /\ m_buf_end \in 0 .. Len(m_buffer)
  /\ pump \in {"off", "test", "filter", "write", "writing", "fill", "reading",
               "polling", "eof", "sleeping", "over"}
  /\ source \in 0 .. MaxBlocks
  /\ written \in Seq(Blocks)
  /\ filtered \in Seq(Blocks)
  /\ dropped \subseteq Blocks
  /\ sent \subseteq {"eof", "writeError"}
  /\ owner \in {"idle", "run", "wait", "stop", "signal", "join"}
  /\ calls \in Nat

Increasing(s) == \A i, j \in DOMAIN s : i < j => s[i] < s[j]

\* Every block that was read is written once and in order, or is still in the
\* buffer, or was flushed or filtered out: short writes, interrupted calls,
\* write errors, pauses and restarts lose nothing.
NothingLost ==
  LET delivered == written \o Pending IN
  /\ Increasing(delivered)
  /\ Range(delivered) \cup dropped = 1 .. source
  /\ Range(delivered) \cap dropped = {}

\* "we filter data only once, of course, but it might not get immediately
\* written": every block has been filtered exactly once when it is written.
FilteredOnce ==
  /\ Increasing(filtered)
  /\ Range(written) \subseteq Range(filtered)

\* After stop() has returned the pump uses neither its buffer nor its file
\* descriptors, which the owner is about to close.
NoUseAfterStop == ~active => pump = "off"

\* stop() returns: "m_stop must be evaluated after each syscall", and "just do
\* it ONCE. it won't help to do this more than once." (filepush.cpp:86, 425)
StopReturns == owner \in {"stop", "signal", "join"} ~> owner = "idle"

\* At its end the source is announced, also when the driver never reports
\* that it has drained ("to ensure that event evtEOF is called at end of
\* playback", filepush.cpp:88).
EndIsAnnounced ==
  At("reading") /\ source = MaxBlocks ~> "eof" \in sent \/ m_stop
=============================================================================
