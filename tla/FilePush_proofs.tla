-------------------------- MODULE FilePush_proofs --------------------------
(***************************************************************************)
(* Proofs about FilePush for every size of the buffer, every source, every *)
(* fault and any number of calls.                                          *)
(*                                                                         *)
(* The buffer always holds consecutive blocks, so a part of it is an       *)
(* interval above Base; the invariant speaks of intervals instead of       *)
(* subsequences.                                                           *)
(***************************************************************************)
EXTENDS FilePush, SequenceTheorems, TLAPS

Base == source - Len(m_buffer)

\* Who is where: the pump is in its loop only while its thread runs, and the
\* thread lives only between the start and the return of stop().
Places ==
  /\ pump = "off" <=> thread # "running"
  /\ thread \in {"starting", "running"} => active
  /\ owner \in {"run", "wait"} => active
  /\ pump = "filter" => m_buf_start < m_buf_end
  /\ pump \in {"write", "writing"} =>
       m_filter_end = m_buf_end /\ m_buf_start < m_buf_end
  /\ pump = "fill" => m_buf_start = m_buf_end
  /\ pump = "reading" => m_buffer = <<>>

Consecutive ==
  /\ Len(m_buffer) <= source
  /\ \A i \in 1 .. Len(m_buffer) : m_buffer[i] = Base + i
  /\ m_buf_start <= m_filter_end

Delivered ==
  /\ Increasing(written)
  /\ m_buf_start < m_buf_end =>
       \A i \in DOMAIN written : written[i] <= Base + m_buf_start
  /\ \A b \in Nat :
       b \in 1 .. source <=> \/ b \in Range(written) \cup dropped
                             \/ b \in Base + m_buf_start + 1 .. Base + m_buf_end
  /\ Range(written) \cap dropped = {}
  /\ \A b \in dropped : b \notin Base + m_buf_start + 1 .. Base + m_buf_end

Once ==
  /\ Increasing(filtered)
  /\ \A i \in DOMAIN filtered : filtered[i] <= source
  /\ m_filter_end < m_buf_end =>
       \A i \in DOMAIN filtered : filtered[i] <= Base + m_filter_end
  /\ Range(written) \subseteq Range(filtered)
  /\ \A b \in Base + m_buf_start + 1 .. Base + m_filter_end : b \in Range(filtered)

IInv == TypeOK /\ Places /\ Consecutive /\ Delivered /\ Once

\* Appending larger elements to an increasing sequence.
LEMMA Extends ==
  ASSUME NEW S \in SUBSET Nat, NEW s \in Seq(S), NEW t \in Seq(S),
         Increasing(s), Increasing(t),
         \A i \in DOMAIN s : \A j \in DOMAIN t : s[i] < t[j]
  PROVE  /\ s \o t \in Seq(S)
         /\ Increasing(s \o t)
         /\ Range(s \o t) = Range(s) \cup Range(t)
<1>1. /\ s \o t \in Seq(S)
      /\ Len(s \o t) = Len(s) + Len(t)
      /\ \A i \in 1 .. Len(s) + Len(t) :
           (s \o t)[i] = IF i <= Len(s) THEN s[i] ELSE t[i - Len(s)]
  BY ConcatProperties
<1>2. /\ DOMAIN s = 1 .. Len(s) /\ DOMAIN t = 1 .. Len(t)
      /\ DOMAIN (s \o t) = 1 .. Len(s) + Len(t)
      /\ Len(s) \in Nat /\ Len(t) \in Nat
  BY <1>1
<1>3. Increasing(s \o t)
  <2> SUFFICES ASSUME NEW i \in 1 .. Len(s) + Len(t), NEW j \in 1 .. Len(s) + Len(t),
                      i < j
               PROVE  (s \o t)[i] < (s \o t)[j]
    BY <1>2 DEF Increasing
  <2>1. CASE j <= Len(s)
    BY <1>1, <1>2, <2>1 DEF Increasing
  <2>2. CASE i <= Len(s) /\ j > Len(s)
    <3>1. i \in DOMAIN s /\ j - Len(s) \in DOMAIN t
      BY <1>2, <2>2
    <3> QED BY <1>1, <2>2, <3>1
  <2>3. CASE i > Len(s)
    <3>1. i - Len(s) \in DOMAIN t /\ j - Len(s) \in DOMAIN t /\ i - Len(s) < j - Len(s)
      BY <1>2, <2>3
    <3>2. (s \o t)[i] = t[i - Len(s)] /\ (s \o t)[j] = t[j - Len(s)]
      BY <1>1, <1>2, <2>3
    <3>3. t[i - Len(s)] < t[j - Len(s)]
      BY <3>1 DEF Increasing
    <3> QED BY <3>2, <3>3
  <2> QED BY <1>2, <2>1, <2>2, <2>3
<1>4. Range(s \o t) = Range(s) \cup Range(t)
  <2>1. ASSUME NEW i \in 1 .. Len(s) + Len(t)
        PROVE  (s \o t)[i] \in Range(s) \cup Range(t)
    <3>1. i <= Len(s) => i \in DOMAIN s
      BY <1>2
    <3>2. i > Len(s) => i - Len(s) \in DOMAIN t
      BY <1>2
    <3> QED BY <1>1, <1>2, <3>1, <3>2 DEF Range
  <2>2. ASSUME NEW i \in 1 .. Len(s)
        PROVE  s[i] \in Range(s \o t)
    <3>1. i \in DOMAIN (s \o t) /\ (s \o t)[i] = s[i]
      BY <1>1, <1>2
    <3> QED BY <3>1 DEF Range
  <2>3. ASSUME NEW i \in 1 .. Len(t)
        PROVE  t[i] \in Range(s \o t)
    <3>1. Len(s) + i \in DOMAIN (s \o t) /\ (s \o t)[Len(s) + i] = t[i]
      BY <1>1, <1>2
    <3> QED BY <3>1 DEF Range
  <2> QED BY <1>2, <2>1, <2>2, <2>3 DEF Range
<1> QED
  BY <1>1, <1>3, <1>4

\* A part of the buffer is an interval of blocks.
LEMMA Window ==
  ASSUME TypeOK, Consecutive, NEW a \in Nat, NEW b \in Nat,
         a <= b, b <= Len(m_buffer)
  PROVE  /\ SubSeq(m_buffer, a + 1, b) \in Seq(Blocks)
         /\ DOMAIN SubSeq(m_buffer, a + 1, b) = 1 .. b - a
         /\ \A i \in 1 .. b - a : SubSeq(m_buffer, a + 1, b)[i] = Base + a + i
         /\ Increasing(SubSeq(m_buffer, a + 1, b))
         /\ Range(SubSeq(m_buffer, a + 1, b)) = Base + a + 1 .. Base + b
<1> DEFINE w == SubSeq(m_buffer, a + 1, b)
<1>1. m_buffer \in Seq(Blocks) /\ Len(m_buffer) \in Nat
  BY DEF TypeOK
<1>2. /\ w \in Seq(Blocks)
      /\ Len(w) = b - a
      /\ \A i \in 1 .. b - a : w[i] = m_buffer[a + i]
  <2>1. a + 1 \in 1 .. Len(m_buffer) + 1 /\ b \in (a + 1) - 1 .. Len(m_buffer)
    BY <1>1
  <2> QED BY <1>1, <2>1, SubSeqProperties
<1>3. source \in Nat /\ Base \in Nat
  BY <1>1, FilePushAssumption DEF TypeOK, Consecutive, Base
<1>4. DOMAIN w = 1 .. b - a
  BY <1>2
<1>5. \A i \in 1 .. b - a : w[i] = Base + a + i
  <2> SUFFICES ASSUME NEW i \in 1 .. b - a PROVE w[i] = Base + a + i
    OBVIOUS
  <2>1. a + i \in 1 .. Len(m_buffer)
    BY <1>1
  <2>2. m_buffer[a + i] = Base + (a + i)
    BY <2>1 DEF Consecutive
  <2> QED BY <1>2, <1>3, <2>2
<1>6. Increasing(w)
  <2> HIDE DEF w
  <2> SUFFICES ASSUME NEW i \in 1 .. b - a, NEW j \in 1 .. b - a, i < j
               PROVE  w[i] < w[j]
    BY <1>4 DEF Increasing
  <2> QED BY <1>3, <1>5
<1>7. Range(w) = Base + a + 1 .. Base + b
  <2>1. ASSUME NEW x \in Base + a + 1 .. Base + b
        PROVE  x \in Range(w)
    <3>1. x - Base - a \in 1 .. b - a /\ w[x - Base - a] = x
      BY <1>3, <1>5
    <3> QED BY <1>4, <3>1 DEF Range
  <2>2. ASSUME NEW x \in Range(w)
        PROVE  x \in Base + a + 1 .. Base + b
    BY <1>3, <1>4, <1>5, <2>2 DEF Range
  <2> QED BY <2>1, <2>2
<1> QED
  BY <1>2, <1>4, <1>5, <1>6, <1>7

\* What TypeOK and the assumption say about the numbers.
LEMMA Numbers ==
  ASSUME TypeOK, Consecutive
  PROVE  /\ BufferSize \in Nat /\ MaxBlocks \in Nat
         /\ source \in Nat /\ Base \in Nat /\ Len(m_buffer) \in Nat
         /\ {m_buf_start, m_buf_end, m_filter_end} \subseteq Nat
         /\ m_buf_start <= m_filter_end /\ m_filter_end <= m_buf_end
         /\ m_buf_end <= Len(m_buffer)
         /\ Base + Len(m_buffer) = source
         /\ Blocks \subseteq Nat
BY FilePushAssumption DEF TypeOK, Consecutive, Base, Blocks

\* The pump starts with nothing read.
LEMMA InitIInv == Init => IInv
<1> SUFFICES ASSUME Init PROVE IInv
  OBVIOUS
<1>1. TypeOK
  <2>1. <<>> \in Seq(Blocks) /\ Len(<<>>) = 0 /\ MaxBlocks \in Nat
    BY EmptySeq, FilePushAssumption
  <2>2. {m_stop, m_stream_mode, m_send_pvr_commit, already_empty, active}
         \subseteq BOOLEAN
    BY Zenon DEF Init
  <2> QED BY <2>1, <2>2 DEF Init, TypeOK
<1>2. Places
  BY DEF Init, Places
<1>3. Consecutive /\ Delivered /\ Once
  BY DEF Init, Consecutive, Delivered, Once, Increasing, Base, Range
<1> QED
  BY <1>1, <1>2, <1>3 DEF IInv

-----------------------------------------------------------------------------
(* The steps that leave the buffer alone.                                  *)

\* Where nothing is read, filtered, written or flushed the history stays.
LEMMA Untouched ==
  ASSUME IInv, UNCHANGED <<buffer, source, history>>
  PROVE  Consecutive' /\ Delivered' /\ Once'
BY DEF IInv, Consecutive, Delivered, Once, Base, buffer, history

\* The pump's own moves keep who is where.
LEMMA PumpMoves ==
  ASSUME IInv,
         \/ HasStarted \/ Test \/ EnterWrite \/ WriteError \/ WriteAgain
         \/ ReadAgain \/ ReadNothing \/ Poll \/ Eof \/ Slept \/ Finish
  PROVE  IInv'
<1> USE DEF IInv
<1>1. UNCHANGED <<buffer, source, history, owner, active, calls, modes, m_stop>>
  BY DEF HasStarted, Test, EnterWrite, Enter, WriteError, Leave, WriteAgain,
         ReadAgain, Resumes, ReadNothing, Poll, Eof, Slept, Finish, buffer, history, request
<1>2. /\ thread' \in {"none", "starting", "running", "finished"}
      /\ pump' \in {"off", "test", "filter", "write", "writing", "fill",
                    "reading", "polling", "eof", "sleeping", "over"}
      /\ sent' \subseteq {"eof", "writeError"}
  BY DEF TypeOK, HasStarted, Test, EnterWrite, Enter, WriteError, Leave, At,
         WriteAgain, ReadAgain, Resumes, ReadNothing, Poll, Eof, Slept, Finish
<1>3. already_empty' \in BOOLEAN
  BY Zenon DEF TypeOK, HasStarted, Test, EnterWrite, Enter, WriteError, Leave,
         WriteAgain, ReadAgain, Resumes, ReadNothing, Poll, Eof, Slept, Finish
<1>4. TypeOK'
  BY <1>1, <1>2, <1>3 DEF TypeOK, buffer, history, modes
<1>5. Places'
  <2>1. CASE HasStarted
    BY <2>1 DEF HasStarted, Places, buffer, request
  <2>2. CASE Test
    BY <2>2 DEF Test, At, TypeOK, Places, buffer, request
  <2>3. CASE EnterWrite \/ WriteError
    BY <2>3 DEF EnterWrite, Enter, WriteError, Leave, At, Places, buffer, request
  <2>4. CASE WriteAgain \/ ReadAgain \/ ReadNothing \/ Slept
    BY <2>4 DEF WriteAgain, ReadAgain, ReadNothing, Slept, Resumes, At, Places,
       buffer, request
  <2>5. CASE Poll \/ Eof
    BY <2>5 DEF Poll, Eof, At, Places, buffer, request
  <2>6. CASE Finish
    BY <2>6 DEF Finish, At, Places, buffer, request
  <2> QED BY <2>1, <2>2, <2>3, <2>4, <2>5, <2>6
<1> QED
  BY <1>1, <1>4, <1>5, Untouched

\* So do the owner's calls.
LEMMA OwnerMoves ==
  ASSUME IInv,
         \/ Resume \/ Run \/ Wait \/ Stop \/ NotRunning \/ SetStop
         \/ SendSignal \/ Join
  PROVE  IInv'
<1> USE DEF IInv
<1>1. UNCHANGED <<buffer, source, history, already_empty, modes>>
  BY DEF Resume, Run, Wait, Stop, NotRunning, SetStop, SendSignal, Join,
         Unpumped, buffer, history
<1>2. /\ thread' \in {"none", "starting", "running", "finished"}
      /\ pump' \in {"off", "test", "filter", "write", "writing", "fill",
                    "reading", "polling", "eof", "sleeping", "over"}
      /\ sent' \subseteq {"eof", "writeError"}
      /\ owner' \in {"idle", "run", "wait", "stop", "signal", "join"}
      /\ calls' \in Nat
  <2>1. CASE Resume
    <3>1. /\ thread' = thread /\ pump' = pump /\ sent' = {}
          /\ owner' = "run" /\ calls' = calls + 1
      BY <2>1, Zenon DEF Resume, Call
    <3> QED BY <3>1 DEF TypeOK
  <2>2. CASE Stop
    <3>1. UNCHANGED <<thread, pump, sent>> /\ owner' = "stop" /\ calls' = calls + 1
      BY <2>2, Zenon DEF Stop, Call
    <3> QED BY <3>1 DEF TypeOK
  <2>3. CASE Run
    BY <2>3 DEF TypeOK, Run
  <2>4. CASE Wait
    BY <2>4 DEF TypeOK, Wait
  <2>5. CASE NotRunning \/ SetStop
    BY <2>5 DEF TypeOK, NotRunning, SetStop
  <2>6. CASE SendSignal \/ Join
    BY <2>6 DEF TypeOK, SendSignal, Join
  <2> QED BY <2>1, <2>2, <2>3, <2>4, <2>5, <2>6
<1>3. m_stop' \in BOOLEAN /\ active' \in BOOLEAN
  BY Zenon DEF TypeOK, Resume, Run, Wait, Stop, NotRunning, SetStop, SendSignal,
         Join
<1>4. TypeOK'
  BY <1>1, <1>2, <1>3 DEF TypeOK, buffer, history, modes
<1>5. Places'
  <2>1. CASE Resume
    <3>1. active'
      BY <2>1, Zenon DEF Resume
    <3> QED BY <2>1, <3>1 DEF Resume, Call, Places, Unpumped, buffer
  <2>2. CASE Run
    BY <2>2 DEF Run, Sync, Places, buffer, Unpumped
  <2>3. CASE Wait \/ Stop \/ SetStop
    BY <2>3 DEF Wait, Stop, Call, SetStop, Places, buffer, Unpumped
  <2>4. CASE NotRunning
    BY <2>4 DEF NotRunning, Sync, Places, buffer, Unpumped
  <2>5. CASE SendSignal
    BY <2>5 DEF SendSignal, Places, buffer, Unpumped
  <2>6. CASE Join
    BY <2>6 DEF Join, Places, buffer, Unpumped
  <2> QED BY <2>1, <2>2, <2>3, <2>4, <2>5, <2>6
<1> QED
  BY <1>1, <1>4, <1>5, Untouched

-----------------------------------------------------------------------------
(* The steps that fill, filter, write and flush the buffer.                *)

\* A filter that keeps a beginning of the buffer which contains all that was
\* filtered before.
LEMMA FilterKeepsIInv ==
  ASSUME IInv, At("filter"), NEW end \in m_filter_end .. m_buf_end,
         Filtered(m_buf_start, end, end)
  PROVE  IInv'
<1> USE DEF IInv
<1> DEFINE u == Unfiltered
           lost == Range(Pending) \ Range(SubSeq(m_buffer, m_buf_start + 1, end))
<1>1. /\ BufferSize \in Nat /\ MaxBlocks \in Nat
      /\ source \in Nat /\ Base \in Nat /\ Len(m_buffer) \in Nat
      /\ m_buf_start \in Nat /\ m_buf_end \in Nat /\ m_filter_end \in Nat
      /\ m_buf_start <= m_filter_end /\ m_filter_end <= m_buf_end
      /\ m_buf_end <= Len(m_buffer)
      /\ Base + Len(m_buffer) = source
      /\ Blocks \subseteq Nat
  BY Numbers
<1>2. /\ end \in Nat /\ m_filter_end <= end /\ end <= m_buf_end
      /\ m_buf_start < m_buf_end
  BY <1>1 DEF Places, At
<1>3. /\ m_buf_start' = m_buf_start /\ m_buf_end' = end /\ m_filter_end' = end
      /\ filtered' = filtered \o u
      /\ dropped' = dropped \cup lost
      /\ pump' = IF m_buf_start = end THEN "test" ELSE "write"
      /\ UNCHANGED <<thread, m_stop, m_buffer, already_empty, source, written,
                     sent, owner, active, calls, modes>>
  BY DEF Filtered, request
<1>4. /\ u \in Seq(Blocks) /\ Increasing(u)
      /\ DOMAIN u = 1 .. m_buf_end - m_filter_end
      /\ \A i \in DOMAIN u : u[i] = Base + m_filter_end + i
      /\ Range(u) = Base + m_filter_end + 1 .. Base + m_buf_end
  BY <1>1, Window DEF Unfiltered
<1>5. lost = (Base + m_buf_start + 1 .. Base + m_buf_end)
               \ (Base + m_buf_start + 1 .. Base + end)
  BY <1>1, <1>2, Window DEF Pending
<1> HIDE DEF u, lost
<1>6. /\ filtered' \in Seq(Blocks) /\ Increasing(filtered')
      /\ Range(filtered') = Range(filtered) \cup Range(u)
  <2>1. filtered \in Seq(Blocks) /\ Increasing(filtered)
    BY DEF TypeOK, Once
  <2>2. ASSUME NEW i \in DOMAIN filtered, NEW j \in DOMAIN u
        PROVE  filtered[i] < u[j]
    <3>1. filtered[i] \in Nat
      <4>1. i \in 1 .. Len(filtered) /\ filtered[i] \in Blocks
        BY <2>1
      <4> QED BY <1>1, <4>1
    <3>2. j \in 1 .. m_buf_end - m_filter_end /\ u[j] = Base + m_filter_end + j
      BY <1>4, <2>2
    <3>3. filtered[i] <= Base + m_filter_end
      BY <1>1, <3>2 DEF Once
    <3> QED BY <1>1, <3>1, <3>2, <3>3
  <2> QED BY <1>1, <1>3, <1>4, <2>1, <2>2, Extends
<1>7. TypeOK'
  <2>1. dropped \subseteq Blocks /\ source <= MaxBlocks
    BY <1>1 DEF TypeOK
  <2>2. dropped' \subseteq Blocks
    BY <1>1, <1>2, <1>3, <1>5, <2>1 DEF Blocks
  <2> QED BY <1>1, <1>2, <1>3, <1>6, <2>2 DEF TypeOK, Blocks, modes
<1>8. Places'
  BY <1>1, <1>2, <1>3 DEF Places, At
<1>9. Consecutive'
  BY <1>1, <1>2, <1>3 DEF Consecutive, Base
<1>10. Base' = Base
  BY <1>3 DEF Base
<1>11. Delivered'
  <2>1. /\ Increasing(written)
        /\ \A i \in DOMAIN written : written[i] <= Base + m_buf_start
    BY <1>2 DEF Delivered
  <2>2. \A b \in Range(written) : b <= Base + m_buf_start
    BY <2>1 DEF Range
  <2>3. ASSUME NEW b \in Nat
        PROVE  b \in 1 .. source <=>
                 \/ b \in Range(written) \cup dropped'
                 \/ b \in Base + m_buf_start + 1 .. Base + end
    <3>1. b \in 1 .. source <=>
            \/ b \in Range(written) \cup dropped
            \/ b \in Base + m_buf_start + 1 .. Base + m_buf_end
      BY DEF Delivered
    <3> QED BY <1>1, <1>2, <1>3, <1>5, <3>1
  <2>4. Range(written) \cap dropped' = {}
    BY <1>1, <1>3, <1>5, <2>2 DEF Delivered
  <2>5. \A b \in dropped' : b \notin Base + m_buf_start + 1 .. Base + end
    BY <1>1, <1>2, <1>3, <1>5 DEF Delivered
  <2> QED BY <1>3, <1>10, <2>1, <2>3, <2>4, <2>5 DEF Delivered
<1>12. Once'
  <2>1. ASSUME NEW i \in DOMAIN filtered'
        PROVE  filtered'[i] <= source
    <3>1. filtered'[i] \in Range(filtered) \cup Range(u)
      BY <1>6 DEF Range
    <3>2. \A b \in Range(filtered) : b <= source
      BY DEF Once, Range
    <3> QED BY <1>1, <1>4, <3>1, <3>2
  <2>2. Range(written) \subseteq Range(filtered')
    BY <1>6 DEF Once
  <2>3. \A b \in Base + m_buf_start + 1 .. Base + end : b \in Range(filtered')
    BY <1>1, <1>2, <1>4, <1>6 DEF Once
  <2> QED BY <1>2, <1>3, <1>6, <1>10, <2>1, <2>2, <2>3 DEF Once
<1> QED
  BY <1>7, <1>8, <1>9, <1>11, <1>12

\* Before a read the buffer is empty; all that was read before lies below it.
LEMMA EnterReadKeepsIInv == IInv /\ EnterRead => IInv'
<1> SUFFICES ASSUME IInv, EnterRead PROVE IInv'
  OBVIOUS
<1> USE DEF IInv
<1>1. /\ source \in Nat /\ Base \in Nat /\ MaxBlocks \in Nat
      /\ m_buf_start \in Nat /\ m_buf_end \in Nat /\ m_filter_end \in Nat
      /\ Blocks \subseteq Nat
  BY Numbers
<1>2. /\ m_buf_start = m_buf_end
      /\ pump' = "reading" /\ m_buffer' = <<>>
      /\ m_buf_start' = 0 /\ m_buf_end' = 0 /\ m_filter_end' = 0
      /\ UNCHANGED <<thread, m_stop, already_empty, source, written, filtered,
                     dropped, sent, owner, active, calls, modes>>
  BY DEF EnterRead, Enter, At, Places, history, request
<1>3. m_buffer' \in Seq(Blocks) /\ Len(m_buffer') = 0 /\ Base' = source
  BY <1>1, <1>2, EmptySeq DEF Base
<1>4. TypeOK'
  BY <1>2, <1>3 DEF TypeOK, Blocks, modes
<1>5. Places' /\ Consecutive'
  BY <1>1, <1>2, <1>3 DEF Places, Consecutive, EnterRead, Enter, At
<1>6. Delivered'
  <2>1. \A b \in Nat : b \in 1 .. source <=> b \in Range(written) \cup dropped
    BY <1>1, <1>2 DEF Delivered
  <2> QED BY <1>1, <1>2, <1>3, <2>1 DEF Delivered
<1>7. Once'
  BY <1>1, <1>2, <1>3 DEF Once
<1> QED
  BY <1>4, <1>5, <1>6, <1>7

\* A read appends its blocks above all that was there before.
LEMMA ReadDataKeepsIInv == IInv /\ ReadData => IInv'
<1> SUFFICES ASSUME IInv, ReadData PROVE IInv'
  OBVIOUS
<1> USE DEF IInv
<1>1. /\ source \in Nat /\ Base \in Nat /\ MaxBlocks \in Nat /\ BufferSize \in Nat
      /\ Blocks \subseteq Nat
  BY Numbers
<1>2. /\ m_buffer = <<>> /\ Len(m_buffer) = 0 /\ Base = source
      /\ m_buf_start = 0 /\ m_buf_end = 0 /\ m_filter_end = 0
  <2>1. m_buffer = <<>> /\ Len(<<>>) = 0
    BY EmptySeq DEF ReadData, At, Places
  <2> QED BY <1>1, <2>1 DEF TypeOK, Base
<1>3. PICK n \in 1 .. BufferSize :
        /\ source + n <= MaxBlocks
        /\ m_buffer' = [i \in 1 .. n |-> source + i]
        /\ m_buf_end' = n
        /\ source' = source + n
  BY DEF ReadData
<1>4. /\ already_empty' = FALSE
      /\ pump' = "test"
      /\ UNCHANGED <<thread, m_stop, m_buf_start, m_filter_end, written, filtered,
                     dropped, sent, owner, active, calls, modes>>
  BY Zenon DEF ReadData, history, request
<1>5. /\ m_buffer' \in Seq(Blocks) /\ Len(m_buffer') = n /\ Base' = source
      /\ \A i \in 1 .. n : m_buffer'[i] = source + i
  <2>1. \A i \in 1 .. n : source + i \in Blocks
    BY <1>1, <1>3 DEF Blocks
  <2>2. n \in Nat /\ m_buffer' \in [1 .. n -> Blocks]
    BY <1>3, <2>1
  <2>3. m_buffer' \in Seq(Blocks) /\ Len(m_buffer') = n
    BY <2>2
  <2> QED BY <1>1, <1>3, <2>3 DEF Base
<1>6. TypeOK'
  <2>1. already_empty' \in BOOLEAN
    BY <1>4, Zenon
  <2>2. UNCHANGED <<thread, m_stop, m_buf_start, m_filter_end, written, filtered,
                    dropped, sent, owner, active, calls, modes>> /\ pump' = "test"
    BY <1>4, Zenon
  <2> QED BY <1>1, <1>2, <1>3, <1>5, <2>1, <2>2 DEF TypeOK, Blocks, modes
<1>7. Places' /\ Consecutive'
  <2>1. Places'
    BY <1>4, Zenon DEF Places, ReadData, At
  <2>2. Consecutive'
    BY <1>1, <1>2, <1>3, <1>4, <1>5 DEF Consecutive
  <2> QED BY <2>1, <2>2
<1>8. UNCHANGED <<m_buf_start, m_filter_end, written, filtered, dropped>>
  BY <1>4, Zenon
<1>9. Delivered'
  <2>1. \A b \in Nat : b \in 1 .. source <=> b \in Range(written) \cup dropped
    BY <1>1, <1>2 DEF Delivered
  <2>2. \A i \in DOMAIN written : written[i] \in Nat /\ written[i] <= source
    <3>1. \A i \in DOMAIN written : written[i] \in Blocks /\ written[i] \in Range(written)
      BY DEF TypeOK, Range
    <3>2. ASSUME NEW i \in DOMAIN written
          PROVE  written[i] \in Nat /\ written[i] <= source
      <4>1. written[i] \in Nat /\ written[i] \in Range(written)
        BY <1>1, <3>1
      <4>2. written[i] \in 1 .. source
        BY <2>1, <4>1
      <4> QED BY <1>1, <4>2
    <3> QED BY <3>2
  <2>3. dropped \subseteq Nat
    BY <1>1 DEF TypeOK
  <2> QED BY <1>1, <1>2, <1>3, <1>5, <1>8, <2>1, <2>2, <2>3 DEF Delivered
<1>10. Once'
  <2>1. \A i \in DOMAIN filtered : filtered[i] \in Nat /\ filtered[i] <= source
    <3>1. \A i \in DOMAIN filtered : filtered[i] \in Blocks
      BY DEF TypeOK
    <3> QED BY <1>1, <3>1 DEF Once
  <2> QED BY <1>1, <1>2, <1>3, <1>5, <1>8, <2>1 DEF Once
<1> QED
  BY <1>6, <1>7, <1>9, <1>10

\* A write, short or not, appends the front of the buffer.
LEMMA WriteKeepsIInv == IInv /\ Write => IInv'
<1> SUFFICES ASSUME IInv, Write PROVE IInv'
  OBVIOUS
<1> USE DEF IInv
<1>1. /\ source \in Nat /\ Base \in Nat /\ Len(m_buffer) \in Nat
      /\ m_buf_start \in Nat /\ m_buf_end \in Nat /\ MaxBlocks \in Nat
      /\ m_buf_end <= Len(m_buffer)
      /\ Base + Len(m_buffer) = source
      /\ Blocks \subseteq Nat
  BY Numbers
<1>2. m_filter_end = m_buf_end /\ m_buf_start < m_buf_end
  BY DEF Write, At, Places
<1>3. PICK n \in 1 .. m_buf_end - m_buf_start :
        /\ written' = written \o SubSeq(m_buffer, m_buf_start + 1, m_buf_start + n)
        /\ m_buf_start' = m_buf_start + n
  BY DEF Write
<1> DEFINE w == SubSeq(m_buffer, m_buf_start + 1, m_buf_start + n)
<1>4. /\ pump' = "test"
      /\ UNCHANGED <<thread, m_stop, m_buffer, m_buf_end, m_filter_end,
                     already_empty, source, filtered, dropped, sent, owner, active,
                     calls, modes>>
  BY DEF Write, request
<1>5. n \in Nat /\ n >= 1 /\ m_buf_start + n <= m_buf_end
  BY <1>1, <1>3
<1>6. /\ w \in Seq(Blocks) /\ Increasing(w)
      /\ DOMAIN w = 1 .. n
      /\ \A i \in 1 .. n : w[i] = Base + m_buf_start + i
      /\ Range(w) = Base + m_buf_start + 1 .. Base + (m_buf_start + n)
  <2> DEFINE e == m_buf_start + n
  <2>1. e \in Nat /\ m_buf_start <= e /\ e <= Len(m_buffer) /\ e - m_buf_start = n
    BY <1>1, <1>5
  <2>2. w = SubSeq(m_buffer, m_buf_start + 1, e)
    OBVIOUS
  <2> HIDE DEF w, e
  <2>3. /\ w \in Seq(Blocks) /\ Increasing(w)
        /\ DOMAIN w = 1 .. e - m_buf_start
        /\ \A i \in 1 .. e - m_buf_start : w[i] = Base + m_buf_start + i
        /\ Range(w) = Base + m_buf_start + 1 .. Base + e
    BY <1>1, <2>1, <2>2, Window
  <2> QED BY <2>1, <2>3 DEF e
<1>7. written' = written \o w
  BY <1>3
<1> HIDE DEF w
<1>8. /\ written' \in Seq(Blocks) /\ Increasing(written')
      /\ Range(written') = Range(written) \cup Range(w)
  <2>1. written \in Seq(Blocks) /\ Increasing(written)
    BY DEF TypeOK, Delivered
  <2>2. ASSUME NEW i \in DOMAIN written, NEW j \in DOMAIN w
        PROVE  written[i] < w[j]
    <3>1. written[i] \in Nat
      <4>1. i \in 1 .. Len(written) /\ written[i] \in Blocks
        BY <2>1
      <4> QED BY <1>1, <4>1
    <3>2. written[i] <= Base + m_buf_start
      BY <1>2 DEF Delivered
    <3>3. j \in 1 .. n /\ w[j] = Base + m_buf_start + j
      BY <1>6, <2>2
    <3> QED BY <1>1, <3>1, <3>2, <3>3
  <2> QED BY <1>1, <1>6, <1>7, <2>1, <2>2, Extends
<1>9. Base' = Base
  BY <1>4 DEF Base
<1>10. TypeOK'
  BY <1>1, <1>3, <1>4, <1>5, <1>8 DEF TypeOK, Blocks, modes
<1>11. Places' /\ Consecutive'
  BY <1>1, <1>2, <1>3, <1>4, <1>5, <1>9 DEF Places, Consecutive, Write, At
<1>12. Delivered'
  <2>1. \A b \in Range(written) : b \in Nat /\ b <= Base + m_buf_start
    <3>1. \A i \in DOMAIN written :
            written[i] \in Blocks /\ written[i] <= Base + m_buf_start
      BY <1>2 DEF Delivered, TypeOK
    <3> QED BY <1>1, <3>1 DEF Range
  <2>2. ASSUME NEW i \in DOMAIN written'
        PROVE  written'[i] <= Base + (m_buf_start + n)
    <3>1. written'[i] \in Range(written) \cup Range(w)
      BY <1>8 DEF Range
    <3> QED BY <1>1, <1>5, <1>6, <2>1, <3>1
  <2>3. ASSUME NEW b \in Nat
        PROVE  b \in 1 .. source <=>
                 \/ b \in Range(written') \cup dropped
                 \/ b \in Base + (m_buf_start + n) + 1 .. Base + m_buf_end
    <3>1. b \in 1 .. source <=>
            \/ b \in Range(written) \cup dropped
            \/ b \in Base + m_buf_start + 1 .. Base + m_buf_end
      BY DEF Delivered
    <3> QED BY <1>1, <1>5, <1>6, <1>8, <3>1
  <2>4. Range(written') \cap dropped = {}
    BY <1>1, <1>5, <1>6, <1>8 DEF Delivered
  <2>5. \A b \in dropped : b \notin Base + (m_buf_start + n) + 1 .. Base + m_buf_end
    BY <1>1, <1>5 DEF Delivered
  <2> QED BY <1>3, <1>4, <1>8, <1>9, <2>2, <2>3, <2>4, <2>5 DEF Delivered
<1>13. Once'
  <2>1. \A b \in Base + m_buf_start + 1 .. Base + m_filter_end : b \in Range(filtered)
    BY DEF Once
  <2>2. Range(written') \subseteq Range(filtered)
    BY <1>1, <1>2, <1>5, <1>6, <1>8, <2>1 DEF Once
  <2>3. \A b \in Base + (m_buf_start + n) + 1 .. Base + m_filter_end :
          b \in Range(filtered)
    BY <1>1, <1>2, <1>5, <2>1
  <2> QED BY <1>2, <1>3, <1>4, <1>9, <2>2, <2>3 DEF Once
<1> QED
  BY <1>10, <1>11, <1>12, <1>13

\* A flush throws away what was not written; the pump is paused.
LEMMA FlushKeepsIInv == IInv /\ Flush => IInv'
<1> SUFFICES ASSUME IInv, Flush PROVE IInv'
  OBVIOUS
<1> USE DEF IInv
<1>1. /\ source \in Nat /\ Base \in Nat /\ Len(m_buffer) \in Nat
      /\ m_buf_start \in Nat /\ m_buf_end \in Nat /\ m_filter_end \in Nat
      /\ m_buf_start <= m_buf_end /\ m_buf_end <= Len(m_buffer)
      /\ Base + Len(m_buffer) = source /\ source <= MaxBlocks /\ MaxBlocks \in Nat
      /\ Blocks \subseteq Nat
  BY Numbers DEF TypeOK
<1> DEFINE lost == Range(Pending)
<1>2. /\ m_buf_start' = 0 /\ m_buf_end' = 0 /\ m_filter_end' = 0
      /\ dropped' = dropped \cup lost
      /\ owner' = "idle" /\ calls' = calls + 1
      /\ UNCHANGED <<thread, m_stop, m_buffer, already_empty, pump, source, written,
                     filtered, sent, active, modes>>
      /\ ~active
  BY Zenon DEF Flush, Call
<1>3. lost = Base + m_buf_start + 1 .. Base + m_buf_end
  BY <1>1, Window DEF Pending
<1> HIDE DEF lost
<1>4. Base' = Base
  BY <1>2 DEF Base
<1>5. TypeOK'
  BY <1>1, <1>2, <1>3 DEF TypeOK, Blocks, modes
<1>6. Places' /\ Consecutive'
  BY <1>1, <1>2, <1>4 DEF Places, Consecutive, TypeOK
<1>7. Delivered'
  <2>1. Increasing(written)
    BY DEF Delivered
  <2>2. Range(written) \cap lost = {}
    <3>1. CASE m_buf_start < m_buf_end
      <4>1. \A i \in DOMAIN written : written[i] <= Base + m_buf_start
        BY <3>1 DEF Delivered
      <4>2. \A i \in DOMAIN written : written[i] \in Blocks
        BY DEF TypeOK
      <4>3. \A b \in Range(written) : b \in Nat /\ b <= Base + m_buf_start
        BY <1>1, <4>1, <4>2 DEF Range
      <4> QED BY <1>1, <1>3, <4>3
    <3>2. CASE m_buf_start = m_buf_end
      BY <1>1, <1>3, <3>2
    <3> QED BY <1>1, <3>1, <3>2
  <2>3. \A b \in Nat : b \in 1 .. source <=> b \in Range(written) \cup dropped'
    BY <1>2, <1>3 DEF Delivered
  <2>4. Range(written) \cap dropped' = {}
    BY <1>2, <2>2 DEF Delivered
  <2>5. dropped' \subseteq Nat
    BY <1>1, <1>5 DEF TypeOK, Blocks
  <2> QED BY <1>1, <1>2, <1>4, <2>1, <2>3, <2>4, <2>5 DEF Delivered
<1>8. Once'
  BY <1>1, <1>2, <1>4 DEF Once
<1> QED
  BY <1>5, <1>6, <1>7, <1>8

-----------------------------------------------------------------------------
(* The theorems.                                                           *)

\* Every step keeps the invariant.
LEMMA NextIInv ==
  ASSUME IInv, [Next]_vars
  PROVE  IInv'
<1>1. CASE \/ HasStarted \/ Test \/ EnterWrite \/ WriteError \/ WriteAgain
           \/ ReadAgain \/ ReadNothing \/ Poll \/ Eof \/ Slept \/ Finish
  BY <1>1, PumpMoves
<1>2. CASE \/ Resume \/ Run \/ Wait \/ Stop \/ NotRunning \/ SetStop
           \/ SendSignal \/ Join
  BY <1>2, OwnerMoves
<1>3. CASE Keep
  <2>1. m_buf_end \in m_filter_end .. m_buf_end
    BY Numbers DEF IInv
  <2> QED BY <1>3, <2>1, FilterKeepsIInv DEF Keep
<1>4. CASE Strip
  <2>1. PICK end \in m_filter_end .. m_buf_end - 1 : Filtered(m_buf_start, end, end)
    BY <1>4 DEF Strip
  <2>2. end \in m_filter_end .. m_buf_end
    BY Numbers DEF IInv
  <2> QED BY <1>4, <2>1, <2>2, FilterKeepsIInv DEF Strip
<1>5. CASE EnterRead \/ ReadData \/ Write \/ Flush
  BY <1>5, EnterReadKeepsIInv, ReadDataKeepsIInv, WriteKeepsIInv, FlushKeepsIInv
<1>6. CASE UNCHANGED vars
  <2>1. UNCHANGED <<buffer, source, history>>
    BY <1>6 DEF vars
  <2>2. TypeOK' /\ Places'
    BY <1>6 DEF vars, buffer, history, request, modes, TypeOK, Places, IInv
  <2> QED BY <2>1, <2>2, Untouched DEF IInv
<1>7. CASE SetModes
  <2>1. UNCHANGED <<buffer, source, history>>
    BY <1>7 DEF SetModes
  <2>2. {m_stream_mode', m_send_pvr_commit'} \subseteq BOOLEAN
    BY <1>7, Zenon DEF SetModes
  <2>3. TypeOK' /\ Places'
    BY <1>7, <2>2 DEF SetModes, buffer, history, TypeOK, Places, IInv
  <2> QED BY <2>1, <2>3, Untouched DEF IInv
<1> QED
  BY <1>1, <1>2, <1>3, <1>4, <1>5, <1>6, <1>7
     DEF Next, Computes, Reads, Writes, Returns

\* The inductive invariant: the parts of the buffer are intervals of blocks
\* which meet what was written, filtered and dropped.
THEOREM Invariant == Spec => []IInv
<1>1. IInv /\ [Next]_vars => IInv'
  BY NextIInv
<1> QED
  BY <1>1, InitIInv, PTL DEF Spec

\* The variables keep their types and the indices stay within the buffer.
THEOREM TypeCorrect == Spec => []TypeOK
<1>1. IInv => TypeOK
  BY DEF IInv
<1> QED
  BY <1>1, Invariant, PTL

\* Every block read is written once and in order, still waits in the buffer,
\* or was thrown away on purpose.
THEOREM NothingLostAlways == Spec => []NothingLost
<1>1. ASSUME IInv PROVE NothingLost
  <2> USE <1>1 DEF IInv
  <2>1. /\ source \in Nat /\ Base \in Nat /\ Len(m_buffer) \in Nat
        /\ m_buf_start \in Nat /\ m_buf_end \in Nat
        /\ m_buf_start <= m_buf_end /\ m_buf_end <= Len(m_buffer)
        /\ Base + Len(m_buffer) = source
        /\ Blocks \subseteq Nat
    BY Numbers
  <2>2. /\ Pending \in Seq(Blocks) /\ Increasing(Pending)
        /\ DOMAIN Pending = 1 .. m_buf_end - m_buf_start
        /\ \A i \in DOMAIN Pending : Pending[i] = Base + m_buf_start + i
        /\ Range(Pending) = Base + m_buf_start + 1 .. Base + m_buf_end
    BY <2>1, Window DEF Pending
  <2>3. written \in Seq(Blocks) /\ Increasing(written)
    BY DEF TypeOK, Delivered
  <2>4. ASSUME NEW i \in DOMAIN written, NEW j \in DOMAIN Pending
        PROVE  written[i] < Pending[j]
    <3>1. written[i] \in Nat
      <4>1. i \in 1 .. Len(written) /\ written[i] \in Blocks
        BY <2>3
      <4> QED BY <2>1, <4>1
    <3>2. j \in 1 .. m_buf_end - m_buf_start /\ Pending[j] = Base + m_buf_start + j
      BY <2>2, <2>4
    <3>3. written[i] <= Base + m_buf_start
      BY <2>1, <3>2 DEF Delivered
    <3> QED BY <2>1, <3>1, <3>2, <3>3
  <2>5. /\ Increasing(written \o Pending)
        /\ Range(written \o Pending) = Range(written) \cup Range(Pending)
    <3>1. Blocks \in SUBSET Nat
      BY <2>1
    <3> HIDE DEF IInv
    <3> QED BY <2>2, <2>3, <2>4, <3>1, Extends
  <2>6. Range(written) \subseteq Nat /\ dropped \subseteq Nat
    <3>1. \A i \in DOMAIN written : written[i] \in Blocks
      BY DEF TypeOK
    <3> QED BY <2>1, <3>1 DEF TypeOK, Range
  <2>7. Range(written \o Pending) \cup dropped = 1 .. source
    <3>1. \A b \in Nat :
            b \in 1 .. source <=> b \in Range(written) \cup dropped \cup Range(Pending)
      BY <2>2 DEF Delivered
    <3>2. Range(Pending) \subseteq Nat
      BY <2>1, <2>2
    <3>3. 1 .. source \subseteq Nat
      BY <2>1
    <3> HIDE DEF IInv
    <3> QED BY <2>5, <2>6, <3>1, <3>2, <3>3, Zenon
  <2>8. Range(written \o Pending) \cap dropped = {}
    BY <2>2, <2>5 DEF Delivered
  <2> QED BY <2>5, <2>7, <2>8 DEF NothingLost
<1> QED
  BY <1>1, Invariant, PTL

\* Every block is filtered exactly once before it is written.
THEOREM FilteredOnceAlways == Spec => []FilteredOnce
<1>1. IInv => FilteredOnce
  BY DEF IInv, Once, FilteredOnce
<1> QED
  BY <1>1, Invariant, PTL

\* Once stop() has returned, the pump is out of its loop.
THEOREM NoUseAfterStopAlways == Spec => []NoUseAfterStop
<1>1. IInv => NoUseAfterStop
  BY DEF IInv, TypeOK, Places, NoUseAfterStop
<1> QED
  BY <1>1, Invariant, PTL

-----------------------------------------------------------------------------
(* What stop() waits for.                                                  *)

\* How many steps of the pump are at most left to it when m_stop is set.
StepsLeft(place) ==
  CASE place = "off" -> 0
    [] place = "over" -> 1
    [] place = "test" -> 2
    [] place \in {"sleeping", "writing"} -> 3
    [] place \in {"eof", "write"} -> 4
    [] place \in {"filter", "polling"} -> 5
    [] place = "reading" -> 6
    [] place = "fill" -> 7

\* Who waits in kill() has set m_stop, for a thread that is not just starting.
Stopping ==
  owner \in {"signal", "join"} => m_stop /\ thread \in {"running", "finished"}

LEMMA StoppingNext ==
  ASSUME Stopping, [Next]_vars
  PROVE  Stopping'
<1> USE DEF Stopping
<1>1. CASE UNCHANGED vars
  BY <1>1 DEF vars, request
<1>2. CASE Computes \/ Reads \/ Writes
  <2>1. UNCHANGED <<owner, m_stop>>
    BY <1>2
       DEF Computes, Reads, Writes, HasStarted, Test, Keep, Strip, Filtered,
           EnterWrite, Enter, WriteError, Leave, EnterRead, Poll, Eof, Slept,
           Resumes, Finish, ReadData, ReadNothing, ReadAgain, Write, WriteAgain,
           request
  <2>2. thread' = thread \/ thread' \in {"running", "finished"}
    BY <1>2
       DEF Computes, Reads, Writes, HasStarted, Test, Keep, Strip, Filtered,
           EnterWrite, Enter, WriteError, Leave, EnterRead, Poll, Eof, Slept,
           Resumes, Finish, ReadData, ReadNothing, ReadAgain, Write, WriteAgain
  <2> QED BY <2>1, <2>2
<1>3. CASE SetModes \/ Resume \/ Stop \/ Flush
  BY <1>3 DEF SetModes, Resume, Stop, Flush, Call
<1>4. CASE SetStop
  BY <1>4 DEF SetStop, Sync
<1>5. CASE Run \/ Wait \/ NotRunning \/ SendSignal \/ Join
  BY <1>5 DEF Run, Wait, NotRunning, SendSignal, Join
<1> QED
  BY <1>1, <1>2, <1>3, <1>4, <1>5 DEF Next, Returns

\* Once stop() is past its test, each step of the pump, and the signal, brings
\* it nearer to its end: it makes no second read and no second write, so that
\* only a call that does not return can keep stop() from returning.
THEOREM StopClosesIn ==
  Spec => [][pump' # pump /\ owner \in {"signal", "join"}
               => StepsLeft(pump') < StepsLeft(pump)]_vars
<1>1. ASSUME IInv, Stopping, [Next]_vars, owner \in {"signal", "join"}, pump' # pump
      PROVE  StepsLeft(pump') < StepsLeft(pump)
  <2> USE <1>1 DEF StepsLeft, At
  <2>1. m_stop /\ thread \in {"running", "finished"}
    BY DEF Stopping
  <2>2. CASE HasStarted \/ Test \/ EnterWrite \/ EnterRead \/ Finish
    <3>1. ~HasStarted
      BY <2>1 DEF HasStarted
    <3>2. CASE Test
      <4>1. pump = "test" /\ pump' = "over"
        BY <2>1, <3>2, Zenon DEF Test
      <4> QED BY <4>1
    <3>3. CASE EnterWrite \/ EnterRead \/ Finish
      BY <3>3 DEF EnterWrite, EnterRead, Enter, Finish
    <3> QED BY <2>2, <3>1, <3>2, <3>3
  <2>3. CASE Keep \/ Strip
    BY <2>3 DEF Keep, Strip, Filtered
  <2>4. CASE WriteError \/ Poll \/ Eof \/ Slept
    BY <2>4 DEF WriteError, Leave, Poll, Eof, Slept
  <2>5. CASE Reads \/ Writes
    BY <2>5 DEF Reads, Writes, ReadData, ReadNothing, ReadAgain, Write, WriteAgain
  <2>6. CASE SendSignal
    BY <2>6 DEF SendSignal
  <2>7. ~(SetModes \/ Resume \/ Stop \/ Flush)
    BY DEF SetModes, Resume, Stop, Flush, Call
  <2>8. ~(Run \/ Wait \/ NotRunning \/ SetStop \/ Join)
    BY DEF Run, Wait, NotRunning, SetStop, Join
  <2> QED
    BY <2>2, <2>3, <2>4, <2>5, <2>6, <2>7, <2>8 DEF Next, Computes, Returns, vars
<1>2. Init => Stopping
  BY DEF Init, Stopping
<1>3. IInv /\ Stopping /\ [Next]_vars
        => (owner \in {"signal", "join"} /\ pump' # pump
              => StepsLeft(pump') < StepsLeft(pump))
  BY <1>1
<1>4. Stopping /\ [Next]_vars => Stopping'
  BY StoppingNext
<1> QED
  BY <1>2, <1>3, <1>4, Invariant, PTL DEF Spec
=============================================================================
