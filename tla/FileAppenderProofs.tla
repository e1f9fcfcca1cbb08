------------------------- MODULE FileAppenderProofs -------------------------
(***************************************************************************)
(* Proofs about FileAppender, for any threads and any last second.         *)
(***************************************************************************)
EXTENDS FileAppender, TLAPS

\* What t did, or will have done when it writes, with the second it has read.
HasReopened(t) == thread[t].at = "store" \/ Knows(t)

\* The stream is no older than the file at the path, and than the path.
UpToDate(now) ==
  /\ now > rotated /\ m_fileStream.good => m_fileStream.file = "current"
  /\ now > restored /\ openable => m_fileStream.file # "none"

\* A second that is in m_lastTime, or with which a call has opened the file, is one
\* in which the file was opened: what happened in earlier seconds is noticed.
Opened ==
  /\ assigned => UpToDate(m_lastTime)
  /\ \A t \in Threads : HasReopened(t) => UpToDate(thread[t].now)

\* Nothing is dated later than now.
Dated == /\ rotated <= clock /\ restored <= clock
         /\ assigned => m_lastTime <= clock
         /\ \A t \in Threads : thread[t].now <= clock

FileInv == TypeOK /\ Dated /\ Opened

-----------------------------------------------------------------------------
LEMMA FileInit == Init => FileInv
<1> SUFFICES ASSUME Init PROVE FileInv
  OBVIOUS
<1>1. 0 \in Seconds
  BY MaxTimeAssumption DEF Seconds
<1>2. TypeOK
  BY <1>1 DEF Init, TypeOK, Reopened, Broken, Streams, Calls
<1>3. Dated
  BY DEF Init, Dated
<1>4. Opened
  BY DEF Init, Opened, HasReopened, Knows
<1> QED
  BY <1>2, <1>3, <1>4 DEF FileInv

\* What reopen leaves is up to date whatever the second.
LEMMA ReopenedUpToDate ==
  ASSUME m_fileStream \in Streams, openable \in BOOLEAN
  PROVE  LET s == Reopened(m_fileStream) IN
           /\ s \in Streams
           /\ s.good => s.file = "current"
           /\ openable => s.file # "none"
  BY DEF Reopened, Broken, Streams

\* A step of one call that is not the reopen leaves what is up to date as it is.
LEMMA CallStep ==
  ASSUME FileInv, NEW t \in Threads,
         CallLog(t) \/ Compare(t) \/ StoreTime(t) \/ WriteEvent(t)
  PROVE  FileInv'
<1> USE DEF FileInv
<1>1. CASE CallLog(t)
  BY <1>1 DEF CallLog, World, TypeOK, Calls, Dated, Opened, HasReopened, Knows, UpToDate, Seconds
<1>2. CASE Compare(t)
  <2>1. TypeOK'
    BY <1>2 DEF Compare, World, TypeOK, Calls
  <2>2. Dated'
    BY <1>2 DEF Compare, World, TypeOK, Calls, Dated
  <2>3. Opened'
    BY <1>2 DEF Compare, World, TypeOK, Calls, Opened, HasReopened, Knows, UpToDate
  <2> QED
    BY <2>1, <2>2, <2>3
<1>3. CASE StoreTime(t)
  <2>1. TypeOK'
    BY <1>3 DEF StoreTime, Goes, World, TypeOK, Calls
  <2>2. Dated'
    BY <1>3 DEF StoreTime, Goes, World, TypeOK, Calls, Dated
  <2>3. Opened'
    BY <1>3 DEF StoreTime, Goes, World, TypeOK, Calls, Opened, HasReopened, Knows, UpToDate
  <2> QED
    BY <2>1, <2>2, <2>3
<1>4. CASE WriteEvent(t)
  <2>0. /\ m_fileStream' \in Streams /\ m_fileStream'.file = m_fileStream.file
        /\ m_fileStream'.good => m_fileStream.good
    <3>1. CASE m_fileStream' = m_fileStream
      BY <3>1 DEF TypeOK
    <3>2. CASE m_fileStream' = [good |-> FALSE, file |-> m_fileStream.file]
      <4>1. m_fileStream.file \in {"none", "current", "moved"}
        BY DEF TypeOK, Streams
      <4> QED
        BY <3>2, <4>1 DEF Streams
    <3> QED
      BY <1>4, <3>1, <3>2 DEF WriteEvent
  <2>1. TypeOK'
    <3>1. thread' \in [Threads -> Calls]
      BY <1>4 DEF WriteEvent, Goes, TypeOK, Calls
    <3> QED
      BY <1>4, <2>0, <3>1 DEF WriteEvent, World, TypeOK
  <2>2. Dated'
    BY <1>4 DEF WriteEvent, Goes, World, TypeOK, Calls, Dated
  <2>3. Opened'
    BY <1>4, <2>0 DEF WriteEvent, Goes, World, TypeOK, Calls, Opened, HasReopened, Knows, UpToDate
  <2> QED
    BY <2>1, <2>2, <2>3
<1> QED
  BY <1>1, <1>2, <1>3, <1>4

\* The one step of a call that changes the file.
LEMMA ReopenStep ==
  ASSUME FileInv, NEW t \in Threads, Reopen(t)
  PROVE  FileInv'
<1> USE DEF FileInv
<1>1. /\ m_fileStream' \in Streams
      /\ m_fileStream'.good => m_fileStream'.file = "current"
      /\ openable => m_fileStream'.file # "none"
  BY ReopenedUpToDate DEF Reopen, TypeOK
<1>2. TypeOK'
  BY <1>1 DEF Reopen, Goes, World, TypeOK, Calls
<1>3. Dated'
  BY DEF Reopen, Goes, World, TypeOK, Calls, Dated
<1>4. Opened'
  BY <1>1 DEF Reopen, World, Opened, UpToDate
<1> QED
  BY <1>2, <1>3, <1>4

\* What happens around the appender is dated with a second that no call is past.
LEMMA WorldStep ==
  ASSUME FileInv, Tick \/ Rotate \/ Obstruct \/ Restore
  PROVE  FileInv'
<1> USE DEF FileInv
<1>1. CASE Tick
  <2>1. TypeOK'
    BY <1>1, MaxTimeAssumption DEF Tick, TypeOK, Seconds
  <2>2. Dated'
    BY <1>1 DEF Tick, TypeOK, Calls, Seconds, Dated
  <2>3. Opened'
    BY <1>1 DEF Tick, Opened, HasReopened, Knows, UpToDate
  <2> QED
    BY <2>1, <2>2, <2>3
<1>2. CASE Rotate
  <2>0. /\ m_fileStream' \in Streams /\ m_fileStream'.good = m_fileStream.good
        /\ (m_fileStream'.file = "none") = (m_fileStream.file = "none")
    BY <1>2 DEF Rotate, TypeOK, Streams
  <2>1. TypeOK'
    BY <1>2, <2>0 DEF Rotate, TypeOK
  <2>2. Dated'
    BY <1>2 DEF Rotate, TypeOK, Seconds, Dated
  <2>3. Opened'
    BY <1>2, <2>0 DEF Rotate, TypeOK, Calls, Seconds, Dated, Opened, HasReopened, Knows, UpToDate
  <2> QED
    BY <2>1, <2>2, <2>3
<1>3. CASE Obstruct
  BY <1>3 DEF Obstruct, TypeOK, Dated, Opened, HasReopened, Knows, UpToDate
<1>4. CASE Restore
  <2>1. TypeOK'
    BY <1>4 DEF Restore, TypeOK
  <2>2. Dated'
    BY <1>4 DEF Restore, TypeOK, Seconds, Dated
  <2>3. Opened'
    BY <1>4 DEF Restore, TypeOK, Calls, Seconds, Dated, Opened, HasReopened, Knows, UpToDate
  <2> QED
    BY <2>1, <2>2, <2>3
<1> QED
  BY <1>1, <1>2, <1>3, <1>4

\* The inductive invariant.
LEMMA FileInvariant == Spec => []FileInv
<1>1. FileInv /\ [Next]_vars => FileInv'
  <2> SUFFICES ASSUME FileInv, [Next]_vars PROVE FileInv'
    OBVIOUS
  <2>1. CASE UNCHANGED vars
    BY <2>1 DEF vars, FileInv, TypeOK, Dated, Opened, HasReopened, Knows, UpToDate
  <2>2. CASE Next
    BY <2>2, CallStep, ReopenStep, WorldStep DEF Next
  <2> QED
    BY <2>1, <2>2
<1> QED
  BY FileInit, <1>1, PTL DEF Spec

-----------------------------------------------------------------------------
\* The variables of FileLogAppender and its calls keep their types; a stream that
\* is good has a file open (logger.cpp 732-741).
THEOREM FileTypeCorrect == Spec => []TypeOK
  BY FileInvariant, PTL DEF FileInv

\* FileLogAppender::log (logger.cpp 700-713) follows a rotation from the next
\* second on, for any number of threads that race on m_lastTime.
THEOREM RotationFollowed == Spec => []RotationNoticed
<1>1. FileInv => RotationNoticed
  BY DEF FileInv, Opened, HasReopened, RotationNoticed, UpToDate
<1> QED
  BY FileInvariant, <1>1, PTL

\* A path that can be opened again is opened in the next second (logger.cpp
\* 704-709, 739), unless the stream failed at a write.
THEOREM OpenIsRetried == Spec => []OpenRetried
<1>1. FileInv => OpenRetried
  BY DEF FileInv, Opened, HasReopened, OpenRetried, UpToDate
<1> QED
  BY FileInvariant, <1>1, PTL

\* The stream of an appender whose write failed is never good again (logger.cpp
\* 735: reopen closes a stream that is true only).
THEOREM NoRecovery == Spec => FailedWriteFinal
<1>1. TypeOK /\ [Next]_vars => (Broken(m_fileStream) => Broken(m_fileStream'))
  <2> SUFFICES ASSUME TypeOK, [Next]_vars, Broken(m_fileStream)
               PROVE  Broken(m_fileStream')
    OBVIOUS
  <2>1. m_fileStream' = m_fileStream => Broken(m_fileStream')
    BY DEF Broken
  <2>2. ASSUME NEW t \in Threads, WriteEvent(t) PROVE Broken(m_fileStream')
    BY <2>2 DEF WriteEvent, Broken
  <2>3. ASSUME NEW t \in Threads, Reopen(t) PROVE Broken(m_fileStream')
    BY <2>3 DEF Reopen, Reopened, Broken
  <2>4. CASE Rotate
    BY <2>4 DEF Rotate, Broken
  <2>5. CASE Tick \/ Obstruct \/ Restore \/ UNCHANGED vars
    BY <2>1, <2>5 DEF Tick, Obstruct, Restore, vars
  <2>6. ASSUME NEW t \in Threads, CallLog(t) \/ Compare(t) \/ StoreTime(t)
        PROVE  Broken(m_fileStream')
    BY <2>1, <2>6 DEF CallLog, Compare, StoreTime
  <2> QED
    BY <2>2, <2>3, <2>4, <2>5, <2>6 DEF Next
<1> QED
  BY FileInvariant, <1>1, PTL DEF Spec, FileInv, FailedWriteFinal
=============================================================================
