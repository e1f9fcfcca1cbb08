---------------------------- MODULE FileAppender ----------------------------
(***************************************************************************)
(* FileLogAppender (src/src/src/logger/logger.cpp 694-741, logger.h        *)
(* 387-408): threads log to one appender, which opens its file again in    *)
(* the first call of every second.  Around it, somebody may move the file  *)
(* away, and the path may stop and start to be one that can be opened.     *)
(*                                                                         *)
(* The stream is what libstdc++ makes of it: close clears no error, open   *)
(* fails on a stream that has a file open, and clears the errors only when *)
(* it succeeds.  All of it is used under m_mutex only, so reopen and the   *)
(* write are one step each; time(0) and m_lastTime are read and written    *)
(* outside.                                                                *)
(***************************************************************************)
EXTENDS Naturals

CONSTANTS
  Threads,
  MaxTime    \* bound: the last second

ASSUME MaxTimeAssumption == MaxTime \in Nat

VARIABLES
  clock,      \* what time(0) returns
  openable,   \* whether m_filename can be opened
  rotated,    \* the second in which the file was last moved away
  restored,   \* the second since which the file can be opened
  m_lastTime, \* never initialised
  assigned,   \* whether it has been assigned at all
  m_fileStream,
  thread      \* the calls: where they are, now, and what they went by

vars == <<clock, openable, rotated, restored, m_lastTime, assigned, m_fileStream, thread>>

Seconds == 0 .. MaxTime

\* good is operator bool; file is the one that is open: none, the one at
\* m_filename, or one that was moved away from there.
Streams == [good : BOOLEAN, file : {"none", "current", "moved"}]

\* byGarbage: log found now in m_lastTime before it was assigned.
Calls == [at : {"idle", "compare", "reopen", "store", "write"}, now : Seconds, byGarbage : BOOLEAN]

TypeOK ==
  /\ clock \in Seconds /\ rotated \in Seconds /\ restored \in Seconds
  /\ m_lastTime \in Seconds
  /\ openable \in BOOLEAN /\ assigned \in BOOLEAN
  /\ m_fileStream \in Streams
  /\ m_fileStream.good => m_fileStream.file # "none"
  /\ thread \in [Threads -> Calls]

\* A failed write sets badbit and leaves the file open.
Broken(s) == ~s.good /\ s.file # "none"

\* Mutant of Reopened: whatever is open is closed.
ReopenedAnyway(s) == [good |-> openable, file |-> IF openable THEN "current" ELSE "none"]

\* Mutant of Reopened: open that fails does not set failbit.
ReopenedQuietly(s) ==
  IF Broken(s) THEN s
  ELSE [good |-> TRUE, file |-> IF openable THEN "current" ELSE "none"]

\* What reopen makes of the stream s: close if it is true, and open.
Reopened(s) ==
  IF Broken(s) THEN s
  ELSE [good |-> openable, file |-> IF openable THEN "current" ELSE "none"]

\* The constructor opens the file.
Init ==
  /\ clock = 0 /\ rotated = 0 /\ restored = 0
  /\ openable \in BOOLEAN
  /\ m_lastTime \in Seconds /\ assigned = FALSE
  /\ m_fileStream = Reopened([good |-> TRUE, file |-> "none"])
  /\ thread = [t \in Threads |-> [at |-> "idle", now |-> 0, byGarbage |-> FALSE]]

-----------------------------------------------------------------------------
(* FileLogAppender::log                                                     *)

Goes(t, to) == thread' = [thread EXCEPT ![t] = [at |-> to, now |-> thread[t].now,
                                               byGarbage |-> thread[t].byGarbage]]

World == <<clock, openable, rotated, restored>>

\* The level is high enough: now = time(0).
CallLog(t) ==
  /\ thread[t].at = "idle"
  /\ thread' = [thread EXCEPT ![t] = [at |-> "compare", now |-> clock, byGarbage |-> FALSE]]
  /\ UNCHANGED <<World, m_lastTime, assigned, m_fileStream>>

\* Mutant of Compare: m_lastTime is assigned before the file is opened.
CompareStoring(t) ==
  /\ thread[t].at = "compare"
  /\ thread' = [thread EXCEPT ![t] =
       [at |-> IF thread[t].now # m_lastTime THEN "reopen" ELSE "write", now |-> thread[t].now,
        byGarbage |-> thread[t].now = m_lastTime /\ ~assigned]]
  /\ m_lastTime' = thread[t].now /\ assigned' = TRUE
  /\ UNCHANGED <<World, m_fileStream>>

Compare(t) ==
  /\ thread[t].at = "compare"
  /\ thread' = [thread EXCEPT ![t] =
       [at |-> IF thread[t].now # m_lastTime THEN "reopen" ELSE "write", now |-> thread[t].now,
        byGarbage |-> thread[t].now = m_lastTime /\ ~assigned]]
  /\ UNCHANGED <<World, m_lastTime, assigned, m_fileStream>>

Reopen(t) ==
  /\ thread[t].at = "reopen"
  /\ m_fileStream' = Reopened(m_fileStream)
  /\ Goes(t, "store")
  /\ UNCHANGED <<World, m_lastTime, assigned>>

StoreTime(t) ==
  /\ thread[t].at = "store"
  /\ m_lastTime' = thread[t].now /\ assigned' = TRUE
  /\ Goes(t, "write")
  /\ UNCHANGED <<World, m_fileStream>>

\* The event goes to the stream if that is good; the write may fail.
WriteEvent(t) ==
  /\ thread[t].at = "write"
  /\ \/ m_fileStream' = m_fileStream
     \/ m_fileStream' = [good |-> FALSE, file |-> m_fileStream.file]
  /\ Goes(t, "idle")
  /\ UNCHANGED <<World, m_lastTime, assigned>>

-----------------------------------------------------------------------------
(* Around the appender                                                      *)

Tick == /\ clock < MaxTime
        /\ clock' = clock + 1
        /\ UNCHANGED <<openable, rotated, restored, m_lastTime, assigned, m_fileStream, thread>>

\* The file is moved away; what is open stays open.
Rotate == /\ rotated' = clock
          /\ m_fileStream' = [good |-> m_fileStream.good,
                              file |-> IF m_fileStream.file = "none" THEN "none" ELSE "moved"]
          /\ UNCHANGED <<clock, openable, restored, m_lastTime, assigned, thread>>

Obstruct == /\ openable /\ openable' = FALSE
            /\ UNCHANGED <<clock, rotated, restored, m_lastTime, assigned, m_fileStream, thread>>

Restore == /\ ~openable /\ openable' = TRUE
           /\ restored' = clock
           /\ UNCHANGED <<clock, rotated, m_lastTime, assigned, m_fileStream, thread>>

Next == \/ \E t \in Threads : CallLog(t) \/ Compare(t) \/ Reopen(t) \/ StoreTime(t) \/ WriteEvent(t)
        \/ Tick \/ Rotate \/ Obstruct \/ Restore

Spec == Init /\ [][Next]_vars

-----------------------------------------------------------------------------
\* The call of t went by the time another call has stored, or by its own.
Knows(t) == thread[t].at = "write" /\ ~thread[t].byGarbage

\* An event that is logged in a second after the one in which the file was moved
\* away never goes to the file that was moved, whatever other calls, that began
\* in earlier seconds, do to m_lastTime and to the stream meanwhile.
RotationNoticed == \A t \in Threads :
  Knows(t) /\ thread[t].now > rotated /\ m_fileStream.good => m_fileStream.file = "current"

\* An open that failed is tried again: an event that is logged in a second after
\* the one since which the path can be opened finds a file open.
OpenRetried == \A t \in Threads :
  Knows(t) /\ openable /\ thread[t].now > restored => m_fileStream.file # "none"

\* But one write that failed is the last: reopen does not close a stream that is
\* not good, and no stream is opened twice.
FailedWriteFinal == [][Broken(m_fileStream) => Broken(m_fileStream')]_vars
=============================================================================
