------------------------------- MODULE Logger -------------------------------
(***************************************************************************)
(* RareVoyager::Logger and its LogAppenders (src/src/include/logger/       *)
(* logger.h, src/src/src/logger/logger.cpp) as several threads use them: a *)
(* logger has a level, a formatter and a list of appenders; an appender    *)
(* has a level, a formatter and the flag m_hasFormatter, and may be in the *)
(* lists of several loggers.  Each has a mutex that guards most, not all,  *)
(* of its state.                                                           *)
(***************************************************************************)
EXTENDS Naturals, FiniteSets, SequencesExt

CONSTANTS
  Threads, Loggers, Events,
  StdoutAppenders, FileAppenders,
  Formatters,
  InitFormatter,  \* the formatter that Logger's constructor makes
  NoFormatter,    \* a null LogFormatter::ptr; as a pattern, one that does not parse
  NoThread,
  Levels,         \* LogLevel::Level
  DEBUG,          \* the level that loggers and appenders are made with
  Level,          \* [Events -> Levels]
  MaxCalls        \* bound: how many calls the threads make in all

Appenders == StdoutAppenders \cup FileAppenders

ASSUME SortAssumption      == /\ Threads # {} /\ Loggers # {} /\ Events # {} /\ Appenders # {}
                              /\ StdoutAppenders \cap FileAppenders = {}
ASSUME FormatterAssumption == InitFormatter \in Formatters /\ NoFormatter \notin Formatters
ASSUME ThreadAssumption    == NoThread \notin Threads
ASSUME LevelAssumption     == Levels \subseteq Nat /\ DEBUG \in Levels /\ Level \in [Events -> Levels]
ASSUME BoundAssumption     == MaxCalls \in Nat

VARIABLES
  lOwner, lLevel, lFormatter, list,      \* of each logger
  aOwner, aLevel, aFormatter, hasFmt,    \* of each appender
  given,    \* what each appender's setFormatter was last called with
  out,      \* what each appender has written
  logged,   \* events that were made
  calls,    \* how many calls were made
  reset,    \* was LogAppender::setFormatter called with a null pointer?
  pc, call, \* where each thread is, and the arguments and locals of its call
  fault     \* what ended the process, if anything did

vars == <<lOwner, lLevel, lFormatter, list, aOwner, aLevel, aFormatter, hasFmt, given, out,
          logged, calls, reset, pc, call, fault>>

locks  == <<lOwner, aOwner>>
levels == <<lLevel, aLevel>>
ghosts == <<logged, calls, reset>>

Ops == {"log", "addAppender", "delAppender", "clearAppenders", "setFormatter",
        "toYamlString", "LogAppender::setFormatter"}

PCs == {"idle", "event", "llock", "each", "apply", "check", "erase", "push",
        "give", "reopen", "alock", "owned", "flag"}

\* A null m_formatter that was dereferenced, or one that was torn because two
\* threads used it at once, one of them to assign it: in setFormatter, or in
\* StdoutLogAppender::toYamlString.
Faults == {"none", "null", "torn", "torn in toYamlString"}

MaybeFormatter == Formatters \cup {NoFormatter}

Call == [op : Ops, l : Loggers, a : Appenders, e : Events, f : MaybeFormatter, i : Nat \ {0}]

Record == [e : Events, l : Loggers, f : Formatters]

NoCall == [op |-> "toYamlString", l |-> CHOOSE l \in Loggers : TRUE,
           a |-> CHOOSE a \in Appenders : TRUE, e |-> CHOOSE e \in Events : TRUE,
           f |-> NoFormatter, i |-> 1]

Init ==
  /\ lOwner = [l \in Loggers |-> NoThread]
  /\ lLevel = [l \in Loggers |-> DEBUG]
  /\ lFormatter = [l \in Loggers |-> InitFormatter]
  /\ list = [l \in Loggers |-> <<>>]
  /\ aOwner = [a \in Appenders |-> NoThread]
  /\ aLevel = [a \in Appenders |-> DEBUG]
  /\ aFormatter = [a \in Appenders |-> NoFormatter]
  /\ hasFmt = [a \in Appenders |-> FALSE]
  /\ given = [a \in Appenders |-> NoFormatter]
  /\ out = [a \in Appenders |-> <<>>]
  /\ logged = {}
  /\ calls = 0
  /\ reset = FALSE
  /\ pc = [t \in Threads |-> "idle"]
  /\ call = [t \in Threads |-> NoCall]
  /\ fault = "none"

-----------------------------------------------------------------------------
Goto(t, here, there) == pc[t] = here /\ pc' = [pc EXCEPT ![t] = there]

Return(t) == /\ pc' = [pc EXCEPT ![t] = "idle"]
             /\ call' = [call EXCEPT ![t] = NoCall]

LockLogger(t)     == lOwner[call[t].l] = NoThread /\ lOwner' = [lOwner EXCEPT ![call[t].l] = t]
UnlockLogger(t)   == lOwner' = [lOwner EXCEPT ![call[t].l] = NoThread]
LockAppender(t)   == aOwner[call[t].a] = NoThread /\ aOwner' = [aOwner EXCEPT ![call[t].a] = t]
UnlockAppender(t) == aOwner' = [aOwner EXCEPT ![call[t].a] = NoThread]

\* The appender at the iterator of a loop over m_appenders.
AtEnd(t) == call[t].i > Len(list[call[t].l])
Here(t)  == list[call[t].l][call[t].i]

-----------------------------------------------------------------------------
(* Calls                                                                    *)

Start(t, there, c) ==
  /\ calls < MaxCalls /\ calls' = calls + 1
  /\ Goto(t, "idle", there)
  /\ call' = [call EXCEPT ![t] = c]
  /\ UNCHANGED <<locks, levels, lFormatter, list, aFormatter, hasFmt, given, out, fault>>

\* The logging macro: the event is made if the logger's level, read without
\* the mutex, lets it through.
CallLog(t) == \E l \in Loggers, e \in Events \ logged :
  /\ Level[e] >= lLevel[l]
  /\ logged' = logged \cup {e}
  /\ Start(t, "event", [NoCall EXCEPT !.op = "log", !.l = l, !.e = e])
  /\ UNCHANGED reset

CallEdit(t) == \E op \in {"addAppender", "delAppender"}, l \in Loggers, a \in Appenders :
  /\ Start(t, "llock", [NoCall EXCEPT !.op = op, !.l = l, !.a = a])
  /\ UNCHANGED <<logged, reset>>

CallClear(t) == \E l \in Loggers :
  /\ Start(t, "llock", [NoCall EXCEPT !.op = "clearAppenders", !.l = l])
  /\ UNCHANGED <<logged, reset>>

\* Logger::setFormatter(pattern); NoFormatter stands for a malformed pattern.
CallSetFormatter(t) == \E l \in Loggers, f \in MaybeFormatter :
  /\ Start(t, "llock", [NoCall EXCEPT !.op = "setFormatter", !.l = l, !.f = f])
  /\ UNCHANGED <<logged, reset>>

CallToYaml(t) == \E l \in Loggers :
  /\ Start(t, "llock", [NoCall EXCEPT !.op = "toYamlString", !.l = l])
  /\ UNCHANGED <<logged, reset>>

CallAppenderFormatter(t) == \E a \in Appenders, f \in MaybeFormatter :
  /\ Start(t, "alock", [NoCall EXCEPT !.op = "LogAppender::setFormatter", !.a = a, !.f = f])
  /\ reset' = (reset \/ f = NoFormatter)
  /\ UNCHANGED logged

\* The two setLevels are one store each.
SetLevel(t) == \E l \in Loggers, x \in Levels :
  /\ pc[t] = "idle" /\ calls < MaxCalls /\ calls' = calls + 1
  /\ lLevel' = [lLevel EXCEPT ![l] = x]
  /\ UNCHANGED <<locks, lFormatter, list, aLevel, aFormatter, hasFmt, given, out, logged, reset,
                 pc, call, fault>>

SetAppenderLevel(t) == \E a \in Appenders, x \in Levels :
  /\ pc[t] = "idle" /\ calls < MaxCalls /\ calls' = calls + 1
  /\ aLevel' = [aLevel EXCEPT ![a] = x]
  /\ UNCHANGED <<locks, lFormatter, list, lLevel, aFormatter, hasFmt, given, out, logged, reset,
                 pc, call, fault>>

-----------------------------------------------------------------------------
(* Under the logger's mutex                                                 *)

\* ~LogEventWarp calls Logger::log, which reads the level again.
FilterEvent(t) ==
  /\ pc[t] = "event"
  /\ IF Level[call[t].e] >= lLevel[call[t].l]
     THEN pc' = [pc EXCEPT ![t] = "llock"] /\ UNCHANGED call
     ELSE Return(t)
  /\ UNCHANGED <<locks, levels, lFormatter, list, aFormatter, hasFmt, given, out, ghosts, fault>>

Body(op) == CASE op = "addAppender"                       -> "check"
              [] op = "setFormatter"                      -> "apply"
              [] op \in {"delAppender", "clearAppenders"} -> "erase"
              [] OTHER                                    -> "each"

\* Mutant of EnterLogger: log walks the list without the mutex.
EnterLoggerLogUnlocked(t) ==
  /\ \/ call[t].op = "log" /\ UNCHANGED lOwner
     \/ call[t].op # "log" /\ LockLogger(t)
  /\ Goto(t, "llock", Body(call[t].op))
  /\ UNCHANGED <<aOwner, levels, lFormatter, list, aFormatter, hasFmt, given, out, ghosts, call, fault>>

EnterLogger(t) ==
  /\ LockLogger(t)
  /\ Goto(t, "llock", Body(call[t].op))
  /\ UNCHANGED <<aOwner, levels, lFormatter, list, aFormatter, hasFmt, given, out, ghosts, call, fault>>

\* Mutant of CheckFormatter: the appender is taken as it is.
CheckFormatterNot(t) ==
  /\ Goto(t, "check", "push")
  /\ UNCHANGED <<locks, levels, lFormatter, list, aFormatter, hasFmt, given, out, ghosts, call, fault>>

\* addAppender asks appender->getFormatter(), which locks the appender for the
\* answer only.
CheckFormatter(t) ==
  /\ aOwner[call[t].a] = NoThread
  /\ Goto(t, "check", IF aFormatter[call[t].a] = NoFormatter THEN "alock" ELSE "push")
  /\ UNCHANGED <<locks, levels, lFormatter, list, aFormatter, hasFmt, given, out, ghosts, call, fault>>

Push(t) == LET c == call[t] IN
  /\ pc[t] = "push"
  /\ list' = [list EXCEPT ![c.l] = Append(@, c.a)]
  /\ UnlockLogger(t) /\ Return(t)
  /\ UNCHANGED <<aOwner, levels, lFormatter, aFormatter, hasFmt, given, out, ghosts, fault>>

\* Where delAppender's loop stops: at the first entry that is a, or at the end.
Stop(s, a) == {k \in 1 .. Len(s) + 1 : /\ \A j \in 1 .. k - 1 : s[j] # a
                                       /\ k <= Len(s) => s[k] = a}

\* delAppender takes out the entry it stopped at, clearAppenders all of them.
Erase(t) == LET c == call[t] IN
  /\ pc[t] = "erase"
  /\ \/ /\ c.op = "delAppender"
        /\ \E k \in Stop(list[c.l], c.a) : list' = [list EXCEPT ![c.l] = RemoveAt(@, k)]
     \/ /\ c.op = "clearAppenders"
        /\ list' = [list EXCEPT ![c.l] = <<>>]
  /\ UnlockLogger(t) /\ Return(t)
  /\ UNCHANGED <<aOwner, levels, lFormatter, aFormatter, hasFmt, given, out, ghosts, fault>>

\* Mutant of ApplyFormatter: the lock that setFormatter(LogFormatter::ptr) has
\* commented out, although its caller holds the mutex.
ApplyFormatterRelocking(t) == LET c == call[t] IN
  /\ c.f # NoFormatter /\ LockLogger(t)
  /\ Goto(t, "apply", "each")
  /\ lFormatter' = [lFormatter EXCEPT ![c.l] = c.f]
  /\ UNCHANGED <<aOwner, levels, list, aFormatter, hasFmt, given, out, ghosts, call, fault>>

\* Mutant of ApplyFormatter: isError() is not asked.
ApplyFormatterUnchecked(t) == LET c == call[t] IN
  /\ Goto(t, "apply", "each")
  /\ lFormatter' = [lFormatter EXCEPT ![c.l] = c.f]
  /\ UNCHANGED <<locks, levels, list, aFormatter, hasFmt, given, out, ghosts, call, fault>>

\* setFormatter(pattern) hands a formatter that parsed to setFormatter(val).
ApplyFormatter(t) == LET c == call[t] IN
  /\ c.f # NoFormatter
  /\ Goto(t, "apply", "each")
  /\ lFormatter' = [lFormatter EXCEPT ![c.l] = c.f]
  /\ UNCHANGED <<locks, levels, list, aFormatter, hasFmt, given, out, ghosts, call, fault>>

RejectFormatter(t) ==
  /\ pc[t] = "apply" /\ call[t].f = NoFormatter
  /\ UnlockLogger(t) /\ Return(t)
  /\ UNCHANGED <<aOwner, levels, lFormatter, list, aFormatter, hasFmt, given, out, ghosts, fault>>

-----------------------------------------------------------------------------
(* The loops over m_appenders                                               *)

Advance(t) == call' = [call EXCEPT ![t].i = @ + 1]

EndLoop(t) ==
  /\ pc[t] = "each" /\ AtEnd(t)
  /\ UnlockLogger(t) /\ Return(t)
  /\ UNCHANGED <<aOwner, levels, lFormatter, list, aFormatter, hasFmt, given, out, ghosts, fault>>

\* Is thread u between two accesses to a's m_formatter, or about to assign it?
Uses(u, a)    == pc[u] \in {"check", "owned", "flag", "give"} /\ call[u].a = a
Assigns(u, a) == /\ pc[u] = "give" \/ (pc[u] = "owned" /\ call[u].op # "log")
                 /\ call[u].a = a

\* setFormatter(val) asks each appender, without its mutex, whether it has a
\* formatter of its own, ...
TestFlag(t) == LET a == Here(t) IN
  /\ pc[t] = "each" /\ call[t].op = "setFormatter" /\ ~AtEnd(t)
  /\ \/ hasFmt[a] /\ Advance(t) /\ UNCHANGED pc
     \/ ~hasFmt[a] /\ Goto(t, "each", "give") /\ call' = [call EXCEPT ![t].a = a]
  /\ UNCHANGED <<locks, levels, lFormatter, list, aFormatter, hasFmt, given, out, ghosts, fault>>

\* ... and gives val, still without its mutex, to one that had none.
GiveFormatter(t) == LET c == call[t] IN
  /\ Goto(t, "give", "each")
  /\ aFormatter' = [aFormatter EXCEPT ![c.a] = lFormatter[c.l]]
  /\ \/ fault' = "none"
     \/ fault' = "torn" /\ \E u \in Threads \ {t} : Uses(u, c.a)
  /\ Advance(t)
  /\ UNCHANGED <<locks, levels, lFormatter, list, hasFmt, given, out, ghosts>>

\* FileLogAppender::toYamlString locks its mutex, StdoutLogAppender's does not.
Describe(t) == LET a == Here(t) IN
  /\ pc[t] = "each" /\ call[t].op = "toYamlString" /\ ~AtEnd(t)
  /\ a \in FileAppenders => aOwner[a] = NoThread
  /\ \/ fault' = "none"
     \/ /\ fault' = "torn in toYamlString"
        /\ a \in StdoutAppenders /\ hasFmt[a]
        /\ \E u \in Threads \ {t} : Assigns(u, a)
  /\ Advance(t)
  /\ UNCHANGED <<locks, levels, lFormatter, list, aFormatter, hasFmt, given, out, ghosts, pc>>

Skip(t) ==
  /\ pc[t] = "each" /\ call[t].op = "log" /\ ~AtEnd(t)
  /\ Level[call[t].e] < aLevel[Here(t)]
  /\ Advance(t)
  /\ UNCHANGED <<locks, levels, lFormatter, list, aFormatter, hasFmt, given, out, ghosts, pc, fault>>

\* Mutant of Offer: level > m_level.
OfferAbove(t) ==
  /\ pc[t] = "each" /\ call[t].op = "log" /\ ~AtEnd(t)
  /\ IF Level[call[t].e] > aLevel[Here(t)]
     THEN pc' = [pc EXCEPT ![t] = "alock"] /\ call' = [call EXCEPT ![t].a = Here(t)]
     ELSE Advance(t) /\ UNCHANGED pc
  /\ UNCHANGED <<locks, levels, lFormatter, list, aFormatter, hasFmt, given, out, ghosts, fault>>

\* The appender's level, read before its mutex, lets the event through; once
\* in a second FileLogAppender::log also reopens its file.
Offer(t) == \E there \in {"alock", "reopen"} :
  /\ call[t].op = "log" /\ ~AtEnd(t)
  /\ Level[call[t].e] >= aLevel[Here(t)]
  /\ there = "reopen" => Here(t) \in FileAppenders
  /\ Goto(t, "each", there)
  /\ call' = [call EXCEPT ![t].a = Here(t)]
  /\ UNCHANGED <<locks, levels, lFormatter, list, aFormatter, hasFmt, given, out, ghosts, fault>>

\* reopen() locks the appender for itself and has unlocked it when log locks it.
Reopen(t) ==
  /\ aOwner[call[t].a] = NoThread
  /\ Goto(t, "reopen", "alock")
  /\ UNCHANGED <<locks, levels, lFormatter, list, aFormatter, hasFmt, given, out, ghosts, call, fault>>

-----------------------------------------------------------------------------
(* Under the appender's mutex                                               *)

EnterAppender(t) ==
  /\ LockAppender(t)
  /\ Goto(t, "alock", "owned")
  /\ UNCHANGED <<lOwner, levels, lFormatter, list, aFormatter, hasFmt, given, out, ghosts, call, fault>>

\* LogAppender::log formats the event with m_formatter and writes it.
Write(t) == LET c == call[t] IN
  /\ c.op = "log" /\ aFormatter[c.a] # NoFormatter
  /\ Goto(t, "owned", "each")
  /\ out' = [out EXCEPT ![c.a] = Append(@, [e |-> c.e, l |-> c.l, f |-> aFormatter[c.a]])]
  /\ UnlockAppender(t) /\ Advance(t)
  /\ UNCHANGED <<lOwner, levels, lFormatter, list, aFormatter, hasFmt, given, ghosts, fault>>

\* m_formatter->format with a null m_formatter.
WriteNull(t) ==
  /\ pc[t] = "owned" /\ call[t].op = "log" /\ aFormatter[call[t].a] = NoFormatter
  /\ fault' = "null"
  /\ UNCHANGED <<locks, levels, lFormatter, list, aFormatter, hasFmt, given, out, ghosts, pc, call>>

\* addAppender and LogAppender::setFormatter set m_formatter, then the flag.
AssignFormatter(t) == LET c == call[t] IN
  /\ c.op # "log"
  /\ Goto(t, "owned", "flag")
  /\ aFormatter' = [aFormatter EXCEPT ![c.a] =
                      IF c.op = "addAppender" THEN lFormatter[c.l] ELSE c.f]
  /\ given' = [given EXCEPT ![c.a] = IF c.op = "addAppender" THEN @ ELSE c.f]
  /\ UNCHANGED <<locks, levels, lFormatter, list, hasFmt, out, ghosts, call, fault>>

\* Mutant of SetFlag: addAppender leaves m_hasFormatter alone.
SetFlagOfOwnOnly(t) == LET c == call[t] IN
  /\ pc[t] = "flag"
  /\ hasFmt' = [hasFmt EXCEPT ![c.a] =
                  IF c.op = "addAppender" THEN @ ELSE aFormatter[c.a] # NoFormatter]
  /\ UnlockAppender(t)
  /\ IF c.op = "addAppender" THEN pc' = [pc EXCEPT ![t] = "push"] /\ UNCHANGED call
                             ELSE Return(t)
  /\ UNCHANGED <<lOwner, levels, lFormatter, list, aFormatter, given, out, ghosts, fault>>

SetFlag(t) == LET c == call[t] IN
  /\ pc[t] = "flag"
  /\ hasFmt' = [hasFmt EXCEPT ![c.a] = aFormatter[c.a] # NoFormatter]
  /\ UnlockAppender(t)
  /\ IF c.op = "addAppender" THEN pc' = [pc EXCEPT ![t] = "push"] /\ UNCHANGED call
                             ELSE Return(t)
  /\ UNCHANGED <<lOwner, levels, lFormatter, list, aFormatter, given, out, ghosts, fault>>

-----------------------------------------------------------------------------
CallAny(t) == \/ CallLog(t) \/ CallEdit(t) \/ CallClear(t) \/ CallSetFormatter(t)
              \/ CallToYaml(t) \/ CallAppenderFormatter(t)
              \/ SetLevel(t) \/ SetAppenderLevel(t)

\* What a thread that is in a call does when it is scheduled.
Step(t) == \/ FilterEvent(t) \/ EnterLogger(t) \/ CheckFormatter(t) \/ Push(t) \/ Erase(t)
           \/ ApplyFormatter(t) \/ RejectFormatter(t) \/ EndLoop(t) \/ TestFlag(t)
           \/ GiveFormatter(t) \/ Describe(t) \/ Skip(t) \/ Offer(t) \/ Reopen(t) \/ EnterAppender(t)
           \/ Write(t) \/ WriteNull(t) \/ AssignFormatter(t) \/ SetFlag(t)

Next == fault = "none" /\ \E t \in Threads : CallAny(t) \/ Step(t)

Spec == Init /\ [][Next]_vars

\* While a thread that is in a call can go on, one does.  That is all that is
\* asked of the scheduler: the threads make finitely many calls, so it need not
\* be fair to each thread, nor a mutex to those that wait for it.
FairSpec == Spec /\ WF_vars(fault = "none" /\ \E t \in Threads : Step(t))

-----------------------------------------------------------------------------
TypeOK ==
  /\ lOwner \in [Loggers -> Threads \cup {NoThread}]
  /\ lLevel \in [Loggers -> Levels]
  /\ lFormatter \in [Loggers -> Formatters]
  /\ list \in [Loggers -> Seq(Appenders)]
  /\ aOwner \in [Appenders -> Threads \cup {NoThread}]
  /\ aLevel \in [Appenders -> Levels]
  /\ aFormatter \in [Appenders -> MaybeFormatter]
  /\ hasFmt \in [Appenders -> BOOLEAN]
  /\ given \in [Appenders -> MaybeFormatter]
  /\ out \in [Appenders -> Seq(Record)]
  /\ logged \in SUBSET Events
  /\ calls \in 0 .. MaxCalls
  /\ reset \in BOOLEAN
  /\ pc \in [Threads -> PCs]
  /\ call \in [Threads -> Call]
  /\ fault \in Faults

\* Two appenders that both write two events of one logger write them in the
\* same order.
SameOrder == \A a, b \in Appenders :
  \A i, j \in DOMAIN out[a], m, n \in DOMAIN out[b] :
    /\ i < j /\ m < n
    /\ out[a][i].l = out[a][j].l
    /\ out[a][i].e # out[a][j].e
    => ~(out[a][i].e = out[b][n].e /\ out[a][j].e = out[b][m].e)

\* A logger writes to an appender only while the appender is in its list: once
\* delAppender or clearAppenders has returned, no event of the logger follows.
WritesToAttached ==
  [][\A a \in Appenders : Len(out'[a]) > Len(out[a]) =>
       Contains(list[Last(out'[a]).l], a)]_vars

\* When log has gone through the list, an event that no level filters out has
\* been written once for every entry of the list.
Delivered == \A t \in Threads :
  LET c == call[t] IN
    /\ pc[t] = "each" /\ c.op = "log" /\ AtEnd(t)
    /\ \A x \in Levels : Level[c.e] >= x
    => \A a \in Appenders :
         Cardinality({i \in DOMAIN out[a] : out[a][i].e = c.e})
           = Cardinality({i \in DOMAIN list[c.l] : list[c.l][i] = a})

\* Until a thread resets an appender's formatter to null, no appender is ever
\* asked to format with a null one, and setFormatter, which assigns without the
\* appender's mutex, tears none, however addAppender, setFormatter and log of
\* several loggers that share it interleave.  toYamlString may still read a torn one.
NoCrash == ~reset => fault \notin {"null", "torn"}

\* Until a thread resets an appender's formatter, every appender in a list is
\* flagged as having its own: setFormatter of a logger reaches none of them.
AttachedNeverFollows == ~reset => \A l \in Loggers, a \in Appenders :
  Contains(list[l], a) => hasFmt[a]

\* A thread that calls returns: no two of the mutexes are taken in opposite
\* orders, and none twice.
CallsReturn == \A t \in Threads : pc[t] # "idle" ~> (pc[t] = "idle" \/ fault # "none")

\* An appender that was given no formatter of its own has its logger's.
LoggerFormatterApplies == \A l \in Loggers, a \in Appenders :
  lOwner[l] = NoThread /\ Contains(list[l], a) /\ given[a] = NoFormatter
    => aFormatter[a] = lFormatter[l]
-----------------------------------------------------------------------------
(* What the proofs of LoggerProofs rest on; checked by TLC like the rest.   *)

HoldsAppender(t) == pc[t] \in {"owned", "flag"}

HoldsLogger(t) == \/ pc[t] \in {"each", "apply", "check", "erase", "push", "give"}
                  \/ /\ pc[t] \in {"reopen", "alock", "owned", "flag"}
                     /\ call[t].op # "LogAppender::setFormatter"

\* Each mutex is owned by the thread that is between its lock and unlock.
LockDiscipline == \A t \in Threads :
  /\ \A l \in Loggers : lOwner[l] = t <=> HoldsLogger(t) /\ call[t].l = l
  /\ \A a \in Appenders : aOwner[a] = t <=> HoldsAppender(t) /\ call[t].a = a

\* Where a thread can be, given the call it is in.
Stages == \A t \in Threads : LET op == call[t].op IN
  /\ pc[t] = "event" => op = "log"
  /\ pc[t] = "llock" => op # "LogAppender::setFormatter"
  /\ pc[t] = "each" => op \in {"log", "toYamlString", "setFormatter"}
  /\ pc[t] \in {"apply", "give"} => op = "setFormatter"
  /\ pc[t] \in {"check", "push"} => op = "addAppender"
  /\ pc[t] = "reopen" => op = "log"
  /\ pc[t] \in {"alock", "owned"} => op \in {"log", "addAppender", "LogAppender::setFormatter"}
  /\ pc[t] = "flag" => op \in {"addAppender", "LogAppender::setFormatter"}

\* The appender that log is at is the one its iterator points to.
Cursor == \A t \in Threads : LET c == call[t] IN
  pc[t] \in {"reopen", "alock", "owned"} /\ c.op = "log" => ~AtEnd(t) /\ Here(t) = c.a

\* Until a reset: m_hasFormatter and m_formatter agree unless a thread that
\* owns the appender is about to make them agree, and an appender is in a list,
\* or about to be, only with both.
Formatted ==
  /\ \A a \in Appenders :
       /\ hasFmt[a] => aFormatter[a] # NoFormatter
       /\ aFormatter[a] # NoFormatter /\ aOwner[a] = NoThread => hasFmt[a]
       /\ \A l \in Loggers : Contains(list[l], a) => hasFmt[a]
  /\ \A t \in Threads : LET c == call[t] IN
       /\ pc[t] = "push" => hasFmt[c.a]
       /\ pc[t] # "give"
       /\ pc[t] = "flag" => aFormatter[c.a] # NoFormatter
       /\ pc[t] \in {"alock", "owned"} /\ c.op = "LogAppender::setFormatter" => c.f # NoFormatter

\* Does t wait for a mutex that is taken?
Blocked(t) == LET c == call[t] IN
  \/ pc[t] = "llock" /\ lOwner[c.l] # NoThread
  \/ pc[t] \in {"alock", "check", "reopen"} /\ aOwner[c.a] # NoThread
  \/ /\ pc[t] = "each" /\ c.op = "toYamlString" /\ ~AtEnd(t)
     /\ Here(t) \in FileAppenders /\ aOwner[Here(t)] # NoThread

\* While threads are in calls, one of them is not waiting: a call takes a
\* logger's mutex before an appender's, one of each at most, and leaves none taken.
NoDeadlock ==
  (\E t \in Threads : pc[t] # "idle") => \E t \in Threads : pc[t] # "idle" /\ ~Blocked(t)

\* Is t in a call of log?
Logging(t) == pc[t] # "idle" /\ call[t].op = "log"

\* An event is of one logger and in the hands of one thread, which writes it
\* only while it holds that logger.
OneHand ==
  /\ \A t \in Threads : Logging(t) =>
       /\ call[t].e \in logged
       /\ \A u \in Threads : Logging(u) /\ call[u].e = call[t].e => u = t
  /\ \A a \in Appenders : \A i \in DOMAIN out[a] :
       /\ out[a][i].e \in logged
       /\ \A t \in Threads : Logging(t) /\ call[t].e = out[a][i].e =>
            HoldsLogger(t) /\ call[t].l = out[a][i].l

\* When an appender has a later event of the same logger, nobody has the
\* earlier one in hand any more.
Past == \A a \in Appenders : \A i, j \in DOMAIN out[a] :
  i < j /\ out[a][i].l = out[a][j].l /\ out[a][i].e # out[a][j].e =>
    \A t \in Threads : Logging(t) => call[t].e # out[a][i].e

\* An event is of one logger, whoever has written it.
OneLogger == \A a, b \in Appenders : \A i \in DOMAIN out[a], j \in DOMAIN out[b] :
  out[a][i].e = out[b][j].e => out[a][i].l = out[b][j].l

Copies(a, e)  == {i \in DOMAIN out[a] : out[a][i].e = e}
Passed(t, a)  == {k \in 1 .. call[t].i - 1 : list[call[t].l][k] = a}

\* An event that no level filters out has been written once for each entry of
\* the list that the iterator has passed.
Progress == \A t \in Threads : LET c == call[t] IN
  Logging(t) /\ (\A x \in Levels : Level[c.e] >= x) =>
    /\ c.i <= Len(list[c.l]) + 1
    /\ ~HoldsLogger(t) => c.i = 1
    /\ \A a \in Appenders : Cardinality(Copies(a, c.e)) = Cardinality(Passed(t, a))

HistoryInv == OneHand /\ Past /\ OneLogger /\ SameOrder /\ Progress

IInv == /\ LockDiscipline /\ Stages /\ Cursor
        /\ ~reset => Formatted /\ fault \notin {"null", "torn"}
=============================================================================
