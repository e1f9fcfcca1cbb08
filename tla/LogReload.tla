------------------------------ MODULE LogReload ------------------------------
(***************************************************************************)
(* The configuration of the loggers (src/src/src/logger/logger.cpp         *)
(* 776-1076): the variable "logs", a ConfigVar<std::set<LogDefine>>, the   *)
(* listener that LogIniter registers with it before main, the LogManager   *)
(* and the loggers that the listener rebuilds while other threads ask the  *)
(* manager for loggers or for their description.                           *)
(*                                                                         *)
(* The listener runs inside setValue, under the read lock of "logs", and   *)
(* any number of setValues run theirs at once.  Each call it makes on a    *)
(* logger is a step: setLevel is one assignment, the others hold the       *)
(* logger's mutex from end to end, and the appenders they touch belong to  *)
(* this listener until they are in the list (module Logger).               *)
(***************************************************************************)
EXTENDS ConfigVar, Sequences

CONSTANTS
  Starter,       \* the activation of addListener in LogIniter's constructor
  Loaders,       \* activations of setValue, by LoadFromYaml or directly
  Clients,       \* threads that use the LogManager
  Names,         \* names of loggers: numbers, in the order of the strings
  RootName,      \* "root"
  RootObject,    \* the logger that LogManager's constructor makes
  Formatters,    \* formatters, and the patterns they are made from
  InitFormatter, \* the one a Logger is constructed with
  NoPattern,     \* the empty string
  BadPattern     \* a pattern that sets m_error

ASSUME NameAssumption == Names \subseteq Nat /\ RootName \in Names /\ RootObject \notin Names
ASSUME FormatterAssumption == InitFormatter \in Formatters /\ {NoPattern, BadPattern} \cap Formatters = {}
ASSUME ActorAssumption == /\ Starter \in Frames /\ Loaders \subseteq Frames \ {Starter}
                          /\ NoFrame \notin Clients

Patterns == Formatters \cup {NoPattern, BadPattern}

\* Of a LogAppenderDefine only the formatter matters here.
Define == [name : Names, level : Nat, formatter : Patterns, appenders : Seq(Patterns)]

\* A std::set ordered by name; Lookup("logs") gives the empty one as default.
ASSUME ValuesAssumption ==
  /\ \A x \in Values : x \subseteq Define /\ \A d, e \in x : d.name = e.name => d = e
  /\ \A v \in Vars : Default[v] = {}

VARIABLES
  object,   \* every logger: its level, formatter and list of appenders
  known,    \* DOMAIN m_loggers
  mgr,      \* who holds the LogManager's mutex, or NoFrame
  job,      \* where the listener is that a frame runs
  crashed,  \* a null logger was dereferenced
  last,     \* history: who cleared a logger's list last, for which definition
  overlap   \* history: was a logger taken up while another listener was at it?

rest == <<object, known, mgr, job, crashed, last, overlap>>
rvars == <<vars, rest>>

Objects == Names \cup {RootObject}

\* The logger that getLogger(n) returns: never the one of getRoot.
ObjectOf(n) == n

\* An appender in a list: the k-th of the definition that frame by applied.
Appender(by, k, fmt) == [by |-> by, k |-> k, fmt |-> fmt]

DEBUG == 1

\* What Logger's constructor makes, with the appenders in list.
Made(list) == [level |-> DEBUG, fmt |-> InitFormatter, list |-> list]

NoDefine == [name |-> RootName, level |-> 0, formatter |-> NoPattern, appenders |-> <<>>]

NoJob == [todo |-> {}, def |-> NoDefine, step |-> "pick", k |-> 0]

ReloadInit ==
  /\ Init
  /\ object = [o \in Objects |->
       Made(IF o = RootObject THEN <<Appender(NoFrame, 1, InitFormatter)>> ELSE <<>>)]
  /\ known = {}
  /\ mgr = NoFrame
  /\ job = [c \in Frames |-> NoJob]
  /\ crashed = FALSE
  /\ last = [o \in Objects |-> [by |-> NoFrame, def |-> NoDefine]]
  /\ overlap = [o \in Objects |-> FALSE]

-----------------------------------------------------------------------------
(* The variable                                                             *)

\* LogIniter's constructor, before main.
Register == CallAddListener(Starter) /\ UNCHANGED rest

Registered == pc[Starter] = "idle" /\ \A v \in Vars : DOMAIN cbs[v] # {}

Load(c) == Registered /\ c \in Loaders /\ CallSetValue(c) /\ UNCHANGED rest

\* What ConfigVar does around the listener.
Around(c) ==
  /\ \/ LockRead(c) \/ ReturnRead(c) \/ BeginNotify(c) \/ EndNotify(c)
     \/ LockWrite(c) \/ Write(c)
     \/ LoadId(c) \/ StoreId(c) \/ InsertListener(c) \/ ReturnId(c)
  /\ UNCHANGED rest

-----------------------------------------------------------------------------
(* The listener                                                             *)

Running(c, s) == pc[c] = "callback" /\ job[c].step = s

\* Before the first definition, or with all appenders of one added.
Between(c) == /\ pc[c] = "callback"
              /\ \/ job[c].step = "pick"
                 \/ job[c].step = "append" /\ job[c].k = Len(job[c].def.appenders)

\* c is rebuilding the logger o.
Busy(c, o) == pc[c] = "callback" /\ ~Between(c) /\ ObjectOf(job[c].def.name) = o

BeginListener(c) ==
  /\ CallListener(c)
  /\ job' = [job EXCEPT ![c] = [NoJob EXCEPT !.todo = frame[c].new]]
  /\ UNCHANGED <<object, known, mgr, crashed, last, overlap>>

\* LogDefine::operator== compares its own appenders with themselves.
SameDefine(d, e) == d.name = e.name /\ d.level = e.level /\ d.formatter = e.formatter

\* The next definition, in the order of the names.  Only one that is new or
\* changed fetches its logger from the manager, and the next statement
\* dereferences the pointer in any case.
PickDefine(c) == \E d \in job[c].todo : LET fetch == ~\E e \in val[frame[c].var] : SameDefine(d, e) IN
  /\ Between(c)
  /\ \A e \in job[c].todo : d.name <= e.name
  /\ fetch => mgr = NoFrame
  /\ known' = IF fetch THEN known \cup {d.name} ELSE known
  /\ crashed' = ~fetch
  /\ job' = [job EXCEPT ![c] = [todo |-> @.todo \ {d}, def |-> d, step |-> "level", k |-> 0]]
  /\ overlap' = [overlap EXCEPT ![ObjectOf(d.name)] =
                   \E b \in Frames \ {c} : Busy(b, ObjectOf(d.name))]
  /\ UNCHANGED <<vars, object, mgr, last>>

\* The listener's next call changes its logger to x and goes to step s.
Apply(c, s, x) ==
  /\ object' = [object EXCEPT ![ObjectOf(job[c].def.name)] = x]
  /\ job' = [job EXCEPT ![c] = [todo |-> @.todo, def |-> @.def, step |-> s, k |-> 0]]
  /\ UNCHANGED <<vars, known, mgr, crashed, overlap>>

Target(c) == object[ObjectOf(job[c].def.name)]

SetLevel(c) ==
  /\ Running(c, "level")
  /\ Apply(c, "format", [level |-> job[c].def.level, fmt |-> Target(c).fmt, list |-> Target(c).list])
  /\ UNCHANGED last

\* Mutant of Parsed: isError is not asked.
ParsedAnyway(p, f) == IF p = NoPattern THEN f ELSE p

\* The formatter made from pattern p, or f: an empty pattern is skipped, one
\* with an error is refused.
Parsed(p, f) == IF p \in Formatters THEN p ELSE f

\* Logger::setFormatter(pattern); appenders in the list have their own
\* formatter by then (Logger's AttachedNeverFollows) and keep it.
SetFormat(c) ==
  /\ Running(c, "format")
  /\ Apply(c, "clear", [level |-> Target(c).level, list |-> Target(c).list,
                        fmt |-> Parsed(job[c].def.formatter, Target(c).fmt)])
  /\ UNCHANGED last

\* Mutant of Clear: the appenders stay.
ClearNothing(c) ==
  /\ Running(c, "clear")
  /\ Apply(c, "append", Target(c))
  /\ last' = [last EXCEPT ![ObjectOf(job[c].def.name)] = [by |-> c, def |-> job[c].def]]

Clear(c) ==
  /\ Running(c, "clear")
  /\ Apply(c, "append", [level |-> Target(c).level, fmt |-> Target(c).fmt, list |-> <<>>])
  /\ last' = [last EXCEPT ![ObjectOf(job[c].def.name)] = [by |-> c, def |-> job[c].def]]

\* Mutant of AddAppender: emplace_front.
AddAppenderFront(c) == LET d == job[c].def IN
  /\ Running(c, "append") /\ job[c].k < Len(d.appenders)
  /\ object' = [object EXCEPT ![ObjectOf(d.name)] =
       [level |-> @.level, fmt |-> @.fmt,
        list |-> <<Appender(c, job[c].k + 1, Parsed(d.appenders[job[c].k + 1], @.fmt))>> \o @.list]]
  /\ job' = [job EXCEPT ![c] = [todo |-> @.todo, def |-> d, step |-> "append", k |-> @.k + 1]]
  /\ UNCHANGED <<vars, known, mgr, crashed, last, overlap>>

\* Make the next appender, give it its own formatter if the definition has a
\* good one, and add it: addAppender gives it the logger's otherwise.
AddAppender(c) == LET d == job[c].def IN
  /\ Running(c, "append") /\ job[c].k < Len(d.appenders)
  /\ object' = [object EXCEPT ![ObjectOf(d.name)] =
       [level |-> @.level, fmt |-> @.fmt,
        list |-> Append(@.list, Appender(c, job[c].k + 1, Parsed(d.appenders[job[c].k + 1], @.fmt)))]]
  /\ job' = [job EXCEPT ![c] = [todo |-> @.todo, def |-> d, step |-> "append", k |-> @.k + 1]]
  /\ UNCHANGED <<vars, known, mgr, crashed, last, overlap>>

\* Names that the old value defines and the new one does not.
Gone(old, new) == {d.name : d \in old} \ {d.name : d \in new}

\* The second loop, which switches off the loggers of removed definitions, and
\* the return from the listener.
FinishListener(c) == LET gone == Gone(val[frame[c].var], frame[c].new)
                         off == {ObjectOf(n) : n \in gone} IN
  /\ Between(c) /\ job[c].todo = {}
  /\ gone # {} => mgr = NoFrame
  /\ ListenerReturns(c)
  /\ known' = known \cup gone
  /\ object' = [o \in Objects |-> IF o \in off
                  THEN [level |-> 0, fmt |-> object[o].fmt, list |-> <<>>] ELSE object[o]]
  /\ last' = [o \in Objects |-> IF o \in off
                THEN [by |-> NoFrame, def |-> NoDefine] ELSE last[o]]
  /\ job' = [job EXCEPT ![c] = NoJob]
  /\ UNCHANGED <<mgr, crashed, overlap>>

-----------------------------------------------------------------------------
(* The LogManager's other users                                             *)

\* getLogger: find or insert, under the mutex.
AskLogger(t) == \E n \in Names :
  /\ mgr = NoFrame
  /\ known' = known \cup {n}
  /\ UNCHANGED <<vars, object, mgr, job, crashed, last, overlap>>

\* toYamlString keeps the mutex while it asks every logger for its description,
\* under that logger's mutex; no step of a listener has a logger's mutex and
\* wants the manager's.
BeginYaml(t) == /\ mgr = NoFrame
                /\ mgr' = t
                /\ UNCHANGED <<vars, object, known, job, crashed, last, overlap>>

\* Mutant of EndYaml: the mutex is not unlocked.
EndYamlHolding(t) == mgr = t /\ UNCHANGED rvars

EndYaml(t) == /\ mgr = t
              /\ mgr' = NoFrame
              /\ UNCHANGED <<vars, object, known, job, crashed, last, overlap>>

-----------------------------------------------------------------------------
Rebuild(c) == \/ BeginListener(c) \/ SetLevel(c) \/ SetFormat(c) \/ Clear(c) \/ AddAppender(c)

Manage(t) == AskLogger(t) \/ BeginYaml(t) \/ EndYaml(t)

ReloadNext == /\ ~crashed
              /\ \/ Register
                 \/ \E c \in Frames : \/ Load(c) \/ Around(c) \/ Rebuild(c)
                                      \/ PickDefine(c) \/ FinishListener(c)
                 \/ \E t \in Clients : Manage(t)

ReloadSpec == ReloadInit /\ [][ReloadNext]_rvars

\* Threads are scheduled, whoever holds the manager's mutex gives it up, and a
\* listener that could have it again and again is granted it.
FairReloadSpec == /\ ReloadSpec
                  /\ \A c \in Frames : /\ WF_rvars(Around(c)) /\ WF_rvars(Rebuild(c))
                                       /\ SF_rvars(PickDefine(c)) /\ SF_rvars(FinishListener(c))
                  /\ \A t \in Clients : WF_rvars(EndYaml(t))

-----------------------------------------------------------------------------
Entry == [by : Frames \cup {NoFrame}, k : Nat, fmt : Formatters]

\* Loggers only ever have formatters that were parsed without an error.
ReloadTypeOK ==
  /\ object \in [Objects -> [level : Nat, fmt : Formatters, list : Seq(Entry)]]
  /\ known \subseteq Names
  /\ mgr \in Clients \cup {NoFrame}
  /\ job \in [Frames -> [todo : SUBSET Define, def : Define,
                         step : {"pick", "level", "format", "clear", "append"}, k : Nat]]
  /\ crashed \in BOOLEAN
  /\ last \in [Objects -> [by : Frames \cup {NoFrame}, def : Define]]
  /\ overlap \in [Objects -> BOOLEAN]

\* A definition that equals one of the old value leaves its logger pointer null
\* (logger.cpp 1016), which the next line dereferences.  It never happens: the
\* old value has no definitions, because no setValue ever stores its value.
NoNullLogger == ~crashed

\* The appenders that the frame by added to the logger o.
AddedBy(o, by) == {i \in DOMAIN object[o].list : object[o].list[i].by = by}

\* How many appenders the last one to clear o's list has added since.
Placed(o) == LET c == last[o].by IN
  IF Running(c, "append") /\ ObjectOf(job[c].def.name) = o THEN job[c].k
  ELSE Len(last[o].def.appenders)

\* However listeners interleave, nothing of what the last one to clear a list
\* added is lost, doubled or out of order: what an overlap leaves behind are
\* appenders of others between its own.
LastClearerComplete == \A o \in Objects : last[o].by # NoFrame =>
  LET own == AddedBy(o, last[o].by) IN
    /\ {object[o].list[i].k : i \in own} = 1 .. Placed(o)
    /\ \A i, j \in own : i < j => object[o].list[i].k < object[o].list[j].k

\* A logger that one listener took up alone, and that nobody is working on, is
\* what the definition says, whatever was there before: its level, its
\* formatter unless the pattern was empty or wrong, exactly its appenders.
ReloadMatches == \A o \in Objects :
  last[o].by # NoFrame /\ ~overlap[o] /\ (\A c \in Frames : ~Busy(c, o)) =>
    LET d == last[o].def IN
      /\ object[o].level = d.level
      /\ object[o].fmt = Parsed(d.formatter, object[o].fmt)
      /\ object[o].list = [k \in DOMAIN d.appenders |->
           Appender(last[o].by, k, Parsed(d.appenders[k], object[o].fmt))]

\* A listener that has begun goes through all its definitions, also while
\* others hold the manager's mutex.
ReloadFinishes == \A c \in Frames : pc[c] = "callback" ~> pc[c] = "wrlock"
-----------------------------------------------------------------------------
(* What the proofs of LogReloadProofs rest on.                              *)

\* Who is adding appenders to a list that nobody cleared since, is adding those
\* of the definition it cleared the list for.
Applied == \A c \in Frames : LET o == ObjectOf(job[c].def.name) IN
  Running(c, "append") /\ last[o].by = c => last[o].def = job[c].def

\* A logger without overlap has one listener at it.
Sole == \A o \in Objects : ~overlap[o] =>
  \A b, c \in Frames : Busy(b, o) /\ Busy(c, o) => b = c

\* The first n appenders of the definition d, in a logger with formatter f.
FirstAppenders(c, d, n, f) == [k \in 1 .. n |-> Appender(c, k, Parsed(d.appenders[k], f))]

\* What a listener that had its logger to itself has made of it so far.
SoFar(c) == LET d == job[c].def  x == object[ObjectOf(d.name)]  s == job[c].step IN
  /\ s \in {"format", "clear", "append"} => x.level = d.level
  /\ s \in {"clear", "append"} => x.fmt = Parsed(d.formatter, x.fmt)
  /\ s = "append" => /\ last[ObjectOf(d.name)] = [by |-> c, def |-> d]
                     /\ x.list = FirstAppenders(c, d, job[c].k, x.fmt)

InProgress == \A c \in Frames :
  LET o == ObjectOf(job[c].def.name) IN Busy(c, o) /\ ~overlap[o] => SoFar(c)

ReloadInv == Applied /\ LastClearerComplete /\ Sole /\ InProgress /\ ReloadMatches
=============================================================================
