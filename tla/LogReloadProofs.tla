--------------------------- MODULE LogReloadProofs ---------------------------
(* Theorems about LogReload, for any loaders, clients and definitions.       *)
EXTENDS LogReload, ConfigVarProofs

\* With the listener of LogIniter, the variable "logs" is still a ConfigVar:
\* each step is one of ConfigVar's or leaves the variable alone.
LEMMA IsConfigVarStep == [ReloadNext]_rvars => [Next]_vars
  <1> SUFFICES ASSUME [ReloadNext]_rvars PROVE [Next]_vars
    OBVIOUS
  <1>0. CASE UNCHANGED rvars
    BY <1>0 DEF rvars
  <1>1. CASE Register
    BY <1>1, ActorAssumption DEF Register, Next, Call
  <1>2. ASSUME NEW c \in Frames, Load(c) PROVE Next
    BY <1>2 DEF Load, Next, Call
  <1>3. ASSUME NEW c \in Frames, Around(c) PROVE Next
    BY <1>3 DEF Around, Next, Step, Lock
  <1>4. ASSUME NEW c \in Frames, Rebuild(c) PROVE [Next]_vars
    BY <1>4 DEF Rebuild, BeginListener, SetLevel, SetFormat, Clear, AddAppender, Apply, Next, Step
  <1>5. ASSUME NEW c \in Frames, PickDefine(c) PROVE UNCHANGED vars
    BY <1>5 DEF PickDefine
  <1>6. ASSUME NEW c \in Frames, FinishListener(c) PROVE Next
    BY <1>6 DEF FinishListener, Next, Step
  <1>7. ASSUME NEW t \in Clients, Manage(t) PROVE UNCHANGED vars
    BY <1>7 DEF Manage, AskLogger, BeginYaml, EndYaml
  <1> QED
    BY <1>0, <1>1, <1>2, <1>3, <1>4, <1>5, <1>6, <1>7 DEF ReloadNext

\* What the theorems about ConfigVar say of the composition.
Base == TypeOK /\ IInv /\ ValueFrozen

\* The composition implements the component: the theorems about ConfigVar hold
\* of "logs" while its listener runs.
THEOREM ReloadIsConfigVar == ReloadSpec => Spec
  BY IsConfigVarStep, PTL DEF ReloadSpec, ReloadInit, Spec

\* What is proved of ConfigVar is proved of the composition.
LEMMA BaseHolds == ReloadSpec => []Base
  BY ReloadIsConfigVar, TypeCorrect, Invariant, NothingChanges, PTL DEF Base

\* The old value that a listener is handed has no definitions.
LEMMA NothingOld ==
  ASSUME Base, NEW c \in Frames
  PROVE  val[frame[c].var] = {} /\ frame[c].new \subseteq Define
  BY ValuesAssumption DEF Base, TypeOK, Frame, ValueFrozen

\* No listener dereferences a null logger.
THEOREM LoggersExist == ReloadSpec => []NoNullLogger
  <1>1. ReloadInit => NoNullLogger
    BY DEF ReloadInit, NoNullLogger
  <1>2. Base /\ NoNullLogger /\ [ReloadNext]_rvars => NoNullLogger'
    <2> SUFFICES ASSUME Base, NoNullLogger, [ReloadNext]_rvars PROVE NoNullLogger'
      OBVIOUS
    <2>1. ASSUME NEW c \in Frames, PickDefine(c) PROVE NoNullLogger'
      BY <2>1, NothingOld DEF PickDefine, NoNullLogger
    <2> QED
      BY <2>1 DEF ReloadNext, Register, Load, Around, Rebuild, FinishListener, Manage, BeginListener,
        SetLevel, SetFormat, Clear, AddAppender, Apply, AskLogger, BeginYaml, EndYaml,
        NoNullLogger, rvars, rest
  <1> QED
    BY <1>1, <1>2, BaseHolds, PTL DEF ReloadSpec

-----------------------------------------------------------------------------
(* Types                                                                    *)

\* The definition of a listener that has picked none yet.
LEMMA NoDefineType == NoDefine \in Define
  BY NameAssumption DEF NoDefine, Define, Patterns

\* Whatever the pattern, what a logger or an appender gets is a formatter.
LEMMA ParsedType ==
  ASSUME NEW p \in Patterns, NEW f \in Formatters
  PROVE  Parsed(p, f) \in Formatters
  BY DEF Parsed

Logger == [level : Nat, fmt : Formatters, list : Seq(Entry)]

Job == [todo : SUBSET Define, def : Define,
        step : {"pick", "level", "format", "clear", "append"}, k : Nat]

\* A call that makes a logger of a logger keeps loggers and jobs well typed.
LEMMA ApplyType ==
  ASSUME ReloadTypeOK, NEW c \in Frames, NEW x \in Logger,
         NEW s \in {"pick", "level", "format", "clear", "append"}, Apply(c, s, x)
  PROVE  /\ object' \in [Objects -> Logger]
         /\ job' \in [Frames -> Job]
         /\ UNCHANGED <<known, mgr, crashed, overlap>>
  <1>1. job[c] \in Job /\ ObjectOf(job[c].def.name) \in Objects
    BY DEF ReloadTypeOK, Job, ObjectOf, Objects, Define
  <1>2. [todo |-> job[c].todo, def |-> job[c].def, step |-> s, k |-> 0] \in Job
    BY <1>1 DEF Job
  <1> QED
    BY <1>1, <1>2 DEF ReloadTypeOK, Apply, Logger, Job

\* The logger at which a listener is; it is not the root.
LEMMA TargetType ==
  ASSUME ReloadTypeOK, NEW c \in Frames
  PROVE  /\ Target(c) \in Logger
         /\ job[c] \in Job
         /\ ObjectOf(job[c].def.name) \in Objects \ {RootObject}
         /\ job[c].def \in Define
         /\ Parsed(job[c].def.formatter, Target(c).fmt) \in Formatters
  <1>1. job[c] \in Job /\ job[c].def \in Define
    BY DEF ReloadTypeOK, Job
  <1>2. ObjectOf(job[c].def.name) \in Objects \ {RootObject}
    BY <1>1, NameAssumption DEF ObjectOf, Objects, Define
  <1>3. Target(c) \in Logger
    BY <1>2 DEF ReloadTypeOK, Logger, Target
  <1> QED
    BY <1>1, <1>2, <1>3, ParsedType DEF Define, Logger

\* A list with one more appender is a list of appenders.
LEMMA AddType ==
  ASSUME ReloadTypeOK, NEW c \in Frames, AddAppender(c)
  PROVE  Append(Target(c).list, Appender(c, job[c].k + 1,
           Parsed(job[c].def.appenders[job[c].k + 1], Target(c).fmt))) \in Seq(Entry)
  <1>1. /\ Target(c) \in Logger /\ job[c].k \in Nat
        /\ job[c].def.appenders \in Seq(Patterns)
    BY TargetType DEF Job, Define
  <1>2. job[c].def.appenders[job[c].k + 1] \in Patterns
    BY <1>1 DEF AddAppender
  <1>3. Parsed(job[c].def.appenders[job[c].k + 1], Target(c).fmt) \in Formatters
    BY <1>1, <1>2, ParsedType DEF Logger
  <1> QED
    BY <1>1, <1>3 DEF Appender, Entry, Logger

\* Loggers, jobs and the LogManager are well typed; in particular no logger and
\* no appender in a list has a formatter that was parsed with an error.
THEOREM ReloadTypeCorrect == ReloadSpec => []ReloadTypeOK
  <1>1. ReloadInit => ReloadTypeOK
    <2>1. <<Appender(NoFrame, 1, InitFormatter)>> \in Seq(Entry) /\ <<>> \in Seq(Entry)
      <3>1. Appender(NoFrame, 1, InitFormatter) \in Entry
        BY FormatterAssumption DEF Appender, Entry
      <3> QED
        BY <3>1
    <2> SUFFICES ASSUME ReloadInit PROVE ReloadTypeOK
      OBVIOUS
    <2>2. object \in [Objects -> [level : Nat, fmt : Formatters, list : Seq(Entry)]]
      BY <2>1, FormatterAssumption DEF ReloadInit, Made, DEBUG
    <2>3. NoJob \in [todo : SUBSET Define, def : Define,
                    step : {"pick", "level", "format", "clear", "append"}, k : Nat]
      BY NoDefineType DEF NoJob
    <2> QED
      BY <2>2, <2>3, NoDefineType DEF ReloadInit, ReloadTypeOK
  <1>2. Base /\ ReloadTypeOK /\ [ReloadNext]_rvars => ReloadTypeOK'
    <2> SUFFICES ASSUME Base, ReloadTypeOK, [ReloadNext]_rvars PROVE ReloadTypeOK'
      OBVIOUS
    <2>0. CASE UNCHANGED rest
      BY <2>0 DEF rest, ReloadTypeOK
    <2>1. ASSUME NEW c \in Frames, BeginListener(c) PROVE ReloadTypeOK'
      <3>1. [NoJob EXCEPT !.todo = frame[c].new] \in Job
        BY NothingOld, NoDefineType DEF NoJob, Job
      <3> QED
        BY <2>1, <3>1 DEF BeginListener, ReloadTypeOK, Job
    <2>2. ASSUME NEW c \in Frames, PickDefine(c) PROVE ReloadTypeOK'
      <3>1. PICK d \in job[c].todo :
              /\ known' \subseteq known \cup {d.name}
              /\ crashed' \in BOOLEAN
              /\ job' = [job EXCEPT ![c] = [todo |-> @.todo \ {d}, def |-> d, step |-> "level", k |-> 0]]
              /\ overlap' = [overlap EXCEPT ![ObjectOf(d.name)] =
                               \E b \in Frames \ {c} : Busy(b, ObjectOf(d.name))]
              /\ UNCHANGED <<vars, object, mgr, last>>
        BY <2>2 DEF PickDefine
      <3>2. d \in Define /\ d.name \in Names /\ job[c].todo \in SUBSET Define
        BY DEF ReloadTypeOK, Define
      <3> QED
        BY <3>1, <3>2 DEF ReloadTypeOK
    <2>3. ASSUME NEW c \in Frames, SetLevel(c) PROVE ReloadTypeOK'
      <3>1. [level |-> job[c].def.level, fmt |-> Target(c).fmt, list |-> Target(c).list] \in Logger
        BY TargetType DEF Logger, Define
      <3> QED
        BY <2>3, <3>1, ApplyType DEF SetLevel, ReloadTypeOK, Logger, Job
    <2>4. ASSUME NEW c \in Frames, SetFormat(c) PROVE ReloadTypeOK'
      <3>1. [level |-> Target(c).level, list |-> Target(c).list,
             fmt |-> Parsed(job[c].def.formatter, Target(c).fmt)] \in Logger
        BY TargetType DEF Logger
      <3> QED
        BY <2>4, <3>1, ApplyType DEF SetFormat, ReloadTypeOK, Logger, Job
    <2>5. ASSUME NEW c \in Frames, Clear(c) PROVE ReloadTypeOK'
      <3>1. [level |-> Target(c).level, fmt |-> Target(c).fmt, list |-> <<>>] \in Logger
        BY TargetType DEF Logger
      <3> QED
        BY <2>5, <3>1, ApplyType, TargetType DEF Clear, ReloadTypeOK, Logger, Job
    <2>6. ASSUME NEW c \in Frames, AddAppender(c) PROVE ReloadTypeOK'
      <3> DEFINE d == job[c].def  o == ObjectOf(d.name)  k == job[c].k
                 x == [level |-> Target(c).level, fmt |-> Target(c).fmt,
                       list |-> Append(Target(c).list, Appender(c, k + 1,
                                         Parsed(d.appenders[k + 1], Target(c).fmt)))]
                 j == [todo |-> job[c].todo, def |-> d, step |-> "append", k |-> k + 1]
      <3>1. x \in Logger /\ j \in Job /\ o \in Objects
        BY <2>6, AddType, TargetType DEF Logger, Job
      <3>2. object' = [object EXCEPT ![o] = x] /\ job' = [job EXCEPT ![c] = j]
        BY <2>6 DEF AddAppender, Target
      <3> QED
        BY <2>6, <3>1, <3>2 DEF AddAppender, ReloadTypeOK, Logger, Job
    <2>7. ASSUME NEW c \in Frames, FinishListener(c) PROVE ReloadTypeOK'
      <3>1. Gone(val[frame[c].var], frame[c].new) = {}
        BY NothingOld DEF Gone
      <3>2. known' = known /\ object' = object /\ last' = last
        BY <2>7, <3>1 DEF FinishListener, ReloadTypeOK
      <3>3. NoJob \in Job
        BY NoDefineType DEF NoJob, Job
      <3> QED
        BY <2>7, <3>2, <3>3 DEF FinishListener, ReloadTypeOK, Job
    <2>8. ASSUME NEW t \in Clients, Manage(t) PROVE ReloadTypeOK'
      BY <2>8 DEF Manage, AskLogger, BeginYaml, EndYaml, ReloadTypeOK
    <2> QED
      BY <2>0, <2>1, <2>2, <2>3, <2>4, <2>5, <2>6, <2>7, <2>8
         DEF ReloadNext, Register, Load, Around, Rebuild, rvars
  <1> QED
    BY <1>1, <1>2, BaseHolds, PTL DEF ReloadSpec

-----------------------------------------------------------------------------
(* The root logger                                                          *)

\* In the loop over removed definitions there is nothing to do.
LEMMA FinishKeeps ==
  ASSUME Base, ReloadTypeOK, NEW c \in Frames, FinishListener(c)
  PROVE  UNCHANGED <<object, last, overlap>>
  <1>1. Gone(val[frame[c].var], frame[c].new) = {}
    BY NothingOld DEF Gone
  <1> QED
    BY <1>1 DEF FinishListener, ReloadTypeOK

-----------------------------------------------------------------------------
(* What rebuilding a logger leaves in it                                    *)

SameCallback(b) == pc'[b] = "callback" <=> pc[b] = "callback"

\* A step that is no listener's.
Still == UNCHANGED <<object, job, last, overlap>> /\ \A b \in Frames : SameCallback(b)

\* c begins or ends a listener.
Aside(c) == /\ UNCHANGED <<object, last, overlap>>
            /\ \A b \in Frames \ {c} : job'[b] = job[b] /\ SameCallback(b)
            /\ pc[c] = "callback" => Between(c)
            /\ pc'[c] = "callback" => job'[c].step = "pick"

\* The members of ConfigVar around a listener neither start nor end one.
LEMMA AroundStill ==
  ASSUME Base, NEW c \in Frames, Load(c) \/ Around(c)
  PROVE  Still
  <1>1. pc \in [Frames -> PCs]
    BY DEF Base, TypeOK
  <1>2. CASE Load(c)
    <2>1. PICK v \in Vars, x \in Values :
            Start(c, [NoCall EXCEPT !.op = "setValue", !.var = v, !.new = x])
      BY <1>2 DEF Load, CallSetValue
    <2>2. pc[c] = "idle" /\ \E there \in {"rdlock", "wrlock"} : pc' = [pc EXCEPT ![c] = there]
      BY <2>1 DEF Start, CanStart
    <2> QED
      BY <1>1, <1>2, <2>2 DEF Load, rest, Still, SameCallback
  <1>3. CASE Around(c)
    <2>1. pc[c] # "callback" /\ \E there \in PCs \ {"callback"} : pc' = [pc EXCEPT ![c] = there]
      BY <1>3 DEF Around, LockRead, ReturnRead, BeginNotify, EndNotify, LockWrite, Write,
        LoadId, StoreId, InsertListener, ReturnId, Goto, Leave, PCs
    <2> QED
      BY <1>1, <1>3, <2>1 DEF Around, rest, Still, SameCallback
  <1> QED
    BY <1>2, <1>3

\* LogIniter's constructor does not touch the loggers.
LEMMA RegisterStill ==
  ASSUME Base, Register
  PROVE  Still
  <1>1. pc \in [Frames -> PCs]
    BY DEF Base, TypeOK
  <1>2. PICK v \in Vars : Start(Starter, [NoCall EXCEPT !.op = "addListener", !.var = v])
    BY DEF Register, CallAddListener
  <1>3. pc[Starter] = "idle" /\ \E there \in {"rdlock", "wrlock"} : pc' = [pc EXCEPT ![Starter] = there]
    BY <1>2 DEF Start, CanStart
  <1> QED
    BY <1>1, <1>3 DEF Register, rest, Still, SameCallback

\* What a step can be for the loggers and the listeners.
LEMMA Moves ==
  ASSUME Base, ReloadTypeOK, [ReloadNext]_rvars
  PROVE  \/ Still
         \/ \E c \in Frames : \/ Aside(c) \/ PickDefine(c) \/ SetLevel(c) \/ SetFormat(c)
                              \/ Clear(c) \/ AddAppender(c)
  <1>1. pc \in [Frames -> PCs] /\ job \in [Frames -> Job]
    BY DEF Base, TypeOK, ReloadTypeOK, Job
  <1>2. ASSUME NEW c \in Frames, BeginListener(c) PROVE Aside(c)
    <2>1. pc[c] = "notify" /\ pc' = [pc EXCEPT ![c] = "callback"]
      BY <1>2 DEF BeginListener, CallListener, Goto
    <2>2. \E j : j.step = "pick" /\ job' = [job EXCEPT ![c] = j]
      <3>1. [NoJob EXCEPT !.todo = frame[c].new].step = "pick"
        BY DEF NoJob
      <3> QED
        BY <1>2, <3>1 DEF BeginListener
    <2> QED
      BY <1>1, <1>2, <2>1, <2>2 DEF BeginListener, Aside, SameCallback
  <1>3. ASSUME NEW c \in Frames, FinishListener(c) PROVE Aside(c)
    <2>1. Between(c) /\ pc' = [pc EXCEPT ![c] = "notify"] /\ job' = [job EXCEPT ![c] = NoJob]
      BY <1>3 DEF FinishListener, ListenerReturns
    <2> QED
      BY <1>1, <1>3, <2>1, FinishKeeps DEF Aside, SameCallback
  <1>4. ASSUME NEW t \in Clients, Manage(t) PROVE Still
    BY <1>4 DEF Manage, AskLogger, BeginYaml, EndYaml, Still, SameCallback, vars
  <1>5. CASE UNCHANGED rvars
    BY <1>5 DEF rvars, vars, rest, Still, SameCallback
  <1> QED
    BY <1>2, <1>3, <1>4, <1>5, AroundStill, RegisterStill DEF ReloadNext, Rebuild

\* What the steps of a listener at its logger have in common.
LEMMA Work ==
  ASSUME Base, ReloadTypeOK, NEW c \in Frames,
         SetLevel(c) \/ SetFormat(c) \/ Clear(c) \/ AddAppender(c)
  PROVE  /\ Busy(c, ObjectOf(job[c].def.name))
         /\ job'[c].def = job[c].def
         /\ UNCHANGED <<pc, overlap>>
         /\ \A b \in Frames \ {c} : job'[b] = job[b]
         /\ \A o \in Objects \ {ObjectOf(job[c].def.name)} :
              object'[o] = object[o] /\ last'[o] = last[o]
  <1> USE TargetType DEF ReloadTypeOK, Busy, Between, Running, vars
  <1>1. CASE SetLevel(c)
    BY <1>1 DEF SetLevel, Apply
  <1>2. CASE SetFormat(c)
    BY <1>2 DEF SetFormat, Apply
  <1>3. CASE Clear(c)
    BY <1>3 DEF Clear, Apply
  <1>4. CASE AddAppender(c)
    BY <1>4 DEF AddAppender
  <1> QED
    BY <1>1, <1>2, <1>3, <1>4

\* Definitions stay with the lists they were cleared for.
LEMMA AppliedStays ==
  ASSUME Base, ReloadTypeOK, ReloadTypeOK', [ReloadNext]_rvars, Applied
  PROVE  Applied'
  <1> SUFFICES ASSUME NEW b \in Frames, Running(b, "append")',
                      last'[ObjectOf(job'[b].def.name)].by = b
               PROVE  last'[ObjectOf(job'[b].def.name)].def = job'[b].def
    BY DEF Applied
  <1>1. ASSUME Running(b, "append"), job'[b].def = job[b].def,
               last'[ObjectOf(job[b].def.name)] = last[ObjectOf(job[b].def.name)]
        PROVE  last'[ObjectOf(job'[b].def.name)].def = job'[b].def
    BY <1>1 DEF Applied
  <1>2. CASE Still
    BY <1>1, <1>2 DEF Still, SameCallback, Running
  <1>3. ASSUME NEW c \in Frames, Aside(c) PROVE last'[ObjectOf(job'[b].def.name)].def = job'[b].def
    <2>1. b # c
      BY <1>3 DEF Aside, Running
    <2> QED
      BY <1>1, <1>3, <2>1 DEF Aside, SameCallback, Running
  <1>4. ASSUME NEW c \in Frames, PickDefine(c)
        PROVE  last'[ObjectOf(job'[b].def.name)].def = job'[b].def
    <2>1. b # c /\ job'[b] = job[b]
      BY <1>4 DEF PickDefine, Running, ReloadTypeOK
    <2> QED
      BY <1>1, <1>4, <2>1 DEF PickDefine, Running, vars
  <1>5. ASSUME NEW c \in Frames, SetLevel(c) \/ SetFormat(c) \/ Clear(c) \/ AddAppender(c)
        PROVE  last'[ObjectOf(job'[b].def.name)].def = job'[b].def
    <2>1. CASE b = c /\ Clear(c)
      BY <2>1, TargetType DEF Clear, Apply, ReloadTypeOK
    <2>2. CASE b = c /\ AddAppender(c)
      BY <1>1, <2>2, Work DEF AddAppender, Running
    <2>3. CASE b = c /\ (SetLevel(c) \/ SetFormat(c))
      BY <2>3 DEF SetLevel, SetFormat, Apply, Running, ReloadTypeOK
    <2>4. CASE b # c
      <3>1. job'[b] = job[b] /\ Running(b, "append")
        BY <1>5, <2>4, Work DEF Running
      <3>2. CASE last' = last
        BY <1>1, <3>1, <3>2
      <3>3. CASE Clear(c)
        <4>1. ObjectOf(job[b].def.name) # ObjectOf(job[c].def.name)
          BY <2>4, <3>1, <3>3, TargetType DEF Clear, ReloadTypeOK
        <4> QED
          BY <1>1, <1>5, <3>1, <4>1, Work, TargetType
      <3> QED
        BY <1>5, <3>2, <3>3 DEF SetLevel, SetFormat, AddAppender
    <2> QED
      BY <1>5, <2>1, <2>2, <2>3, <2>4
  <1> QED
    BY <1>2, <1>3, <1>4, <1>5, Moves

\* LastClearerComplete, of one logger.
Complete(o) == last[o].by # NoFrame =>
  LET own == AddedBy(o, last[o].by) IN
    /\ {object[o].list[i].k : i \in own} = 1 .. Placed(o)
    /\ \A i, j \in own : i < j => object[o].list[i].k < object[o].list[j].k

\* A step that leaves a list, its last clearer and that one's progress alone.
LEMMA CompleteIfSame ==
  ASSUME NEW o \in Objects, Complete(o), object'[o].list = object[o].list, last'[o] = last[o],
         last[o].by # NoFrame => Placed(o)' = Placed(o)
  PROVE  Complete(o)'
  BY DEF Complete, AddedBy

\* However listeners interleave, nothing of what the last one to clear a list
\* added is lost, doubled or out of order.
LEMMA CompleteStays ==
  ASSUME Base, ReloadTypeOK, ReloadTypeOK', [ReloadNext]_rvars, Applied,
         NEW o \in Objects, Complete(o)
  PROVE  Complete(o)'
  <1> DEFINE a == last[o].by
  <1>0. a \in Frames \cup {NoFrame}
    BY DEF ReloadTypeOK
  <1>1. CASE Still
    <2>1. a # NoFrame => Placed(o)' = Placed(o)
      BY <1>0, <1>1 DEF Still, SameCallback, Placed, Running
    <2> QED
      BY <1>1, <2>1, CompleteIfSame DEF Still
  <1>2. ASSUME NEW c \in Frames, Aside(c) \/ PickDefine(c) PROVE Complete(o)'
    <2>1. /\ object' = object /\ last' = last
          /\ \A b \in Frames \ {c} : job'[b] = job[b] /\ SameCallback(b)
          /\ pc[c] = "callback" => Between(c)
          /\ ~Running(c, "append")'
      <3>1. CASE Aside(c)
        BY <3>1 DEF Aside, Running
      <3>2. CASE PickDefine(c)
        BY <3>2 DEF PickDefine, ReloadTypeOK, Running, SameCallback, vars
      <3> QED
        BY <1>2, <3>1, <3>2
    <2>2. CASE a # c
      <3>1. a # NoFrame => Placed(o)' = Placed(o)
        BY <1>0, <2>1, <2>2 DEF SameCallback, Placed, Running
      <3> QED
        BY <2>1, <3>1, CompleteIfSame
    <2>3. CASE a = c
      <3>1. Placed(o)' = Len(last[o].def.appenders)
        BY <2>1, <2>3 DEF Placed
      <3>2. Placed(o) = Len(last[o].def.appenders)
        <4>1. CASE Running(c, "append") /\ ObjectOf(job[c].def.name) = o
          BY <2>1, <2>3, <4>1 DEF Placed, Running, Between, Applied
        <4>2. CASE ~(Running(c, "append") /\ ObjectOf(job[c].def.name) = o)
          BY <2>3, <4>2 DEF Placed
        <4> QED
          BY <4>1, <4>2
      <3> QED
        BY <2>1, <3>1, <3>2, CompleteIfSame
    <2> QED
      BY <2>2, <2>3
  <1>3. ASSUME NEW c \in Frames, SetLevel(c) \/ SetFormat(c) PROVE Complete(o)'
    <2>1. last' = last /\ object'[o].list = object[o].list
      <3>1. CASE o # ObjectOf(job[c].def.name)
        BY <1>3, <3>1, Work DEF SetLevel, SetFormat
      <3>2. CASE o = ObjectOf(job[c].def.name)
        BY <1>3, <3>2 DEF SetLevel, SetFormat, Apply, Target, ReloadTypeOK
      <3> QED
        BY <3>1, <3>2
    <2>2. a # NoFrame => Placed(o)' = Placed(o)
      <3>1. ~Running(c, "append") /\ ~Running(c, "append")'
        BY <1>3 DEF SetLevel, SetFormat, Apply, Running, ReloadTypeOK
      <3>2. \A b \in Frames \ {c} : job'[b] = job[b] /\ pc'[b] = pc[b]
        BY <1>3, Work
      <3> QED
        BY <1>0, <2>1, <3>1, <3>2 DEF Placed, Running
    <2> QED
      BY <2>1, <2>2, CompleteIfSame
  <1>4. ASSUME NEW c \in Frames, Clear(c) PROVE Complete(o)'
    <2>1. CASE o = ObjectOf(job[c].def.name)
      <3>1. object'[o].list = <<>> /\ last'[o].by = c
        BY <1>4, <2>1 DEF Clear, Apply, ReloadTypeOK
      <3>2. Placed(o)' = 0
        BY <1>4, <2>1, <3>1 DEF Clear, Apply, Placed, Running, ReloadTypeOK, vars
      <3>3. AddedBy(o, last[o].by)' = {}
        BY <3>1 DEF AddedBy
      <3> QED
        BY <3>2, <3>3 DEF Complete
    <2>2. CASE o # ObjectOf(job[c].def.name)
      <3>0. ~Running(c, "append") /\ last'[o] = last[o] /\ pc' = pc
            /\ job'[c].def = job[c].def /\ \A b \in Frames \ {c} : job'[b] = job[b]
        BY <1>4, <2>2, Work DEF Clear, Running
      <3>1. a # NoFrame => Placed(o)' = Placed(o)
        BY <1>0, <2>2, <3>0 DEF Placed, Running
      <3> QED
        BY <1>4, <2>2, <3>1, Work, CompleteIfSame
    <2> QED
      BY <2>1, <2>2
  <1>5. ASSUME NEW c \in Frames, AddAppender(c) PROVE Complete(o)'
    <2> DEFINE d == job[c].def  k == job[c].k
               e == Appender(c, k + 1, Parsed(d.appenders[k + 1], object[o].fmt))
    <2>0. /\ last' = last /\ pc' = pc /\ k \in Nat /\ job'[c].k = k + 1 /\ job'[c].def = d
          /\ job'[c].step = "append" /\ Running(c, "append") /\ Running(c, "append")'
          /\ \A b \in Frames \ {c} : job'[b] = job[b]
      BY <1>5, Work DEF AddAppender, ReloadTypeOK, Running, vars
    <2>1. CASE o # ObjectOf(d.name)
      <3>1. a # NoFrame => Placed(o)' = Placed(o)
        BY <1>0, <2>0, <2>1 DEF Placed, Running
      <3> QED
        BY <1>5, <2>0, <2>1, <3>1, Work, CompleteIfSame
    <2>2. CASE o = ObjectOf(d.name)
      <3> DEFINE list == object[o].list
      <3>1. object'[o].list = Append(list, e) /\ list \in Seq(Entry)
        BY <1>5, <2>2 DEF AddAppender, ReloadTypeOK
      <3>2. /\ DOMAIN object'[o].list = 1 .. Len(list) + 1
            /\ \A i \in 1 .. Len(list) : object'[o].list[i] = list[i]
            /\ object'[o].list[Len(list) + 1] = e
            /\ Len(list) \in Nat /\ DOMAIN list = 1 .. Len(list)
        BY <3>1
      <3>3. e.by = c /\ e.k = k + 1
        BY DEF Appender
      <3> HIDE DEF e, list
      <3>4. CASE a # c
        <4>1. AddedBy(o, a)' = AddedBy(o, a)
          <5>1. AddedBy(o, a)' = {i \in DOMAIN object'[o].list : object'[o].list[i].by = a}
            BY <2>0 DEF AddedBy
          <5>2. AddedBy(o, a) = {i \in 1 .. Len(list) : list[i].by = a}
            BY <3>2 DEF AddedBy, list
          <5>3. object'[o].list[Len(list) + 1].by # a
            BY <3>2, <3>3, <3>4
          <5>4. \A i : i \in 1 .. Len(list) + 1 <=> i \in 1 .. Len(list) \/ i = Len(list) + 1
            BY <3>2
          <5>5. \A i : i \in AddedBy(o, a)' <=> i \in AddedBy(o, a)
            <6> HIDE DEF a
            <6> QED
              BY <3>2, <5>1, <5>2, <5>3, <5>4
          <5> QED
            BY <5>1, <5>2, <5>5
        <4>2. \A i \in AddedBy(o, a) : object'[o].list[i] = object[o].list[i]
          BY <3>2 DEF AddedBy, list
        <4>3. a # NoFrame => Placed(o)' = Placed(o)
          BY <1>0, <2>0, <3>4 DEF Placed, Running
        <4> QED
          BY <2>0, <4>1, <4>2, <4>3 DEF Complete
      <3>5. CASE a = c /\ a # NoFrame
        <4> DEFINE own == AddedBy(o, c)  n == Len(list) + 1
        <4>1. AddedBy(o, last[o].by)' = own \cup {n}
          <5>1. AddedBy(o, last[o].by)' = {i \in DOMAIN object'[o].list : object'[o].list[i].by = c}
            BY <2>0, <3>5 DEF AddedBy
          <5>2. \A i : i \in 1 .. Len(list) + 1 <=> i \in 1 .. Len(list) \/ i = Len(list) + 1
            BY <3>2
          <5>3. own = {i \in 1 .. Len(list) : list[i].by = c}
            BY <3>2 DEF AddedBy, list
          <5>4. object'[o].list[n].by = c
            BY <3>2, <3>3
          <5> HIDE DEF own, n
          <5>5. \A i : i \in AddedBy(o, last[o].by)' <=> i \in own \cup {n}
            BY <3>2, <5>1, <5>2, <5>3, <5>4 DEF n
          <5> QED
            BY <5>5
        <4>2. own \subseteq 1 .. Len(list) /\ \A i \in own : object'[o].list[i] = list[i]
          BY <3>2 DEF AddedBy, list
        <4>3. Placed(o) = k /\ Placed(o)' = k + 1
          BY <2>0, <2>2, <3>5 DEF Placed
        <4>4. {list[i].k : i \in own} = 1 .. k /\ \A i, j \in own : i < j => list[i].k < list[j].k
          BY <3>5, <4>3 DEF Complete, list
        <4>5. {object'[o].list[i].k : i \in own \cup {n}} = 1 .. k + 1
          <5>1. {object'[o].list[i].k : i \in own \cup {n}} = {list[i].k : i \in own} \cup {k + 1}
            BY <3>2, <3>3, <4>2
          <5>2. (1 .. k) \cup {k + 1} = 1 .. k + 1
            BY <2>0
          <5> QED
            BY <4>4, <5>1, <5>2
        <4>6. \A i, j \in own \cup {n} : i < j => object'[o].list[i].k < object'[o].list[j].k
          <5>1. \A i \in own : list[i].k \in 1 .. k /\ i < n /\ i \in Nat /\ i # n
            BY <3>2, <4>2, <4>4
          <5>2. object'[o].list[n].k = k + 1 /\ n \in Nat
            BY <3>2, <3>3
          <5>3. ASSUME NEW i \in own, NEW j \in own, i < j
                PROVE  object'[o].list[i].k < object'[o].list[j].k
            BY <4>2, <4>4, <5>3
          <5>4. ASSUME NEW i \in own PROVE object'[o].list[i].k < object'[o].list[n].k /\ ~(n < i)
            BY <2>0, <4>2, <5>1, <5>2
          <5> HIDE DEF own, n
          <5> QED
            BY <5>1, <5>2, <5>3, <5>4
        <4> QED
          BY <4>1, <4>3, <4>5, <4>6 DEF Complete
      <3>6. CASE a = NoFrame
        BY <2>0, <3>6 DEF Complete
      <3> QED
        BY <3>4, <3>5, <3>6
    <2> QED
      BY <2>1, <2>2
  <1> QED
    BY <1>1, <1>2, <1>3, <1>4, <1>5, Moves

\* The same, of every reachable state.
THEOREM RebuiltInOrder == ReloadSpec => []LastClearerComplete
  <1>1. ReloadInit => Applied /\ LastClearerComplete
    BY DEF ReloadInit, Init, Applied, LastClearerComplete, Running
  <1>2. /\ Base /\ ReloadTypeOK /\ ReloadTypeOK' /\ Applied /\ LastClearerComplete
        /\ [ReloadNext]_rvars
        => Applied' /\ LastClearerComplete'
    <2>1. LastClearerComplete <=> \A o \in Objects : Complete(o)
      BY DEF LastClearerComplete, Complete
    <2>2. LastClearerComplete' <=> \A o \in Objects : Complete(o)'
      BY DEF LastClearerComplete, Complete
    <2> QED
      BY <2>1, <2>2, AppliedStays, CompleteStays
  <1> QED
    BY <1>1, <1>2, BaseHolds, ReloadTypeCorrect, PTL DEF ReloadSpec

\* Who is at a logger follows from its own job and place.
LEMMA BusyIfSame ==
  ASSUME NEW b \in Frames, job'[b] = job[b], SameCallback(b), NEW o
  PROVE  Busy(b, o)' <=> Busy(b, o)
  BY DEF Busy, Between, SameCallback

\* Who is at a logger after a step: whoever was, except that a listener may take
\* up one logger, or be done with its own.
LEMMA BusyAfter ==
  ASSUME Base, ReloadTypeOK, [ReloadNext]_rvars
  PROVE  \/ Still /\ \A b \in Frames, o \in Objects : Busy(b, o)' <=> Busy(b, o)
         \/ \E c \in Frames :
              /\ \A b \in Frames \ {c}, o \in Objects : Busy(b, o)' <=> Busy(b, o)
              /\ \A b \in Frames \ {c} : job'[b] = job[b]
              /\ \/ Aside(c) /\ \A o \in Objects : ~Busy(c, o) /\ ~Busy(c, o)'
                 \/ /\ PickDefine(c)
                    /\ \A o \in Objects : ~Busy(c, o)
                    /\ \A o \in Objects : Busy(c, o)' => o = ObjectOf(job'[c].def.name)
                 \/ /\ SetLevel(c) \/ SetFormat(c) \/ Clear(c) \/ AddAppender(c)
                    /\ Busy(c, ObjectOf(job[c].def.name))
                    /\ \A o \in Objects : Busy(c, o)' => Busy(c, o) /\ o = ObjectOf(job[c].def.name)
  <1>1. CASE Still
    BY <1>1, BusyIfSame DEF Still
  <1>2. ASSUME NEW c \in Frames, Aside(c)
        PROVE  /\ \A b \in Frames \ {c}, o \in Objects : Busy(b, o)' <=> Busy(b, o)
               /\ \A b \in Frames \ {c} : job'[b] = job[b]
               /\ \A o \in Objects : ~Busy(c, o) /\ ~Busy(c, o)'
    <2>1. \A o \in Objects : ~Busy(c, o) /\ ~Busy(c, o)'
      BY <1>2 DEF Aside, Busy, Between
    <2> QED
      BY <1>2, <2>1, BusyIfSame DEF Aside
  <1>3. ASSUME NEW c \in Frames, PickDefine(c)
        PROVE  /\ \A b \in Frames \ {c}, o \in Objects : Busy(b, o)' <=> Busy(b, o)
               /\ \A b \in Frames \ {c} : job'[b] = job[b]
               /\ \A o \in Objects : ~Busy(c, o)
               /\ \A o \in Objects : Busy(c, o)' => o = ObjectOf(job'[c].def.name)
    <2>1. \A b \in Frames \ {c} : job'[b] = job[b] /\ SameCallback(b)
      BY <1>3 DEF PickDefine, ReloadTypeOK, SameCallback, vars
    <2>2. \A o \in Objects : ~Busy(c, o)
      BY <1>3 DEF PickDefine, Busy
    <2>3. \A o \in Objects : Busy(c, o)' => o = ObjectOf(job'[c].def.name)
      BY DEF Busy
    <2> QED
      BY <2>1, <2>2, <2>3, BusyIfSame
  <1>4. ASSUME NEW c \in Frames, SetLevel(c) \/ SetFormat(c) \/ Clear(c) \/ AddAppender(c)
        PROVE  /\ \A b \in Frames \ {c}, o \in Objects : Busy(b, o)' <=> Busy(b, o)
               /\ \A b \in Frames \ {c} : job'[b] = job[b]
               /\ Busy(c, ObjectOf(job[c].def.name))
               /\ \A o \in Objects : Busy(c, o)' => Busy(c, o) /\ o = ObjectOf(job[c].def.name)
    <2>1. \A b \in Frames \ {c} : job'[b] = job[b] /\ SameCallback(b)
      BY <1>4, Work DEF SameCallback
    <2>2. \A o \in Objects : Busy(c, o)' => Busy(c, o) /\ o = ObjectOf(job[c].def.name)
      BY <1>4, Work DEF Busy
    <2> QED
      BY <1>4, <2>1, <2>2, BusyIfSame, Work
  <1> QED
    BY <1>1, <1>2, <1>3, <1>4, Moves

\* What a listener that has taken up a logger alone knows of the overlap.
LEMMA PickOverlap ==
  ASSUME ReloadTypeOK, NEW c \in Frames, PickDefine(c)
  PROVE  LET o == ObjectOf(job'[c].def.name) IN
           /\ o \in Objects
           /\ overlap'[o] = \E b \in Frames \ {c} : Busy(b, o)
           /\ \A q \in Objects \ {o} : overlap'[q] = overlap[q]
           /\ job'[c].step = "level"
           /\ UNCHANGED <<object, last>>
  <1>1. PICK d \in job[c].todo :
          /\ job' = [job EXCEPT ![c] = [todo |-> @.todo \ {d}, def |-> d, step |-> "level", k |-> 0]]
          /\ overlap' = [overlap EXCEPT ![ObjectOf(d.name)] =
                           \E b \in Frames \ {c} : Busy(b, ObjectOf(d.name))]
    BY DEF PickDefine
  <1>2. d.name \in Names /\ ObjectOf(d.name) \in Objects
    BY DEF ReloadTypeOK, Define, ObjectOf, Objects
  <1>3. job'[c].def = d /\ job'[c].step = "level"
    BY <1>1 DEF ReloadTypeOK
  <1>4. overlap'[ObjectOf(d.name)] = (\E b \in Frames \ {c} : Busy(b, ObjectOf(d.name)))
    BY <1>1, <1>2 DEF ReloadTypeOK
  <1>5. \A q \in Objects \ {ObjectOf(d.name)} : overlap'[q] = overlap[q]
    BY <1>1, <1>2 DEF ReloadTypeOK
  <1> QED
    BY <1>2, <1>3, <1>4, <1>5 DEF PickDefine

\* Without overlap there is one listener at a logger: a second one records the overlap.
LEMMA SoleStays ==
  ASSUME Base, ReloadTypeOK, [ReloadNext]_rvars, Sole
  PROVE  Sole'
  <1> SUFFICES ASSUME NEW o \in Objects, ~overlap'[o], NEW a \in Frames, NEW b \in Frames,
                      Busy(a, o)', Busy(b, o)'
               PROVE  a = b
    BY DEF Sole
  <1>1. CASE Still /\ \A d \in Frames, q \in Objects : Busy(d, q)' <=> Busy(d, q)
    BY <1>1 DEF Still, Sole
  <1>2. ASSUME NEW c \in Frames, PickDefine(c),
               \A d \in Frames \ {c}, q \in Objects : Busy(d, q)' <=> Busy(d, q),
               \A q \in Objects : Busy(c, q)' => q = ObjectOf(job'[c].def.name)
        PROVE  a = b
    <2>1. CASE o = ObjectOf(job'[c].def.name)
      BY <1>2, <2>1, PickOverlap
    <2>2. CASE o # ObjectOf(job'[c].def.name)
      BY <1>2, <2>2, PickOverlap DEF Sole
    <2> QED
      BY <2>1, <2>2
  <1>3. ASSUME overlap' = overlap, NEW c \in Frames,
               \A d \in Frames \ {c}, q \in Objects : Busy(d, q)' <=> Busy(d, q),
               \A q \in Objects : Busy(c, q)' => Busy(c, q)
        PROVE  a = b
    BY <1>3 DEF Sole
  <1> QED
    BY <1>1, <1>2, <1>3, BusyAfter, Work DEF Aside

\* Each call of a listener that has its logger to itself takes it a step on.
LEMMA WorkSoFar ==
  ASSUME Base, ReloadTypeOK, InProgress, NEW b \in Frames, NEW o \in Objects, o = ObjectOf(job[b].def.name),
         ~overlap[o], SetLevel(b) \/ SetFormat(b) \/ Clear(b) \/ AddAppender(b)
  PROVE  SoFar(b)'
  <1> DEFINE d == job[b].def  x == object[o]  y == object'[o]
  <1>1. Busy(b, o) /\ overlap'[o] = overlap[o] /\ job'[b].def = d /\ o = ObjectOf(d.name)
    BY Work
  <1>2. SoFar(b)
    BY <1>1 DEF InProgress
  <1>3. CASE SetLevel(b)
    BY <1>1, <1>2, <1>3 DEF SetLevel, Apply, SoFar, ReloadTypeOK
  <1>4. CASE SetFormat(b)
    <2>1. y.fmt = Parsed(d.formatter, x.fmt) /\ y.level = x.level /\ job'[b].step = "clear"
      BY <1>1, <1>4 DEF SetFormat, Apply, Target, ReloadTypeOK
    <2>2. x.level = d.level
      BY <1>1, <1>2, <1>4 DEF SetFormat, Running, SoFar
    <2> QED
      BY <1>1, <2>1, <2>2 DEF SoFar, Parsed
  <1>5. CASE Clear(b)
    <2>1. /\ y.fmt = x.fmt /\ y.level = x.level /\ y.list = <<>>
          /\ job'[b].step = "append" /\ job'[b].k = 0
          /\ last'[o] = [by |-> b, def |-> d]
      BY <1>1, <1>5 DEF Clear, Apply, Target, ReloadTypeOK
    <2>2. x.level = d.level /\ x.fmt = Parsed(d.formatter, x.fmt)
      BY <1>1, <1>2, <1>5 DEF Clear, Running, SoFar
    <2>3. FirstAppenders(b, d, 0, x.fmt) = <<>>
      BY DEF FirstAppenders
    <2> QED
      BY <1>1, <2>1, <2>2, <2>3 DEF SoFar
  <1>6. CASE AddAppender(b)
    <2> DEFINE k == job[b].k  e == Appender(b, k + 1, Parsed(d.appenders[k + 1], x.fmt))
    <2>1. /\ y.fmt = x.fmt /\ y.level = x.level /\ y.list = Append(x.list, e)
          /\ job'[b].step = "append" /\ job'[b].k = k + 1 /\ k \in Nat /\ last' = last
      BY <1>1, <1>6 DEF AddAppender, ReloadTypeOK
    <2>2. /\ x.level = d.level /\ x.fmt = Parsed(d.formatter, x.fmt)
          /\ last[o] = [by |-> b, def |-> d] /\ x.list = FirstAppenders(b, d, k, x.fmt)
      BY <1>1, <1>2, <1>6 DEF AddAppender, Running, SoFar
    <2>3. y.list = FirstAppenders(b, d, k + 1, x.fmt)
      <3>1. x.list \in Seq(Entry)
        BY DEF ReloadTypeOK
      <3>2. \A i \in 1 .. k : x.list[i] = Appender(b, i, Parsed(d.appenders[i], x.fmt))
        BY <2>2 DEF FirstAppenders
      <3>3. Len(x.list) = k
        <4>1. DOMAIN x.list = 1 .. k
          BY <2>2 DEF FirstAppenders
        <4> HIDE DEF x, k
        <4> QED
          BY <2>1, <3>1, <4>1
      <3> HIDE DEF x, k, d, e
      <3>4. Append(x.list, e) = [i \in 1 .. k + 1 |-> IF i = k + 1 THEN e ELSE x.list[i]]
        BY <2>1, <3>1, <3>3
      <3>5. \A i \in 1 .. k + 1 : (IF i = k + 1 THEN e ELSE x.list[i]) =
                                  Appender(b, i, Parsed(d.appenders[i], x.fmt))
        BY <2>1, <3>2 DEF e
      <3> QED
        BY <2>1, <3>4, <3>5 DEF FirstAppenders
    <2> QED
      BY <1>1, <2>1, <2>2, <2>3 DEF SoFar
  <1> QED
    BY <1>3, <1>4, <1>5, <1>6

\* A logger without overlap is what its one listener has made of it so far.
LEMMA InProgressStays ==
  ASSUME Base, ReloadTypeOK, ReloadTypeOK', [ReloadNext]_rvars, Sole, InProgress
  PROVE  InProgress'
  <1> SUFFICES ASSUME NEW b \in Frames, NEW o \in Objects, o = ObjectOf(job'[b].def.name),
                      Busy(b, o)', ~overlap'[o]
               PROVE  SoFar(b)'
    <2>1. \A b \in Frames : ObjectOf(job'[b].def.name) \in Objects
      BY DEF ReloadTypeOK, Define, ObjectOf, Objects
    <2> QED
      BY <2>1 DEF InProgress
  \* A step that touches neither b nor its logger.
  <1>1. ASSUME job'[b] = job[b], object'[o] = object[o], last'[o] = last[o],
               overlap'[o] = overlap[o], Busy(b, o)
        PROVE  SoFar(b)'
    BY <1>1 DEF InProgress, SoFar
  <1>2. CASE Still /\ \A d \in Frames, q \in Objects : Busy(d, q)' <=> Busy(d, q)
    BY <1>1, <1>2 DEF Still
  <1>3. ASSUME NEW c \in Frames, Aside(c), b # c,
               \A d \in Frames \ {c}, q \in Objects : Busy(d, q)' <=> Busy(d, q)
        PROVE  SoFar(b)'
    BY <1>1, <1>3 DEF Aside
  <1>4. ASSUME NEW c \in Frames, PickDefine(c),
               \A d \in Frames \ {c}, q \in Objects : Busy(d, q)' <=> Busy(d, q),
               \A d \in Frames \ {c} : job'[d] = job[d]
        PROVE  SoFar(b)'
    <2>1. CASE b = c
      BY <1>4, <2>1, PickOverlap DEF SoFar
    <2>2. CASE b # c
      <3>1. o # ObjectOf(job'[c].def.name)
        BY <1>4, <2>2, PickOverlap
      <3> QED
        BY <1>1, <1>4, <2>2, <3>1, PickOverlap
    <2> QED
      BY <2>1, <2>2
  <1>5. ASSUME NEW c \in Frames, SetLevel(c) \/ SetFormat(c) \/ Clear(c) \/ AddAppender(c), b # c,
               \A d \in Frames \ {c}, q \in Objects : Busy(d, q)' <=> Busy(d, q)
        PROVE  SoFar(b)'
    <2>1. Busy(b, o) /\ overlap'[o] = overlap[o] /\ job'[b] = job[b]
      BY <1>5, Work
    <2>2. o # ObjectOf(job[c].def.name)
      BY <1>5, <2>1, Work DEF Sole
    <2> QED
      BY <1>1, <1>5, <2>1, <2>2, Work
  <1>6. ASSUME SetLevel(b) \/ SetFormat(b) \/ Clear(b) \/ AddAppender(b) PROVE SoFar(b)'
    BY <1>6, WorkSoFar, Work
  <1> QED
    BY <1>2, <1>3, <1>4, <1>5, <1>6, BusyAfter

\* ReloadMatches, of a logger to which it applies.
Matches(o) == LET d == last[o].def IN
  /\ object[o].level = d.level
  /\ object[o].fmt = Parsed(d.formatter, object[o].fmt)
  /\ object[o].list = [k \in DOMAIN d.appenders |->
       Appender(last[o].by, k, Parsed(d.appenders[k], object[o].fmt))]

\* A listener that is done with a logger it had to itself leaves what the
\* definition says, and nobody else changes it.
LEMMA MatchesStay ==
  ASSUME Base, ReloadTypeOK, ReloadTypeOK', [ReloadNext]_rvars,
         Sole, InProgress, InProgress', ReloadMatches
  PROVE  ReloadMatches'
  <1> SUFFICES ASSUME NEW o \in Objects, last'[o].by # NoFrame, ~overlap'[o],
                      \A b \in Frames : ~Busy(b, o)'
               PROVE  Matches(o)'
    BY DEF ReloadMatches, Matches
  <1>1. ASSUME object'[o] = object[o], last'[o] = last[o], overlap'[o] = overlap[o],
               \A b \in Frames : ~Busy(b, o)
        PROVE  Matches(o)'
    BY <1>1 DEF ReloadMatches, Matches
  <1>2. CASE Still /\ \A b \in Frames, q \in Objects : Busy(b, q)' <=> Busy(b, q)
    BY <1>1, <1>2 DEF Still
  <1>3. ASSUME NEW c \in Frames, Aside(c), \A q \in Objects : ~Busy(c, q),
               \A b \in Frames \ {c}, q \in Objects : Busy(b, q)' <=> Busy(b, q)
        PROVE  Matches(o)'
    BY <1>1, <1>3 DEF Aside
  <1>4. ASSUME NEW c \in Frames, PickDefine(c), \A q \in Objects : ~Busy(c, q),
               \A b \in Frames \ {c}, q \in Objects : Busy(b, q)' <=> Busy(b, q)
        PROVE  Matches(o)'
    <2>1. o # ObjectOf(job'[c].def.name)
      <3>1. pc'[c] = "callback" /\ job'[c].step = "level"
        BY <1>4, PickOverlap DEF PickDefine, Between, vars
      <3> QED
        BY <3>1 DEF Busy, Between
    <2> QED
      BY <1>1, <1>4, <2>1, PickOverlap
  <1>5. ASSUME NEW c \in Frames, SetLevel(c) \/ SetFormat(c) \/ Clear(c) \/ AddAppender(c),
               Busy(c, ObjectOf(job[c].def.name)),
               \A q \in Objects : Busy(c, q)' => Busy(c, q) /\ q = ObjectOf(job[c].def.name),
               \A b \in Frames \ {c}, q \in Objects : Busy(b, q)' <=> Busy(b, q)
        PROVE  Matches(o)'
    <2>1. CASE o # ObjectOf(job[c].def.name)
      <3>1. ~Busy(c, o)
        BY <2>1 DEF Busy
      <3> QED
        BY <1>1, <1>5, <2>1, <3>1, Work
    <2>2. CASE o = ObjectOf(job[c].def.name)
      <3> DEFINE d == job[c].def
      <3>1. pc'[c] = "callback" /\ job'[c].def = d /\ overlap'[o] = overlap[o] /\ Between(c)'
        BY <1>5, <2>2, Work DEF Busy
      <3>2. SoFar(c)'
        BY <1>5, <2>2, <3>1, WorkSoFar
      <3>3. job'[c].step = "append" /\ job'[c].k = Len(d.appenders)
        <4>1. job'[c].step \in {"format", "clear", "append"}
          BY <1>5 DEF SetLevel, SetFormat, Clear, AddAppender, Apply, ReloadTypeOK
        <4> QED
          BY <3>1, <4>1 DEF Between
      <3>4. /\ object'[o].level = d.level /\ object'[o].fmt = Parsed(d.formatter, object'[o].fmt)
            /\ last'[o] = [by |-> c, def |-> d]
            /\ object'[o].list = FirstAppenders(c, d, Len(d.appenders), object'[o].fmt)
        BY <2>2, <3>1, <3>2, <3>3 DEF SoFar
      <3>5. DOMAIN d.appenders = 1 .. Len(d.appenders)
        BY TargetType DEF Define
      <3> QED
        BY <3>4, <3>5 DEF Matches, FirstAppenders
    <2> QED
      BY <2>1, <2>2
  <1> QED
    BY <1>2, <1>3, <1>4, <1>5, BusyAfter

\* A logger that one listener took up alone, and that nobody is working on, is
\* what its definition says.
THEOREM RebuiltAsDefined == ReloadSpec => []ReloadMatches
  <1>1. ReloadInit => Sole /\ InProgress /\ ReloadMatches
    BY DEF ReloadInit, Init, Sole, InProgress, ReloadMatches, Busy
  <1>2. /\ Base /\ ReloadTypeOK /\ ReloadTypeOK' /\ [ReloadNext]_rvars
        /\ Sole /\ InProgress /\ ReloadMatches
        => Sole' /\ InProgress' /\ ReloadMatches'
    BY SoleStays, InProgressStays, MatchesStay
  <1> QED
    BY <1>1, <1>2, BaseHolds, ReloadTypeCorrect, PTL DEF ReloadSpec
=============================================================================
