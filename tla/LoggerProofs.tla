---------------------------- MODULE LoggerProofs ----------------------------
(***************************************************************************)
(* Theorems about Logger, for every number of threads, loggers, appenders, *)
(* events and calls.                                                       *)
(***************************************************************************)
EXTENDS Logger, SequenceTheorems, FiniteSetTheorems, TLAPS

\* Taking an element out of a sequence, or appending one, leaves the rest.
LEMMA RemoveAtKeeps ==
  ASSUME NEW S, NEW s \in Seq(S), NEW k \in 1 .. Len(s) + 1
  PROVE  /\ RemoveAt(s, k) \in Seq(S)
         /\ \A x : Contains(RemoveAt(s, k), x) => Contains(s, x)
  <1> DEFINE p == SubSeq(s, 1, k - 1)
             q == SubSeq(s, k + 1, Len(s))
  <1>1. RemoveAt(s, k) = p \o q
    BY DEF RemoveAt
  <1>2. Len(s) \in Nat
    OBVIOUS
  <1>3. p \in Seq(S) /\ \A i \in 1 .. Len(p) : p[i] = s[i] /\ i \in 1 .. Len(s)
    BY <1>2, SubSeqProperties
  <1>4. q \in Seq(S) /\ \A i \in 1 .. Len(q) : q[i] = s[k + i] /\ k + i \in 1 .. Len(s)
    BY <1>2, SubSeqProperties
  <1> HIDE DEF p, q
  <1>5. /\ p \o q \in Seq(S)
        /\ Len(p \o q) = Len(p) + Len(q)
        /\ \A i \in 1 .. Len(p) + Len(q) :
             (p \o q)[i] = IF i <= Len(p) THEN p[i] ELSE q[i - Len(p)]
    BY <1>3, <1>4, ConcatProperties
  <1>6. ASSUME NEW i \in 1 .. Len(p \o q)
        PROVE  \E j \in 1 .. Len(s) : (p \o q)[i] = s[j]
    <2>1. Len(p) \in Nat /\ Len(q) \in Nat
      BY <1>3, <1>4
    <2>2. CASE i <= Len(p)
      BY <1>3, <1>5, <2>1, <2>2
    <2>3. CASE i > Len(p)
      <3>1. i - Len(p) \in 1 .. Len(q) /\ (p \o q)[i] = q[i - Len(p)]
        BY <1>5, <2>1, <2>3
      <3> QED
        BY <1>4, <3>1
    <2> QED
      BY <1>5, <2>1, <2>2, <2>3
  <1> QED
    BY <1>1, <1>5, <1>6 DEF Contains

LEMMA AppendKeeps ==
  ASSUME NEW S, NEW s \in Seq(S), NEW e \in S
  PROVE  /\ Append(s, e) \in Seq(S)
         /\ \A x : Contains(Append(s, e), x) => Contains(s, x) \/ x = e
  BY AppendProperties DEF Contains

-----------------------------------------------------------------------------
(* Types                                                                    *)

LEMMA NoCallType == NoCall \in Call
  <1>1. /\ (CHOOSE l \in Loggers : TRUE) \in Loggers
        /\ (CHOOSE a \in Appenders : TRUE) \in Appenders
        /\ (CHOOSE e \in Events : TRUE) \in Events
    BY SortAssumption
  <1> QED
    BY <1>1 DEF NoCall, Call, Ops, MaybeFormatter

LEMMA StartType ==
  ASSUME TypeOK, NEW t \in Threads, NEW there \in PCs, NEW c \in Call, Start(t, there, c),
         logged' \in SUBSET Events, reset' \in BOOLEAN
  PROVE  TypeOK'
  BY BoundAssumption DEF Start, Goto, TypeOK, locks, levels

LEMMA GotoType ==
  ASSUME TypeOK, NEW t \in Threads, NEW here, NEW there \in PCs, Goto(t, here, there)
  PROVE  pc' \in [Threads -> PCs]
  BY DEF Goto, TypeOK

LEMMA ReturnType ==
  ASSUME TypeOK, NEW t \in Threads, Return(t)
  PROVE  pc' \in [Threads -> PCs] /\ call' \in [Threads -> Call]
  BY NoCallType DEF Return, TypeOK, PCs

LEMMA AdvanceType ==
  ASSUME TypeOK, NEW t \in Threads, Advance(t)
  PROVE  call' \in [Threads -> Call]
  <1>1. call[t] \in Call
    BY DEF TypeOK
  <1>2. [call[t] EXCEPT !.i = @ + 1] \in Call
    BY <1>1 DEF Call
  <1> QED
    BY <1>2 DEF Advance, TypeOK

LEMMA CallsType ==
  ASSUME TypeOK, NEW t \in Threads, CallAny(t)
  PROVE  TypeOK'
  <1>0. {"event", "llock", "alock"} \subseteq PCs
    BY DEF PCs
  <1>1. CASE CallLog(t)
    BY <1>0, <1>1, NoCallType, StartType DEF CallLog, Call, Ops, TypeOK
  <1>2. CASE CallEdit(t)
    BY <1>0, <1>2, NoCallType, StartType DEF CallEdit, Call, Ops, TypeOK
  <1>3. CASE CallClear(t)
    BY <1>0, <1>3, NoCallType, StartType DEF CallClear, Call, Ops, TypeOK
  <1>4. CASE CallSetFormatter(t)
    BY <1>0, <1>4, NoCallType, StartType DEF CallSetFormatter, Call, Ops, TypeOK
  <1>5. CASE CallToYaml(t)
    BY <1>0, <1>5, NoCallType, StartType DEF CallToYaml, Call, Ops, TypeOK
  <1>6. CASE CallAppenderFormatter(t)
    <2>1. PICK a \in Appenders, f \in MaybeFormatter :
            Start(t, "alock", [NoCall EXCEPT !.op = "LogAppender::setFormatter", !.a = a, !.f = f])
      BY <1>6 DEF CallAppenderFormatter
    <2>2. [NoCall EXCEPT !.op = "LogAppender::setFormatter", !.a = a, !.f = f] \in Call
      BY NoCallType DEF Call, Ops
    <2>3. reset' \in BOOLEAN /\ logged' = logged
      BY <1>6 DEF CallAppenderFormatter
    <2> QED
      BY <1>0, <2>1, <2>2, <2>3, StartType DEF TypeOK
  <1>7. CASE SetLevel(t)
    BY <1>7, BoundAssumption DEF SetLevel, TypeOK, locks
  <1>8. CASE SetAppenderLevel(t)
    BY <1>8, BoundAssumption DEF SetAppenderLevel, TypeOK, locks
  <1> QED
    BY <1>1, <1>2, <1>3, <1>4, <1>5, <1>6, <1>7, <1>8 DEF CallAny

\* The state of every logger, appender and thread has its type in every run.
THEOREM TypeCorrect == Spec => []TypeOK
  <1>1. Init => TypeOK
    <2> SUFFICES ASSUME Init PROVE TypeOK
      OBVIOUS
    <2>1. /\ \A S : <<>> \in Seq(S)
          /\ 0 \in 0 .. MaxCalls
      BY BoundAssumption
    <2> QED
      BY <2>1, NoCallType, FormatterAssumption, LevelAssumption
         DEF Init, TypeOK, PCs, MaybeFormatter, Faults
  <1>2. TypeOK /\ [Next]_vars => TypeOK'
    <2> SUFFICES ASSUME TypeOK, [Next]_vars PROVE TypeOK'
      OBVIOUS
    <2>0. CASE UNCHANGED vars
      BY <2>0 DEF vars, TypeOK
    <2> SUFFICES ASSUME NEW t \in Threads, CallAny(t) \/ Step(t) PROVE TypeOK'
      BY <2>0 DEF Next
    <2> USE DEF locks, levels, ghosts
    <2>c. call[t] \in Call
      BY DEF TypeOK
    <2>d. /\ call[t].l \in Loggers /\ call[t].a \in Appenders /\ call[t].e \in Events
          /\ call[t].f \in MaybeFormatter /\ call[t].i \in Nat \ {0}
          /\ list[call[t].l] \in Seq(Appenders)
      BY <2>c DEF TypeOK, Call
    <2>1. CASE FilterEvent(t)
      <3>1. CASE Return(t)
        BY <2>1, <3>1, ReturnType DEF FilterEvent, TypeOK
      <3>2. CASE pc' = [pc EXCEPT ![t] = "llock"] /\ UNCHANGED call
        BY <2>1, <3>2 DEF FilterEvent, TypeOK, PCs
      <3> QED
        BY <2>1, <3>1, <3>2 DEF FilterEvent
    <2>2. CASE EnterLogger(t)
      <3>1. Body(call[t].op) \in PCs
        BY DEF Body, PCs
      <3> QED
        BY <2>2, <2>d, <3>1, GotoType DEF EnterLogger, LockLogger, TypeOK
    <2>3. CASE CheckFormatter(t)
      BY <2>3, GotoType DEF CheckFormatter, TypeOK, PCs
    <2>4. CASE Push(t)
      <3>1. list' \in [Loggers -> Seq(Appenders)]
        BY <2>4, <2>d, AppendKeeps DEF Push, TypeOK
      <3> QED
        BY <2>4, <2>d, <3>1, ReturnType DEF Push, UnlockLogger, TypeOK
    <2>5. CASE Erase(t)
      <3>1. ASSUME NEW k \in Stop(list[call[t].l], call[t].a),
                   list' = [list EXCEPT ![call[t].l] = RemoveAt(@, k)]
            PROVE  list' \in [Loggers -> Seq(Appenders)]
        BY <2>d, <3>1, RemoveAtKeeps DEF Stop, TypeOK
      <3>2. ASSUME list' = [list EXCEPT ![call[t].l] = <<>>]
            PROVE  list' \in [Loggers -> Seq(Appenders)]
        BY <2>d, <3>2 DEF TypeOK
      <3>3. list' \in [Loggers -> Seq(Appenders)]
        BY <2>5, <3>1, <3>2 DEF Erase, TypeOK
      <3> QED
        BY <2>5, <2>d, <3>3, ReturnType DEF Erase, UnlockLogger, TypeOK
    <2>6. CASE ApplyFormatter(t)
      BY <2>6, <2>d, GotoType DEF ApplyFormatter, TypeOK, PCs, MaybeFormatter
    <2>7. CASE RejectFormatter(t)
      BY <2>7, <2>d, ReturnType DEF RejectFormatter, UnlockLogger, TypeOK
    <2>8. CASE EndLoop(t)
      BY <2>8, <2>d, ReturnType DEF EndLoop, UnlockLogger, TypeOK
    <2>9. CASE TestFlag(t)
      <3>1. CASE Advance(t) /\ UNCHANGED pc
        BY <2>9, <3>1, AdvanceType DEF TestFlag, TypeOK
      <3>2. CASE Goto(t, "each", "give") /\ call' = [call EXCEPT ![t].a = Here(t)]
        <4>1. pc' \in [Threads -> PCs]
          BY <3>2, GotoType DEF PCs
        <4>2. Here(t) \in Appenders
          <5>1. call[t].i \in 1 .. Len(list[call[t].l])
            BY <2>9, <2>d DEF TestFlag, AtEnd
          <5> QED
            BY <2>d, <5>1 DEF Here
        <4>3. call' \in [Threads -> Call]
          BY <2>c, <3>2, <4>2 DEF TypeOK, Call
        <4> QED
          BY <2>9, <4>1, <4>3 DEF TestFlag, TypeOK
      <3> QED
        BY <2>9, <3>1, <3>2 DEF TestFlag
    <2>20. CASE GiveFormatter(t)
      BY <2>20, <2>d, GotoType, AdvanceType DEF GiveFormatter, TypeOK, PCs, MaybeFormatter, Faults
    <2>10. CASE Describe(t)
      BY <2>10, AdvanceType DEF Describe, TypeOK, Faults
    <2>11. CASE Skip(t)
      BY <2>11, AdvanceType DEF Skip, TypeOK
    <2>12. CASE Offer(t)
      <3>1. pc' \in [Threads -> PCs]
        BY <2>12, GotoType DEF Offer, PCs
      <3>2. call' \in [Threads -> Call]
        <4>1. PICK there \in {"alock", "reopen"} :
                ~AtEnd(t) /\ call' = [call EXCEPT ![t].a = Here(t)]
          BY <2>12 DEF Offer
        <4>2. Here(t) \in Appenders
          <5>1. call[t].i \in 1 .. Len(list[call[t].l])
            BY <2>d, <4>1 DEF AtEnd
          <5> QED
            BY <2>d, <5>1 DEF Here
        <4> QED
          BY <2>c, <4>1, <4>2 DEF TypeOK, Call
      <3> QED
        BY <2>12, <3>1, <3>2 DEF Offer, TypeOK
    <2>13. CASE Reopen(t)
      BY <2>13, GotoType DEF Reopen, TypeOK, PCs
    <2>14. CASE EnterAppender(t)
      BY <2>14, <2>d, GotoType DEF EnterAppender, LockAppender, TypeOK, PCs
    <2>15. CASE Write(t)
      <3> DEFINE r == [e |-> call[t].e, l |-> call[t].l, f |-> aFormatter[call[t].a]]
      <3>1. r \in Record
        BY <2>15, <2>d DEF Write, TypeOK, Record, MaybeFormatter
      <3>2. Append(out[call[t].a], r) \in Seq(Record)
        BY <2>d, <3>1, AppendProperties DEF TypeOK
      <3>3. out' \in [Appenders -> Seq(Record)]
        BY <2>15, <2>d, <3>2 DEF Write, TypeOK
      <3> QED
        BY <2>15, <2>d, <3>3, GotoType, AdvanceType DEF Write, UnlockAppender, TypeOK, PCs
    <2>16. CASE WriteNull(t)
      BY <2>16 DEF WriteNull, TypeOK, Faults
    <2>17. CASE AssignFormatter(t)
      BY <2>17, <2>d, GotoType DEF AssignFormatter, TypeOK, PCs, MaybeFormatter
    <2>18. CASE SetFlag(t)
      <3>1. pc' \in [Threads -> PCs] /\ call' \in [Threads -> Call]
        BY <2>18, ReturnType DEF SetFlag, TypeOK, PCs
      <3> DEFINE b == aFormatter[call[t].a] # NoFormatter
      <3>2. b \in BOOLEAN /\ hasFmt' = [hasFmt EXCEPT ![call[t].a] = b]
        BY <2>18 DEF SetFlag
      <3> HIDE DEF b
      <3>3. hasFmt' \in [Appenders -> BOOLEAN]
        BY <2>d, <3>2 DEF TypeOK
      <3> QED
        <4>1. aOwner' \in [Appenders -> Threads \cup {NoThread}]
          BY <2>18, <2>d DEF SetFlag, UnlockAppender, TypeOK
        <4>2. UNCHANGED <<lOwner, lLevel, aLevel, lFormatter, list, aFormatter, given, out,
                          logged, calls, fault>>
          BY <2>18 DEF SetFlag
        <4>3. reset' = reset
          BY <2>18 DEF SetFlag
        <4> QED
          BY <3>1, <3>3, <4>1, <4>2, <4>3 DEF TypeOK
    <2>19. CASE CallAny(t)
      BY <2>19, CallsType
    <2> QED
      BY <2>1, <2>2, <2>3, <2>4, <2>5, <2>6, <2>7, <2>8, <2>9, <2>10, <2>11, <2>12,
         <2>13, <2>14, <2>15, <2>16, <2>17, <2>18, <2>19, <2>20 DEF Step
  <1> QED
    BY <1>1, <1>2, PTL DEF Spec

-----------------------------------------------------------------------------
(* Threads and mutexes                                                      *)

\* A step of a thread leaves the others where they are.
LEMMA StepLocal ==
  ASSUME TypeOK, NEW t \in Threads, CallAny(t) \/ Step(t), NEW u \in Threads \ {t}
  PROVE  pc'[u] = pc[u] /\ call'[u] = call[u]
  <1>1. CASE CallAny(t)
    BY <1>1 DEF CallAny, CallLog, CallEdit, CallClear, CallSetFormatter, CallToYaml,
                CallAppenderFormatter, SetLevel, SetAppenderLevel, Start, Goto, TypeOK
  <1>2. CASE Step(t)
    BY <1>2 DEF Step, FilterEvent, EnterLogger, CheckFormatter, Push, Erase, ApplyFormatter,
                RejectFormatter, EndLoop, TestFlag, GiveFormatter, Describe, Skip, Offer, Reopen,
                EnterAppender, Write, WriteNull, AssignFormatter, SetFlag,
                Goto, Return, Advance, TypeOK
  <1> QED
    BY <1>1, <1>2

\* What a call puts in its thread; setLevel puts nothing.
LEMMA CallsStart ==
  ASSUME TypeOK, NEW t \in Threads, CallAny(t)
  PROVE  /\ pc[t] = "idle"
         /\ UNCHANGED <<lOwner, aOwner, lFormatter, list, aFormatter, hasFmt, out, fault>>
         /\ \/ pc' = pc /\ call' = call
            \/ /\ \/ pc'[t] = "event" /\ call'[t].op = "log"
                  \/ pc'[t] = "llock" /\ call'[t].op # "LogAppender::setFormatter"
                  \/ /\ pc'[t] = "alock" /\ call'[t].op = "LogAppender::setFormatter"
                     /\ call'[t].f = NoFormatter => reset'
  <1> USE DEF Start, Goto, TypeOK, NoCall, locks
  <1>1. CASE CallLog(t)
    BY <1>1 DEF CallLog
  <1>2. CASE CallEdit(t)
    BY <1>2 DEF CallEdit
  <1>3. CASE CallClear(t)
    BY <1>3 DEF CallClear
  <1>4. CASE CallSetFormatter(t)
    BY <1>4 DEF CallSetFormatter
  <1>5. CASE CallToYaml(t)
    BY <1>5 DEF CallToYaml
  <1>6. CASE CallAppenderFormatter(t)
    <2>1. PICK a \in Appenders, f \in MaybeFormatter :
            /\ Start(t, "alock", [NoCall EXCEPT !.op = "LogAppender::setFormatter", !.a = a, !.f = f])
            /\ reset' = (reset \/ f = NoFormatter)
      BY <1>6 DEF CallAppenderFormatter
    <2>2. /\ pc[t] = "idle" /\ pc'[t] = "alock"
          /\ call'[t].op = "LogAppender::setFormatter" /\ call'[t].f = f
      BY <2>1
    <2>3. f = NoFormatter => reset'
      BY <2>1
    <2> QED
      BY <2>1, <2>2, <2>3
  <1>7. CASE SetLevel(t) \/ SetAppenderLevel(t)
    BY <1>7 DEF SetLevel, SetAppenderLevel
  <1> QED
    BY <1>1, <1>2, <1>3, <1>4, <1>5, <1>6, <1>7 DEF CallAny

LEMMA Advances ==
  ASSUME TypeOK, NEW t \in Threads, Advance(t)
  PROVE  /\ call'[t].op = call[t].op /\ call'[t].l = call[t].l /\ call'[t].a = call[t].a
         /\ call'[t].e = call[t].e /\ call'[t].f = call[t].f
  <1>1. call[t] \in Call
    BY DEF TypeOK
  <1>2. call'[t] = [call[t] EXCEPT !.i = @ + 1]
    BY DEF Advance, TypeOK
  <1> QED
    BY <1>1, <1>2 DEF Call

\* The two steps of Logger::setFormatter at an appender of the list.
LEMMA Tests ==
  ASSUME TypeOK, NEW t \in Threads, TestFlag(t)
  PROVE  /\ pc[t] = "each" /\ call[t].op = "setFormatter" /\ ~AtEnd(t)
         /\ call'[t].op = call[t].op /\ call'[t].l = call[t].l
         /\ pc'[t] = "each" \/ (~hasFmt[Here(t)] /\ pc'[t] = "give")
  <1>1. CASE Advance(t) /\ UNCHANGED pc
    BY <1>1, Advances DEF TestFlag
  <1>2. CASE /\ ~hasFmt[Here(t)] /\ Goto(t, "each", "give")
             /\ call' = [call EXCEPT ![t].a = Here(t)]
    BY <1>2 DEF TestFlag, Goto, TypeOK, Call
  <1> QED
    BY <1>1, <1>2 DEF TestFlag

LEMMA Gives ==
  ASSUME TypeOK, NEW t \in Threads, GiveFormatter(t)
  PROVE  /\ pc[t] = "give" /\ pc'[t] = "each"
         /\ call'[t].op = call[t].op /\ call'[t].l = call[t].l
  BY Advances DEF GiveFormatter, Goto, TypeOK

\* A reset is not forgotten.
LEMMA ResetStays ==
  ASSUME TypeOK, NEW t \in Threads, CallAny(t) \/ Step(t), reset
  PROVE  reset'
  BY DEF CallAny, CallLog, CallEdit, CallClear, CallSetFormatter, CallToYaml,
         CallAppenderFormatter, SetLevel, SetAppenderLevel,
         Step, FilterEvent, EnterLogger, CheckFormatter, Push, Erase, ApplyFormatter,
         RejectFormatter, EndLoop, TestFlag, GiveFormatter, Describe, Skip, Offer, Reopen,
         EnterAppender, Write, WriteNull, AssignFormatter, SetFlag, ghosts

LEMMA StagesInductive ==
  ASSUME TypeOK, Stages, NEW t \in Threads, CallAny(t) \/ Step(t)
  PROVE  Stages'
  <1> DEFINE At(here, op) ==
        /\ here = "event" => op = "log"
        /\ here = "llock" => op # "LogAppender::setFormatter"
        /\ here = "each" => op \in {"log", "toYamlString", "setFormatter"}
        /\ here \in {"apply", "give"} => op = "setFormatter"
        /\ here \in {"check", "push"} => op = "addAppender"
        /\ here = "reopen" => op = "log"
        /\ here \in {"alock", "owned"} => op \in {"log", "addAppender", "LogAppender::setFormatter"}
        /\ here = "flag" => op \in {"addAppender", "LogAppender::setFormatter"}
  <1>0. At(pc[t], call[t].op) /\ call[t] \in Call /\ call[t].op \in Ops
    BY DEF Stages, TypeOK, Call
  <1> SUFFICES At(pc'[t], call'[t].op)
    BY StepLocal DEF Stages
  <1>1. CASE CallAny(t)
    BY <1>0, <1>1, CallsStart
  <1>2. CASE FilterEvent(t) \/ CheckFormatter(t) \/ Push(t) \/ Erase(t) \/ ApplyFormatter(t)
             \/ RejectFormatter(t) \/ EndLoop(t) \/ Reopen(t) \/ EnterAppender(t)
             \/ WriteNull(t) \/ AssignFormatter(t)
    <2>1. CASE FilterEvent(t)
      BY <1>0, <2>1 DEF FilterEvent, Return, TypeOK
    <2>2. CASE CheckFormatter(t)
      BY <1>0, <2>2 DEF CheckFormatter, Goto, TypeOK
    <2>3. CASE Push(t) \/ Erase(t) \/ RejectFormatter(t) \/ EndLoop(t)
      BY <1>0, <2>3 DEF Push, Erase, RejectFormatter, EndLoop, Return, TypeOK
    <2>4. CASE ApplyFormatter(t)
      BY <1>0, <2>4 DEF ApplyFormatter, Goto, TypeOK
    <2>6. CASE Reopen(t)
      BY <1>0, <2>6 DEF Reopen, Goto, TypeOK
    <2>7. CASE EnterAppender(t)
      BY <1>0, <2>7 DEF EnterAppender, Goto, TypeOK
    <2>5. CASE WriteNull(t) \/ AssignFormatter(t)
      BY <1>0, <2>5 DEF WriteNull, AssignFormatter, Goto, TypeOK
    <2> QED
      BY <1>2, <2>1, <2>2, <2>3, <2>4, <2>5, <2>6, <2>7
  <1>3. CASE EnterLogger(t)
    BY <1>0, <1>3 DEF EnterLogger, Goto, Body, TypeOK, Ops
  <1>4. CASE Describe(t) \/ Skip(t)
    BY <1>0, <1>4, Advances DEF Describe, Skip
  <1>8. CASE TestFlag(t) \/ GiveFormatter(t)
    BY <1>0, <1>8, Tests, Gives
  <1>5. CASE Offer(t)
    BY <1>0, <1>5 DEF Offer, Goto, TypeOK, Call
  <1>6. CASE Write(t)
    BY <1>0, <1>6 DEF Write, Goto, Advance, TypeOK, Call
  <1>7. CASE SetFlag(t)
    <2>1. pc[t] = "flag" /\ \/ pc'[t] = "push" /\ call' = call /\ call[t].op = "addAppender"
                            \/ pc'[t] = "idle"
      BY <1>7 DEF SetFlag, Return, TypeOK
    <2> QED
      BY <2>1
  <1> QED
    BY <1>1, <1>2, <1>3, <1>4, <1>5, <1>6, <1>7, <1>8 DEF Step

\* The mutexes are owned by the threads that hold them if a step of one thread
\* gives and takes only its own.
LEMMA LocksByThread ==
  ASSUME TypeOK, LockDiscipline, NEW t \in Threads, CallAny(t) \/ Step(t),
         \A l \in Loggers, u \in Threads \ {t} : lOwner'[l] = u <=> lOwner[l] = u,
         \A a \in Appenders, u \in Threads \ {t} : aOwner'[a] = u <=> aOwner[a] = u,
         \A l \in Loggers : lOwner'[l] = t <=> HoldsLogger(t)' /\ call'[t].l = l,
         \A a \in Appenders : aOwner'[a] = t <=> HoldsAppender(t)' /\ call'[t].a = a
  PROVE  LockDiscipline'
  <1> SUFFICES ASSUME NEW u \in Threads
               PROVE  /\ \A l \in Loggers : lOwner'[l] = u <=> HoldsLogger(u)' /\ call'[u].l = l
                      /\ \A a \in Appenders : aOwner'[a] = u <=> HoldsAppender(u)' /\ call'[u].a = a
    BY DEF LockDiscipline
  <1>1. CASE u = t
    BY <1>1
  <1>2. CASE u # t
    <2>1. pc'[u] = pc[u] /\ call'[u] = call[u]
      BY <1>2, StepLocal
    <2>2. (HoldsLogger(u)' <=> HoldsLogger(u)) /\ (HoldsAppender(u)' <=> HoldsAppender(u))
      BY <2>1 DEF HoldsLogger, HoldsAppender
    <2>3. \A l \in Loggers : lOwner'[l] = u <=> lOwner[l] = u
      BY <1>2
    <2>4. \A a \in Appenders : aOwner'[a] = u <=> aOwner[a] = u
      BY <1>2
    <2>5. \A l \in Loggers : lOwner[l] = u <=> HoldsLogger(u) /\ call[u].l = l
      BY DEF LockDiscipline
    <2>6. \A a \in Appenders : aOwner[a] = u <=> HoldsAppender(u) /\ call[u].a = a
      BY DEF LockDiscipline
    <2> QED
      BY <2>1, <2>2, <2>3, <2>4, <2>5, <2>6
  <1> QED
    BY <1>1, <1>2

\* A step that neither takes nor gives a mutex.
LEMMA LocksStay ==
  ASSUME TypeOK, LockDiscipline, NEW t \in Threads, CallAny(t) \/ Step(t),
         UNCHANGED <<lOwner, aOwner>>, call'[t].l = call[t].l \/ ~HoldsLogger(t),
         call'[t].a = call[t].a \/ ~HoldsAppender(t),
         HoldsLogger(t)' <=> HoldsLogger(t), HoldsAppender(t)' <=> HoldsAppender(t)
  PROVE  LockDiscipline'
  <1>1. \A l \in Loggers : lOwner[l] = t <=> HoldsLogger(t) /\ call[t].l = l
    BY DEF LockDiscipline
  <1>2. \A a \in Appenders : aOwner[a] = t <=> HoldsAppender(t) /\ call[t].a = a
    BY DEF LockDiscipline
  <1>3. \A l \in Loggers : lOwner'[l] = t <=> HoldsLogger(t)' /\ call'[t].l = l
    BY <1>1
  <1>4. \A a \in Appenders : aOwner'[a] = t <=> HoldsAppender(t)' /\ call'[t].a = a
    BY <1>2
  <1> QED
    BY <1>3, <1>4, LocksByThread

\* A call that returns from under its logger's mutex.
LEMMA LocksReturn ==
  ASSUME TypeOK, LockDiscipline, NEW t \in Threads, Step(t),
         UnlockLogger(t), Return(t), UNCHANGED aOwner, HoldsLogger(t), ~HoldsAppender(t)
  PROVE  LockDiscipline'
  <1>1. \A l \in Loggers : lOwner[l] = t <=> call[t].l = l
    BY DEF LockDiscipline
  <1>2. \A a \in Appenders : aOwner[a] # t
    BY DEF LockDiscipline
  <1>3. ~HoldsLogger(t)' /\ ~HoldsAppender(t)'
    BY DEF Return, TypeOK, HoldsLogger, HoldsAppender
  <1>4. \A l \in Loggers : lOwner'[l] = IF l = call[t].l THEN NoThread ELSE lOwner[l]
    BY DEF UnlockLogger, TypeOK
  <1>5. \A l \in Loggers, u \in Threads \ {t} : lOwner'[l] = u <=> lOwner[l] = u
    BY <1>1, <1>4, ThreadAssumption
  <1>6. \A l \in Loggers : lOwner'[l] # t
    BY <1>1, <1>4, ThreadAssumption
  <1> QED
    BY <1>2, <1>3, <1>5, <1>6, LocksByThread

LEMMA LocksInductive ==
  ASSUME TypeOK, LockDiscipline, Stages, NEW t \in Threads, CallAny(t) \/ Step(t)
  PROVE  LockDiscipline'
  <1>c. call[t] \in Call /\ call[t].l \in Loggers /\ call[t].a \in Appenders
    BY DEF TypeOK, Call
  <1>s. LET op == call[t].op IN
          /\ pc[t] = "each" => op \in {"log", "toYamlString", "setFormatter"}
          /\ pc[t] = "llock" => op # "LogAppender::setFormatter"
          /\ pc[t] = "reopen" => op = "log"
          /\ pc[t] = "flag" => op \in {"addAppender", "LogAppender::setFormatter"}
    BY DEF Stages
  <1>l. \A l \in Loggers : lOwner[l] = t <=> HoldsLogger(t) /\ call[t].l = l
    BY DEF LockDiscipline
  <1>a. \A a \in Appenders : aOwner[a] = t <=> HoldsAppender(t) /\ call[t].a = a
    BY DEF LockDiscipline
  <1> USE DEF HoldsLogger, HoldsAppender
  <1>1. CASE CallAny(t)
    BY <1>1, CallsStart, LocksStay
  <1>2. CASE FilterEvent(t)
    <2>1. /\ pc[t] = "event" /\ pc'[t] \in {"llock", "idle"}
          /\ UNCHANGED <<lOwner, aOwner>>
      BY <1>2 DEF FilterEvent, Return, TypeOK, locks
    <2> QED
      BY <2>1, LocksStay
  <1>3. CASE EnterLogger(t)
    <2>1. /\ pc[t] = "llock" /\ pc'[t] \in {"check", "apply", "erase", "each"}
          /\ lOwner[call[t].l] = NoThread
          /\ lOwner' = [lOwner EXCEPT ![call[t].l] = t]
          /\ UNCHANGED <<aOwner, call>>
      BY <1>3 DEF EnterLogger, LockLogger, Goto, Body, TypeOK
    <2>2. \A l \in Loggers : lOwner'[l] = IF l = call[t].l THEN t ELSE lOwner[l]
      BY <2>1 DEF TypeOK
    <2>3. \A l \in Loggers, u \in Threads \ {t} : lOwner'[l] = u <=> lOwner[l] = u
      BY <2>1, <2>2, ThreadAssumption
    <2>4. \A l \in Loggers : lOwner'[l] = t <=> HoldsLogger(t)' /\ call'[t].l = l
      BY <1>l, <2>1, <2>2
    <2>5. \A a \in Appenders : aOwner'[a] = t <=> HoldsAppender(t)' /\ call'[t].a = a
      BY <1>a, <2>1
    <2> QED
      BY <2>1, <2>3, <2>4, <2>5, LocksByThread
  <1>4. CASE CheckFormatter(t)
    <2>1. /\ pc[t] = "check" /\ pc'[t] \in {"alock", "push"}
          /\ UNCHANGED <<lOwner, aOwner, call>>
      BY <1>4 DEF CheckFormatter, Goto, TypeOK, locks
    <2>2. call[t].op = "addAppender"
      BY <2>1 DEF Stages
    <2> QED
      BY <2>1, <2>2, LocksStay
  <1>5. CASE Push(t) \/ Erase(t) \/ RejectFormatter(t) \/ EndLoop(t)
    <2>1. /\ pc[t] \in {"push", "erase", "apply", "each"}
          /\ UnlockLogger(t) /\ Return(t) /\ UNCHANGED aOwner
      BY <1>5 DEF Push, Erase, RejectFormatter, EndLoop
    <2> QED
      BY <1>5, <2>1, LocksReturn DEF Step
  <1>6. CASE ApplyFormatter(t)
    <2>1. pc[t] = "apply" /\ pc'[t] = "each" /\ UNCHANGED <<lOwner, aOwner, call>>
      BY <1>6 DEF ApplyFormatter, Goto, TypeOK, locks
    <2> QED
      BY <2>1, LocksStay
  <1>7. CASE Describe(t) \/ Skip(t)
    <2>1. pc' = pc /\ Advance(t) /\ UNCHANGED <<lOwner, aOwner>>
      BY <1>7 DEF Describe, Skip, locks
    <2> QED
      BY <2>1, Advances, LocksStay
  <1>14. CASE TestFlag(t) \/ GiveFormatter(t)
    <2>1. UNCHANGED <<lOwner, aOwner>>
      BY <1>14 DEF TestFlag, GiveFormatter, locks
    <2>2. pc[t] \in {"each", "give"} /\ pc'[t] \in {"each", "give"} /\ call'[t].l = call[t].l
      BY <1>14, Tests, Gives
    <2> QED
      BY <2>1, <2>2, LocksStay
  <1>8. CASE Offer(t)
    <2>1. /\ pc[t] = "each" /\ pc'[t] \in {"alock", "reopen"}
          /\ UNCHANGED <<lOwner, aOwner>>
      BY <1>8 DEF Offer, Goto, TypeOK, locks
    <2>2. call'[t].l = call[t].l /\ call'[t].op = "log" /\ call[t].op = "log"
      BY <1>8, <1>c DEF Offer, TypeOK, Call
    <2> QED
      BY <2>1, <2>2, LocksStay
  <1>9. CASE Reopen(t)
    <2>1. pc[t] = "reopen" /\ pc'[t] = "alock" /\ UNCHANGED <<lOwner, aOwner, call>>
      BY <1>9 DEF Reopen, Goto, TypeOK, locks
    <2> QED
      BY <2>1, LocksStay
  <1>10. CASE EnterAppender(t)
    <2>1. /\ pc[t] = "alock" /\ pc'[t] = "owned"
          /\ aOwner[call[t].a] = NoThread
          /\ aOwner' = [aOwner EXCEPT ![call[t].a] = t]
          /\ UNCHANGED <<lOwner, call>>
      BY <1>10 DEF EnterAppender, LockAppender, Goto, TypeOK
    <2>2. \A a \in Appenders : aOwner'[a] = IF a = call[t].a THEN t ELSE aOwner[a]
      BY <2>1 DEF TypeOK
    <2>3. \A a \in Appenders, u \in Threads \ {t} : aOwner'[a] = u <=> aOwner[a] = u
      BY <2>1, <2>2, ThreadAssumption
    <2>4. \A l \in Loggers : lOwner'[l] = t <=> HoldsLogger(t)' /\ call'[t].l = l
      BY <1>l, <2>1
    <2>5. \A a \in Appenders : aOwner'[a] = t <=> HoldsAppender(t)' /\ call'[t].a = a
      BY <1>a, <2>1, <2>2
    <2> QED
      BY <2>1, <2>3, <2>4, <2>5, LocksByThread
  <1>11. CASE WriteNull(t)
    BY <1>11, LocksStay DEF WriteNull, locks
  <1>12. CASE AssignFormatter(t)
    <2>1. pc[t] = "owned" /\ pc'[t] = "flag" /\ UNCHANGED <<lOwner, aOwner, call>>
      BY <1>12 DEF AssignFormatter, Goto, TypeOK, locks
    <2> QED
      BY <2>1, LocksStay
  <1>13. CASE Write(t) \/ SetFlag(t)
    <2>1. HoldsAppender(t) /\ UnlockAppender(t) /\ UNCHANGED lOwner
      BY <1>13 DEF Write, SetFlag, Goto
    <2>2. /\ HoldsLogger(t)' <=> HoldsLogger(t)
          /\ HoldsLogger(t) => call'[t].l = call[t].l
          /\ ~HoldsAppender(t)'
      <3>1. CASE Write(t)
        <4>1. /\ pc[t] = "owned" /\ pc'[t] = "each" /\ call[t].op = "log"
              /\ call'[t].l = call[t].l
          BY <3>1, Advances DEF Write, Goto, TypeOK
        <4> QED
          BY <4>1
      <3>2. CASE SetFlag(t)
        <4>1. /\ pc[t] = "flag"
              /\ \/ call[t].op = "addAppender" /\ pc'[t] = "push" /\ call' = call
                 \/ call[t].op # "addAppender" /\ pc'[t] = "idle"
          BY <3>2 DEF SetFlag, Return, TypeOK
        <4> QED
          BY <1>s, <4>1
      <3> QED
        BY <1>13, <3>1, <3>2
    <2>3. \A a \in Appenders : aOwner'[a] = IF a = call[t].a THEN NoThread ELSE aOwner[a]
      BY <2>1 DEF UnlockAppender, TypeOK
    <2>4. \A a \in Appenders, u \in Threads \ {t} : aOwner'[a] = u <=> aOwner[a] = u
      BY <1>a, <2>1, <2>3, ThreadAssumption
    <2>5. \A l \in Loggers : lOwner'[l] = t <=> HoldsLogger(t)' /\ call'[t].l = l
      BY <1>l, <2>1, <2>2
    <2>6. \A a \in Appenders : aOwner'[a] = t <=> HoldsAppender(t)' /\ call'[t].a = a
      BY <1>a, <2>1, <2>2, <2>3, ThreadAssumption
    <2> QED
      BY <2>1, <2>4, <2>5, <2>6, LocksByThread
  <1> QED
    BY <1>1, <1>2, <1>3, <1>4, <1>5, <1>6, <1>7, <1>8, <1>9, <1>10, <1>11, <1>12, <1>13, <1>14
       DEF Step

-----------------------------------------------------------------------------
(* The list of a logger                                                     *)

\* A list changes only under the mutex, and by what addAppender appended.
LEMMA ListSteps ==
  ASSUME TypeOK, NEW t \in Threads, CallAny(t) \/ Step(t)
  PROVE  \/ list' = list
         \/ /\ pc[t] \in {"push", "erase"} /\ pc'[t] = "idle"
            /\ \A l \in Loggers : l # call[t].l => list'[l] = list[l]
            /\ \A l \in Loggers, a \in Appenders : Contains(list'[l], a) =>
                 Contains(list[l], a) \/ (pc[t] = "push" /\ a = call[t].a)
  <1>c. call[t].l \in Loggers /\ call[t].a \in Appenders
    BY DEF TypeOK, Call
  <1>d. \A l \in Loggers : list[l] \in Seq(Appenders)
    BY DEF TypeOK
  <1>1. CASE CallAny(t)
    BY <1>1, CallsStart
  <1>2. CASE Push(t)
    <2>1. pc[t] = "push" /\ pc'[t] = "idle"
      BY <1>2 DEF Push, Return, TypeOK
    <2>2. \A l \in Loggers : list'[l] =
            IF l = call[t].l THEN Append(list[l], call[t].a) ELSE list[l]
      BY <1>2, <1>c DEF Push, TypeOK
    <2>3. ASSUME NEW l \in Loggers, NEW a \in Appenders, Contains(list'[l], a)
          PROVE  Contains(list[l], a) \/ a = call[t].a
      <3>1. \A x : Contains(Append(list[call[t].l], call[t].a), x) =>
                    Contains(list[call[t].l], x) \/ x = call[t].a
        BY <1>c, <1>d, AppendKeeps
      <3> QED
        BY <2>2, <2>3, <3>1
    <2> QED
      BY <2>1, <2>2, <2>3
  <1>3. CASE Erase(t)
    <2>1. pc[t] = "erase" /\ pc'[t] = "idle"
      BY <1>3 DEF Erase, Return, TypeOK
    <2>2. CASE call[t].op = "delAppender"
      <3>1. PICK k \in Stop(list[call[t].l], call[t].a) :
              list' = [list EXCEPT ![call[t].l] = RemoveAt(@, k)]
        BY <1>3, <2>2 DEF Erase
      <3>2. k \in 1 .. Len(list[call[t].l]) + 1
        BY <3>1 DEF Stop
      <3>3. \A l \in Loggers : list'[l] =
              IF l = call[t].l THEN RemoveAt(list[l], k) ELSE list[l]
        BY <1>c, <3>1 DEF TypeOK
      <3>4. ASSUME NEW l \in Loggers, NEW a \in Appenders, Contains(list'[l], a)
            PROVE  Contains(list[l], a)
        <4>1. \A x : Contains(RemoveAt(list[call[t].l], k), x) => Contains(list[call[t].l], x)
          BY <1>c, <1>d, <3>2, RemoveAtKeeps
        <4> QED
          BY <3>3, <3>4, <4>1
      <3> QED
        BY <2>1, <3>3, <3>4
    <2>3. CASE list' = [list EXCEPT ![call[t].l] = <<>>]
      <3>1. \A l \in Loggers : list'[l] = IF l = call[t].l THEN <<>> ELSE list[l]
        BY <1>c, <2>3 DEF TypeOK
      <3>2. \A a : ~Contains(<<>>, a)
        BY DEF Contains
      <3> QED
        BY <2>1, <3>1, <3>2
    <2> QED
      BY <1>3, <2>2, <2>3 DEF Erase
  <1> QED
    BY <1>1, <1>2, <1>3
       DEF Step, FilterEvent, EnterLogger, CheckFormatter, ApplyFormatter, RejectFormatter,
           EndLoop, TestFlag, GiveFormatter, Describe, Skip, Offer, Reopen, EnterAppender,
           Write, WriteNull, AssignFormatter, SetFlag

\* So the list a thread walks does not change under it.
LEMMA ListUnderLock ==
  ASSUME TypeOK, LockDiscipline, NEW t \in Threads, CallAny(t) \/ Step(t),
         NEW u \in Threads \ {t}, HoldsLogger(u)
  PROVE  list'[call[u].l] = list[call[u].l]
  <1>1. call[t].l \in Loggers /\ call[u].l \in Loggers
    BY DEF TypeOK, Call
  <1>2. lOwner[call[u].l] = u
    BY <1>1 DEF LockDiscipline
  <1>3. pc[t] \in {"push", "erase"} => lOwner[call[t].l] = t
    BY <1>1 DEF LockDiscipline, HoldsLogger
  <1> QED
    BY <1>1, <1>2, <1>3, ListSteps

LEMMA CursorInductive ==
  ASSUME TypeOK, LockDiscipline, Stages, Cursor, NEW t \in Threads, CallAny(t) \/ Step(t)
  PROVE  Cursor'
  <1> DEFINE On(u) == pc[u] \in {"reopen", "alock", "owned"} /\ call[u].op = "log"
  <1>0. SUFFICES ASSUME NEW u \in Threads, On(u)' PROVE (~AtEnd(u) /\ Here(u) = call[u].a)'
    BY DEF Cursor
  <1>1. CASE u # t
    <2>1. pc'[u] = pc[u] /\ call'[u] = call[u]
      BY <1>1, StepLocal
    <2>2. On(u) /\ HoldsLogger(u)
      BY <1>0, <2>1 DEF HoldsLogger
    <2>3. list'[call[u].l] = list[call[u].l]
      BY <1>1, <2>2, ListUnderLock
    <2>4. ~AtEnd(u) /\ Here(u) = call[u].a
      BY <2>2 DEF Cursor
    <2> QED
      BY <2>1, <2>3, <2>4 DEF AtEnd, Here
  <1>2. CASE u = t
    <2>0. On(t)'
      BY <1>0, <1>2
    <2>1. CASE Offer(t)
      <3>1. PICK there \in {"alock", "reopen"} :
              ~AtEnd(t) /\ call' = [call EXCEPT ![t].a = Here(t)] /\ list' = list
        BY <2>1 DEF Offer
      <3>2. call[t] \in Call
        BY DEF TypeOK
      <3>3. call'[t].l = call[t].l /\ call'[t].i = call[t].i /\ call'[t].a = Here(t)
        BY <3>1, <3>2 DEF TypeOK, Call
      <3> QED
        BY <1>2, <3>1, <3>3 DEF AtEnd, Here
    <2>2. CASE Reopen(t) \/ EnterAppender(t) \/ WriteNull(t)
      <3>1. On(t) /\ call' = call /\ list' = list
        BY <2>0, <2>2 DEF Reopen, EnterAppender, WriteNull, Goto, TypeOK
      <3> QED
        BY <1>2, <3>1 DEF Cursor, AtEnd, Here
    <2>3. CASE CheckFormatter(t)
      <3>1. call' = call /\ call[t].op = "addAppender"
        BY <2>3 DEF CheckFormatter, Goto, Stages
      <3> QED
        BY <2>0, <3>1
    <2>4. CASE CallAny(t)
      BY <2>0, <2>4, CallsStart
    <2>5. CASE Describe(t) \/ Skip(t)
      BY <2>0, <2>5 DEF Describe, Skip
    <2>8. CASE TestFlag(t) \/ GiveFormatter(t)
      BY <2>0, <2>8, Tests, Gives
    <2>6. CASE FilterEvent(t) \/ Push(t) \/ Erase(t) \/ RejectFormatter(t) \/ EndLoop(t)
               \/ SetFlag(t)
      BY <2>0, <2>6 DEF FilterEvent, Push, Erase, RejectFormatter, EndLoop, SetFlag, Return, TypeOK
    <2>7. CASE EnterLogger(t) \/ ApplyFormatter(t) \/ Write(t) \/ AssignFormatter(t)
      BY <2>0, <2>7 DEF EnterLogger, ApplyFormatter, Write, AssignFormatter, Goto, Body, TypeOK
    <2> QED
      BY <2>1, <2>2, <2>3, <2>4, <2>5, <2>6, <2>7, <2>8 DEF Step
  <1> QED
    BY <1>1, <1>2

-----------------------------------------------------------------------------
(* Formatters, until a thread resets an appender's                          *)

\* The steps that touch m_formatter or m_hasFormatter of an appender.
LEMMA FormatSteps ==
  ASSUME TypeOK, NEW t \in Threads, CallAny(t) \/ Step(t)
  PROVE  \/ UNCHANGED <<aFormatter, hasFmt>>
         \/ GiveFormatter(t) \/ AssignFormatter(t) \/ SetFlag(t)
  BY CallsStart
     DEF Step, FilterEvent, EnterLogger, CheckFormatter, Push, Erase, ApplyFormatter,
         RejectFormatter, EndLoop, TestFlag, Describe, Skip, Offer, Reopen, EnterAppender,
         Write, WriteNull

\* The appender at the iterator of a loop is in the list.
LEMMA HereInList ==
  ASSUME TypeOK, NEW t \in Threads, ~AtEnd(t)
  PROVE  Here(t) \in Appenders /\ Contains(list[call[t].l], Here(t))
  <1>1. list[call[t].l] \in Seq(Appenders) /\ call[t].i \in Nat \ {0}
    BY DEF TypeOK, Call
  <1>2. call[t].i \in 1 .. Len(list[call[t].l])
    BY <1>1 DEF AtEnd
  <1> QED
    BY <1>1, <1>2 DEF Here, Contains

\* Of a logger's appenders, setFormatter finds none without a formatter to give
\* its own to, and log none with a null one.
LEMMA NoneToReach ==
  ASSUME TypeOK, Cursor, Formatted, fault = "none", NEW t \in Threads, CallAny(t) \/ Step(t)
  PROVE  fault' \notin {"null", "torn"} /\ ~GiveFormatter(t) /\ pc'[t] # "give"
  <1>l. call[t].l \in Loggers
    BY DEF TypeOK, Call
  <1>1. ~GiveFormatter(t)
    BY Gives DEF Formatted
  <1>2. ~WriteNull(t)
    <2> SUFFICES ASSUME WriteNull(t) PROVE FALSE
      OBVIOUS
    <2>1. pc[t] = "owned" /\ call[t].op = "log" /\ aFormatter[call[t].a] = NoFormatter
      BY DEF WriteNull
    <2>2. ~AtEnd(t) /\ Here(t) = call[t].a
      BY <2>1 DEF Cursor
    <2> QED
      BY <1>l, <2>1, <2>2, HereInList DEF Formatted
  <1>3. fault' \notin {"null", "torn"}
    BY <1>1, <1>2, CallsStart
       DEF Step, FilterEvent, EnterLogger, CheckFormatter, Push, Erase, ApplyFormatter,
           RejectFormatter, EndLoop, TestFlag, Describe, Skip, Offer, Reopen, EnterAppender,
           Write, AssignFormatter, SetFlag
  <1>4. CASE TestFlag(t)
    <2>1. hasFmt[Here(t)]
      BY <1>4, <1>l, Tests, HereInList DEF Formatted
    <2> QED
      BY <1>1, <1>3, <1>4, <2>1, Tests
  <1>5. CASE ~TestFlag(t)
    <2>1. pc[t] # "give"
      BY DEF Formatted
    <2>2. pc'[t] # "give"
      <3>1. CASE CallAny(t)
        BY <2>1, <3>1, CallsStart
      <3>2. CASE EnterLogger(t)
        BY <3>2 DEF EnterLogger, Goto, Body, TypeOK
      <3>3. CASE FilterEvent(t) \/ CheckFormatter(t) \/ Push(t) \/ Erase(t) \/ ApplyFormatter(t)
                 \/ RejectFormatter(t) \/ EndLoop(t) \/ Describe(t) \/ Skip(t) \/ Offer(t)
        BY <2>1, <3>3
           DEF FilterEvent, CheckFormatter, Push, Erase, ApplyFormatter, RejectFormatter, EndLoop,
               Describe, Skip, Offer, Goto, Return, TypeOK
      <3>4. CASE Reopen(t) \/ EnterAppender(t) \/ Write(t) \/ AssignFormatter(t) \/ SetFlag(t)
        BY <3>4 DEF Reopen, EnterAppender, Write, AssignFormatter, SetFlag, Goto, Return, TypeOK
      <3> QED
        BY <1>1, <1>2, <1>5, <3>1, <3>2, <3>3, <3>4 DEF Step
    <2> QED
      BY <1>1, <1>3, <2>2
  <1> QED
    BY <1>4, <1>5

\* A mutex that a step finds taken and leaves free was released by that step.
LEMMA AppenderFreed ==
  ASSUME TypeOK, NEW t \in Threads, CallAny(t) \/ Step(t),
         NEW a \in Appenders, aOwner'[a] = NoThread
  PROVE  \/ aOwner[a] = NoThread
         \/ (Write(t) \/ SetFlag(t)) /\ a = call[t].a
  <1>1. CASE CallAny(t)
    BY <1>1, CallsStart
  <1>2. CASE EnterAppender(t)
    BY <1>2, ThreadAssumption DEF EnterAppender, LockAppender, TypeOK
  <1>3. CASE Write(t) \/ SetFlag(t)
    BY <1>3 DEF Write, SetFlag, UnlockAppender, TypeOK
  <1> QED
    BY <1>1, <1>2, <1>3
       DEF Step, FilterEvent, EnterLogger, CheckFormatter, Push, Erase, ApplyFormatter,
           RejectFormatter, EndLoop, TestFlag, GiveFormatter, Describe, Skip, Offer, Reopen,
           WriteNull, AssignFormatter, locks

\* How a thread comes to the stages that Formatted speaks of.
LEMMA WaysIn ==
  ASSUME TypeOK, Stages, NEW t \in Threads, CallAny(t) \/ Step(t)
  PROVE  /\ pc'[t] = "push" => \/ SetFlag(t) /\ call' = call
                               \/ /\ CheckFormatter(t) /\ call' = call
                                  /\ aFormatter[call[t].a] # NoFormatter
         /\ pc'[t] = "flag" => AssignFormatter(t) /\ call' = call
         /\ pc'[t] \in {"alock", "owned"} /\ call'[t].op = "LogAppender::setFormatter"
              => \/ call'[t].f = NoFormatter => reset'
                 \/ pc[t] = "alock" /\ call' = call
  <1>1. CASE CallAny(t)
    BY <1>1, CallsStart
  <1>2. CASE Describe(t) \/ Skip(t)
    BY <1>2 DEF Describe, Skip
  <1>10. CASE TestFlag(t) \/ GiveFormatter(t)
    BY <1>10, Tests, Gives
  <1>3. CASE Offer(t)
    <2>1. call[t] \in Call /\ call[t].op = "log" /\ pc'[t] \in {"alock", "reopen"}
      BY <1>3 DEF Offer, Goto, TypeOK
    <2>2. call'[t].op = "log"
      BY <1>3, <2>1 DEF Offer, TypeOK, Call
    <2> QED
      BY <2>1, <2>2
  <1>4. CASE WriteNull(t)
    BY <1>4 DEF WriteNull
  <1>5. CASE CheckFormatter(t)
    <2>1. call[t].op = "addAppender"
      BY <1>5 DEF CheckFormatter, Goto, Stages
    <2> QED
      BY <1>5, <2>1 DEF CheckFormatter, Goto, TypeOK
  <1>6. CASE Reopen(t) \/ EnterAppender(t)
    BY <1>6 DEF Reopen, EnterAppender, Goto, Stages, TypeOK
  <1>7. CASE EnterLogger(t) \/ ApplyFormatter(t)
    BY <1>7 DEF EnterLogger, ApplyFormatter, Goto, Body, TypeOK
  <1>8. CASE FilterEvent(t) \/ Push(t) \/ Erase(t) \/ RejectFormatter(t) \/ EndLoop(t)
    BY <1>8 DEF FilterEvent, Push, Erase, RejectFormatter, EndLoop, Return, TypeOK
  <1>9. CASE Write(t) \/ AssignFormatter(t) \/ SetFlag(t)
    BY <1>9 DEF Write, AssignFormatter, SetFlag, Goto, Return, TypeOK
  <1> QED
    BY <1>1, <1>2, <1>3, <1>4, <1>5, <1>6, <1>7, <1>8, <1>9, <1>10 DEF Step

LEMMA FormattedInductive ==
  ASSUME ~reset', TypeOK, LockDiscipline, Stages, Cursor, Formatted, fault = "none",
         NEW t \in Threads, CallAny(t) \/ Step(t)
  PROVE  Formatted'
  <1> DEFINE c == call[t]
  <1>c. c.l \in Loggers /\ c.a \in Appenders /\ c.f \in MaybeFormatter
    BY DEF TypeOK, Call
  \* Both fields only ever gain: m_formatter a formatter, the flag a TRUE.
  <1>1. \A a \in Appenders : hasFmt[a] => hasFmt'[a]
    <2>1. CASE SetFlag(t)
      <3>1. pc[t] = "flag" /\ hasFmt' = [hasFmt EXCEPT ![c.a] = aFormatter[c.a] # NoFormatter]
        BY <2>1 DEF SetFlag
      <3>2. aFormatter[c.a] # NoFormatter
        BY <3>1 DEF Formatted
      <3>3. \A a \in Appenders : hasFmt'[a] = IF a = c.a THEN aFormatter[c.a] # NoFormatter
                                                        ELSE hasFmt[a]
        BY <3>1 DEF TypeOK
      <3> QED
        BY <3>2, <3>3
    <2>2. CASE ~SetFlag(t)
      BY <2>2, FormatSteps DEF GiveFormatter, AssignFormatter
    <2> QED
      BY <2>1, <2>2
  <1>2. \A a \in Appenders : /\ aFormatter[a] # NoFormatter => aFormatter'[a] # NoFormatter
                             /\ AssignFormatter(t) /\ a = c.a => aFormatter'[a] # NoFormatter
    <2>1. CASE AssignFormatter(t)
      <3>1. /\ pc[t] = "owned" /\ c.op # "log"
            /\ aFormatter' = [aFormatter EXCEPT ![c.a] =
                                IF c.op = "addAppender" THEN lFormatter[c.l] ELSE c.f]
        BY <2>1 DEF AssignFormatter, Goto
      <3>2. c.op = "addAppender" \/ (c.op = "LogAppender::setFormatter" /\ c.f # NoFormatter)
        BY <3>1 DEF Stages, Formatted
      <3>3. lFormatter[c.l] # NoFormatter
        BY <1>c, FormatterAssumption DEF TypeOK
      <3> QED
        BY <3>1, <3>2, <3>3 DEF TypeOK
    <2>2. CASE ~AssignFormatter(t)
      BY <2>2, FormatSteps, NoneToReach DEF SetFlag
    <2> QED
      BY <2>1, <2>2
  <1>3. ASSUME SetFlag(t) PROVE hasFmt'[c.a]
    BY <1>3, <1>c DEF SetFlag, Formatted, TypeOK
  <1>4. ASSUME NEW a \in Appenders, hasFmt'[a] PROVE aFormatter'[a] # NoFormatter
    <2>1. CASE hasFmt[a]
      BY <2>1, <1>2 DEF Formatted
    <2>2. CASE ~hasFmt[a]
      <3>1. SetFlag(t)
        BY <1>4, <2>2, FormatSteps DEF GiveFormatter, AssignFormatter
      <3>2. a = c.a
        BY <1>4, <2>2, <3>1, <1>c DEF SetFlag, TypeOK
      <3> QED
        BY <1>2, <3>1, <3>2 DEF SetFlag, Formatted
    <2> QED
      BY <2>1, <2>2
  <1>5. ASSUME NEW a \in Appenders, aFormatter'[a] # NoFormatter, aOwner'[a] = NoThread
        PROVE  hasFmt'[a]
    <2>1. CASE SetFlag(t) /\ a = c.a
      BY <1>3, <2>1
    <2>2. CASE Write(t) /\ a = c.a
      <3>1. ~AtEnd(t) /\ Here(t) = a
        BY <2>2 DEF Write, Goto, Cursor
      <3>2. hasFmt[a]
        BY <1>c, <3>1, HereInList DEF Formatted
      <3> QED
        BY <1>1, <3>2
    <2>3. CASE aOwner[a] = NoThread
      <3>1. CASE AssignFormatter(t)
        <4>1. aOwner[c.a] = t
          BY <1>c, <3>1 DEF AssignFormatter, Goto, LockDiscipline, HoldsAppender
        <4>2. a # c.a
          BY <2>3, <4>1, ThreadAssumption
        <4>3. aFormatter'[a] = aFormatter[a]
          BY <3>1, <4>2 DEF AssignFormatter, TypeOK
        <4> QED
          BY <1>1, <1>5, <2>3, <4>3 DEF Formatted
      <3>2. CASE ~AssignFormatter(t)
        <4>1. aFormatter'[a] = aFormatter[a]
          BY <3>2, FormatSteps, NoneToReach DEF SetFlag
        <4> QED
          BY <1>1, <1>5, <2>3, <4>1 DEF Formatted
      <3> QED
        BY <3>1, <3>2
    <2> QED
      BY <1>5, <2>1, <2>2, <2>3, AppenderFreed
  <1>6. ASSUME NEW a \in Appenders, NEW l \in Loggers, Contains(list'[l], a)
        PROVE  hasFmt'[a]
    <2>1. Contains(list[l], a) \/ (pc[t] = "push" /\ a = c.a)
      BY <1>6, ListSteps
    <2> QED
      BY <1>1, <1>c, <2>1 DEF Formatted
  <1>7. ASSUME NEW u \in Threads
        PROVE  /\ pc'[u] = "push" => hasFmt'[call'[u].a]
               /\ pc'[u] # "give"
               /\ pc'[u] = "flag" => aFormatter'[call'[u].a] # NoFormatter
               /\ pc'[u] \in {"alock", "owned"} /\ call'[u].op = "LogAppender::setFormatter"
                    => call'[u].f # NoFormatter
    <2>1. CASE u # t
      <3>1. pc'[u] = pc[u] /\ call'[u] = call[u] /\ call[u].a \in Appenders
        BY <2>1, StepLocal DEF TypeOK, Call
      <3> QED
        BY <1>1, <1>2, <3>1 DEF Formatted
    <2>2. CASE u = t
      <3>1. ASSUME pc'[t] = "push" PROVE hasFmt'[call'[t].a]
        <4>1. CASE SetFlag(t) /\ call' = call
          BY <1>3, <4>1
        <4>2. CASE /\ CheckFormatter(t) /\ call' = call
                   /\ aFormatter[c.a] # NoFormatter
          BY <1>1, <1>c, <4>2 DEF CheckFormatter, Formatted
        <4> QED
          BY <3>1, <4>1, <4>2, WaysIn
      <3>2. ASSUME pc'[t] = "flag" PROVE aFormatter'[call'[t].a] # NoFormatter
        BY <1>2, <1>c, <3>2, WaysIn
      <3>3. ASSUME pc'[t] \in {"alock", "owned"}, call'[t].op = "LogAppender::setFormatter"
            PROVE  call'[t].f # NoFormatter
        BY <3>3, WaysIn DEF Formatted
      <3> QED
        BY <2>2, <3>1, <3>2, <3>3, NoneToReach
    <2> QED
      BY <2>1, <2>2
  <1> QED
    BY <1>4, <1>5, <1>6, <1>7 DEF Formatted

-----------------------------------------------------------------------------
\* Every mutex is owned by the thread between its lock and unlock; log is at an
\* entry of the list it walks; until a reset, listed appenders have formatters.
THEOREM Invariant == Spec => []IInv
  <1>1. Init => IInv
    <2> SUFFICES ASSUME Init PROVE IInv
      OBVIOUS
    <2>1. LockDiscipline
      BY ThreadAssumption DEF Init, LockDiscipline, HoldsLogger, HoldsAppender
    <2>2. Stages /\ Cursor
      BY DEF Init, Stages, Cursor
    <2>3. Formatted /\ fault \notin {"null", "torn"}
      <3>1. \A a : ~Contains(<<>>, a)
        BY DEF Contains
      <3> QED
        BY <3>1 DEF Init, Formatted
    <2> QED
      BY <2>1, <2>2, <2>3 DEF IInv
  <1>2. TypeOK /\ IInv /\ [Next]_vars => IInv'
    <2> SUFFICES ASSUME TypeOK, IInv, [Next]_vars PROVE IInv'
      OBVIOUS
    <2>1. CASE UNCHANGED vars
      <3> USE <2>1 DEF vars
      <3>1. LockDiscipline'
        BY DEF IInv, LockDiscipline, HoldsLogger, HoldsAppender
      <3>2. Stages' /\ Cursor'
        BY DEF IInv, Stages, Cursor, AtEnd, Here
      <3>3. ~reset' => Formatted' /\ fault' \notin {"null", "torn"}
        BY DEF IInv, Formatted
      <3> QED
        BY <3>1, <3>2, <3>3 DEF IInv
    <2>2. ASSUME NEW t \in Threads, CallAny(t) \/ Step(t), fault = "none" PROVE IInv'
      <3>1. LockDiscipline'
        BY <2>2, LocksInductive DEF IInv
      <3>2. Stages'
        BY <2>2, StagesInductive DEF IInv
      <3>3. Cursor'
        BY <2>2, CursorInductive DEF IInv
      <3>4. ~reset' => Formatted' /\ fault' \notin {"null", "torn"}
        BY <2>2, ResetStays, FormattedInductive, NoneToReach DEF IInv
      <3> QED
        BY <3>1, <3>2, <3>3, <3>4 DEF IInv
    <2> QED
      BY <2>1, <2>2 DEF Next
  <1> QED
    BY <1>1, <1>2, TypeCorrect, PTL DEF Spec

\* Until a thread resets an appender's formatter, log, setFormatter and
\* addAppender meet no null formatter and assign no m_formatter that another
\* thread is using.
THEOREM FormattersSafe == Spec => []NoCrash
  <1>1. IInv => NoCrash
    BY DEF IInv, NoCrash
  <1> QED
    BY <1>1, Invariant, PTL

\* addAppender always leaves m_hasFormatter set, so until a reset
\* Logger::setFormatter reaches no appender that is in a list.
THEOREM NeverFollows == Spec => []AttachedNeverFollows
  <1>1. IInv => AttachedNeverFollows
    BY DEF IInv, Formatted, AttachedNeverFollows
  <1> QED
    BY <1>1, Invariant, PTL

\* A logger writes only to appenders that are in its list at that moment.
THEOREM OnlyAttached == Spec => WritesToAttached
  <1>1. TypeOK /\ IInv /\ [Next]_vars
          => \A a \in Appenders : Len(out'[a]) > Len(out[a]) => Contains(list[Last(out'[a]).l], a)
    <2> SUFFICES ASSUME TypeOK, IInv, [Next]_vars, NEW a \in Appenders, Len(out'[a]) > Len(out[a])
                 PROVE  Contains(list[Last(out'[a]).l], a)
      OBVIOUS
    <2>0. Len(out[a]) \in Nat
      BY DEF TypeOK
    <2>1. out' # out
      BY <2>0
    <2>2. PICK t \in Threads : CallAny(t) \/ Step(t)
      BY <2>1 DEF Next, vars
    <2>3. Write(t)
      BY <2>1, <2>2, CallsStart
         DEF Step, FilterEvent, EnterLogger, CheckFormatter, Push, Erase, ApplyFormatter,
             RejectFormatter, EndLoop, TestFlag, GiveFormatter, Describe, Skip, Offer, Reopen,
             EnterAppender, WriteNull, AssignFormatter, SetFlag
    <2> DEFINE r == [e |-> call[t].e, l |-> call[t].l, f |-> aFormatter[call[t].a]]
    <2>4. /\ pc[t] = "owned" /\ call[t].op = "log" /\ aFormatter[call[t].a] # NoFormatter
          /\ out' = [out EXCEPT ![call[t].a] = Append(@, r)]
      BY <2>3 DEF Write, Goto
    <2>5. r \in Record
      BY <2>4 DEF TypeOK, Call, Record, MaybeFormatter
    <2>6. a = call[t].a /\ out'[a] = Append(out[a], r)
      BY <2>0, <2>4 DEF TypeOK
    <2>7. Last(out'[a]) = r
      BY <2>5, <2>6, AppendProperties DEF TypeOK, Last
    <2>8. ~AtEnd(t) /\ Here(t) = a
      BY <2>4, <2>6 DEF IInv, Cursor
    <2> QED
      BY <2>7, <2>8, HereInList
  <1> QED
    BY <1>1, TypeCorrect, Invariant, PTL DEF Spec, WritesToAttached
-----------------------------------------------------------------------------
(* Deadlock                                                                 *)

\* Who owns an appender waits for nobody; if no appender is owned, who owns a
\* logger waits for nobody; if no mutex is owned, nobody waits.
THEOREM DeadlockFree == Spec => []NoDeadlock
  <1>1. TypeOK /\ IInv => NoDeadlock
    <2> SUFFICES ASSUME TypeOK, IInv, NEW u \in Threads, pc[u] # "idle",
                        \A t \in Threads : pc[t] # "idle" => Blocked(t)
                 PROVE  FALSE
      BY DEF NoDeadlock
    <2>1. ASSUME NEW a \in Appenders PROVE aOwner[a] = NoThread
      <3>1. aOwner[a] \in Threads => HoldsAppender(aOwner[a])
        BY DEF IInv, LockDiscipline
      <3>2. \A t \in Threads : ~HoldsAppender(t)
        BY DEF HoldsAppender, Blocked
      <3> QED
        BY <3>1, <3>2 DEF TypeOK
    <2>2. ASSUME NEW t \in Threads, Blocked(t) PROVE pc[t] = "llock" /\ lOwner[call[t].l] # NoThread
      <3>1. call[t].a \in Appenders
        BY DEF TypeOK, Call
      <3> QED
        BY <2>1, <2>2, <3>1 DEF Blocked, Appenders
    <2>3. lOwner[call[u].l] # NoThread /\ call[u].l \in Loggers
      BY <2>2 DEF TypeOK, Call
    <2>4. PICK v \in Threads : lOwner[call[u].l] = v
      BY <2>3 DEF TypeOK
    <2>5. HoldsLogger(v)
      BY <2>3, <2>4 DEF IInv, LockDiscipline
    <2>6. pc[v] \notin {"idle", "llock"}
      BY <2>5 DEF HoldsLogger
    <2> QED
      BY <2>2, <2>6
  <1> QED
    BY <1>1, TypeCorrect, Invariant, PTL

-----------------------------------------------------------------------------
(* Events                                                                   *)

\* What a step does to the event its thread has in hand.
LEMMA LogSteps ==
  ASSUME TypeOK, Stages, NEW t \in Threads, CallAny(t) \/ Step(t)
  PROVE  \/ ~Logging(t)' /\ UNCHANGED <<logged, out>>
         \/ /\ CallLog(t) /\ Logging(t)' /\ ~HoldsLogger(t)'
            /\ call'[t].i = 1 /\ call'[t].e \notin logged
            /\ logged' = logged \cup {call'[t].e} /\ out' = out
         \/ /\ Logging(t) /\ Logging(t)' /\ (HoldsLogger(t) => HoldsLogger(t)')
            /\ call'[t].e = call[t].e /\ call'[t].l = call[t].l /\ logged' = logged
            /\ \/ out' = out /\ call'[t].i = call[t].i
               \/ Skip(t) /\ out' = out
               \/ Write(t)
  <1>c. call[t] \in Call
    BY DEF TypeOK
  <1> USE DEF Logging
  <1>1. CASE CallLog(t)
    <2>1. PICK l \in Loggers, e \in Events \ logged :
            /\ logged' = logged \cup {e}
            /\ Start(t, "event", [NoCall EXCEPT !.op = "log", !.l = l, !.e = e])
      BY <1>1 DEF CallLog
    <2>2. pc'[t] = "event" /\ call'[t].op = "log" /\ call'[t].e = e /\ call'[t].i = 1
          /\ out' = out
      BY <2>1 DEF Start, Goto, NoCall, TypeOK
    <2> QED
      BY <1>1, <2>1, <2>2 DEF HoldsLogger
  <1>2. CASE CallAny(t) /\ ~CallLog(t)
    <2>1. CASE CallEdit(t)
      BY <2>1 DEF CallEdit, Start, Goto, NoCall, TypeOK
    <2>2. CASE CallClear(t)
      BY <2>2 DEF CallClear, Start, Goto, NoCall, TypeOK
    <2>3. CASE CallSetFormatter(t)
      BY <2>3 DEF CallSetFormatter, Start, Goto, NoCall, TypeOK
    <2>4. CASE CallToYaml(t)
      BY <2>4 DEF CallToYaml, Start, Goto, NoCall, TypeOK
    <2>5. CASE CallAppenderFormatter(t)
      BY <2>5 DEF CallAppenderFormatter, Start, Goto, NoCall, TypeOK
    <2>6. CASE SetLevel(t) \/ SetAppenderLevel(t)
      BY <2>6 DEF SetLevel, SetAppenderLevel
    <2> QED
      BY <1>2, <2>1, <2>2, <2>3, <2>4, <2>5, <2>6 DEF CallAny
  <1>3. CASE FilterEvent(t) \/ EnterLogger(t) \/ Reopen(t) \/ EnterAppender(t)
    <2>1. CASE FilterEvent(t)
      BY <2>1 DEF FilterEvent, Return, Stages, TypeOK, ghosts, HoldsLogger
    <2>2. CASE EnterLogger(t)
      BY <2>2 DEF EnterLogger, Goto, Body, Stages, TypeOK, ghosts, HoldsLogger
    <2>3. CASE Reopen(t) \/ EnterAppender(t)
      BY <2>3 DEF Reopen, EnterAppender, Goto, Stages, TypeOK, ghosts, HoldsLogger
    <2> QED
      BY <1>3, <2>1, <2>2, <2>3
  <1>4. CASE Push(t) \/ Erase(t) \/ RejectFormatter(t) \/ EndLoop(t)
    BY <1>4 DEF Push, Erase, RejectFormatter, EndLoop, Return, TypeOK, ghosts
  <1>5. CASE CheckFormatter(t) \/ ApplyFormatter(t) \/ AssignFormatter(t) \/ SetFlag(t)
    <2>1. CASE CheckFormatter(t)
      BY <2>1 DEF CheckFormatter, Goto, Stages, ghosts
    <2>2. CASE ApplyFormatter(t)
      BY <2>2 DEF ApplyFormatter, Goto, Stages, ghosts
    <2>3. CASE AssignFormatter(t)
      BY <2>3 DEF AssignFormatter, ghosts
    <2>4. CASE SetFlag(t)
      BY <2>4 DEF SetFlag, Return, Stages, TypeOK, ghosts
    <2> QED
      BY <1>5, <2>1, <2>2, <2>3, <2>4
  <1>6. CASE TestFlag(t) \/ GiveFormatter(t) \/ Describe(t)
    <2>1. UNCHANGED <<logged, out>>
      BY <1>6 DEF TestFlag, GiveFormatter, Describe, ghosts
    <2>2. call'[t].op # "log"
      <3>1. CASE TestFlag(t)
        BY <3>1, Tests
      <3>2. CASE GiveFormatter(t)
        BY <3>2, Gives DEF Stages
      <3>3. CASE Describe(t)
        BY <3>3, Advances DEF Describe
      <3> QED
        BY <1>6, <3>1, <3>2, <3>3
    <2> QED
      BY <2>1, <2>2
  <1>7. CASE Skip(t)
    BY <1>7, Advances DEF Skip, ghosts, HoldsLogger
  <1>8. CASE Offer(t)
    <2>1. /\ pc[t] = "each" /\ pc'[t] \in {"alock", "reopen"} /\ call[t].op = "log"
          /\ call' = [call EXCEPT ![t].a = Here(t)]
      BY <1>8 DEF Offer, Goto, TypeOK
    <2>2. /\ call'[t].op = "log" /\ call'[t].e = call[t].e
          /\ call'[t].l = call[t].l /\ call'[t].i = call[t].i
      BY <1>c, <2>1 DEF TypeOK, Call
    <2> QED
      BY <1>8, <2>1, <2>2 DEF Offer, ghosts, HoldsLogger
  <1>9. CASE Write(t)
    <2>1. pc[t] = "owned" /\ pc'[t] = "each" /\ call[t].op = "log" /\ logged' = logged
      BY <1>9 DEF Write, Goto, TypeOK, ghosts
    <2>2. call'[t].op = "log" /\ call'[t].e = call[t].e /\ call'[t].l = call[t].l
      BY <1>9, <2>1, Advances DEF Write
    <2> QED
      BY <1>9, <2>1, <2>2 DEF HoldsLogger
  <1>10. CASE WriteNull(t)
    BY <1>10 DEF WriteNull, ghosts, HoldsLogger
  <1> QED
    BY <1>1, <1>2, <1>3, <1>4, <1>5, <1>6, <1>7, <1>8, <1>9, <1>10 DEF Step

\* What Write does to the appender that log is at.
LEMMA WriteAppends ==
  ASSUME TypeOK, NEW t \in Threads, Write(t)
  PROVE  LET a == call[t].a  n == Len(out[a]) + 1 IN
         /\ a \in Appenders /\ Logging(t) /\ HoldsLogger(t)
         /\ \A b \in Appenders \ {a} : out'[b] = out[b]
         /\ DOMAIN out[a] = 1 .. n - 1 /\ n \in Nat /\ DOMAIN out'[a] = 1 .. n
         /\ \A i \in 1 .. n - 1 : out'[a][i] = out[a][i]
         /\ out'[a][n].e = call[t].e /\ out'[a][n].l = call[t].l
  <1> DEFINE a == call[t].a
             r == [e |-> call[t].e, l |-> call[t].l, f |-> aFormatter[a]]
  <1>1. /\ pc[t] = "owned" /\ call[t].op = "log" /\ aFormatter[a] # NoFormatter
        /\ out' = [out EXCEPT ![a] = Append(@, r)]
    BY DEF Write, Goto
  <1>2. a \in Appenders /\ r \in Record
    BY <1>1 DEF TypeOK, Call, Record, MaybeFormatter
  <1>3. out[a] \in Seq(Record) /\ out'[a] = Append(out[a], r)
        /\ \A b \in Appenders \ {a} : out'[b] = out[b]
    BY <1>1, <1>2 DEF TypeOK
  <1>4. Len(out[a]) \in Nat /\ DOMAIN out[a] = 1 .. Len(out[a])
    BY <1>3, LenProperties
  <1>5. /\ DOMAIN Append(out[a], r) = 1 .. Len(out[a]) + 1
        /\ \A i \in 1 .. Len(out[a]) : Append(out[a], r)[i] = out[a][i]
        /\ Append(out[a], r)[Len(out[a]) + 1] = r
    <2>1. Append(out[a], r) \in Seq(Record) /\ Len(Append(out[a], r)) = Len(out[a]) + 1
      BY <1>2, <1>3, AppendProperties
    <2> QED
      BY <1>2, <1>3, <2>1, AppendProperties, LenProperties
  <1>6. r.e = call[t].e /\ r.l = call[t].l
    OBVIOUS
  <1>7. Logging(t) /\ HoldsLogger(t)
    BY <1>1 DEF Logging, HoldsLogger
  <1> HIDE DEF r
  <1> QED
    BY <1>2, <1>3, <1>4, <1>5, <1>6, <1>7

\* A record is an old one, or the last one, which t has just written.
LEMMA Records ==
  ASSUME TypeOK, Stages, NEW t \in Threads, CallAny(t) \/ Step(t),
         NEW a \in Appenders, NEW i \in DOMAIN out'[a]
  PROVE  /\ i \in Nat
         /\ \/ i \in DOMAIN out[a] /\ out'[a][i] = out[a][i]
            \/ /\ Write(t) /\ Logging(t) /\ HoldsLogger(t)
               /\ out'[a][i].e = call[t].e /\ out'[a][i].l = call[t].l
               /\ \A j \in DOMAIN out'[a] : j <= i
  <1>1. DOMAIN out[a] = 1 .. Len(out[a]) /\ Len(out[a]) \in Nat
    BY DEF TypeOK
  <1>2. CASE Write(t)
    <2>1. CASE a = call[t].a
      <3> DEFINE n == Len(out[a]) + 1
      <3>1. /\ Logging(t) /\ HoldsLogger(t)
            /\ DOMAIN out'[a] = 1 .. n
            /\ \A k \in 1 .. n - 1 : out'[a][k] = out[a][k]
            /\ out'[a][n].e = call[t].e /\ out'[a][n].l = call[t].l
        BY <1>2, <2>1, WriteAppends
      <3>2. i \in 1 .. n - 1 \/ i = n
        BY <1>1, <3>1
      <3> QED
        BY <1>1, <1>2, <3>1, <3>2
    <2>2. CASE a # call[t].a
      BY <1>1, <1>2, <2>2, WriteAppends
    <2> QED
      BY <2>1, <2>2
  <1>3. CASE ~Write(t)
    BY <1>1, <1>3, LogSteps
  <1> QED
    BY <1>2, <1>3

\* A thread that has an event in hand after a step had it before, or has just
\* made it; the others are where they were.
LEMMA Hands ==
  ASSUME TypeOK, Stages, NEW t \in Threads, CallAny(t) \/ Step(t), NEW u \in Threads, Logging(u)'
  PROVE  \/ /\ Logging(u) /\ call'[u].e = call[u].e /\ call'[u].l = call[u].l
            /\ HoldsLogger(u) => HoldsLogger(u)'
         \/ u = t /\ call'[u].e \notin logged /\ logged' = logged \cup {call'[u].e} /\ out' = out
  <1>1. CASE u = t
    BY <1>1, LogSteps
  <1>2. CASE u # t
    <2>1. pc'[u] = pc[u] /\ call'[u] = call[u]
      BY <1>2, StepLocal
    <2> QED
      BY <2>1 DEF Logging, HoldsLogger
  <1> QED
    BY <1>1, <1>2

LEMMA OneHandInductive ==
  ASSUME TypeOK, Stages, OneHand, NEW t \in Threads, CallAny(t) \/ Step(t)
  PROVE  OneHand'
  <1>1. logged \subseteq logged'
    BY LogSteps
  <1>2. ASSUME NEW u \in Threads, Logging(u)' PROVE call'[u].e \in logged'
    BY <1>1, <1>2, Hands DEF OneHand
  <1>3. ASSUME NEW u \in Threads, NEW v \in Threads, Logging(u)', Logging(v)',
               call'[u].e = call'[v].e
        PROVE  u = v
    <2>1. CASE Logging(u) /\ call'[u].e = call[u].e
      <3>1. call[u].e \in logged
        BY <2>1 DEF OneHand
      <3> QED
        BY <1>3, <2>1, <3>1, Hands DEF OneHand
    <2>2. CASE u = t /\ call'[u].e \notin logged
      <3>1. Logging(v) /\ call'[v].e = call[v].e => call'[v].e \in logged
        BY DEF OneHand
      <3> QED
        BY <1>3, <2>2, <3>1, Hands
    <2> QED
      BY <1>3, <2>1, <2>2, Hands
  <1>4. ASSUME NEW a \in Appenders, NEW i \in DOMAIN out'[a]
        PROVE  /\ out'[a][i].e \in logged'
               /\ \A u \in Threads : Logging(u)' /\ call'[u].e = out'[a][i].e =>
                    HoldsLogger(u)' /\ call'[u].l = out'[a][i].l
    <2>1. CASE i \in DOMAIN out[a] /\ out'[a][i] = out[a][i]
      <3>1. out[a][i].e \in logged
        BY <2>1 DEF OneHand
      <3>2. ASSUME NEW u \in Threads, Logging(u)', call'[u].e = out'[a][i].e
            PROVE  HoldsLogger(u)' /\ call'[u].l = out'[a][i].l
        BY <2>1, <3>1, <3>2, Hands DEF OneHand
      <3> QED
        BY <1>1, <2>1, <3>1, <3>2
    <2>2. CASE /\ Write(t) /\ Logging(t) /\ HoldsLogger(t)
               /\ out'[a][i].e = call[t].e /\ out'[a][i].l = call[t].l
      <3>1. call[t].e \in logged
        BY <2>2 DEF OneHand
      <3>2. ASSUME NEW u \in Threads, Logging(u)', call'[u].e = out'[a][i].e
            PROVE  HoldsLogger(u)' /\ call'[u].l = out'[a][i].l
        <4>1. Logging(u) /\ call'[u].e = call[u].e /\ call'[u].l = call[u].l
              /\ (HoldsLogger(u) => HoldsLogger(u)')
          BY <2>2, <3>1, <3>2, Hands
        <4>2. u = t
          BY <2>2, <3>2, <4>1 DEF OneHand
        <4> QED
          BY <2>2, <4>1, <4>2
      <3> QED
        BY <1>1, <2>2, <3>1, <3>2
    <2> QED
      BY <2>1, <2>2, Records
  <1> QED
    BY <1>2, <1>3, <1>4 DEF OneHand

\* Two threads do not hold one logger.
LEMMA OneHolder ==
  ASSUME TypeOK, LockDiscipline, NEW t \in Threads, NEW u \in Threads,
         HoldsLogger(t), HoldsLogger(u), call[t].l = call[u].l
  PROVE  t = u
  <1>1. call[t].l \in Loggers
    BY DEF TypeOK, Call
  <1> QED
    BY <1>1 DEF LockDiscipline

LEMMA PastInductive ==
  ASSUME TypeOK, LockDiscipline, Stages, OneHand, Past, NEW t \in Threads, CallAny(t) \/ Step(t)
  PROVE  Past'
  <1> SUFFICES ASSUME NEW a \in Appenders, NEW i \in DOMAIN out'[a], NEW j \in DOMAIN out'[a],
                      i < j, out'[a][i].l = out'[a][j].l, out'[a][i].e # out'[a][j].e,
                      NEW u \in Threads, Logging(u)', call'[u].e = out'[a][i].e
               PROVE  FALSE
    BY DEF Past
  <1>1. i \in Nat /\ j \in Nat /\ i \in DOMAIN out[a] /\ out'[a][i] = out[a][i]
    BY Records
  <1>2. Logging(u) /\ call'[u].e = call[u].e /\ call[u].e = out[a][i].e
    BY <1>1, Hands DEF OneHand
  <1>3. CASE j \in DOMAIN out[a] /\ out'[a][j] = out[a][j]
    BY <1>1, <1>2, <1>3 DEF Past
  <1>4. CASE Write(t) /\ HoldsLogger(t) /\ out'[a][j].e = call[t].e /\ out'[a][j].l = call[t].l
    <2>1. HoldsLogger(u) /\ call[u].l = call[t].l
      BY <1>1, <1>2, <1>4 DEF OneHand
    <2>2. u = t
      BY <1>4, <2>1, OneHolder
    <2> QED
      BY <1>1, <1>2, <1>4, <2>2
  <1> QED
    BY <1>3, <1>4, Records

LEMMA OneLoggerInductive ==
  ASSUME TypeOK, Stages, OneHand, OneLogger, NEW t \in Threads, CallAny(t) \/ Step(t)
  PROVE  OneLogger'
  <1> SUFFICES ASSUME NEW a \in Appenders, NEW b \in Appenders,
                      NEW i \in DOMAIN out'[a], NEW j \in DOMAIN out'[b],
                      out'[a][i].e = out'[b][j].e
               PROVE  out'[a][i].l = out'[b][j].l
    BY DEF OneLogger
  <1> DEFINE Old(x, k) == k \in DOMAIN out[x] /\ out'[x][k] = out[x][k]
             New(x, k) == Logging(t) /\ out'[x][k].e = call[t].e /\ out'[x][k].l = call[t].l
  <1>1. (Old(a, i) \/ New(a, i)) /\ (Old(b, j) \/ New(b, j))
    BY Records
  <1>2. CASE Old(a, i) /\ Old(b, j)
    BY <1>2 DEF OneLogger
  <1>3. CASE New(a, i) /\ New(b, j)
    BY <1>3
  <1>4. CASE Old(a, i) /\ New(b, j)
    BY <1>4 DEF OneHand
  <1>5. CASE New(a, i) /\ Old(b, j)
    <2>1. Logging(t) /\ j \in DOMAIN out[b] /\ call[t].e = out[b][j].e
      BY <1>5
    <2>2. call[t].l = out[b][j].l
      BY <2>1 DEF OneHand
    <2> QED
      BY <1>5, <2>2
  <1> QED
    BY <1>1, <1>2, <1>3, <1>4, <1>5

LEMMA SameOrderInductive ==
  ASSUME TypeOK, Stages, OneHand, Past, OneLogger, SameOrder,
         NEW t \in Threads, CallAny(t) \/ Step(t)
  PROVE  SameOrder'
  <1> SUFFICES ASSUME NEW a \in Appenders, NEW b \in Appenders,
                      NEW i \in DOMAIN out'[a], NEW j \in DOMAIN out'[a],
                      NEW m \in DOMAIN out'[b], NEW n \in DOMAIN out'[b],
                      i < j, m < n, out'[a][i].l = out'[a][j].l, out'[a][i].e # out'[a][j].e,
                      out'[a][i].e = out'[b][n].e, out'[a][j].e = out'[b][m].e
               PROVE  FALSE
    BY DEF SameOrder
  <1> DEFINE Old(x, k) == k \in DOMAIN out[x] /\ out'[x][k] = out[x][k]
             New(x, k) == Logging(t) /\ out'[x][k].e = call[t].e /\ out'[x][k].l = call[t].l
  <1>1. Old(a, i) /\ Old(b, m) /\ (Old(a, j) \/ New(a, j)) /\ (Old(b, n) \/ New(b, n))
    BY Records
  <1>2. CASE Old(a, j) /\ Old(b, n)
    BY <1>1, <1>2 DEF SameOrder
  <1>3. CASE New(b, n)
    <2>1. Old(a, j)
      BY <1>1, <1>3
    <2> QED
      BY <1>1, <1>3, <2>1 DEF Past
  <1>4. CASE New(a, j) /\ Old(b, n)
    <2>1. out[b][m].e = call[t].e /\ out[b][m].l = call[t].l
      BY <1>1, <1>4 DEF OneHand
    <2>2. out[b][n].l = call[t].l
      BY <1>1, <1>4 DEF OneLogger
    <2> QED
      BY <1>1, <1>4, <2>1, <2>2 DEF Past
  <1> QED
    BY <1>1, <1>2, <1>3, <1>4

\* Of an event that no thread had in hand there are no copies.
LEMMA NoCopies ==
  ASSUME OneHand, NEW e, e \notin logged, NEW a \in Appenders
  PROVE  Copies(a, e) = {}
  BY DEF OneHand, Copies

LEMMA CopiesFinite ==
  ASSUME TypeOK, NEW a \in Appenders, NEW e
  PROVE  IsFiniteSet(Copies(a, e))
  <1>1. IsFiniteSet(1 .. Len(out[a]))
    BY FS_Interval DEF TypeOK
  <1>2. Copies(a, e) \subseteq 1 .. Len(out[a])
    BY DEF Copies, TypeOK
  <1> QED
    BY <1>1, <1>2, FS_Subset

LEMMA PassedFinite ==
  ASSUME TypeOK, NEW t \in Threads, NEW a
  PROVE  IsFiniteSet(Passed(t, a))
  <1>1. call[t].i \in Nat
    BY DEF TypeOK, Call
  <1>2. IsFiniteSet(1 .. call[t].i - 1)
    BY <1>1, FS_Interval
  <1>3. Passed(t, a) \subseteq 1 .. call[t].i - 1
    BY DEF Passed
  <1> QED
    BY <1>2, <1>3, FS_Subset

\* A step that does not write e leaves its copies alone.
LEMMA CopiesStay ==
  ASSUME TypeOK, NEW t \in Threads, NEW a \in Appenders, NEW e,
         out' = out \/ (Write(t) /\ (e # call[t].e \/ a # call[t].a))
  PROVE  {k \in DOMAIN out'[a] : out'[a][k].e = e} = Copies(a, e)
  <1>1. CASE out' = out
    BY <1>1 DEF Copies
  <1>2. CASE Write(t) /\ a # call[t].a
    BY <1>2, WriteAppends DEF Copies
  <1>3. CASE Write(t) /\ a = call[t].a /\ e # call[t].e
    <2> DEFINE n == Len(out[a]) + 1
    <2>1. /\ n \in Nat /\ DOMAIN out[a] = 1 .. n - 1 /\ DOMAIN out'[a] = 1 .. n
          /\ \A k \in 1 .. n - 1 : out'[a][k] = out[a][k]
          /\ out'[a][n].e # e
      BY <1>3, WriteAppends
    <2>2. \A k \in 1 .. n : k \in 1 .. n - 1 \/ k = n
      BY <2>1
    <2> QED
      BY <2>1, <2>2 DEF Copies
  <1> QED
    BY <1>1, <1>2, <1>3

\* Write makes one copy more, of the entry that the iterator passes.
LEMMA WriteCounts ==
  ASSUME TypeOK, LockDiscipline, Stages, Cursor, NEW t \in Threads, Write(t),
         NEW a \in Appenders,
         Cardinality(Copies(a, call[t].e)) = Cardinality(Passed(t, a))
  PROVE  Cardinality(Copies(a, call[t].e)') = Cardinality(Passed(t, a)')
  <1> DEFINE c == call[t]
  <1>1. /\ c.i \in Nat \ {0} /\ call'[t].i = c.i + 1 /\ call'[t].l = c.l /\ list' = list
        /\ call'[t].e = c.e /\ list[c.l][c.i] = c.a
    <2>1. c \in Call /\ call' = [call EXCEPT ![t].i = @ + 1] /\ list' = list
      BY DEF Write, Advance, TypeOK
    <2>2. call'[t].i = c.i + 1 /\ call'[t].l = c.l /\ call'[t].e = c.e /\ c.i \in Nat \ {0}
      BY <2>1 DEF TypeOK, Call
    <2> QED
      BY <2>1, <2>2 DEF Write, Goto, Cursor, Here
  <1>2. Passed(t, a)' = IF a = c.a THEN Passed(t, a) \cup {c.i} ELSE Passed(t, a)
    <2>1. \A k : k \in 1 .. c.i + 1 - 1 <=> k \in 1 .. c.i - 1 \/ k = c.i
      BY <1>1
    <2>2. \A k : k \in Passed(t, a)' <=> k \in 1 .. c.i + 1 - 1 /\ list[c.l][k] = a
      BY <1>1 DEF Passed
    <2>3. \A k : k \in Passed(t, a)' <=> k \in Passed(t, a) \/ (k = c.i /\ a = c.a)
      BY <1>1, <2>1, <2>2 DEF Passed
    <2> QED
      BY <2>3
  <1>3. c.i \notin Passed(t, a)
    BY <1>1 DEF Passed
  <1>4. Copies(a, call[t].e)' = {k \in DOMAIN out'[a] : out'[a][k].e = c.e}
    BY <1>1 DEF Copies
  <1>5. CASE a # c.a
    BY <1>2, <1>4, <1>5, CopiesStay
  <1>6. CASE a = c.a
    <2> DEFINE n == Len(out[a]) + 1
    <2>1. /\ n \in Nat /\ DOMAIN out[a] = 1 .. n - 1 /\ DOMAIN out'[a] = 1 .. n
          /\ \A k \in 1 .. n - 1 : out'[a][k] = out[a][k]
          /\ out'[a][n].e = c.e
      BY <1>6, WriteAppends
    <2>2. \A k : k \in 1 .. n <=> k \in 1 .. n - 1 \/ k = n
      BY <2>1
    <2>3. Copies(a, call[t].e)' = Copies(a, c.e) \cup {n}
      BY <1>4, <2>1, <2>2 DEF Copies
    <2>4. n \notin Copies(a, c.e)
      BY <2>1 DEF Copies
    <2>5. IsFiniteSet(Copies(a, c.e)) /\ IsFiniteSet(Passed(t, a))
      BY CopiesFinite, PassedFinite
    <2>6. Cardinality(Copies(a, call[t].e)') = Cardinality(Copies(a, c.e)) + 1
      BY <2>3, <2>4, <2>5, FS_AddElement
    <2>7. Cardinality(Passed(t, a)') = Cardinality(Passed(t, a)) + 1
      BY <1>2, <1>3, <1>6, <2>5, FS_AddElement
    <2> QED
      BY <2>6, <2>7
  <1> QED
    BY <1>5, <1>6

\* Of two threads that are logging, the one does not write the other's event.
LEMMA OtherCounts ==
  ASSUME TypeOK, TypeOK', LockDiscipline, Stages, OneHand, Progress,
         NEW t \in Threads, CallAny(t) \/ Step(t),
         NEW u \in Threads \ {t}, Logging(u), \A x \in Levels : Level[call[u].e] >= x
  PROVE  /\ call'[u].i <= Len(list'[call'[u].l]) + 1
         /\ ~HoldsLogger(u)' => call'[u].i = 1
         /\ \A a \in Appenders :
              Cardinality(Copies(a, call[u].e)') = Cardinality(Passed(u, a)')
  <1> DEFINE c == call[u]
  <1>1. pc'[u] = pc[u] /\ call'[u] = c
    BY StepLocal
  <1>2. /\ c.i <= Len(list[c.l]) + 1
        /\ ~HoldsLogger(u) => c.i = 1
        /\ \A a \in Appenders : Cardinality(Copies(a, c.e)) = Cardinality(Passed(u, a))
    BY DEF Progress
  <1>3. c.l \in Loggers /\ Len(list'[c.l]) \in Nat
    <2>1. c.l \in Loggers
      BY DEF TypeOK, Call
    <2>2. list' \in [Loggers -> Seq(Appenders)]
      BY DEF TypeOK
    <2> QED
      BY <2>1, <2>2
  <1>4. HoldsLogger(u) \/ c.i = 1
    BY <1>2
  <1>5. HoldsLogger(u) => list'[c.l] = list[c.l]
    BY ListUnderLock
  <1>6. \A a \in Appenders : Passed(u, a)' = Passed(u, a)
    BY <1>1, <1>4, <1>5 DEF Passed
  <1>7. out' = out \/ (Write(t) /\ c.e # call[t].e)
    <2>1. Logging(t) /\ Write(t) => c.e # call[t].e
      BY DEF OneHand
    <2>2. Write(t) => Logging(t)
      BY DEF Write, Goto, Logging
    <2> QED
      BY <2>1, <2>2, LogSteps
  <1>8. ASSUME NEW a \in Appenders PROVE Copies(a, call[u].e)' = Copies(a, c.e)
    <2>1. Copies(a, call[u].e)' = {k \in DOMAIN out'[a] : out'[a][k].e = c.e}
      BY <1>1 DEF Copies
    <2> QED
      BY <1>7, <2>1, CopiesStay
  <1> QED
    BY <1>1, <1>2, <1>3, <1>4, <1>5, <1>6, <1>8 DEF HoldsLogger

\* The thread that steps: it has just made its event, is where it was, or writes.
LEMMA OwnCounts ==
  ASSUME TypeOK, TypeOK', LockDiscipline, Stages, Cursor, OneHand, Progress,
         NEW t \in Threads, CallAny(t) \/ Step(t), Logging(t)',
         \A x \in Levels : Level[call'[t].e] >= x
  PROVE  /\ call'[t].i <= Len(list'[call'[t].l]) + 1
         /\ ~HoldsLogger(t)' => call'[t].i = 1
         /\ \A a \in Appenders :
              Cardinality(Copies(a, call[t].e)') = Cardinality(Passed(t, a)')
  <1> DEFINE c == call[t]
             d == call'[t]
  <1>l. /\ Len(list'[d.l]) \in Nat /\ Len(list[c.l]) \in Nat
        /\ c.i \in Nat \ {0} /\ c.e \in Events
    <2>1. d.l \in Loggers /\ c.l \in Loggers /\ c.i \in Nat \ {0} /\ c.e \in Events
      BY DEF TypeOK, Call
    <2> QED
      BY <2>1 DEF TypeOK
  <1>p. pc'[t] # "idle"
    BY DEF Logging
  <1>k. list' = list
    BY <1>p, ListSteps
  <1>1. CASE ~HoldsLogger(t)' /\ d.i = 1 /\ d.e \notin logged /\ out' = out
    <2>1. \A a \in Appenders : Copies(a, call[t].e)' = {k \in DOMAIN out[a] : out[a][k].e = d.e}
      BY <1>1 DEF Copies
    <2>2. \A a \in Appenders : Copies(a, call[t].e)' = {}
      BY <1>1, <2>1, NoCopies DEF Copies
    <2>3. \A a \in Appenders : Passed(t, a)' = {}
      BY <1>1 DEF Passed
    <2>4. \A a \in Appenders : Cardinality(Copies(a, call[t].e)') = Cardinality(Passed(t, a)')
      BY <2>2, <2>3
    <2>5. d.i <= Len(list'[d.l]) + 1
      BY <1>1, <1>l
    <2> QED
      BY <1>1, <2>4, <2>5
  <1>2. CASE /\ Logging(t) /\ (HoldsLogger(t) => HoldsLogger(t)') /\ d.e = c.e /\ d.l = c.l
             /\ out' = out /\ d.i = c.i
    <2>1. /\ c.i <= Len(list[c.l]) + 1
          /\ ~HoldsLogger(t) => c.i = 1
          /\ \A a \in Appenders : Cardinality(Copies(a, c.e)) = Cardinality(Passed(t, a))
      BY <1>2 DEF Progress
    <2>2. \A a \in Appenders : Copies(a, call[t].e)' = Copies(a, c.e) /\ Passed(t, a)' = Passed(t, a)
      BY <1>2, <1>k DEF Copies, Passed
    <2> QED
      BY <1>2, <1>k, <2>1, <2>2
  <1>3. CASE Skip(t) /\ d.e = c.e
    <2>1. Here(t) \in Appenders
      BY <1>3, HereInList DEF Skip
    <2>2. aLevel[Here(t)] \in Levels
      BY <2>1 DEF TypeOK
    <2>3. Level[c.e] \in Nat /\ aLevel[Here(t)] \in Nat
      BY <1>l, <2>2, LevelAssumption
    <2> QED
      BY <1>3, <2>2, <2>3 DEF Skip
  <1>4. CASE Write(t) /\ d.e = c.e /\ d.l = c.l /\ (HoldsLogger(t) => HoldsLogger(t)')
    <2>1. Logging(t) /\ HoldsLogger(t) /\ ~AtEnd(t)
      BY <1>4 DEF Write, Goto, Logging, HoldsLogger, Cursor
    <2>2. d.i = c.i + 1
      BY <1>4 DEF Write, Advance, TypeOK, Call
    <2>3. \A a \in Appenders : Cardinality(Copies(a, c.e)) = Cardinality(Passed(t, a))
      BY <1>4, <2>1 DEF Progress
    <2>4. d.i <= Len(list'[d.l]) + 1
      BY <1>4, <1>k, <1>l, <2>1, <2>2 DEF AtEnd
    <2> QED
      BY <1>4, <2>1, <2>3, <2>4, WriteCounts
  <1> QED
    BY <1>1, <1>2, <1>3, <1>4, LogSteps

LEMMA ProgressInductive ==
  ASSUME TypeOK, TypeOK', LockDiscipline, Stages, Cursor, OneHand, Progress,
         NEW t \in Threads, CallAny(t) \/ Step(t)
  PROVE  Progress'
  <1> SUFFICES ASSUME NEW u \in Threads, Logging(u)', \A x \in Levels : Level[call'[u].e] >= x
               PROVE  /\ call'[u].i <= Len(list'[call'[u].l]) + 1
                      /\ ~HoldsLogger(u)' => call'[u].i = 1
                      /\ \A a \in Appenders :
                           Cardinality(Copies(a, call[u].e)') = Cardinality(Passed(u, a)')
    BY DEF Progress
  <1>1. CASE u = t
    BY <1>1, OwnCounts
  <1>2. CASE u # t
    <2>1. Logging(u) /\ call'[u].e = call[u].e
      BY <1>2, StepLocal DEF Logging
    <2> QED
      BY <1>2, <2>1, OtherCounts
  <1> QED
    BY <1>1, <1>2

\* An event is in one thread's hands and of one logger, is not written after a
\* later one of its logger, and is written as far as its iterator has gone.
THEOREM History == Spec => []HistoryInv
  <1>1. Init => HistoryInv
    <2> SUFFICES ASSUME Init PROVE HistoryInv
      OBVIOUS
    <2>1. \A t \in Threads : ~Logging(t)
      BY DEF Init, Logging
    <2>2. \A a \in Appenders : DOMAIN out[a] = {}
      BY DEF Init
    <2> QED
      BY <2>1, <2>2 DEF HistoryInv, OneHand, Past, OneLogger, SameOrder, Progress
  <1>2. TypeOK /\ TypeOK' /\ IInv /\ HistoryInv /\ [Next]_vars => HistoryInv'
    <2> SUFFICES ASSUME TypeOK, TypeOK', IInv, HistoryInv, [Next]_vars PROVE HistoryInv'
      OBVIOUS
    <2>1. CASE UNCHANGED vars
      <3> USE <2>1 DEF vars
      <3>1. OneHand'
        BY DEF HistoryInv, OneHand, Logging, HoldsLogger
      <3>2. Past' /\ OneLogger' /\ SameOrder'
        BY DEF HistoryInv, Past, OneLogger, SameOrder, Logging
      <3>3. Progress'
        BY DEF HistoryInv, Progress, Logging, HoldsLogger, Copies, Passed
      <3> QED
        BY <3>1, <3>2, <3>3 DEF HistoryInv
    <2>2. ASSUME NEW t \in Threads, CallAny(t) \/ Step(t) PROVE HistoryInv'
      <3> USE <2>2 DEF HistoryInv, IInv
      <3>1. OneHand'
        BY OneHandInductive
      <3>2. Past'
        BY PastInductive
      <3>3. OneLogger'
        BY OneLoggerInductive
      <3>4. SameOrder'
        BY SameOrderInductive
      <3>5. Progress'
        BY ProgressInductive
      <3> QED
        BY <3>1, <3>2, <3>3, <3>4, <3>5
    <2> QED
      BY <2>1, <2>2 DEF Next
  <1> QED
    BY <1>1, <1>2, TypeCorrect, Invariant, PTL DEF Spec

\* Two appenders that both write two events of one logger write them in the
\* same order, because Logger::log holds the logger's mutex for the whole loop.
THEOREM OrderKept == Spec => []SameOrder
  <1>1. HistoryInv => SameOrder
    BY DEF HistoryInv
  <1> QED
    BY <1>1, History, PTL

\* An event that no level filters out is written once for every entry of the
\* list when the loop of Logger::log is at its end.
THEOREM AllDelivered == Spec => []Delivered
  <1>1. TypeOK /\ HistoryInv => Delivered
    <2> SUFFICES ASSUME TypeOK, HistoryInv, NEW t \in Threads,
                        pc[t] = "each", call[t].op = "log", AtEnd(t),
                        \A x \in Levels : Level[call[t].e] >= x,
                        NEW a \in Appenders
                 PROVE  Cardinality({i \in DOMAIN out[a] : out[a][i].e = call[t].e})
                          = Cardinality({i \in DOMAIN list[call[t].l] : list[call[t].l][i] = a})
      BY DEF Delivered
    <2> DEFINE c == call[t]
               s == list[c.l]
    <2>1. c.i \in Nat /\ c.l \in Loggers
      BY DEF TypeOK, Call
    <2>2. Len(s) \in Nat /\ DOMAIN s = 1 .. Len(s)
      BY <2>1 DEF TypeOK
    <2>3. /\ c.i <= Len(s) + 1
          /\ Cardinality(Copies(a, c.e)) = Cardinality(Passed(t, a))
      BY DEF HistoryInv, Progress, Logging
    <2>4. c.i - 1 = Len(s)
      BY <2>1, <2>2, <2>3 DEF AtEnd
    <2>5. Passed(t, a) = {i \in DOMAIN s : s[i] = a}
      BY <2>2, <2>4 DEF Passed
    <2> QED
      BY <2>3, <2>5 DEF Copies
  <1> QED
    BY <1>1, TypeCorrect, History, PTL

=============================================================================
