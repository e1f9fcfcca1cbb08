-------------------------- MODULE ConfigVarProofs --------------------------
(***************************************************************************)
(* Theorems about ConfigVar, for every set of variables, values and        *)
(* activations and for both policies of the read/write lock.               *)
(***************************************************************************)
EXTENDS ConfigVarTable, TLAPS

LEMMA NoCallType == NoCall \in Frame
  <1>1. PICK v \in Vars : v = CHOOSE w \in Vars : TRUE
    BY VarsAssumption
  <1>2. Default[v] \in Values
    BY DefaultAssumption
  <1> QED
    BY <1>1, <1>2 DEF NoCall, Frame, Ops

\* What Leave and Unlock do to the typed state.
LEMMA LeaveType ==
  ASSUME TypeOK, NEW c \in Frames, Leave(c)
  PROVE  /\ readers' \in [Vars -> SUBSET Frames]
         /\ writer' \in [Vars -> Frames \cup {NoFrame}]
         /\ pc' \in [Frames -> PCs]
         /\ frame' \in [Frames -> Frame]
  BY NoCallType DEF Leave, Unlock, TypeOK, PCs

LEMMA GotoType ==
  ASSUME TypeOK, NEW c \in Frames, NEW here, NEW there \in PCs, Goto(c, here, there)
  PROVE  pc' \in [Frames -> PCs]
  BY DEF Goto, TypeOK

LEMMA StartType ==
  ASSUME TypeOK, NEW c \in Frames, NEW f \in Frame, Start(c, f)
  PROVE  TypeOK'
  BY DEF Start, TypeOK, PCs

\* The state of every variable and activation has its type in every run.
THEOREM TypeCorrect == Spec => []TypeOK
  <1>1. Init => TypeOK
    BY NoCallType, DefaultAssumption DEF Init, TypeOK, PCs
  <1>2. TypeOK /\ [Next]_vars => TypeOK'
    <2> SUFFICES ASSUME TypeOK, [Next]_vars PROVE TypeOK'
      OBVIOUS
    <2>0. CASE UNCHANGED vars
      BY <2>0 DEF vars, TypeOK
    <2> SUFFICES ASSUME NEW c \in Frames, Call(c) \/ Step(c) \/ Lock(c)
                 PROVE  TypeOK'
      BY <2>0 DEF Next
    <2>f. frame[c] \in Frame
      BY DEF TypeOK
    <2>1. CASE Call(c)
      <3>1. CASE CallSetValue(c)
        BY <3>1, NoCallType, StartType DEF CallSetValue, Frame, Ops
      <3>2. CASE CallGetValue(c)
        BY <3>2, NoCallType, StartType DEF CallGetValue, Frame, Ops
      <3>3. CASE CallAddListener(c)
        BY <3>3, NoCallType, StartType DEF CallAddListener, Frame, Ops
      <3>4. CASE CallDelListener(c)
        <4>1. 1 .. MaxId \subseteq Nat
          BY BoundAssumption
        <4> QED
          BY <3>4, <4>1, NoCallType, StartType DEF CallDelListener, Frame, Ops
      <3>5. CASE CallClearListeners(c)
        BY <3>5, NoCallType, StartType DEF CallClearListeners, Frame, Ops
      <3> QED
        BY <2>1, <3>1, <3>2, <3>3, <3>4, <3>5 DEF Call
    <2>2. CASE ReturnRead(c)
      BY <2>2, LeaveType DEF ReturnRead, TypeOK
    <2>3. CASE BeginNotify(c)
      <3>1. DOMAIN cbs[frame[c].var] \subseteq Nat
        BY <2>f DEF TypeOK, Frame
      <3>2. frame' \in [Frames -> Frame]
        BY <2>3, <2>f, <3>1 DEF BeginNotify, TypeOK, Frame
      <3> QED
        BY <2>3, <3>2, GotoType DEF BeginNotify, TypeOK, PCs
    <2>4. CASE CallListener(c)
      <3>1. frame' \in [Frames -> Frame]
        BY <2>4, <2>f DEF CallListener, TypeOK, Frame
      <3> QED
        BY <2>4, <3>1, GotoType DEF CallListener, TypeOK, PCs
    <2>5. CASE ListenerReturns(c)
      BY <2>5 DEF ListenerReturns, TypeOK, PCs
    <2>6. CASE ListenerThrows(c)
      BY <2>6, LeaveType DEF ListenerThrows, TypeOK
    <2>7. CASE EndNotify(c)
      BY <2>7, GotoType DEF EndNotify, TypeOK, PCs
    <2>8. CASE Write(c)
      <3> DEFINE f == frame[c]
      <3>1. val' \in [Vars -> Values]
        BY <2>8, <2>f DEF Write, TypeOK, Frame
      <3>2. /\ DOMAIN cbs' = Vars
            /\ \A v \in Vars : cbs'[v] = IF v = f.var THEN Remaining(f, cbs[v]) ELSE cbs[v]
        BY <2>8 DEF Write, TypeOK
      <3>3. ASSUME NEW v \in Vars
            PROVE  /\ DOMAIN Remaining(f, cbs[v]) \subseteq DOMAIN cbs[v]
                   /\ \A k \in DOMAIN Remaining(f, cbs[v]) : Remaining(f, cbs[v])[k] = cbs[v][k]
        BY DEF Remaining, Restrict
      <3>4. keys' \in SUBSET (Vars \X Nat \X Frames)
        BY <2>8 DEF Write, TypeOK
      <3> QED
        BY <2>8, <3>1, <3>2, <3>3, <3>4, LeaveType DEF Write, TypeOK
    <2>9. CASE LoadId(c)
      <3>1. frame' \in [Frames -> Frame]
        BY <2>9, <2>f DEF LoadId, TypeOK, Frame
      <3> QED
        BY <2>9, <3>1, GotoType DEF LoadId, TypeOK, PCs
    <2>10. CASE StoreId(c)
      <3>1. frame' \in [Frames -> Frame]
        BY <2>10, <2>f DEF StoreId, TypeOK, Frame
      <3> QED
        BY <2>10, <2>f, <3>1, GotoType DEF StoreId, TypeOK, PCs, Frame
    <2>11. CASE InsertListener(c)
      <3>1. PICK k \in Nat :
              cbs' = [cbs EXCEPT ![frame[c].var] = Insert(@, k, c)]
        BY <2>11, <2>f DEF InsertListener, Seen, Frame, TypeOK
      <3>2. ASSUME NEW v \in Vars
            PROVE  /\ DOMAIN Insert(cbs[v], k, c) \subseteq Nat
                   /\ \A j \in DOMAIN Insert(cbs[v], k, c) : Insert(cbs[v], k, c)[j] \in Frames
        BY DEF Insert, TypeOK
      <3> QED
        BY <2>11, <3>1, <3>2, GotoType DEF InsertListener, TypeOK, PCs
    <2>12. CASE ReturnId(c)
      <3>1. keys' \in SUBSET (Vars \X Nat \X Frames)
        BY <2>12, <2>f DEF ReturnId, Seen, Frame, TypeOK
      <3> QED
        BY <2>12, <3>1, LeaveType DEF ReturnId, TypeOK
    <2>13. CASE LockRead(c)
      BY <2>13, <2>f, GotoType DEF LockRead, TypeOK, PCs, Frame
    <2>14. CASE LockWrite(c)
      BY <2>14, <2>f, GotoType DEF LockWrite, TypeOK, PCs, Frame
    <2> QED
      BY <2>1, <2>2, <2>3, <2>4, <2>5, <2>6, <2>7, <2>8, <2>9, <2>10, <2>11, <2>12,
         <2>13, <2>14 DEF Step, Lock
  <1> QED
    BY <1>1, <1>2, PTL DEF Spec

-----------------------------------------------------------------------------
(* The inductive invariant                                                  *)

\* What the constructors of the calls put in the frame.
LEMMA CallStarts ==
  ASSUME TypeOK, NEW c \in Frames, Call(c)
  PROVE  \E f \in Frame : Start(c, f)
  <1>1. CASE CallSetValue(c)
    BY <1>1, NoCallType DEF CallSetValue, Frame, Ops
  <1>2. CASE CallGetValue(c)
    BY <1>2, NoCallType DEF CallGetValue, Frame, Ops
  <1>3. CASE CallAddListener(c)
    BY <1>3, NoCallType DEF CallAddListener, Frame, Ops
  <1>4. CASE CallDelListener(c)
    <2>1. 1 .. MaxId \subseteq Nat
      BY BoundAssumption
    <2> QED
      BY <1>4, <2>1, NoCallType DEF CallDelListener, Frame, Ops
  <1>5. CASE CallClearListeners(c)
    BY <1>5, NoCallType DEF CallClearListeners, Frame, Ops
  <1> QED
    BY <1>1, <1>2, <1>3, <1>4, <1>5 DEF Call

\* A call that has not got its lock yet holds nothing, and a call of another
\* frame leaves a frame where it is.
LEMMA StartKeeps ==
  ASSUME TypeOK, IInv, NEW c \in Frames, NEW f \in Frame, Start(c, f)
  PROVE  IInv'
  <1>1. f.op \in Ops
    BY DEF Frame
  <1>2. /\ pc[c] = "idle"
        /\ pc'[c] = IF f.op \in {"setValue", "getValue"} THEN "rdlock" ELSE "wrlock"
        /\ frame'[c] = f
        /\ \A d \in Frames \ {c} : pc'[d] = pc[d] /\ frame'[d] = frame[d]
        /\ readers' = readers /\ writer' = writer
    BY DEF Start, CanStart, TypeOK
  <1>3. \A d \in Frames : (HoldsRead(d)' <=> HoldsRead(d)) /\ (HoldsWrite(d)' <=> HoldsWrite(d))
    BY <1>1, <1>2 DEF HoldsRead, HoldsWrite, Ops
  <1>4. \A d \in Frames : HoldsRead(d) \/ HoldsWrite(d) => frame'[d] = frame[d]
    BY <1>2 DEF HoldsRead, HoldsWrite
  <1>5. LockDiscipline'
    BY <1>2, <1>3, <1>4 DEF IInv, LockDiscipline
  <1>6. Stages'
    BY <1>2, <1>3 DEF IInv, Stages, HoldsWrite, Notifying
  <1>7. CallsNest'
    BY <1>2 DEF IInv, CallsNest, Start, CanStart
  <1> QED
    BY <1>5, <1>6, <1>7 DEF IInv

\* A call that returns or throws gives up what it held.
LEMMA LeaveKeeps ==
  ASSUME TypeOK, IInv, NEW c \in Frames, Leave(c), ListenerDone(c) \/ pc[c] # "callback"
  PROVE  IInv'
  <1>1. /\ pc'[c] = "idle"
        /\ \A d \in Frames \ {c} : pc'[d] = pc[d] /\ frame'[d] = frame[d]
        /\ frame[c].var \in Vars
    BY DEF Leave, TypeOK, Frame
  <1>2. \A v \in Vars :
          /\ readers'[v] = IF v = frame[c].var THEN readers[v] \ {c} ELSE readers[v]
          /\ writer'[v] = IF v = frame[c].var /\ writer[v] = c THEN NoFrame ELSE writer[v]
    BY DEF Leave, Unlock, TypeOK
  <1>3. LockDiscipline'
    <2>0. /\ ~HoldsRead(c)' /\ ~HoldsWrite(c)'
          /\ \A d \in Frames \ {c} : (HoldsRead(d)' <=> HoldsRead(d)) /\ (HoldsWrite(d)' <=> HoldsWrite(d))
      BY <1>1 DEF HoldsRead, HoldsWrite
    <2> SUFFICES ASSUME NEW v \in Vars
                 PROVE  /\ readers'[v] = {d \in Frames : HoldsRead(d)' /\ frame'[d].var = v}
                        /\ \A d \in Frames : writer'[v] = d <=> HoldsWrite(d)' /\ frame'[d].var = v
                        /\ writer'[v] # NoFrame => readers'[v] = {}
      BY DEF LockDiscipline
    <2>a. /\ readers[v] = {d \in Frames : HoldsRead(d) /\ frame[d].var = v}
          /\ \A d \in Frames : writer[v] = d <=> HoldsWrite(d) /\ frame[d].var = v
      BY DEF IInv, LockDiscipline
    <2>1. readers'[v] = {d \in Frames : HoldsRead(d)' /\ frame'[d].var = v}
      <3>1. ASSUME NEW d \in Frames
            PROVE  d \in readers'[v] <=> HoldsRead(d)' /\ frame'[d].var = v
        <4>1. CASE d = c
          BY <4>1, <1>2, <2>0, <2>a
        <4>2. CASE d # c
          <5>1. d \in readers'[v] <=> d \in readers[v]
            BY <4>2, <1>2
          <5>2. frame'[d].var = frame[d].var
            BY <4>2, <1>1
          <5>3. HoldsRead(d)' <=> HoldsRead(d)
            BY <4>2, <2>0
          <5> QED
            BY <5>1, <5>2, <5>3, <2>a
        <4> QED
          BY <4>1, <4>2
      <3>2. readers'[v] \subseteq Frames
        BY <1>2, <2>a
      <3> QED
        BY <3>1, <3>2
    <2>2. ASSUME NEW d \in Frames
          PROVE  writer'[v] = d <=> HoldsWrite(d)' /\ frame'[d].var = v
      <3>1. CASE d = c
        <4>0. writer[v] = c => frame[c].var = v
          BY <2>a
        <4>1. writer'[v] # c
          BY <1>2, <4>0, FrameAssumption
        <4> QED
          BY <3>1, <4>1, <2>0
      <3>2. CASE d # c
        <4>1. writer'[v] = d <=> writer[v] = d
          BY <3>2, <1>2, FrameAssumption
        <4>2. frame'[d].var = frame[d].var
          BY <3>2, <1>1
        <4>3. HoldsWrite(d)' <=> HoldsWrite(d)
          BY <3>2, <2>0
        <4> QED
          BY <4>1, <4>2, <4>3, <2>a
      <3> QED
        BY <3>1, <3>2
    <2>3. writer'[v] # NoFrame => readers'[v] = {}
      BY <1>1, <1>2 DEF IInv, LockDiscipline
    <2> QED
      BY <2>1, <2>2, <2>3
  <1>4. Stages'
    BY <1>1 DEF IInv, Stages, HoldsWrite, Notifying
  <1>5. CallsNest'
    BY <1>1, FrameAssumption DEF IInv, CallsNest, ListenerDone
  <1> QED
    BY <1>3, <1>4, <1>5 DEF IInv

\* A step that moves one frame within its member function and leaves the lock
\* and the frame's operation alone keeps the invariant if the frame still
\* holds what it held, in a stage that its function has.
LEMMA MoveKeeps ==
  ASSUME TypeOK, IInv, NEW c \in Frames,
         UNCHANGED <<readers, writer>>,
         \A d \in Frames \ {c} : pc'[d] = pc[d] /\ frame'[d] = frame[d],
         frame'[c].op = frame[c].op, frame'[c].var = frame[c].var,
         HoldsRead(c)' <=> HoldsRead(c), HoldsWrite(c)' <=> HoldsWrite(c),
         Notifying(c)' => frame[c].op = "setValue",
         pc'[c] \in {"store", "insert", "return"} => frame[c].op = "addListener",
         pc[c] # "idle", ListenerDone(c) \/ pc[c] # "callback"
  PROVE  IInv'
  <1>1. \A d \in Frames : /\ HoldsRead(d)' <=> HoldsRead(d)
                          /\ HoldsWrite(d)' <=> HoldsWrite(d)
                          /\ frame'[d].op = frame[d].op /\ frame'[d].var = frame[d].var
    BY DEF HoldsRead, HoldsWrite
  <1>2. LockDiscipline'
    BY <1>1 DEF IInv, LockDiscipline
  <1>3. Stages'
    BY <1>1 DEF IInv, Stages, Notifying
  <1>4. CallsNest'
    BY FrameAssumption DEF IInv, CallsNest, ListenerDone
  <1> QED
    BY <1>2, <1>3, <1>4 DEF IInv

LEMMA Inductive == TypeOK /\ IInv /\ [Next]_vars => IInv'
  <1> SUFFICES ASSUME TypeOK, IInv, [Next]_vars PROVE IInv'
    OBVIOUS
  <1>0. CASE UNCHANGED vars
    BY <1>0 DEF vars, IInv, LockDiscipline, Stages, CallsNest, HoldsRead, HoldsWrite, Notifying
  <1> SUFFICES ASSUME NEW c \in Frames, Call(c) \/ Step(c) \/ Lock(c)
               PROVE  IInv'
    BY <1>0 DEF Next
  <1>f. frame[c] \in Frame /\ frame[c].var \in Vars
    BY DEF TypeOK, Frame
  <1>1. CASE Call(c)
    BY <1>1, CallStarts, StartKeeps
  <1>2. CASE ReturnRead(c)
    BY <1>2, LeaveKeeps DEF ReturnRead
  <1>3. CASE BeginNotify(c)
    <2>1. frame'[c].op = frame[c].op /\ frame'[c].var = frame[c].var
      BY <1>3, <1>f DEF BeginNotify, TypeOK, Frame
    <2> QED
      BY <1>3, <2>1, MoveKeeps
         DEF BeginNotify, Goto, TypeOK, HoldsRead, HoldsWrite, Notifying
  <1>4. CASE CallListener(c)
    <2>1. frame'[c].op = frame[c].op /\ frame'[c].var = frame[c].var
      BY <1>4, <1>f DEF CallListener, TypeOK, Frame
    <2>2. frame[c].op = "setValue"
      BY <1>4 DEF CallListener, Goto, IInv, Stages, Notifying
    <2> QED
      BY <1>4, <2>1, <2>2, MoveKeeps
         DEF CallListener, Goto, TypeOK, HoldsRead, HoldsWrite, Notifying
  <1>5. CASE ListenerReturns(c)
    <2>1. pc[c] = "callback" /\ frame[c].op = "setValue"
      BY <1>5 DEF ListenerReturns, ListenerDone, IInv, Stages, Notifying
    <2> QED
      BY <1>5, <2>1, MoveKeeps
         DEF ListenerReturns, TypeOK, HoldsRead, HoldsWrite, Notifying
  <1>6. CASE ListenerThrows(c)
    BY <1>6, LeaveKeeps DEF ListenerThrows
  <1>7. CASE EndNotify(c)
    <2>1. frame[c].op = "setValue"
      BY <1>7 DEF EndNotify, Goto, IInv, Stages, Notifying
    <2> QED
      BY <1>7, <2>1, MoveKeeps
         DEF EndNotify, Goto, TypeOK, HoldsRead, HoldsWrite, Notifying
  <1>8. CASE Write(c)
    BY <1>8, LeaveKeeps DEF Write
  <1>9. CASE LoadId(c)
    <2>1. frame'[c].op = frame[c].op /\ frame'[c].var = frame[c].var
      BY <1>9, <1>f DEF LoadId, TypeOK, Frame
    <2> QED
      BY <1>9, <2>1, MoveKeeps
         DEF LoadId, Goto, TypeOK, HoldsRead, HoldsWrite, Notifying
  <1>10. CASE StoreId(c)
    <2>1. frame'[c].op = frame[c].op /\ frame'[c].var = frame[c].var
      BY <1>10, <1>f DEF StoreId, TypeOK, Frame
    <2>2. frame[c].op = "addListener"
      BY <1>10 DEF StoreId, Goto, IInv, Stages
    <2> QED
      BY <1>10, <2>1, <2>2, MoveKeeps
         DEF StoreId, Goto, TypeOK, HoldsRead, HoldsWrite, Notifying
  <1>11. CASE InsertListener(c)
    <2>1. frame[c].op = "addListener"
      BY <1>11 DEF InsertListener, Goto, IInv, Stages
    <2> QED
      BY <1>11, <2>1, MoveKeeps
         DEF InsertListener, Goto, TypeOK, HoldsRead, HoldsWrite, Notifying
  <1>12. CASE ReturnId(c)
    BY <1>12, LeaveKeeps DEF ReturnId
  <1>13. CASE LockRead(c)
    <2>1. /\ pc[c] = "rdlock" /\ pc'[c] = "reading"
          /\ \A d \in Frames \ {c} : pc'[d] = pc[d]
          /\ frame' = frame /\ writer' = writer
          /\ writer[frame[c].var] = NoFrame
      BY <1>13 DEF LockRead, Goto, CanRead, TypeOK
    <2>2. \A v \in Vars : readers'[v] =
            IF v = frame[c].var THEN readers[v] \cup {c} ELSE readers[v]
      BY <1>13 DEF LockRead, TypeOK
    <2>3. LockDiscipline'
      <3>0. /\ HoldsRead(c)' /\ ~HoldsWrite(c)' /\ ~HoldsWrite(c)
            /\ \A d \in Frames \ {c} : (HoldsRead(d)' <=> HoldsRead(d)) /\ (HoldsWrite(d)' <=> HoldsWrite(d))
        BY <2>1 DEF HoldsRead, HoldsWrite
      <3> SUFFICES ASSUME NEW v \in Vars
                   PROVE  /\ readers'[v] = {d \in Frames : HoldsRead(d)' /\ frame[d].var = v}
                          /\ \A d \in Frames : writer[v] = d <=> HoldsWrite(d)' /\ frame[d].var = v
                          /\ writer[v] # NoFrame => readers'[v] = {}
        BY <2>1 DEF LockDiscipline
      <3>1. readers'[v] = {d \in Frames : HoldsRead(d)' /\ frame[d].var = v}
        <4>1. readers[v] = {d \in Frames : HoldsRead(d) /\ frame[d].var = v}
          BY DEF IInv, LockDiscipline
        <4>2. ASSUME NEW d \in Frames
              PROVE  d \in readers'[v] <=> HoldsRead(d)' /\ frame[d].var = v
          BY <2>2, <3>0, <4>1
        <4> QED
          BY <2>2, <4>1, <4>2
      <3>2. \A d \in Frames : writer[v] = d <=> HoldsWrite(d)' /\ frame[d].var = v
        BY <3>0 DEF IInv, LockDiscipline
      <3>3. writer[v] # NoFrame => readers'[v] = {}
        BY <2>1, <2>2 DEF IInv, LockDiscipline
      <3> QED
        BY <3>1, <3>2, <3>3
    <2>4. Stages'
      BY <2>1 DEF IInv, Stages, HoldsWrite, Notifying
    <2>5. CallsNest'
      BY <2>1, FrameAssumption DEF IInv, CallsNest
    <2> QED
      BY <2>3, <2>4, <2>5 DEF IInv
  <1>14. CASE LockWrite(c)
    <2>1. /\ pc[c] = "wrlock" /\ pc'[c] = "writing"
          /\ \A d \in Frames \ {c} : pc'[d] = pc[d]
          /\ frame' = frame /\ readers' = readers
          /\ writer[frame[c].var] = NoFrame /\ readers[frame[c].var] = {}
      BY <1>14 DEF LockWrite, Goto, CanWrite, TypeOK
    <2>2. \A v \in Vars : writer'[v] = IF v = frame[c].var THEN c ELSE writer[v]
      BY <1>14 DEF LockWrite, TypeOK
    <2>3. frame[c].op # "setValue"
      BY <2>1, <1>f DEF IInv, LockDiscipline, HoldsRead
    <2>4. LockDiscipline'
      <3>0. /\ ~HoldsRead(c) /\ ~HoldsRead(c)' /\ HoldsWrite(c)'
            /\ \A d \in Frames \ {c} : (HoldsRead(d)' <=> HoldsRead(d)) /\ (HoldsWrite(d)' <=> HoldsWrite(d))
        BY <2>1, <2>3 DEF HoldsRead, HoldsWrite
      <3> SUFFICES ASSUME NEW v \in Vars
                   PROVE  /\ readers[v] = {d \in Frames : HoldsRead(d)' /\ frame[d].var = v}
                          /\ \A d \in Frames : writer'[v] = d <=> HoldsWrite(d)' /\ frame[d].var = v
                          /\ writer'[v] # NoFrame => readers[v] = {}
        BY <2>1 DEF LockDiscipline
      <3>1. readers[v] = {d \in Frames : HoldsRead(d)' /\ frame[d].var = v}
        BY <3>0 DEF IInv, LockDiscipline
      <3>2. ASSUME NEW d \in Frames
            PROVE  writer'[v] = d <=> HoldsWrite(d)' /\ frame[d].var = v
        BY <2>1, <2>2, <3>0, FrameAssumption DEF IInv, LockDiscipline
      <3>3. writer'[v] # NoFrame => readers[v] = {}
        BY <2>1, <2>2 DEF IInv, LockDiscipline
      <3> QED
        BY <3>1, <3>2, <3>3
    <2>5. Stages'
      BY <2>1, <2>3 DEF IInv, Stages, HoldsWrite, Notifying
    <2>6. CallsNest'
      BY <2>1, FrameAssumption DEF IInv, CallsNest
    <2> QED
      BY <2>4, <2>5, <2>6 DEF IInv
  <1> QED
    BY <1>1, <1>2, <1>3, <1>4, <1>5, <1>6, <1>7, <1>8, <1>9, <1>10, <1>11, <1>12,
       <1>13, <1>14 DEF Step, Lock

\* m_mutex is held by exactly the frames between their lock and unlock.
THEOREM Invariant == Spec => []IInv
  <1>1. Init => IInv
    <2> SUFFICES ASSUME Init PROVE IInv
      OBVIOUS
    <2>1. \A c \in Frames : pc[c] = "idle"
      BY DEF Init
    <2>2. \A c \in Frames : ~HoldsRead(c) /\ ~HoldsWrite(c)
      BY <2>1 DEF HoldsRead, HoldsWrite
    <2>3. LockDiscipline
      BY <2>2, FrameAssumption DEF Init, LockDiscipline
    <2>4. Stages /\ CallsNest
      BY <2>1, <2>2 DEF Stages, CallsNest, Notifying
    <2> QED
      BY <2>3, <2>4 DEF IInv
  <1> QED
    BY <1>1, Inductive, TypeCorrect, PTL DEF Spec

-----------------------------------------------------------------------------
(* The properties                                                           *)

\* Whatever way a member function is left, also by the exception of a listener, it
\* has given up m_mutex (ReadLock and WriteLock, config.h 361-430).
THEOREM LocksHeld == Spec => []LockDiscipline
  <1>1. IInv => LockDiscipline
    BY DEF IInv
  <1> QED
    BY <1>1, Invariant, PTL

\* The listener map has one writer at a time, and no writer beside a reader.
THEOREM WritersExclude == Spec => []ExclusiveWriters
  <1>1. TypeOK /\ IInv => ExclusiveWriters
    <2> SUFFICES ASSUME TypeOK, IInv,
                        NEW c \in Frames, NEW d \in Frames, c # d,
                        frame[c].var = frame[d].var, HoldsWrite(c)
                 PROVE  ~HoldsRead(d) /\ ~HoldsWrite(d)
      BY DEF ExclusiveWriters, HoldsRead, HoldsWrite
    <2>1. frame[c].var \in Vars
      BY DEF TypeOK, Frame
    <2>2. writer[frame[c].var] = c /\ readers[frame[c].var] = {}
      BY <2>1, FrameAssumption DEF IInv, LockDiscipline
    <2>3. ~HoldsWrite(d)
      BY <2>1, <2>2 DEF IInv, LockDiscipline
    <2>4. ASSUME HoldsRead(d) PROVE FALSE
      <3>1. readers[frame[c].var] = {e \in Frames : HoldsRead(e) /\ frame[e].var = frame[c].var}
        BY <2>1 DEF IInv, LockDiscipline
      <3> QED
        BY <2>2, <2>4, <3>1
    <2> QED
      BY <2>3, <2>4
  <1> QED
    BY <1>1, Invariant, TypeCorrect, PTL

\* No variable ever changes: setValue holds the read lock it upgrades from, so
\* it is never the frame that LockWrite lets in.
THEOREM NothingChanges == Spec => []ValueFrozen
  <1>1. Init => ValueFrozen
    BY DEF Init, ValueFrozen
  <1>2. TypeOK /\ IInv /\ ValueFrozen /\ [Next]_vars => ValueFrozen'
    <2> SUFFICES ASSUME TypeOK, IInv, ValueFrozen, [Next]_vars PROVE val' = val
      BY DEF ValueFrozen
    <2>1. CASE UNCHANGED vars
      BY <2>1 DEF vars
    <2>2. ASSUME NEW c \in Frames, Write(c) PROVE val' = val
      <3>1. frame[c].op # "setValue"
        BY <2>2 DEF Write, IInv, Stages, HoldsWrite
      <3> QED
        BY <2>2, <3>1 DEF Write, TypeOK
    <2>3. ASSUME NEW c \in Frames, Call(c) PROVE val' = val
      BY <2>3, CallStarts DEF Start
    <2> QED
      BY <2>1, <2>2, <2>3
         DEF Next, Step, Lock, ReturnRead, BeginNotify, CallListener, ListenerReturns,
             ListenerThrows, EndNotify, LoadId, StoreId, InsertListener, ReturnId,
             LockRead, LockWrite
  <1> QED
    BY <1>1, <1>2, Invariant, TypeCorrect, PTL DEF Spec

\* Only the frame that holds m_mutex for writing changes the listeners.
LEMMA WritersWrite ==
  ASSUME TypeOK, IInv, [Next]_vars, NEW v \in Vars, readers[v] # {}
  PROVE  cbs'[v] = cbs[v]
  <1>1. CASE UNCHANGED vars
    BY <1>1 DEF vars
  <1> SUFFICES ASSUME NEW c \in Frames, Call(c) \/ Step(c) \/ Lock(c)
               PROVE  cbs'[v] = cbs[v]
    BY <1>1 DEF Next
  <1>2. HoldsWrite(c) => frame[c].var # v
    BY FrameAssumption DEF IInv, LockDiscipline
  <1>3. CASE Write(c)
    BY <1>2, <1>3 DEF Write, HoldsWrite, TypeOK
  <1>4. CASE InsertListener(c)
    BY <1>2, <1>4 DEF InsertListener, Goto, HoldsWrite, TypeOK
  <1>5. CASE Call(c)
    BY <1>5, CallStarts DEF Start
  <1> QED
    BY <1>3, <1>4, <1>5
       DEF Step, Lock, ReturnRead, BeginNotify, CallListener, ListenerReturns,
           ListenerThrows, EndNotify, LoadId, StoreId, ReturnId, LockRead, LockWrite

\* While listeners run, nothing they were handed, and not the map they are
\* called from, changes.
THEOREM NotificationStable == Spec => StableWhileNotifying
  <1>1. ASSUME TypeOK, IInv, ValueFrozen, ValueFrozen', [Next]_vars,
               NEW c \in Frames, Notifying(c)
        PROVE  LET v == frame[c].var IN val'[v] = val[v] /\ cbs'[v] = cbs[v]
    <2>1. frame[c].var \in Vars
      BY <1>1 DEF TypeOK, Frame
    <2>2. c \in readers[frame[c].var]
      BY <1>1, <2>1 DEF IInv, LockDiscipline, HoldsRead, Notifying
    <2> QED
      BY <1>1, <2>1, <2>2, WritersWrite DEF ValueFrozen
  <1>2. TypeOK /\ IInv /\ ValueFrozen /\ ValueFrozen' /\ [Next]_vars
        => [\A c \in Frames : Notifying(c) => LET v == frame[c].var IN
              val'[v] = val[v] /\ cbs'[v] = cbs[v]]_vars
    BY <1>1
  <1> QED
    BY <1>2, TypeCorrect, Invariant, NothingChanges, PTL DEF Spec, StableWhileNotifying

\* A step of one frame leaves the others where they are.
LEMMA StepLocal ==
  ASSUME TypeOK, NEW e \in Frames, Call(e) \/ Step(e) \/ Lock(e),
         NEW d \in Frames, d # e
  PROVE  /\ pc'[d] = pc[d] /\ frame'[d] = frame[d]
         /\ \A v \in Vars : d \in readers[v] => d \in readers'[v]
  <1>1. CASE Call(e)
    BY <1>1, CallStarts DEF Start, TypeOK
  <1>2. CASE Lock(e)
    BY <1>2 DEF Lock, LockRead, LockWrite, Goto, TypeOK
  <1>3. CASE Step(e)
    BY <1>3 DEF Step, ReturnRead, BeginNotify, CallListener, ListenerReturns,
                ListenerThrows, EndNotify, Write, LoadId, StoreId, InsertListener,
                ReturnId, Leave, Unlock, Goto, TypeOK
  <1> QED
    BY <1>1, <1>2, <1>3

\* A frame waiting for a lock takes no step but that of getting it.
LEMMA WaitingForLock ==
  ASSUME NEW e \in Frames, Call(e) \/ Step(e) \/ Lock(e), pc[e] \in {"rdlock", "wrlock"}
  PROVE  \/ pc[e] = "rdlock" /\ CanRead(frame[e].var)
         \/ pc[e] = "wrlock" /\ CanWrite(frame[e].var)
  BY DEF Call, CallSetValue, CallGetValue, CallAddListener, CallDelListener,
         CallClearListeners, Start, CanStart, Step, ReturnRead, BeginNotify, CallListener,
         ListenerReturns, ListenerThrows, ListenerDone, EndNotify, Write, LoadId, StoreId,
         InsertListener, ReturnId, Goto, Lock, LockRead, LockWrite

\* Writers wait as long as the variable is being read.
LEMMA WritersWait ==
  ASSUME TypeOK, [Next]_vars, NEW v \in Vars, readers[v] # {},
         NEW d \in WaitingWriters(v)
  PROVE  d \in WaitingWriters(v)' /\ frame'[d] = frame[d]
                                  /\ (d \in readers[v] => d \in readers'[v])
  <1>0. CASE UNCHANGED vars
    BY <1>0 DEF vars, WaitingWriters
  <1> SUFFICES ASSUME NEW e \in Frames, Call(e) \/ Step(e) \/ Lock(e)
               PROVE  d \in WaitingWriters(v)' /\ frame'[d] = frame[d]
                                               /\ (d \in readers[v] => d \in readers'[v])
    BY <1>0 DEF Next
  <1>1. d # e
    BY WaitingForLock DEF WaitingWriters, CanWrite
  <1> QED
    BY <1>1, StepLocal DEF WaitingWriters

\* While a nested call is in progress, the setValue whose listener made it
\* keeps its read lock.
LEMMA ParentKeepsLock ==
  ASSUME TypeOK, IInv, [Next]_vars, NEW v \in Vars, NEW c \in Frames,
         pc[c] # "idle", Parent[c] \in readers[v]
  PROVE  Parent[c] \in readers'[v]
  <1>0. CASE UNCHANGED vars
    BY <1>0 DEF vars
  <1> SUFFICES ASSUME NEW e \in Frames, Call(e) \/ Step(e) \/ Lock(e)
               PROVE  Parent[c] \in readers'[v]
    BY <1>0 DEF Next
  <1>1. Parent[c] \in Frames /\ pc[Parent[c]] = "callback"
    BY FrameAssumption DEF IInv, CallsNest, TypeOK
  <1>2. Parent[c] # e
    <2> SUFFICES ASSUME pc[e] = "callback" PROVE c = c /\ Parent[c] # e
      BY <1>1
    <2>1. ListenerDone(e)
      BY DEF Call, CallSetValue, CallGetValue, CallAddListener, CallDelListener,
             CallClearListeners, Start, CanStart, Step, ReturnRead, BeginNotify,
             CallListener, ListenerReturns, ListenerThrows, EndNotify, Write, LoadId,
             StoreId, InsertListener, ReturnId, Goto, Lock, LockRead, LockWrite
    <2> QED
      BY <2>1 DEF ListenerDone
  <1> QED
    BY <1>1, <1>2, StepLocal

\* A wedged variable stays wedged.
LEMMA WedgeStays ==
  ASSUME TypeOK, IInv, [Next]_vars, NEW v \in Vars, Wedged(v)
  PROVE  Wedged(v)' /\ readers[v] # {}
  <1>1. PICK c \in Frames :
          /\ frame[c].var = v
          /\ \/ pc[c] = "wrlock" /\ c \in readers[v]
             \/ /\ Parent[c] \in readers[v]
                /\ \/ pc[c] = "wrlock"
                   \/ pc[c] = "rdlock" /\ WriterBlocksReaders /\ WaitingWriters(v) # {}
    BY DEF Wedged
  <1>2. readers[v] # {}
    BY <1>1
  <1>3. CASE pc[c] = "wrlock" /\ c \in readers[v]
    BY <1>1, <1>2, <1>3, WritersWait DEF WaitingWriters, Wedged
  <1>4. CASE Parent[c] \in readers[v] /\ pc[c] = "wrlock"
    <2>1. Parent[c] \in readers'[v]
      BY <1>4, ParentKeepsLock
    <2> QED
      BY <1>1, <1>2, <1>4, <2>1, WritersWait DEF WaitingWriters, Wedged
  <1>5. CASE /\ Parent[c] \in readers[v]
             /\ pc[c] = "rdlock" /\ WriterBlocksReaders /\ WaitingWriters(v) # {}
    <2>1. Parent[c] \in readers'[v]
      BY <1>5, ParentKeepsLock
    <2>2. WaitingWriters(v)' # {}
      BY <1>2, <1>5, WritersWait
    <2>3. pc'[c] = "rdlock" /\ frame'[c].var = v
      <3>1. CASE UNCHANGED vars
        BY <1>1, <1>5, <3>1 DEF vars
      <3>2. ASSUME NEW e \in Frames, Call(e) \/ Step(e) \/ Lock(e)
            PROVE  pc'[c] = "rdlock" /\ frame'[c].var = v
        <4>1. c # e
          BY <1>1, <1>5, <3>2, WaitingForLock DEF CanRead
        <4> QED
          BY <1>1, <1>5, <3>2, <4>1, StepLocal
      <3> QED
        BY <3>1, <3>2 DEF Next
    <2> QED
      BY <1>5, <2>1, <2>2, <2>3 DEF Wedged
  <1> QED
    BY <1>1, <1>2, <1>3, <1>4, <1>5

\* Nobody joins the readers of a wedged variable, if waiting writers keep
\* readers out.
LEMMA WedgeShutsOut ==
  ASSUME TypeOK, [Next]_vars, NEW v \in Vars, Wedged(v), WriterBlocksReaders
  PROVE  readers'[v] \subseteq readers[v]
  <1>1. WaitingWriters(v) # {}
    BY DEF Wedged, WaitingWriters
  <1>2. CASE UNCHANGED vars
    BY <1>2 DEF vars
  <1> SUFFICES ASSUME NEW e \in Frames, Call(e) \/ Step(e) \/ Lock(e)
               PROVE  readers'[v] \subseteq readers[v]
    BY <1>2 DEF Next
  <1>3. CASE Call(e)
    BY <1>3, CallStarts DEF Start
  <1>4. CASE LockRead(e)
    BY <1>1, <1>4 DEF LockRead, CanRead, TypeOK
  <1> QED
    BY <1>3, <1>4
       DEF Step, Lock, ReturnRead, BeginNotify, CallListener, ListenerReturns,
           ListenerThrows, EndNotify, Write, LoadId, StoreId, InsertListener, ReturnId,
           LockWrite, Leave, Unlock, TypeOK

\* A variable that a change or a listener's call has wedged stays wedged, and
\* its listeners stay as they are.
THEOREM WedgeLasts == Spec => WedgeIsFinal
  <1>1. ASSUME TypeOK, IInv, [Next]_vars
        PROVE  \A v \in Vars : Wedged(v) =>
                 /\ Wedged(v)'
                 /\ cbs'[v] = cbs[v]
                 /\ WriterBlocksReaders => readers'[v] \subseteq readers[v]
    BY <1>1, WedgeStays, WritersWrite, WedgeShutsOut
  <1> QED
    BY <1>1, TypeCorrect, Invariant, PTL DEF Spec, WedgeIsFinal

-----------------------------------------------------------------------------
(* One variable of its type                                                 *)

\* If no other variable has the type, m_mutex guards s_fun_id too and keys are
\* never handed out twice.
LEMMA KeysInductive ==
  ASSUME TypeOK, TypeOK', IInv, ExclusiveWriters, KeysBelow, KeyFindsListener, [Next]_vars,
         \A v, w \in Vars : v = w
  PROVE  KeysBelow' /\ KeyFindsListener'
  <1>0. CASE UNCHANGED vars
    BY <1>0 DEF vars, KeysBelow, KeyFindsListener
  <1> SUFFICES ASSUME NEW c \in Frames, Call(c) \/ Step(c) \/ Lock(c)
               PROVE  KeysBelow' /\ KeyFindsListener'
    BY <1>0 DEF Next
  <1> DEFINE InAdd(d) == pc[d] \in {"store", "insert", "return"}
  <1>f. frame[c] \in Frame /\ \A d \in Frames : frame[d].var \in Vars
    BY DEF TypeOK, Frame
  <1>a. ASSUME HoldsWrite(c), NEW d \in Frames, d # c
        PROVE  ~InAdd(d)
    <2>1. frame[c].var = frame[d].var
      BY <1>f
    <2> QED
      BY <1>a, <2>1 DEF ExclusiveWriters, HoldsWrite
  <1>k. \A r \in keys : r[1] \in Vars /\ r[2] \in Nat /\ r[3] \in Frames
    BY DEF TypeOK
  <1>b. ASSUME UNCHANGED <<cbs, funId, keys>>,
               \A d \in Frames : InAdd(d)' => InAdd(d) /\ pc'[d] = pc[d] /\ frame'[d] = frame[d]
        PROVE  KeysBelow' /\ KeyFindsListener'
    BY <1>b DEF KeysBelow, KeyFindsListener
  <1>1. CASE Call(c)
    BY <1>1, <1>b, CallStarts DEF Start, CanStart, TypeOK
  <1>2. CASE ReturnRead(c) \/ ListenerThrows(c)
    BY <1>2, <1>b DEF ReturnRead, ListenerThrows, Leave, TypeOK
  <1>3. CASE BeginNotify(c) \/ CallListener(c) \/ ListenerReturns(c) \/ EndNotify(c) \/ Lock(c)
    BY <1>3, <1>b DEF BeginNotify, CallListener, ListenerReturns, ListenerDone, EndNotify,
                      Lock, LockRead, LockWrite, Goto, TypeOK
  <1>4. CASE Write(c)
    <2>1. \A d \in Frames : ~InAdd(d)'
      BY <1>4, <1>a DEF Write, Leave, HoldsWrite, TypeOK
    <2>2. \A r \in keys' : r \in keys /\ ~Removes(frame[c], r) /\ r[1] = frame[c].var
      BY <1>4, <1>f, <1>k DEF Write
    <2>3. funId' = funId /\ cbs'[frame[c].var] = Remaining(frame[c], cbs[frame[c].var])
      BY <1>4, <1>f DEF Write, TypeOK
    <2>4. KeysBelow'
      BY <2>1, <2>2, <2>3 DEF KeysBelow
    <2>5. ASSUME NEW r \in keys'
          PROVE  r[2] \in DOMAIN cbs'[r[1]] /\ cbs'[r[1]][r[2]] = r[3]
      <3>1. r[2] \in DOMAIN cbs[r[1]] /\ cbs[r[1]][r[2]] = r[3]
        BY <2>2, <2>5 DEF KeyFindsListener
      <3>2. CASE frame[c].op = "delListener"
        BY <2>2, <2>3, <2>5, <3>1, <3>2 DEF Removes, Remaining, Restrict
      <3>3. CASE frame[c].op = "clearListeners"
        BY <2>2, <2>5, <3>3 DEF Removes
      <3>4. CASE frame[c].op \notin {"delListener", "clearListeners"}
        BY <2>2, <2>3, <2>5, <3>1, <3>4 DEF Remaining
      <3> QED
        BY <3>2, <3>3, <3>4
    <2> QED
      BY <2>4, <2>5 DEF KeyFindsListener
  <1>5. CASE LoadId(c)
    <2>1. HoldsWrite(c)
      BY <1>5 DEF LoadId, Goto, HoldsWrite
    <2>2. /\ \A d \in Frames : InAdd(d)' => d = c
          /\ pc'[c] = "store" /\ frame'[c].reg = funId
          /\ UNCHANGED <<cbs, funId, keys>>
      BY <1>5, <1>f, <1>a, <2>1 DEF LoadId, Goto, TypeOK, Frame
    <2> QED
      BY <2>2 DEF KeysBelow, KeyFindsListener
  <1>6. CASE StoreId(c)
    <2>1. HoldsWrite(c) /\ frame[c].reg = funId
      BY <1>6 DEF StoreId, Goto, HoldsWrite, KeysBelow
    <2>2. /\ \A d \in Frames : InAdd(d)' => d = c
          /\ pc'[c] = "insert" /\ frame'[c].reg = funId + 1
          /\ funId' = funId + 1
          /\ UNCHANGED <<cbs, keys>>
      BY <1>6, <1>f, <1>a, <2>1 DEF StoreId, Goto, TypeOK, Frame
    <2>3. funId \in Nat
      BY DEF TypeOK
    <2> QED
      BY <1>k, <2>2, <2>3 DEF KeysBelow, KeyFindsListener
  <1>7. CASE InsertListener(c)
    <2>1. HoldsWrite(c) /\ frame[c].reg = funId /\ \A r \in keys : r[2] < funId
      BY <1>7 DEF InsertListener, Goto, HoldsWrite, KeysBelow
    <2>2. /\ \A d \in Frames : InAdd(d)' => d = c
          /\ pc'[c] = "return" /\ frame' = frame
          /\ UNCHANGED <<funId, keys>>
          /\ cbs' = [cbs EXCEPT ![frame[c].var] = Insert(@, funId, c)]
      BY <1>7, <1>f, <1>a, <2>1 DEF InsertListener, Seen, Goto, TypeOK
    <2>3. cbs'[frame[c].var] = Insert(cbs[frame[c].var], funId, c)
      BY <1>f, <2>2 DEF TypeOK
    <2>4. funId \in Nat
      BY DEF TypeOK
    <2>5. KeysBelow'
      BY <2>1, <2>2, <2>3 DEF KeysBelow, Insert
    <2>6. ASSUME NEW r \in keys'
          PROVE  r[2] \in DOMAIN cbs'[r[1]] /\ cbs'[r[1]][r[2]] = r[3]
      <3>1. r \in keys /\ r[1] = frame[c].var /\ r[2] # funId
        BY <1>f, <1>k, <2>1, <2>2, <2>4, <2>6
      <3>2. r[2] \in DOMAIN cbs[r[1]] /\ cbs[r[1]][r[2]] = r[3]
        BY <3>1 DEF KeyFindsListener
      <3> QED
        BY <2>3, <3>1, <3>2 DEF Insert
    <2> QED
      BY <2>5, <2>6 DEF KeyFindsListener
  <1>8. CASE ReturnId(c)
    <2>1. /\ HoldsWrite(c) /\ frame[c].reg = funId
          /\ funId \in DOMAIN cbs[frame[c].var] /\ cbs[frame[c].var][funId] = c
      BY <1>8 DEF ReturnId, HoldsWrite, KeysBelow
    <2>2. /\ \A d \in Frames : ~InAdd(d)'
          /\ keys' = keys \cup {<<frame[c].var, funId, c>>}
          /\ UNCHANGED <<cbs, funId>>
      BY <1>8, <1>a, <2>1 DEF ReturnId, Seen, Leave, TypeOK
    <2>3. funId \in Nat
      BY DEF TypeOK
    <2> QED
      BY <2>1, <2>2, <2>3 DEF KeysBelow, KeyFindsListener
  <1> QED
    BY <1>1, <1>2, <1>3, <1>4, <1>5, <1>6, <1>7, <1>8 DEF Step

\* For a type with one configuration variable, the key addListener returned
\* leads to the callback it was given for.
THEOREM OneVariableKeys ==
  ASSUME \A v, w \in Vars : v = w
  PROVE  Spec => []KeyFindsListener
  <1>1. Init => KeysBelow /\ KeyFindsListener
    BY DEF Init, KeysBelow, KeyFindsListener
  <1>2. /\ TypeOK /\ TypeOK' /\ IInv /\ ExclusiveWriters
        /\ KeysBelow /\ KeyFindsListener /\ [Next]_vars
        => KeysBelow' /\ KeyFindsListener'
    BY KeysInductive
  <1> QED
    BY <1>1, <1>2, TypeCorrect, Invariant, WritersExclude, PTL DEF Spec

-----------------------------------------------------------------------------
(* With one variable, ConfigVar implements ListenerTable.                   *)

\* m_cbs of every variable is a function, whatever steps built it.
Maps == \A v \in Vars : cbs[v] = [k \in DOMAIN cbs[v] |-> cbs[v][k]]

\* What is known of every state when there is one variable.
Known == /\ TypeOK /\ IInv /\ ExclusiveWriters /\ ValueFrozen
         /\ KeysBelow /\ KeyFindsListener /\ Maps

\* What delListener, clearListeners and addListener leave in m_cbs is again a map.
LEMMA MapsStay ==
  ASSUME TypeOK, Maps, [Next]_vars
  PROVE  Maps'
  <1>0. CASE UNCHANGED cbs
    BY <1>0 DEF Maps
  <1> SUFFICES ASSUME NEW c \in Frames, Write(c) \/ InsertListener(c)
               PROVE  Maps'
    BY <1>0, CallStarts
       DEF vars, Next, Start, Step, Lock, ReturnRead, BeginNotify, CallListener, ListenerReturns,
           ListenerThrows, EndNotify, LoadId, StoreId, ReturnId, LockRead, LockWrite
  <1> USE DEF TypeOK, Frame
  <1>1. CASE Write(c)
    <2> DEFINE f == frame[c]  m == cbs[f.var]
    <2>1. f.var \in Vars /\ cbs' = [cbs EXCEPT ![f.var] = Remaining(f, m)]
      BY <1>1 DEF Write
    <2>2. <<>> = [k \in DOMAIN <<>> |-> <<>>[k]]
      OBVIOUS
    <2>3. Remaining(f, m) = [k \in DOMAIN Remaining(f, m) |-> Remaining(f, m)[k]]
      BY <2>1, <2>2 DEF Maps, Remaining, Restrict
    <2> QED
      BY <2>1, <2>3 DEF Maps
  <1>2. CASE InsertListener(c)
    BY <1>2 DEF Maps, InsertListener, Insert
  <1> QED
    BY <1>1, <1>2

\* While a frame holds the write lock, no other is about to insert and none
\* goes through the listeners.
LEMMA WriterAlone ==
  ASSUME Known, \A v, w \in Vars : v = w, NEW c \in Frames, HoldsWrite(c)
  PROVE  /\ \A d \in Frames : pc[d] = "insert" => d = c
         /\ \A d \in Frames : ~Visiting(d)
  <1>1. \A d \in Frames : frame[d].var = frame[c].var /\ frame[d].var \in Vars
    BY DEF Known, TypeOK, Frame
  <1>2. \A d \in Frames : d # c => ~HoldsWrite(d)
    BY <1>1 DEF Known, ExclusiveWriters, HoldsWrite
  <1>3. readers[frame[c].var] = {} /\ writer[frame[c].var] = c
    BY <1>1, FrameAssumption DEF Known, IInv, LockDiscipline
  <1>4. \A d \in Frames : ~HoldsRead(d)
    BY <1>1, <1>3 DEF Known, IInv, LockDiscipline
  <1> QED
    BY <1>2, <1>4 DEF HoldsWrite, HoldsRead, Visiting, Notifying

\* A step that leaves listeners, value and counter alone, and nobody's part in
\* a notification changes, is none of the table's.
LEMMA Stutters ==
  ASSUME val' = val, cbs' = cbs, funId' = funId,
         \A d \in Frames : VisitOf(d)' = VisitOf(d),
         \A d \in Frames : pc'[d] = "insert" <=> pc[d] = "insert"
  PROVE  UNCHANGED Table!vars
  BY DEF VisitMap, LastKey, Table!vars

\* A step of one frame changes the mapped function at that frame only.
LEMMA OneVisit ==
  ASSUME NEW c \in Frames, \A d \in Frames \ {c} : pc'[d] = pc[d] /\ frame'[d] = frame[d]
  PROVE  /\ \A d \in Frames \ {c} : VisitOf(d)' = VisitOf(d)
         /\ VisitMap' = [VisitMap EXCEPT ![c] = VisitOf(c)']
  <1>1. \A d \in Frames \ {c} : VisitOf(d)' = VisitOf(d)
    BY DEF VisitOf, Visiting, Notifying
  <1> QED
    BY <1>1 DEF VisitMap

\* Every step of the variable is one of the table, or none.
LEMMA TableStep ==
  ASSUME Known, Known', [Next]_vars, \A v, w \in Vars : v = w
  PROVE  [Table!Next]_(Table!vars)
  <1>0. CASE UNCHANGED vars
    BY <1>0, Stutters DEF vars, VisitOf, Visiting, Notifying
  <1> SUFFICES ASSUME NEW c \in Frames, Call(c) \/ Step(c) \/ Lock(c)
               PROVE  [Table!Next]_(Table!vars)
    BY <1>0 DEF Next
  <1> DEFINE x == TheVar
  <1>x. /\ x \in Vars /\ \A d \in Frames : frame[d] \in Frame /\ frame[d].var = x
        /\ funId \in Nat
    BY VarsAssumption DEF TheVar, Known, TypeOK, Frame
  <1>t. /\ pc \in [Frames -> PCs] /\ frame \in [Frames -> Frame]
        /\ val[x] = Default[x]
    BY DEF Known, TypeOK, ValueFrozen
  <1>1. CASE Call(c)
    <2>1. PICK f \in Frame : Start(c, f)
      BY <1>1, CallStarts DEF Known
    <2>2. VisitOf(c)' = VisitOf(c) /\ pc'[c] # "insert" /\ pc[c] # "insert"
      BY <1>t, <2>1 DEF Start, CanStart, VisitOf, Visiting, Notifying
    <2> QED
      BY <1>t, <2>1, <2>2, OneVisit, Stutters DEF Start
  <1>2. CASE LockRead(c) \/ LockWrite(c)
    <2>1. /\ UNCHANGED <<val, cbs, funId, frame>>
          /\ \A d \in Frames \ {c} : pc'[d] = pc[d]
          /\ pc[c] # "insert" /\ pc'[c] # "insert"
      BY <1>2, <1>t DEF LockRead, LockWrite, Goto
    <2>2. ~Visiting(c) /\ ~Visiting(c)'
      BY <1>2, <1>t DEF LockRead, LockWrite, Goto, Visiting, Notifying, Known, IInv, Stages,
                        HoldsWrite
    <2> QED
      BY <2>1, <2>2, OneVisit, Stutters DEF VisitOf
  <1>3. CASE ReturnRead(c)
    <2>1. /\ UNCHANGED <<val, cbs, funId>>
          /\ \A d \in Frames \ {c} : pc'[d] = pc[d] /\ frame'[d] = frame[d]
          /\ pc[c] = "reading" /\ pc'[c] = "idle"
      BY <1>3, <1>t DEF ReturnRead, Leave
    <2> QED
      BY <2>1, OneVisit, Stutters DEF VisitOf, Visiting, Notifying
  <1>4. CASE BeginNotify(c)
    <2>1. /\ UNCHANGED <<val, cbs, funId>>
          /\ \A d \in Frames \ {c} : pc'[d] = pc[d] /\ frame'[d] = frame[d]
          /\ pc[c] = "reading" /\ pc'[c] = "notify"
          /\ frame'[c].todo = DOMAIN cbs[x] /\ frame'[c].new = frame[c].new
      BY <1>4, <1>t, <1>x DEF BeginNotify, Goto, Frame
    <2>2. frame[c].new \in Values \ {val[x]}
      BY <1>4, <1>x DEF BeginNotify, Frame
    <2>3. ~VisitMap[c].on /\ LastKey' = LastKey
      BY <2>1 DEF VisitMap, VisitOf, Visiting, Notifying, LastKey
    <2>4. VisitOf(c)' = [on |-> TRUE, todo |-> DOMAIN cbs[x], new |-> frame[c].new]
      BY <2>1 DEF VisitOf, Visiting, Notifying
    <2>5. VisitMap' = [VisitMap EXCEPT ![c] = VisitOf(c)']
      BY <2>1, OneVisit
    <2>6. Table!Begin(c)
      BY <2>1, <2>2, <2>3, <2>4, <2>5 DEF Table!Begin
    <2> QED
      BY <2>6 DEF Table!Next
  <1>5. CASE CallListener(c)
    <2>1. PICK k \in frame[c].todo :
            /\ \A j \in frame[c].todo : k <= j
            /\ pc[c] = "notify" /\ pc'[c] = "callback"
            /\ frame' = [frame EXCEPT ![c].todo = @ \ {k}]
            /\ \A d \in Frames \ {c} : pc'[d] = pc[d] /\ frame'[d] = frame[d]
            /\ UNCHANGED <<val, cbs, funId>>
      BY <1>5, <1>t DEF CallListener, Goto
    <2>2. frame'[c].todo = frame[c].todo \ {k} /\ frame'[c].new = frame[c].new
      BY <1>t, <1>x, <2>1 DEF Frame
    <2>3. VisitMap[c] = [on |-> TRUE, todo |-> frame[c].todo, new |-> frame[c].new]
      BY <2>1 DEF VisitMap, VisitOf, Visiting, Notifying
    <2>4. VisitOf(c)' = [on |-> TRUE, todo |-> frame[c].todo \ {k}, new |-> frame[c].new]
      BY <2>1, <2>2 DEF VisitOf, Visiting, Notifying
    <2>5. VisitMap' = [VisitMap EXCEPT ![c] =
                         [on |-> TRUE, todo |-> @.todo \ {k}, new |-> @.new]]
      BY <2>1, <2>3, <2>4, OneVisit
    <2>6. LastKey' = LastKey
      BY <2>1 DEF LastKey
    <2>7. Table!Visit(c)
      <3>1. k \in VisitMap[c].todo /\ \A j \in VisitMap[c].todo : k <= j
        BY <2>1, <2>3
      <3>2. UNCHANGED <<val[TheVar], cbs[TheVar], LastKey>>
        BY <2>1, <2>6
      <3> QED
        BY <2>5, <3>1, <3>2 DEF Table!Visit
    <2> QED
      BY <2>7 DEF Table!Next
  <1>6. CASE ListenerReturns(c) \/ EndNotify(c)
    <2>1. /\ UNCHANGED <<val, cbs, funId, frame>>
          /\ \A d \in Frames \ {c} : pc'[d] = pc[d]
          /\ pc[c] \in {"callback", "notify"} /\ pc'[c] \in {"notify", "wrlock"}
          /\ frame[c].op = "setValue"
      BY <1>6, <1>t DEF ListenerReturns, ListenerDone, EndNotify, Goto, Known, IInv, Stages,
                        Notifying
    <2>2. VisitOf(c)' = VisitOf(c)
      BY <2>1 DEF VisitOf, Visiting, Notifying
    <2> QED
      BY <2>1, <2>2, OneVisit, Stutters
  <1>7. CASE ListenerThrows(c)
    <2>1. /\ UNCHANGED <<val, cbs, funId>>
          /\ \A d \in Frames \ {c} : pc'[d] = pc[d] /\ frame'[d] = frame[d]
          /\ pc[c] = "callback" /\ pc'[c] = "idle"
      BY <1>7, <1>t DEF ListenerThrows, ListenerDone, Leave
    <2>2. VisitMap[c].on /\ LastKey' = LastKey
      BY <2>1 DEF VisitMap, VisitOf, Visiting, Notifying, LastKey
    <2>3. VisitMap' = [VisitMap EXCEPT ![c] = Table!Absent]
      BY <2>1, OneVisit DEF VisitOf, Visiting, Notifying, Table!Absent
    <2>4. Table!Abandon(c)
      BY <2>1, <2>2, <2>3 DEF Table!Abandon
    <2> QED
      BY <2>4 DEF Table!Next
  <1>8. CASE Write(c)
    <2>1. /\ pc[c] = "writing" /\ pc'[c] = "idle" /\ HoldsWrite(c)
          /\ \A d \in Frames \ {c} : pc'[d] = pc[d] /\ frame'[d] = frame[d]
          /\ UNCHANGED funId
          /\ cbs'[x] = Remaining(frame[c], cbs[x])
          /\ val'[x] = val[x]
      BY <1>8, <1>t, <1>x DEF Write, Leave, HoldsWrite, Known, TypeOK, ValueFrozen
    <2>2. /\ VisitMap' = VisitMap /\ LastKey' = LastKey
          /\ Table!Visitors = {}
      <3>1. VisitOf(c)' = VisitOf(c)
        BY <2>1 DEF VisitOf, Visiting, Notifying
      <3>2. VisitMap' = VisitMap
        BY <2>1, <3>1, OneVisit DEF VisitMap
      <3>3. LastKey' = LastKey
        BY <2>1 DEF LastKey
      <3>4. Table!Visitors = {}
        BY <2>1, WriterAlone DEF Table!Visitors, VisitMap, VisitOf
      <3> QED
        BY <3>2, <3>3, <3>4
    <2>3. CASE frame[c].op = "delListener" /\ frame[c].key \in DOMAIN cbs[x]
      <3>1. Table!Remove
        BY <2>1, <2>2, <2>3 DEF Table!Remove, Remaining, Restrict, Table!Restrict
      <3> QED
        BY <3>1 DEF Table!Next
    <2>4. CASE frame[c].op = "delListener" /\ frame[c].key \notin DOMAIN cbs[x]
      <3>1. cbs[x] = [k \in DOMAIN cbs[x] |-> cbs[x][k]]
        BY <1>x DEF Known, Maps
      <3>2. DOMAIN cbs[x] \ {frame[c].key} = DOMAIN cbs[x]
        BY <2>4
      <3>3. cbs'[x] = cbs[x]
        BY <2>1, <2>4, <3>1, <3>2 DEF Remaining, Restrict
      <3> QED
        BY <2>1, <2>2, <3>3 DEF Table!vars
    <2>5. CASE frame[c].op = "clearListeners"
      <3>1. Table!Remove
        BY <2>1, <2>2, <2>5 DEF Table!Remove, Remaining
      <3> QED
        BY <3>1 DEF Table!Next
    <2>6. CASE frame[c].op \notin {"delListener", "clearListeners"}
      BY <2>1, <2>2, <2>6 DEF Table!vars, Remaining
    <2> QED
      BY <2>3, <2>4, <2>5, <2>6
  <1>9. CASE LoadId(c) \/ ReturnId(c)
    <2>1. /\ UNCHANGED <<val, cbs, funId>>
          /\ \A d \in Frames \ {c} : pc'[d] = pc[d] /\ frame'[d] = frame[d]
          /\ pc[c] \in {"writing", "return"} /\ pc'[c] \in {"store", "idle"}
      BY <1>9, <1>t DEF LoadId, ReturnId, Goto, Leave
    <2> QED
      BY <2>1, OneVisit, Stutters DEF VisitOf, Visiting, Notifying
  <1>10. CASE StoreId(c)
    <2>1. /\ UNCHANGED <<val, cbs>>
          /\ \A d \in Frames \ {c} : pc'[d] = pc[d] /\ frame'[d] = frame[d]
          /\ pc[c] = "store" /\ pc'[c] = "insert" /\ HoldsWrite(c)
          /\ frame[c].reg = funId /\ funId' = funId + 1
      BY <1>10, <1>t DEF StoreId, Goto, HoldsWrite, Known, KeysBelow
    <2>2. VisitMap' = VisitMap
      BY <2>1, OneVisit DEF VisitMap, VisitOf, Visiting, Notifying
    <2>3. LastKey' = LastKey
      BY <1>x, <2>1, WriterAlone DEF LastKey
    <2> QED
      BY <2>1, <2>2, <2>3 DEF Table!vars
  <1>11. CASE InsertListener(c)
    <2>1. /\ UNCHANGED <<val, funId>>
          /\ \A d \in Frames \ {c} : pc'[d] = pc[d] /\ frame'[d] = frame[d]
          /\ pc[c] = "insert" /\ pc'[c] = "return" /\ HoldsWrite(c)
          /\ frame[c].reg = funId
      BY <1>11, <1>t DEF InsertListener, Goto, HoldsWrite, Known, KeysBelow
    <2>2. cbs'[x] = Insert(cbs[x], funId, c)
      BY <1>11, <1>x, <2>1 DEF InsertListener, Seen, Known, TypeOK
    <2>3. VisitMap' = VisitMap
      BY <2>1, OneVisit DEF VisitMap, VisitOf, Visiting, Notifying
    <2>4. LastKey = funId - 1 /\ LastKey' = funId /\ funId = LastKey + 1
      BY <1>x, <2>1, WriterAlone DEF LastKey
    <2>5. Table!Visitors = {}
      BY <2>1, WriterAlone DEF Table!Visitors, VisitMap, VisitOf
    <2>6. Table!Add(c)
      BY <2>1, <2>2, <2>3, <2>4, <2>5 DEF Table!Add, Insert
    <2> QED
      BY <2>6 DEF Table!Next
  <1> QED
    BY <1>1, <1>2, <1>3, <1>4, <1>5, <1>6, <1>7, <1>8, <1>9, <1>10, <1>11 DEF Step, Lock

\* A configuration variable that is the only one of its type implements the
\* table of listeners: addListener, delListener and clearListeners are atomic,
\* and setValue visits the listeners in order while nothing changes.
THEOREM ImplementsTable ==
  ASSUME \A v, w \in Vars : v = w
  PROVE  Spec => RefinesTable
  <1>1. Init => Table!Init
    BY VarsAssumption
       DEF Init, Table!Init, TheVar, LastKey, VisitMap, VisitOf, Visiting, Notifying, Table!Absent
  <1>2. Known /\ Known' /\ [Next]_vars => [Table!Next]_(Table!vars)
    BY TableStep
  <1>3. /\ Init => KeysBelow
        /\ /\ TypeOK /\ TypeOK' /\ IInv /\ ExclusiveWriters
           /\ KeysBelow /\ KeyFindsListener /\ [Next]_vars
           => KeysBelow'
    BY KeysInductive DEF Init, KeysBelow
  <1>4. Spec => []KeyFindsListener
    BY OneVariableKeys
  <1>5. /\ Init => Maps
        /\ TypeOK /\ Maps /\ [Next]_vars => Maps'
    BY MapsStay DEF Init, Maps
  <1>6. Spec => []Known
    BY <1>3, <1>4, <1>5, TypeCorrect, Invariant, WritersExclude, NothingChanges, PTL DEF Spec, Known
  <1> QED
    BY <1>1, <1>2, <1>6, PTL DEF Spec, RefinesTable, Table!Spec
=============================================================================
