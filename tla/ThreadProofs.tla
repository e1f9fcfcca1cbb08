---------------------------- MODULE ThreadProofs ----------------------------
(***************************************************************************)
(* Theorems about Thread, for any number of threads and objects and any    *)
(* relation of who uses which.                                             *)
(***************************************************************************)
EXTENDS Thread, TLAPS

\* The proofs look at one step and at one actor and one object of it.
LEMMA InitInvariant == Init => IInv
  <1> SUFFICES ASSUME Init
               PROVE  IInv
    OBVIOUS
  <1> USE ActorAssumption DEF Init, Actors
  <1>1. TypeOK
    BY DEF TypeOK, Lives, Pthreads, PCs, Faults
  <1>2. Handshake
    BY DEF Handshake, Signalled
  <1>3. CallsOnLive /\ Building
    BY DEF CallsOnLive, Building
  <1>4. RunUsesObject /\ JoinedEnded /\ HandleValid
    BY DEF RunUsesObject, JoinedEnded, HandleValid, Clearing
  <1> QED
    BY <1>1, <1>2, <1>3, <1>4 DEF IInv

\* A step that touches neither m_thread, nor a pthread of a live object, nor a
\* thread that is about to set m_thread to 0, leaves every handle as valid.
LEMMA HandlesKept ==
  ASSUME HandleValid, handle' = handle,
         \A o \in Objects : life'[o] = "alive" => life[o] = "alive" /\ pthread'[o] = pthread[o],
         \A a \in Actors, o \in Objects :
           (pc'[a] = "joined" /\ on'[a] = o) <=> (pc[a] = "joined" /\ on[a] = o)
  PROVE  HandleValid'
  <1>1. \A o \in Objects : Clearing(o)' = Clearing(o)
    BY DEF Clearing
  <1> QED
    BY <1>1 DEF HandleValid

\* Only a thread that is in user code makes calls; an object's own thread is then
\* past its handshake.
LEMMA ConstructStep ==
  ASSUME IInv, NEW a \in Actors, NEW o \in Objects, Construct(a, o)
  PROVE  IInv'
  <1> USE ActorAssumption DEF Construct, IInv, TypeOK, Actors
  <1>1. a # o /\ pc[o] = "none" /\ pc[a] = "user"
    BY DEF Handshake
  <1>2. TypeOK'
    BY <1>1 DEF Lives, Pthreads, PCs
  <1>3. Handshake'
    BY <1>1 DEF Handshake, Signalled, Past
  <1>4. CallsOnLive'
    BY <1>1 DEF CallsOnLive
  <1>5. Building'
    BY DEF Building
  <1>6. RunUsesObject'
    BY DEF RunUsesObject
  <1>7. JoinedEnded' /\ HandleValid'
    BY <1>1 DEF JoinedEnded, HandleValid, Clearing
  <1> QED
    BY <1>2, <1>3, <1>4, <1>5, <1>6, <1>7

LEMMA ConstructFailsStep ==
  ASSUME IInv, NEW a \in Actors, NEW o \in Objects, ConstructFails(a, o)
  PROVE  IInv'
  <1> USE ActorAssumption DEF ConstructFails, IInv, TypeOK, Actors
  <1>1. TypeOK'
    BY DEF Lives
  <1>2. Handshake'
    BY DEF Handshake, Signalled, Past
  <1>3. CallsOnLive' /\ Building'
    BY DEF CallsOnLive, Building
  <1>4. RunUsesObject' /\ JoinedEnded'
    BY DEF RunUsesObject, JoinedEnded
  <1>5. HandleValid'
    BY HandlesKept
  <1> QED
    BY <1>1, <1>2, <1>3, <1>4, <1>5

LEMMA WaitReturnsStep ==
  ASSUME IInv, NEW a \in Actors, WaitReturns(a)
  PROVE  IInv'
  <1> USE ActorAssumption DEF WaitReturns, Back, IInv, TypeOK, Actors
  <1> DEFINE o == on[a]
  <1>1. o \in Objects /\ life[o] = "building"
    BY DEF CallsOnLive
  <1>2. handle[o] /\ pthread[o] = "joinable" /\ Signalled(o)
    BY <1>1 DEF Building, Handshake
  <1>3. TypeOK'
    BY <1>1 DEF Lives, PCs
  <1>4. Handshake'
    BY <1>1, <1>2 DEF Handshake, Signalled, Past
  <1>5. CallsOnLive'
    BY <1>1 DEF CallsOnLive
  <1>6. Building'
    BY <1>1 DEF Building
  <1>7. RunUsesObject'
    BY DEF RunUsesObject
  <1>8. JoinedEnded'
    BY <1>1, <1>2 DEF JoinedEnded
  <1>9. HandleValid'
    <2>1. ASSUME NEW b \in Actors, NEW p \in Objects
          PROVE  (pc'[b] = "joined" /\ on'[b] = p) <=> (pc[b] = "joined" /\ on[b] = p)
      BY <2>1
    <2>2. \A p \in Objects : Clearing(p)' = Clearing(p)
      BY <2>1 DEF Clearing
    <2>3. Clearing(o) = {}
      BY <1>1 DEF CallsOnLive, Clearing
    <2> QED
      BY <1>1, <1>2, <2>2, <2>3 DEF HandleValid
  <1> QED
    BY <1>3, <1>4, <1>5, <1>6, <1>7, <1>8, <1>9

LEMMA WaitThrowsStep ==
  ASSUME IInv, NEW a \in Actors, WaitThrows(a)
  PROVE  IInv'
  <1> USE ActorAssumption DEF WaitThrows, Back, IInv, TypeOK, Actors
  <1>1. on[a] \in Objects /\ life[on[a]] = "building"
    BY DEF CallsOnLive
  <1>2. TypeOK'
    BY <1>1 DEF Lives, PCs
  <1>3. Handshake'
    BY <1>1 DEF Handshake, Signalled, Past
  <1>4. CallsOnLive'
    BY <1>1 DEF CallsOnLive
  <1>5. Building' /\ RunUsesObject'
    BY <1>1 DEF Building, RunUsesObject
  <1>6. JoinedEnded' /\ HandleValid'
    BY <1>1 DEF JoinedEnded, HandleValid, Clearing
  <1> QED
    BY <1>2, <1>3, <1>4, <1>5, <1>6

\* run does not meet an object that is gone: it is between its first step and
\* notify, and its constructor waits until it is past that, or throws.
LEMMA RunStep ==
  ASSUME IInv, fault = "none", NEW o \in Objects, Run(o)
  PROVE  IInv'
  <1> USE ActorAssumption DEF IInv, TypeOK, Actors
  <1>1. life[o] # "gone"
    BY DEF Run, RecordId, TakeCallback, Notify, Goto, Handshake, Past
  <1>2. CASE RecordId(o)
    <2> USE <1>2 DEF RecordId, Goto, Touch
    <2>1. TypeOK'
      BY DEF PCs, Faults
    <2>2. Handshake'
      BY DEF Handshake, Signalled, Past
    <2>3. CallsOnLive' /\ Building'
      BY DEF CallsOnLive, Building
    <2>4. RunUsesObject'
      BY <1>1 DEF RunUsesObject
    <2>5. JoinedEnded' /\ HandleValid'
      <3>1. JoinedEnded'
        BY DEF JoinedEnded
      <3>2. HandleValid'
        BY HandlesKept
      <3> QED
        BY <3>1, <3>2
    <2> QED
      BY <2>1, <2>2, <2>3, <2>4, <2>5
  <1>3. CASE TakeCallback(o)
    <2> USE <1>3 DEF TakeCallback, Goto, Touch
    <2>1. TypeOK'
      BY DEF PCs, Faults
    <2>2. Handshake'
      BY DEF Handshake, Signalled, Past
    <2>3. CallsOnLive' /\ Building'
      BY DEF CallsOnLive, Building
    <2>4. RunUsesObject'
      BY <1>1 DEF RunUsesObject
    <2>5. JoinedEnded' /\ HandleValid'
      <3>1. JoinedEnded'
        BY DEF JoinedEnded
      <3>2. HandleValid'
        BY HandlesKept
      <3> QED
        BY <3>1, <3>2
    <2> QED
      BY <2>1, <2>2, <2>3, <2>4, <2>5
  <1>4. CASE Notify(o)
    <2> USE <1>4 DEF Notify, Goto, Touch
    <2>1. TypeOK'
      <3>1. sem' \in [Objects -> Nat]
        <4>1. sem \in [Objects -> Nat] /\ sem' = [sem EXCEPT ![o] = sem[o] + 1]
          OBVIOUS
        <4> HIDE <1>4 DEF Notify, IInv, TypeOK
        <4> QED
          BY <4>1
      <3>2. pc' \in [Actors -> PCs]
        BY DEF PCs
      <3>3. fault' \in Faults
        BY DEF Faults
      <3> QED
        BY <3>1, <3>2, <3>3
    <2>2. Handshake'
      BY DEF Handshake, Signalled, Past
    <2>3. CallsOnLive' /\ Building'
      BY DEF CallsOnLive, Building
    <2>4. RunUsesObject'
      BY <1>1 DEF RunUsesObject
    <2>5. JoinedEnded' /\ HandleValid'
      <3>1. JoinedEnded'
        BY DEF JoinedEnded
      <3>2. HandleValid'
        BY HandlesKept
      <3> QED
        BY <3>1, <3>2
    <2> QED
      BY <2>1, <2>2, <2>3, <2>4, <2>5
  <1> QED
    BY <1>2, <1>3, <1>4 DEF Run

LEMMA FinishStep ==
  ASSUME IInv, NEW o \in Objects, Finish(o)
  PROVE  IInv'
  <1> USE ActorAssumption DEF Finish, Goto, IInv, TypeOK, Actors
  <1>1. TypeOK'
    BY DEF PCs
  <1>2. Handshake'
    BY DEF Handshake, Signalled, Past
  <1>3. CallsOnLive' /\ Building'
    BY DEF CallsOnLive, Building
  <1>4. RunUsesObject' /\ JoinedEnded' /\ HandleValid'
    <2>1. RunUsesObject' /\ JoinedEnded'
      BY DEF RunUsesObject, JoinedEnded
    <2>2. HandleValid'
      BY HandlesKept
    <2> QED
      BY <2>1, <2>2
  <1> QED
    BY <1>1, <1>2, <1>3, <1>4

LEMMA JoinStep ==
  ASSUME IInv, NEW a \in Actors, NEW o \in Objects, Join(a, o)
  PROVE  IInv'
  <1> USE ActorAssumption DEF Join, CanJoin, IInv, TypeOK, Actors
  <1>1. TypeOK'
    BY DEF PCs
  <1>2. Handshake'
    BY DEF Handshake, Signalled, Past
  <1>3. CallsOnLive' /\ Building'
    BY DEF CallsOnLive, Building
  <1>4. RunUsesObject' /\ JoinedEnded' /\ HandleValid'
    <2>1. RunUsesObject' /\ JoinedEnded'
      BY DEF RunUsesObject, JoinedEnded
    <2>2. HandleValid'
      BY HandlesKept
    <2> QED
      BY <2>1, <2>2
  <1> QED
    BY <1>1, <1>2, <1>3, <1>4

\* The only thread that joins o, as long as m_thread is not 0.
LEMMA JoinReturnsStep ==
  ASSUME IInv, NEW a \in Actors, JoinReturns(a)
  PROVE  IInv'
  <1> USE ActorAssumption DEF JoinReturns, IInv, TypeOK, Actors
  <1> DEFINE o == on[a]
  <1>1. o \in Objects /\ life[o] = "alive" /\ a # o
    BY DEF CallsOnLive
  <1>2. TypeOK'
    BY <1>1 DEF Pthreads, PCs
  <1>3. Handshake'
    BY <1>1 DEF Handshake, Signalled, Past
  <1>4. CallsOnLive' /\ Building'
    BY <1>1 DEF CallsOnLive, Building
  <1>5. RunUsesObject' /\ JoinedEnded'
    BY <1>1 DEF RunUsesObject, JoinedEnded
  <1>6. HandleValid'
    <2>1. handle[o] /\ Clearing(o) = {}
      BY <1>1 DEF HandleValid
    <2>2. Clearing(o)' = {a}
      BY <2>1 DEF Clearing
    <2>3. \A p \in Objects \ {o} : Clearing(p)' = Clearing(p)
      BY DEF Clearing
    <2> QED
      BY <1>1, <2>1, <2>2, <2>3 DEF HandleValid
  <1> QED
    BY <1>2, <1>3, <1>4, <1>5, <1>6

LEMMA ClearHandleStep ==
  ASSUME IInv, NEW a \in Actors, ClearHandle(a)
  PROVE  IInv'
  <1> USE ActorAssumption DEF ClearHandle, Back, IInv, TypeOK, Actors
  <1>1. PICK o \in Objects : o = on[a] /\ life[o] = "alive" /\ pc[o] = "ended" /\ a # o
    BY DEF CallsOnLive
  <1>2. TypeOK'
    BY <1>1 DEF PCs
  <1>3. Handshake'
    BY <1>1 DEF Handshake, Signalled, Past
  <1>4. CallsOnLive' /\ Building'
    BY <1>1 DEF CallsOnLive, Building
  <1>5. RunUsesObject' /\ JoinedEnded'
    BY <1>1 DEF RunUsesObject, JoinedEnded
  <1>6. HandleValid'
    <2>1. a \in Clearing(o)
      BY <1>1 DEF Clearing
    <2>2. pthread[o] = "joined" /\ Clearing(o) = {a}
      BY <1>1, <2>1 DEF HandleValid
    <2>3. Clearing(o)' = {}
      <3>1. ASSUME NEW b \in Actors, (pc'[b] = "joined" /\ on'[b] = o)
            PROVE  b = a /\ pc'[a] = "user"
        BY <1>1, <2>2, <3>1 DEF Clearing
      <3>2. \A b \in Actors : ~(pc'[b] = "joined" /\ on'[b] = o)
        BY <3>1
      <3> QED
        BY <3>2 DEF Clearing
    <2>4. \A p \in Objects \ {o} : Clearing(p)' = Clearing(p)
      BY <1>1 DEF Clearing
    <2>5. /\ ~handle'[o] /\ pthread'[o] = "joined"
          /\ \A p \in Objects \ {o} : handle'[p] = handle[p] /\ pthread'[p] = pthread[p]
      BY <1>1, <2>2
    <2> HIDE DEF ClearHandle, IInv, TypeOK
    <2>6. life' = life /\ HandleValid
      BY DEF ClearHandle, IInv
    <2> QED
      BY <2>3, <2>4, <2>5, <2>6 DEF HandleValid
  <1> QED
    BY <1>2, <1>3, <1>4, <1>5, <1>6

LEMMA JoinFailsStep ==
  ASSUME IInv, NEW a \in Actors, JoinFails(a)
  PROVE  IInv'
  <1> USE ActorAssumption DEF JoinFails, Back, IInv, TypeOK, Actors
  <1>1. on[a] \in Objects /\ life[on[a]] = "alive"
    BY DEF CallsOnLive
  <1>2. TypeOK'
    BY <1>1 DEF PCs, Faults
  <1>3. Handshake'
    BY <1>1 DEF Handshake, Signalled, Past
  <1>4. CallsOnLive' /\ Building'
    BY <1>1 DEF CallsOnLive, Building
  <1>5. RunUsesObject' /\ JoinedEnded' /\ HandleValid'
    <2>1. RunUsesObject' /\ JoinedEnded'
      BY <1>1 DEF RunUsesObject, JoinedEnded
    <2>2. HandleValid'
      BY <1>1, HandlesKept
    <2> QED
      BY <2>1, <2>2
  <1> QED
    BY <1>2, <1>3, <1>4, <1>5

LEMMA JoinIsLateStep ==
  ASSUME IInv, NEW a \in Actors, JoinIsLate(a)
  PROVE  IInv'
  <1> USE ActorAssumption DEF JoinIsLate, Back, IInv, TypeOK, Actors
  <1>1. on[a] \in Objects /\ life[on[a]] = "alive"
    BY DEF CallsOnLive
  <1>2. TypeOK'
    BY <1>1 DEF PCs, Faults
  <1>3. Handshake'
    BY <1>1 DEF Handshake, Signalled, Past
  <1>4. CallsOnLive' /\ Building'
    BY <1>1 DEF CallsOnLive, Building
  <1>5. RunUsesObject' /\ JoinedEnded' /\ HandleValid'
    <2>1. RunUsesObject' /\ JoinedEnded'
      BY <1>1 DEF RunUsesObject, JoinedEnded
    <2>2. HandleValid'
      BY <1>1, HandlesKept
    <2> QED
      BY <2>1, <2>2
  <1> QED
    BY <1>2, <1>3, <1>4, <1>5

\* An object that was alive is past its handshake: run does not miss it.
LEMMA DestroyStep ==
  ASSUME IInv, NEW a \in Actors, NEW o \in Objects, Destroy(a, o)
  PROVE  IInv'
  <1> USE ActorAssumption DEF Destroy, IInv, TypeOK, Actors
  <1>1. Signalled(o)
    BY DEF Handshake
  <1>2. TypeOK'
    BY DEF Lives, Pthreads, Faults
  <1>3. Handshake'
    BY <1>1 DEF Handshake, Signalled, Past
  <1>4. CallsOnLive' /\ Building'
    BY DEF CallsOnLive, Building
  <1>5. RunUsesObject' /\ JoinedEnded' /\ HandleValid'
    <2>1. RunUsesObject' /\ JoinedEnded'
      BY DEF RunUsesObject, JoinedEnded
    <2>2. HandleValid'
      BY HandlesKept
    <2> QED
      BY <2>1, <2>2
  <1> QED
    BY <1>2, <1>3, <1>4, <1>5

LEMMA SetNameStep ==
  ASSUME IInv, NEW a \in Actors, SetName(a)
  PROVE  IInv'
  <1> USE DEF SetName, IInv
  <1>1. TypeOK'
    BY DEF TypeOK, Faults
  <1>2. Handshake'
    BY DEF Handshake, Signalled, Past
  <1>3. CallsOnLive' /\ Building'
    BY DEF CallsOnLive, Building
  <1>4. RunUsesObject' /\ JoinedEnded' /\ HandleValid'
    <2>1. RunUsesObject' /\ JoinedEnded'
      BY DEF RunUsesObject, JoinedEnded
    <2>2. HandleValid'
      BY HandlesKept
    <2> QED
      BY <2>1, <2>2
  <1> QED
    BY <1>1, <1>2, <1>3, <1>4

LEMMA StutterStep == IInv /\ UNCHANGED vars => IInv'
  <1> SUFFICES ASSUME IInv, UNCHANGED vars
               PROVE  IInv'
    OBVIOUS
  <1> USE DEF vars, IInv
  <1>1. TypeOK'
    BY DEF TypeOK
  <1>2. Handshake'
    BY DEF Handshake, Signalled, Past
  <1>3. CallsOnLive' /\ Building'
    BY DEF CallsOnLive, Building
  <1>4. RunUsesObject' /\ JoinedEnded' /\ HandleValid'
    <2>1. RunUsesObject' /\ JoinedEnded'
      BY DEF RunUsesObject, JoinedEnded
    <2>2. HandleValid'
      BY HandlesKept
    <2> QED
      BY <2>1, <2>2
  <1> QED
    BY <1>1, <1>2, <1>3, <1>4

LEMMA NextInvariant == IInv /\ [Next]_vars => IInv'
  <1> SUFFICES ASSUME IInv, [Next]_vars
               PROVE  IInv'
    OBVIOUS
  <1>1. CASE UNCHANGED vars
    BY <1>1, StutterStep
  <1>2. ASSUME fault = "none", NEW a \in Actors, Call(a)
        PROVE  IInv'
    BY <1>2, ConstructStep, ConstructFailsStep, JoinStep, DestroyStep, SetNameStep DEF Call
  <1>3. ASSUME fault = "none", NEW a \in Actors, Wait(a)
        PROVE  IInv'
    BY <1>3, WaitReturnsStep, JoinReturnsStep, JoinIsLateStep, ClearHandleStep DEF Wait
  <1>4. ASSUME fault = "none", NEW a \in Actors, Error(a)
        PROVE  IInv'
    BY <1>4, WaitThrowsStep, JoinFailsStep DEF Error
  <1>5. ASSUME fault = "none", NEW o \in Objects, Run(o) \/ Finish(o)
        PROVE  IInv'
    BY <1>5, RunStep, FinishStep
  <1> QED
    BY <1>1, <1>2, <1>3, <1>4, <1>5 DEF Next

-----------------------------------------------------------------------------
\* Every reachable state satisfies the inductive invariant.
THEOREM Invariant == Spec => []IInv
  BY InitInvariant, NextInvariant, PTL DEF Spec

\* The state of every thread and object is well typed.
THEOREM TypeCorrect == Spec => []TypeOK
  BY Invariant, PTL DEF IInv

\* When the constructor has returned, run has set the id and taken the callback,
\* also if sem_wait can fail.
THEOREM HandshakeHolds == Spec => []HandshakeDone
  <1>1. IInv => HandshakeDone
    BY DEF IInv, Handshake, HandshakeDone, Signalled
  <1> QED
    BY <1>1, Invariant, PTL

\* run never uses an object that has been destroyed, whoever destroys it and
\* whenever; only one whose constructor threw.
THEOREM RunIsSafe == Spec => []RunUsesObject
  BY Invariant, PTL DEF IInv

\* m_thread is 0 only once the callback has returned, however many join.
THEOREM JoinWaits == Spec => []JoinedEnded
  BY Invariant, PTL DEF IInv

\* However many threads join it, m_thread of a live object can be joined, or is 0
\* and has been joined, or is stale while one thread is about to set it to 0.
THEOREM HandlesValid == Spec => []HandleValid
  BY Invariant, PTL DEF IInv
=============================================================================
