------------------------------- MODULE Thread -------------------------------
(***************************************************************************)
(* RareVoyager::Thread and its Semaphore (src/src/include/thread/thread.h, *)
(* src/src/src/thread/thread.cpp): the constructor creates a pthread and   *)
(* waits until run has taken the callback; join waits for the pthread to   *)
(* end; the destructor detaches it, if the destroying thread is itself one *)
(* of a Thread.  A pthread is named by the Thread object that created it.  *)
(***************************************************************************)
EXTENDS Naturals

CONSTANTS
  Mains,         \* threads that no Thread created
  Objects,       \* the Thread objects ever made
  NoObject,      \* a null Thread*
  Holds          \* <<a, o>>: thread a constructs, joins and destroys object o

Actors == Mains \cup Objects

ASSUME ActorAssumption == Mains \cap Objects = {} /\ NoObject \notin Actors
ASSUME HoldsAssumption == Holds \subseteq Actors \X Objects

VARIABLES
  life,     \* of each object: not yet made, in its constructor, alive, destroyed, or
            \* never alive because its constructor threw
  hasCb,    \* is m_cb not empty?
  idSet,    \* has m_id been set?
  handle,   \* is m_thread not 0?
  sem,      \* the value of m_semaphore
  pthread,  \* what has become of the object's pthread, for pthread_join and _detach
  taken,    \* run's local cb: not empty?
  this,     \* t_thread of each thread
  pc, on,   \* where each thread is, and the object its call is about
  fault     \* what the process did that it must not do

vars == <<life, hasCb, idSet, handle, sem, pthread, taken, this, pc, on, fault>>

Lives == {"unmade", "building", "alive", "gone", "failed"}

Pthreads == {"none", "joinable", "joined", "detached"}

\* Before run, in run before notify, in the callback or main, in a call (joined:
\* pthread_join has returned and m_thread is not yet 0), ended.
PCs == {"none", "born", "named", "took", "user", "constructing", "joining", "joined",
        "ended"}

\* run used an object that is gone, or failed; SetName did; pthread_join or
\* pthread_detach got a pthread_t that is not joinable.
Faults == {"none", "run on gone object", "run on failed object", "t_thread gone",
           "stale handle"}

Init ==
  /\ life = [o \in Objects |-> "unmade"]
  /\ hasCb = [o \in Objects |-> FALSE]
  /\ idSet = [o \in Objects |-> FALSE]
  /\ handle = [o \in Objects |-> FALSE]
  /\ sem = [o \in Objects |-> 0]
  /\ pthread = [o \in Objects |-> "none"]
  /\ taken = [o \in Objects |-> FALSE]
  /\ this = [a \in Actors |-> NoObject]
  /\ pc = [a \in Actors |-> IF a \in Mains THEN "user" ELSE "none"]
  /\ on = [a \in Actors |-> NoObject]
  /\ fault = "none"

Goto(a, here, there) == pc[a] = here /\ pc' = [pc EXCEPT ![a] = there]

Back(a) == /\ pc' = [pc EXCEPT ![a] = "user"]
           /\ on' = [on EXCEPT ![a] = NoObject]

-----------------------------------------------------------------------------
(* The constructor                                                          *)

\* f: is the callback not empty?  pthread_create stores m_thread.
Construct(a, o) == \E f \in BOOLEAN :
  /\ pc[a] = "user" /\ <<a, o>> \in Holds /\ life[o] = "unmade"
  /\ life' = [life EXCEPT ![o] = "building"]
  /\ hasCb' = [hasCb EXCEPT ![o] = f]
  /\ handle' = [handle EXCEPT ![o] = TRUE]
  /\ pthread' = [pthread EXCEPT ![o] = "joinable"]
  /\ pc' = [pc EXCEPT ![a] = "constructing", ![o] = "born"]
  /\ on' = [on EXCEPT ![a] = o]
  /\ UNCHANGED <<idSet, sem, taken, this, fault>>

\* pthread_create fails and the constructor throws.
ConstructFails(a, o) ==
  /\ pc[a] = "user" /\ <<a, o>> \in Holds /\ life[o] = "unmade"
  /\ life' = [life EXCEPT ![o] = "failed"]
  /\ UNCHANGED <<hasCb, idSet, handle, sem, pthread, taken, this, pc, on, fault>>

\* Mutant of WaitReturns: the constructor does not wait.
WaitReturnsAtOnce(a) == LET o == on[a] IN
  /\ pc[a] = "constructing"
  /\ sem' = [sem EXCEPT ![o] = @ - 1]
  /\ life' = [life EXCEPT ![o] = "alive"]
  /\ Back(a)
  /\ UNCHANGED <<hasCb, idSet, handle, pthread, taken, this, fault>>

WaitReturns(a) == LET o == on[a] IN
  /\ pc[a] = "constructing" /\ sem[o] > 0
  /\ sem' = [sem EXCEPT ![o] = @ - 1]
  /\ life' = [life EXCEPT ![o] = "alive"]
  /\ Back(a)
  /\ UNCHANGED <<hasCb, idSet, handle, pthread, taken, this, fault>>

\* sem_wait fails (EINTR): the constructor throws, the members are destroyed, the
\* pthread goes on.
WaitThrows(a) == LET o == on[a] IN
  /\ pc[a] = "constructing" /\ sem[o] = 0
  /\ life' = [life EXCEPT ![o] = "failed"]
  /\ Back(a)
  /\ UNCHANGED <<hasCb, idSet, handle, sem, pthread, taken, this, fault>>

-----------------------------------------------------------------------------
(* run                                                                      *)

\* run uses *thread.
Touch(o) == fault' = CASE life[o] = "gone" -> "run on gone object"
                       [] life[o] = "failed" -> "run on failed object"
                       [] OTHER -> "none"

\* Mutant of RecordId: notify comes first.
RecordIdNotifying(o) ==
  /\ Goto(o, "born", "named") /\ Touch(o)
  /\ this' = [this EXCEPT ![o] = o]
  /\ idSet' = [idSet EXCEPT ![o] = TRUE]
  /\ sem' = [sem EXCEPT ![o] = @ + 1]
  /\ UNCHANGED <<life, hasCb, handle, pthread, taken, on>>

\* t_thread, m_id and the thread's name.
RecordId(o) ==
  /\ Goto(o, "born", "named") /\ Touch(o)
  /\ this' = [this EXCEPT ![o] = o]
  /\ idSet' = [idSet EXCEPT ![o] = TRUE]
  /\ UNCHANGED <<life, hasCb, handle, sem, pthread, taken, on>>

\* cb.swap(thread->m_cb)
TakeCallback(o) ==
  /\ Goto(o, "named", "took") /\ Touch(o)
  /\ taken' = [taken EXCEPT ![o] = hasCb[o]]
  /\ hasCb' = [hasCb EXCEPT ![o] = FALSE]
  /\ UNCHANGED <<life, idSet, handle, sem, pthread, this, on>>

\* Mutant of Notify: only a thread with a callback notifies.
NotifyIfCallback(o) ==
  /\ Goto(o, "took", IF taken[o] THEN "user" ELSE "ended") /\ Touch(o)
  /\ sem' = [sem EXCEPT ![o] = IF taken[o] THEN @ + 1 ELSE @]
  /\ UNCHANGED <<life, hasCb, idSet, handle, pthread, taken, this, on>>

\* notify, then the callback, if there is one.
Notify(o) ==
  /\ Goto(o, "took", IF taken[o] THEN "user" ELSE "ended") /\ Touch(o)
  /\ sem' = [sem EXCEPT ![o] = @ + 1]
  /\ UNCHANGED <<life, hasCb, idSet, handle, pthread, taken, this, on>>

\* The callback returns.
Finish(o) ==
  /\ o \in Objects /\ Goto(o, "user", "ended")
  /\ UNCHANGED <<life, hasCb, idSet, handle, sem, pthread, taken, this, on, fault>>

-----------------------------------------------------------------------------
(* join, the destructor, SetName                                            *)

CanJoin(a, o) == /\ pc[a] = "user" /\ <<a, o>> \in Holds /\ a # o
                 /\ life[o] = "alive" /\ handle[o]

\* Mutant of Join: m_thread = 0 comes before pthread_join.
JoinClearing(a, o) ==
  /\ CanJoin(a, o)
  /\ pc' = [pc EXCEPT ![a] = "joining"]
  /\ on' = [on EXCEPT ![a] = o]
  /\ handle' = [handle EXCEPT ![o] = FALSE]
  /\ UNCHANGED <<life, hasCb, idSet, sem, pthread, taken, this, fault>>

\* join with m_thread # 0 (with m_thread = 0 it returns; of itself it throws).
Join(a, o) ==
  /\ CanJoin(a, o)
  /\ pc' = [pc EXCEPT ![a] = "joining"]
  /\ on' = [on EXCEPT ![a] = o]
  /\ UNCHANGED <<life, hasCb, idSet, handle, sem, pthread, taken, this, fault>>

\* pthread_join returns.
JoinReturns(a) == LET o == on[a] IN
  /\ pc[a] = "joining" /\ pc[o] = "ended" /\ pthread[o] = "joinable"
  /\ pc' = [pc EXCEPT ![a] = "joined"]
  /\ pthread' = [pthread EXCEPT ![o] = "joined"]
  /\ UNCHANGED <<life, hasCb, idSet, handle, sem, taken, this, on, fault>>

\* Mutant of ClearHandle: m_thread is not reset.
ClearHandleNot(a) ==
  /\ pc[a] = "joined"
  /\ Back(a)
  /\ UNCHANGED <<life, hasCb, idSet, handle, sem, pthread, taken, this, fault>>

\* m_thread = 0.  Until then a second join passes the test.
ClearHandle(a) ==
  /\ pc[a] = "joined"
  /\ handle' = [handle EXCEPT ![on[a]] = FALSE]
  /\ Back(a)
  /\ UNCHANGED <<life, hasCb, idSet, sem, pthread, taken, this, fault>>

\* Another thread is joining the same pthread (undefined by POSIX): pthread_join
\* may report an error, and join throws.
JoinFails(a) == LET o == on[a] IN
  /\ pc[a] = "joining" /\ \E b \in Actors \ {a} : pc[b] = "joining" /\ on[b] = o
  /\ Back(a)
  /\ UNCHANGED <<life, hasCb, idSet, handle, sem, pthread, taken, this, fault>>

\* Another thread has joined it, and m_thread may be 0: an error, or a use of what
\* is left of it.
JoinIsLate(a) == LET o == on[a] IN
  /\ pc[a] = "joining" /\ pthread[o] = "joined"
  /\ fault' \in {"none", "stale handle"}
  /\ Back(a)
  /\ UNCHANGED <<life, hasCb, idSet, handle, sem, pthread, taken, this>>

\* The last shared pointer goes: no call on o is under way.  A destroying thread
\* that has a Thread detaches m_thread, even if join has set it to 0.
Destroy(a, o) ==
  /\ pc[a] = "user" /\ <<a, o>> \in Holds /\ life[o] = "alive"
  /\ \A b \in Actors : on[b] # o
  /\ life' = [life EXCEPT ![o] = "gone"]
  /\ IF this[a] # NoObject /\ handle[o]
     THEN pthread' = [pthread EXCEPT ![o] = "detached"]
     ELSE UNCHANGED pthread
  /\ \/ fault' = "none"
     \/ fault' = "stale handle" /\ this[a] # NoObject /\ ~handle[o]
  /\ UNCHANGED <<hasCb, idSet, handle, sem, taken, this, pc, on>>

\* SetName writes to *t_thread if t_thread is not null.
SetName(a) ==
  /\ pc[a] = "user" /\ this[a] # NoObject
  /\ fault' = IF life[this[a]] \in {"gone", "failed"} THEN "t_thread gone" ELSE "none"
  /\ UNCHANGED <<life, hasCb, idSet, handle, sem, pthread, taken, this, pc, on>>

-----------------------------------------------------------------------------
Call(a) == \/ \E o \in Objects : \/ Construct(a, o) \/ ConstructFails(a, o)
                                 \/ Join(a, o) \/ Destroy(a, o)
           \/ SetName(a)

\* What a blocked thread waits for, and how else its wait may end; then the end of
\* join.
Wait(a) == WaitReturns(a) \/ JoinReturns(a) \/ JoinIsLate(a) \/ ClearHandle(a)

Error(a) == WaitThrows(a) \/ JoinFails(a)

Run(o) == RecordId(o) \/ TakeCallback(o) \/ Notify(o)

Next == /\ fault = "none"
        /\ \/ \E a \in Actors : Call(a) \/ Wait(a) \/ Error(a)
           \/ \E o \in Objects : Run(o) \/ Finish(o)

Spec == Init /\ [][Next]_vars

\* Threads that are not blocked are scheduled, and every callback returns;
\* nobody counts on errors.
FairSpec == /\ Spec
            /\ \A a \in Actors : WF_vars(fault = "none" /\ Wait(a))
            /\ \A o \in Objects : /\ WF_vars(fault = "none" /\ Run(o))
                                  /\ SF_vars(fault = "none" /\ Finish(o))

-----------------------------------------------------------------------------
TypeOK ==
  /\ life \in [Objects -> Lives]
  /\ hasCb \in [Objects -> BOOLEAN]
  /\ idSet \in [Objects -> BOOLEAN]
  /\ handle \in [Objects -> BOOLEAN]
  /\ sem \in [Objects -> Nat]
  /\ pthread \in [Objects -> Pthreads]
  /\ taken \in [Objects -> BOOLEAN]
  /\ this \in [Actors -> Objects \cup {NoObject}]
  /\ pc \in [Actors -> PCs]
  /\ on \in [Actors -> Objects \cup {NoObject}]
  /\ fault \in Faults

\* run has done with its object.
Past(o) == pc[o] \in {"user", "constructing", "joining", "joined", "ended"}

\* When the constructor has returned, the id can be read, the callback has been
\* taken, and run does not use the object any more: it may be destroyed.
HandshakeDone == \A o \in Objects :
  life[o] = "alive" => idSet[o] /\ ~hasCb[o] /\ Past(o)

\* run never uses an object that has been destroyed, whoever destroys it and
\* whenever; it may use one whose constructor threw.
RunUsesObject == fault # "run on gone object"

\* After join has returned, the callback has.
JoinedEnded == \A o \in Objects :
  life[o] = "alive" /\ ~handle[o] => pc[o] = "ended"

\* Who has joined o and is about to set its m_thread to 0.
Clearing(o) == {a \in Actors : pc[a] = "joined" /\ on[a] = o}

\* While an object is alive, however many threads join it, m_thread can be joined
\* or detached, or is 0 and has been joined; or it is stale, between pthread_join's
\* return and the assignment, and one thread is there.
HandleValid == \A o \in Objects : life[o] = "alive" =>
  \/ handle[o] /\ pthread[o] = "joinable" /\ Clearing(o) = {}
  \/ handle[o] /\ pthread[o] = "joined" /\ \E a \in Actors : Clearing(o) = {a}
  \/ ~handle[o] /\ pthread[o] = "joined" /\ Clearing(o) = {}

\* run has said that it has done with its object, and so it has.
Signalled(o) == idSet[o] /\ ~hasCb[o] /\ Past(o)

\* The constructor's handshake with run.
Handshake == \A o \in Objects :
  /\ life[o] = "unmade" => pc[o] = "none"
  /\ sem[o] > 0 \/ life[o] = "alive" => Signalled(o)
  /\ pc[o] \in {"named", "took"} => idSet[o]
  /\ pc[o] = "took" => ~hasCb[o]
  /\ life[o] = "gone" => Past(o)

\* An object in its constructor has one constructing thread; no thread joins
\* an object that is not alive, and what it has joined has ended.
CallsOnLive == \A a \in Actors :
  /\ pc[a] \in {"joining", "joined"} => on[a] \in Objects /\ life[on[a]] = "alive"
  /\ pc[a] = "joined" => pc[on[a]] = "ended"
  /\ pc[a] = "constructing" =>
        /\ on[a] \in Objects /\ life[on[a]] = "building"
        /\ \A b \in Actors : pc[b] = "constructing" /\ on[b] = on[a] => b = a

\* The constructor leaves a joinable pthread.
Building == \A o \in Objects :
  life[o] = "building" => handle[o] /\ pthread[o] = "joinable"

\* The inductive invariant: it says of the states between the constructor's
\* steps and run's what makes the properties above hold when they are over.
IInv == /\ TypeOK /\ Handshake /\ CallsOnLive /\ Building
        /\ RunUsesObject /\ JoinedEnded /\ HandleValid

\* A constructor returns or throws.
ConstructorReturns == \A a \in Actors :
  pc[a] = "constructing" ~> (pc[a] = "user" \/ fault # "none")

\* A join of a thread returns or throws, when threads do not join in a circle.
JoinCompletes == \A a \in Actors :
  pc[a] = "joining" ~> (pc[a] = "user" \/ fault # "none")
=============================================================================
