----------------------------- MODULE ConfigVar -----------------------------
(***************************************************************************)
(* RareVoyager::ConfigVar<T> (src/src/include/config/config.h): a value    *)
(* m_val and a map m_cbs of change listeners behind a read/write lock      *)
(* m_mutex, and the counter s_fun_id that addListener draws keys from.     *)
(* The counter is a static local of a template member function: the        *)
(* variables of one type T share it, though each has a lock of its own.    *)
(*                                                                         *)
(* A frame is one activation of a member function.  A frame without a      *)
(* parent is a call a thread makes from outside; a frame with a parent is  *)
(* a call made by the listener that its parent (a setValue) is running.    *)
(***************************************************************************)
EXTENDS Naturals, FiniteSets, Functions

CONSTANTS
  Vars,                 \* the configuration variables of one type T
  Values,               \* the values of T
  Default,              \* [Vars -> Values]: the constructor's default_value
  Frames,               \* activations of member functions
  Parent,               \* [Frames -> Frames \cup {NoFrame}]
  NoFrame,
  MaxId,                \* bound: no addListener starts once this many keys are in use
  WriterBlocksReaders   \* does a waiting writer keep new readers out?
                        \* (winpthreads: yes; glibc's default rwlock: no)

ASSUME VarsAssumption    == Vars # {}
ASSUME DefaultAssumption == Default \in [Vars -> Values]
ASSUME FrameAssumption   == /\ NoFrame \notin Frames
                            /\ Parent \in [Frames -> Frames \cup {NoFrame}]
                            /\ \A c \in Frames : Parent[c] # c
ASSUME BoundAssumption   == MaxId \in Nat
ASSUME PolicyAssumption  == WriterBlocksReaders \in BOOLEAN

VARIABLES
  val,      \* m_val of each variable
  cbs,      \* m_cbs: key -> the frame whose addListener put the callback there
  funId,    \* s_fun_id
  readers,  \* frames that hold m_mutex for reading
  writer,   \* the frame that holds m_mutex for writing, or NoFrame
  pc,       \* where each frame is
  frame,    \* its arguments and locals
  keys      \* <<variable, key, frame>>: keys that addListener has returned and
            \* that no delListener or clearListeners has removed since

vars == <<val, cbs, funId, readers, writer, pc, frame, keys>>

Ops == {"setValue", "getValue", "addListener", "delListener", "clearListeners"}

PCs == {"idle", "rdlock", "reading", "notify", "callback", "wrlock", "writing",
        "store", "insert", "return"}

Frame == [op : Ops, var : Vars, new : Values, key : Nat, reg : Nat, todo : SUBSET Nat]

-----------------------------------------------------------------------------
(* m_mutex: pthread_rwlock_t behind RWMutex and its scoped guards           *)

\* Frames blocked in pthread_rwlock_wrlock on v's lock.
WaitingWriters(v) == {c \in Frames : pc[c] = "wrlock" /\ frame[c].var = v}

CanRead(v) == /\ writer[v] = NoFrame
              /\ WriterBlocksReaders => WaitingWriters(v) = {}

\* Mutant of CanWrite: a writer does not wait for readers.
CanWriteDespiteReaders(v) == writer[v] = NoFrame

CanWrite(v) == writer[v] = NoFrame /\ readers[v] = {}

\* The destructors of the guards in scope: the frame gives up what it holds.
Unlock(c) == LET v == frame[c].var IN
  /\ readers' = [readers EXCEPT ![v] = @ \ {c}]
  /\ writer'  = [writer EXCEPT ![v] = IF @ = c THEN NoFrame ELSE @]

NoCall == LET v == CHOOSE v \in Vars : TRUE IN
  [op |-> "getValue", var |-> v, new |-> Default[v], key |-> 0, reg |-> 0, todo |-> {}]

\* The call returns or an exception leaves it; its guards unlock.
Leave(c) == /\ Unlock(c)
            /\ pc' = [pc EXCEPT ![c] = "idle"]
            /\ frame' = [frame EXCEPT ![c] = NoCall]

Goto(c, here, there) == pc[c] = here /\ pc' = [pc EXCEPT ![c] = there]

-----------------------------------------------------------------------------
Init ==
  /\ val = Default
  /\ cbs = [v \in Vars |-> <<>>]
  /\ funId = 0
  /\ readers = [v \in Vars |-> {}]
  /\ writer = [v \in Vars |-> NoFrame]
  /\ pc = [c \in Frames |-> "idle"]
  /\ frame = [c \in Frames |-> NoCall]
  /\ keys = {}

-----------------------------------------------------------------------------
(* Entering and leaving a member function                                   *)

Adding == {c \in Frames : pc[c] # "idle" /\ frame[c].op = "addListener"}

\* A nested frame starts while its parent is inside a listener.
CanStart(c) == pc[c] = "idle" /\ (Parent[c] # NoFrame => pc[Parent[c]] = "callback")

Start(c, f) ==
  /\ CanStart(c)
  /\ frame' = [frame EXCEPT ![c] = f]
  /\ pc' = [pc EXCEPT ![c] = IF f.op \in {"setValue", "getValue"} THEN "rdlock" ELSE "wrlock"]
  /\ UNCHANGED <<val, cbs, funId, readers, writer, keys>>

\* setValue(x), also on behalf of fromString once the text has been converted.
CallSetValue(c) == \E v \in Vars, x \in Values :
  Start(c, [NoCall EXCEPT !.op = "setValue", !.var = v, !.new = x])

\* getValue, getListener and toString: one read under the read lock.
CallGetValue(c) == \E v \in Vars : Start(c, [NoCall EXCEPT !.op = "getValue", !.var = v])

CallAddListener(c) == \E v \in Vars :
  /\ funId + Cardinality(Adding) < MaxId
  /\ Start(c, [NoCall EXCEPT !.op = "addListener", !.var = v])

CallDelListener(c) == \E v \in Vars, k \in 1 .. MaxId :
  Start(c, [NoCall EXCEPT !.op = "delListener", !.var = v, !.key = k])

CallClearListeners(c) == \E v \in Vars :
  Start(c, [NoCall EXCEPT !.op = "clearListeners", !.var = v])

-----------------------------------------------------------------------------
(* Under the read lock                                                      *)

LockRead(c) ==
  /\ CanRead(frame[c].var)
  /\ Goto(c, "rdlock", "reading")
  /\ readers' = [readers EXCEPT ![frame[c].var] = @ \cup {c}]
  /\ UNCHANGED <<val, cbs, funId, writer, frame, keys>>

\* The reader returns; setValue does so too when the value is the same.
ReturnRead(c) ==
  /\ pc[c] = "reading"
  /\ frame[c].op = "setValue" => val[frame[c].var] = frame[c].new
  /\ Leave(c)
  /\ UNCHANGED <<val, cbs, funId, keys>>

\* Mutant of BeginNotify: the read guard ends with the comparison.
BeginNotifyUnlocked(c) ==
  /\ frame[c].op = "setValue" /\ val[frame[c].var] # frame[c].new
  /\ Goto(c, "reading", "notify")
  /\ frame' = [frame EXCEPT ![c].todo = DOMAIN cbs[frame[c].var]]
  /\ Unlock(c)
  /\ UNCHANGED <<val, cbs, funId, keys>>

\* setValue with another value: iterate over m_cbs.
BeginNotify(c) ==
  /\ frame[c].op = "setValue" /\ val[frame[c].var] # frame[c].new
  /\ Goto(c, "reading", "notify")
  /\ frame' = [frame EXCEPT ![c].todo = DOMAIN cbs[frame[c].var]]
  /\ UNCHANGED <<val, cbs, funId, readers, writer, keys>>

\* Mutant of CallListener: the loop does not advance.
CallListenerAgain(c) == \E k \in frame[c].todo :
  /\ Goto(c, "notify", "callback")
  /\ UNCHANGED <<val, cbs, funId, readers, writer, frame, keys>>

\* Mutant of CallListener: m_cbs is an unordered map.
CallListenerAny(c) == \E k \in frame[c].todo :
  /\ Goto(c, "notify", "callback")
  /\ frame' = [frame EXCEPT ![c].todo = @ \ {k}]
  /\ UNCHANGED <<val, cbs, funId, readers, writer, keys>>

\* std::map visits the keys in ascending order.
CallListener(c) == \E k \in frame[c].todo :
  /\ \A j \in frame[c].todo : k <= j
  /\ Goto(c, "notify", "callback")
  /\ frame' = [frame EXCEPT ![c].todo = @ \ {k}]
  /\ UNCHANGED <<val, cbs, funId, readers, writer, keys>>

ListenerDone(c) ==
  /\ pc[c] = "callback"
  /\ \A d \in Frames : Parent[d] = c => pc[d] = "idle"

ListenerReturns(c) ==
  /\ ListenerDone(c)
  /\ pc' = [pc EXCEPT ![c] = "notify"]
  /\ UNCHANGED <<val, cbs, funId, readers, writer, frame, keys>>

\* Mutant of ListenerThrows: the lock is given up by hand after the loop, not by
\* the destructor of the guard, and the exception gets past it.
ListenerThrowsHolding(c) ==
  /\ ListenerDone(c)
  /\ pc' = [pc EXCEPT ![c] = "idle"] /\ frame' = [frame EXCEPT ![c] = NoCall]
  /\ UNCHANGED <<val, cbs, funId, readers, writer, keys>>

\* An exception leaves setValue (fromString catches and logs it).
ListenerThrows(c) ==
  /\ ListenerDone(c)
  /\ Leave(c)
  /\ UNCHANGED <<val, cbs, funId, keys>>

\* Mutant of EndNotify: the read guard ends before the write guard begins.
EndNotifyUnlocked(c) ==
  /\ frame[c].todo = {}
  /\ Goto(c, "notify", "wrlock")
  /\ Unlock(c)
  /\ UNCHANGED <<val, cbs, funId, frame, keys>>

\* All listeners have run: the write guard is constructed while the read
\* guard is still in scope.
EndNotify(c) ==
  /\ frame[c].todo = {}
  /\ Goto(c, "notify", "wrlock")
  /\ UNCHANGED <<val, cbs, funId, readers, writer, frame, keys>>

-----------------------------------------------------------------------------
(* Under the write lock                                                     *)

LockWrite(c) ==
  /\ CanWrite(frame[c].var)
  /\ Goto(c, "wrlock", "writing")
  /\ writer' = [writer EXCEPT ![frame[c].var] = c]
  /\ UNCHANGED <<val, cbs, funId, readers, frame, keys>>

\* What delListener and clearListeners leave in a listener map.
Remaining(f, m) == CASE f.op = "delListener"    -> Restrict(m, DOMAIN m \ {f.key})
                     [] f.op = "clearListeners" -> <<>>
                     [] OTHER                   -> m

\* Does the call f take the key r out of its variable's map?
Removes(f, r) == /\ r[1] = f.var
                 /\ \/ f.op = "delListener" /\ r[2] = f.key
                    \/ f.op = "clearListeners"

\* The assignment of setValue, the erase of delListener, the clear of clearListeners.
Write(c) == LET f == frame[c] IN
  /\ pc[c] = "writing" /\ f.op # "addListener"
  /\ val' = [val EXCEPT ![f.var] = IF f.op = "setValue" THEN f.new ELSE @]
  /\ cbs' = [cbs EXCEPT ![f.var] = Remaining(f, @)]
  /\ keys' = {r \in keys : ~Removes(f, r)}
  /\ Leave(c)
  /\ UNCHANGED funId

\* addListener: ++s_fun_id, m_cbs[s_fun_id] = callback, return s_fun_id.  The
\* counter is not m_mutex's to guard: another variable of the type has
\* another lock, so the load and the store are steps, and the two uses after
\* them see the stored value or, if the compiler reads again, a later one.
Seen(c) == {frame[c].reg, funId}

LoadId(c) ==
  /\ frame[c].op = "addListener"
  /\ Goto(c, "writing", "store")
  /\ frame' = [frame EXCEPT ![c].reg = funId]
  /\ UNCHANGED <<val, cbs, funId, readers, writer, keys>>

\* Mutant of StoreId: --s_fun_id.
StoreIdDown(c) ==
  /\ Goto(c, "store", "insert")
  /\ funId' = frame[c].reg - 1
  /\ frame' = [frame EXCEPT ![c].reg = @ - 1]
  /\ UNCHANGED <<val, cbs, readers, writer, keys>>

StoreId(c) ==
  /\ Goto(c, "store", "insert")
  /\ funId' = frame[c].reg + 1
  /\ frame' = [frame EXCEPT ![c].reg = @ + 1]
  /\ UNCHANGED <<val, cbs, readers, writer, keys>>

\* m_cbs[k] = callback, for the listener map m.
Insert(m, k, c) == [j \in DOMAIN m \cup {k} |-> IF j = k THEN c ELSE m[j]]

\* Mutant of InsertListener: m_cbs[s_fun_id++] = callback.
InsertListenerEarly(c) == \E k \in Seen(c) : LET v == frame[c].var IN
  /\ Goto(c, "insert", "return")
  /\ cbs' = [cbs EXCEPT ![v] = Insert(@, k - 1, c)]
  /\ UNCHANGED <<val, funId, readers, writer, frame, keys>>

InsertListener(c) == \E k \in Seen(c) : LET v == frame[c].var IN
  /\ Goto(c, "insert", "return")
  /\ cbs' = [cbs EXCEPT ![v] = Insert(@, k, c)]
  /\ UNCHANGED <<val, funId, readers, writer, frame, keys>>

ReturnId(c) == \E k \in Seen(c) :
  /\ pc[c] = "return"
  /\ keys' = keys \cup {<<frame[c].var, k, c>>}
  /\ Leave(c)
  /\ UNCHANGED <<val, cbs, funId>>

-----------------------------------------------------------------------------
Call(c) == \/ CallSetValue(c) \/ CallGetValue(c) \/ CallAddListener(c)
           \/ CallDelListener(c) \/ CallClearListeners(c)

\* What a frame that has started does when its thread is scheduled.
Step(c) == \/ ReturnRead(c) \/ BeginNotify(c) \/ CallListener(c)
           \/ ListenerReturns(c) \/ ListenerThrows(c) \/ EndNotify(c)
           \/ Write(c) \/ LoadId(c) \/ StoreId(c) \/ InsertListener(c) \/ ReturnId(c)

Lock(c) == LockRead(c) \/ LockWrite(c)

Next == \E c \in Frames : Call(c) \/ Step(c) \/ Lock(c)

Spec == Init /\ [][Next]_vars

\* Threads that are not blocked are scheduled, and a listener makes finitely
\* many calls before it returns or throws.  FairSpec assumes nothing of the
\* order in which a contended lock is granted; StrongSpec adds that a frame
\* that could have the lock again and again is granted it.
FairSpec == Spec /\ \A c \in Frames : /\ WF_vars(Step(c)) /\ WF_vars(Lock(c))
                                      /\ SF_vars(ListenerReturns(c) \/ ListenerThrows(c))
StrongSpec == FairSpec /\ \A c \in Frames : SF_vars(Lock(c))

-----------------------------------------------------------------------------
TypeOK ==
  /\ val \in [Vars -> Values]
  /\ DOMAIN cbs = Vars
  /\ \A v \in Vars : /\ DOMAIN cbs[v] \subseteq Nat
                     /\ \A k \in DOMAIN cbs[v] : cbs[v][k] \in Frames
  /\ funId \in Nat
  /\ readers \in [Vars -> SUBSET Frames]
  /\ writer \in [Vars -> Frames \cup {NoFrame}]
  /\ pc \in [Frames -> PCs]
  /\ frame \in [Frames -> Frame]
  /\ keys \in SUBSET (Vars \X Nat \X Frames)

Notifying(c) == pc[c] \in {"notify", "callback"}

\* A frame waits for v's lock while v's read lock is held by itself or by the
\* setValue whose listener called it, and the wait needs that hold to end.
Wedged(v) == \E c \in Frames :
  /\ frame[c].var = v
  /\ \/ pc[c] = "wrlock" /\ c \in readers[v]
     \/ /\ Parent[c] \in readers[v]
        /\ \/ pc[c] = "wrlock"
           \/ pc[c] = "rdlock" /\ WriterBlocksReaders /\ WaitingWriters(v) # {}

\* While a listener of v runs, neither m_val, which it was handed by
\* reference, nor m_cbs, over which setValue iterates, changes under it.
StableWhileNotifying ==
  [][\A c \in Frames : Notifying(c) => LET v == frame[c].var IN
       val'[v] = val[v] /\ cbs'[v] = cbs[v]]_vars

\* The listener map has one writer at a time, and no writer beside a reader.
ExclusiveWriters == \A c, d \in Frames :
  /\ c # d /\ frame[c].var = frame[d].var
  /\ pc[c] \in {"writing", "store", "insert", "return"}
  => pc[d] \notin {"reading", "notify", "callback", "writing", "store", "insert", "return"}

\* No setValue ever completes the change it was asked for: a variable keeps
\* the value its constructor gave it.
ValueFrozen == val = Default

\* A wedge is for ever, and nobody changes the variable's listeners again;
\* if waiting writers keep readers out, nobody reads it again either.
WedgeIsFinal ==
  [][\A v \in Vars : Wedged(v) =>
       /\ Wedged(v)'
       /\ cbs'[v] = cbs[v]
       /\ WriterBlocksReaders => readers'[v] \subseteq readers[v]]_vars

\* The key addListener returned leads to the callback it was given for.
KeyFindsListener == \A r \in keys :
  r[2] \in DOMAIN cbs[r[1]] /\ cbs[r[1]][r[2]] = r[3]

\* A setValue that starts to notify ends with an exception or wedges its variable.
SetValueWedges == \A c \in Frames :
  pc[c] = "notify" ~> (pc[c] = "idle" \/ Wedged(frame[c].var))

\* setValue returns.
SetValueReturns == \A c \in Frames :
  (pc[c] # "idle" /\ frame[c].op = "setValue") ~> pc[c] = "idle"
-----------------------------------------------------------------------------
(* What the proofs of ConfigVarProofs rest on; checked by TLC like the rest.  *)

HoldsRead(c) == \/ pc[c] \in {"reading", "notify", "callback"}
                \/ pc[c] = "wrlock" /\ frame[c].op = "setValue"

HoldsWrite(c) == pc[c] \in {"writing", "store", "insert", "return"}

\* m_mutex is held by exactly the frames between their lock and unlock, so that a
\* member function that returns, or that a listener's exception leaves, has given
\* it up; and never for reading and for writing at once.
LockDiscipline == \A v \in Vars :
  /\ readers[v] = {c \in Frames : HoldsRead(c) /\ frame[c].var = v}
  /\ \A c \in Frames : writer[v] = c <=> HoldsWrite(c) /\ frame[c].var = v
  /\ writer[v] # NoFrame => readers[v] = {}

\* Where a frame can be, given the member function it is in.
Stages == \A c \in Frames :
  /\ HoldsWrite(c) => frame[c].op # "setValue"
  /\ Notifying(c) => frame[c].op = "setValue"
  /\ pc[c] \in {"store", "insert", "return"} => frame[c].op = "addListener"

\* A listener does not return before the calls it makes have returned.
CallsNest == \A c \in Frames :
  pc[c] # "idle" /\ Parent[c] # NoFrame => pc[Parent[c]] = "callback"

\* The keys in use are at most s_fun_id, and the one being handed out is new.
KeysBelow ==
  /\ \A r \in keys : r[2] <= funId
  /\ \A c \in Frames :
       /\ pc[c] \in {"store", "insert", "return"} => frame[c].reg = funId
       /\ pc[c] = "insert" => \A r \in keys : r[2] < funId
       /\ pc[c] = "return" => LET v == frame[c].var IN
            funId \in DOMAIN cbs[v] /\ cbs[v][funId] = c

IInv == LockDiscipline /\ Stages /\ CallsNest
=============================================================================
