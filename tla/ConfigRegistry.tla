--------------------------- MODULE ConfigRegistry ---------------------------
(***************************************************************************)
(* RareVoyager::Config (src/src/include/config/config.h 444-516,           *)
(* src/src/src/config/config.cpp 64-99): the map from names to variables   *)
(* and its lock, Lookup with and without a default, LookupBase and         *)
(* LoadFromYaml.  Every Lookup takes the lock to write; LookupBase takes   *)
(* none.                                                                   *)
(***************************************************************************)
EXTENDS YamlMembers

CONSTANTS
  Threads, NoThread,
  Vars, NoVar,     \* ConfigVar objects, a null pointer
  Types, NoType,   \* the T of Lookup<T>, that of an object not yet made
  Asked,           \* the names that Lookup is called with
  Documents        \* the documents that are loaded

ASSUME SortAssumption == NoThread \notin Threads /\ NoVar \notin Vars /\ NoType \notin Types
ASSUME AskedAssumption == Asked \subseteq Strings
ASSUME DocumentAssumption == \A d \in Documents : IsDocument(d)

VARIABLES
  datas,    \* GetDatas(): the variable of each name, or NoVar
  typeOf,   \* the T of each variable
  owner,    \* the writer of GetMutex()
  pc, call, \* where each thread is, and its call
  left,     \* of each load, the nodes it has not reached
  set,      \* history: the nodes whose text the load gave to a variable
  met,      \* history: the names that were registered when the load began
  handed,   \* history: what Lookups returned
  torn      \* has the map been searched and changed at once?

vars == <<datas, typeOf, owner, pc, call, left, set, met, handed, torn>>

\* A Lookup's name, T and whether it has a default; a load's document.
NoCall == [op |-> "none"]

Lookups == [op : {"Lookup"}, name : Asked, type : Types, default : BOOLEAN]

Loads == [op : {"LoadFromYaml"}, doc : Documents]

\* In Lookup: before the lock, before find, before operator[].  In LoadFromYaml:
\* at the head of its loop, in LookupBase's find, before fromString.  In a
\* setValue that does not return.
PCs == {"idle", "lock", "find", "insert", "each", "search", "apply", "stuck"}

Registered == {n \in Asked : datas[n] # NoVar}

Init ==
  /\ datas = [n \in Asked |-> NoVar]
  /\ typeOf = [v \in Vars |-> NoType]
  /\ owner = NoThread
  /\ pc = [t \in Threads |-> "idle"]
  /\ call = [t \in Threads |-> NoCall]
  /\ left = [t \in Threads |-> <<>>]
  /\ set = [t \in Threads |-> <<>>]
  /\ met = [t \in Threads |-> {}]
  /\ handed = {}
  /\ torn = FALSE

Goto(t, here, there) == pc[t] = here /\ pc' = [pc EXCEPT ![t] = there]

-----------------------------------------------------------------------------
(* Lookup                                                                   *)

CallLookup(t) ==
  /\ Goto(t, "idle", "lock")
  /\ \E c \in Lookups : call' = [call EXCEPT ![t] = c]
  /\ UNCHANGED <<datas, typeOf, owner, left, set, met, handed, torn>>

\* Mutant of Lock: a read lock.
LockShared(t) ==
  /\ Goto(t, "lock", "find")
  /\ owner' = t
  /\ UNCHANGED <<datas, typeOf, call, left, set, met, handed, torn>>

Lock(t) ==
  /\ Goto(t, "lock", "find")
  /\ owner = NoThread /\ owner' = t
  /\ UNCHANGED <<datas, typeOf, call, left, set, met, handed, torn>>

\* Lookup returns or throws; in both cases the guard's destructor unlocks.
Leave(t, here) ==
  /\ Goto(t, here, "idle")
  /\ owner' = NoThread
  /\ call' = [call EXCEPT ![t] = NoCall]
  /\ UNCHANGED <<left, set, met>>

Hand(c, v) == handed' = handed \cup {[name |-> c.name, type |-> c.type, var |-> v]}

\* The name is there: a variable of another type is not returned.
FindVar(t) == LET c == call[t]  v == datas[c.name] IN
  /\ pc[t] = "find" /\ v # NoVar
  /\ Leave(t, "find")
  /\ IF typeOf[v] = c.type THEN Hand(c, v) ELSE UNCHANGED handed
  /\ UNCHANGED <<datas, typeOf, torn>>

\* Mutants of FindNothing: what find returned is used; the exception misses the guard.
FindNothingHanding(t) == LET c == call[t] IN
  /\ pc[t] = "find" /\ datas[c.name] = NoVar
  /\ c.default => ~IsValid(c.name)
  /\ Leave(t, "find")
  /\ Hand(c, NoVar)
  /\ UNCHANGED <<datas, typeOf, torn>>

FindNothingLocked(t) == LET c == call[t] IN
  /\ Goto(t, "find", "idle")
  /\ datas[c.name] = NoVar
  /\ c.default => ~IsValid(c.name)
  /\ call' = [call EXCEPT ![t] = NoCall]
  /\ UNCHANGED <<datas, typeOf, owner, left, set, met, handed, torn>>

\* The name is not there: null without a default, an exception if it is not valid.
FindNothing(t) == LET c == call[t] IN
  /\ pc[t] = "find" /\ datas[c.name] = NoVar
  /\ c.default => ~IsValid(c.name)
  /\ Leave(t, "find")
  /\ UNCHANGED <<datas, typeOf, handed, torn>>

FindNew(t) == LET c == call[t] IN
  /\ Goto(t, "find", "insert")
  /\ datas[c.name] = NoVar /\ c.default /\ IsValid(c.name)
  /\ UNCHANGED <<datas, typeOf, owner, call, left, set, met, handed, torn>>

\* A variable is made and put into the map, and returned; a find that is under way
\* in LookupBase may not survive it.
Insert(t) == LET c == call[t] IN
  /\ pc[t] = "insert"
  /\ \E v \in Vars :
       /\ typeOf[v] = NoType
       /\ typeOf' = [typeOf EXCEPT ![v] = c.type]
       /\ datas' = [datas EXCEPT ![c.name] = v]
       /\ Hand(c, v)
  /\ Leave(t, "insert")
  /\ \/ torn' = torn
     \/ torn' = TRUE /\ \E u \in Threads : pc[u] = "search"

-----------------------------------------------------------------------------
(* LoadFromYaml                                                             *)

Name(t, n) == Names(call[t].doc)[n]

CallLoad(t) == \E d \in Documents :
  /\ Goto(t, "idle", "each")
  /\ call' = [call EXCEPT ![t] = [op |-> "LoadFromYaml", doc |-> d]]
  /\ left' = [left EXCEPT ![t] = ListAllMember(d)]
  /\ met' = [met EXCEPT ![t] = Registered]
  /\ UNCHANGED <<datas, typeOf, owner, set, handed, torn>>

\* The key is empty: the root, and what has only empty keys above it.
SkipEmpty(t) ==
  /\ pc[t] = "each" /\ left[t] # <<>> /\ Name(t, Head(left[t])) = EmptyString
  /\ left' = [left EXCEPT ![t] = Tail(@)]
  /\ UNCHANGED <<datas, typeOf, owner, pc, call, set, met, handed, torn>>

NextKey(t) ==
  /\ left[t] # <<>> /\ Name(t, Head(left[t])) # EmptyString
  /\ Goto(t, "each", "search")
  /\ UNCHANGED <<datas, typeOf, owner, call, left, set, met, handed, torn>>

\* What the map has for the key, in lower case.
Var(t) == LET n == Lowered(Name(t, Head(left[t]))) IN
          IF n \in Asked THEN datas[n] ELSE NoVar

\* Mutant of SearchNothing: a name that is not there ends the load.
SearchNothingEnds(t) ==
  /\ pc[t] = "search" /\ Var(t) = NoVar
  /\ Goto(t, "search", "each")
  /\ left' = [left EXCEPT ![t] = <<>>]
  /\ UNCHANGED <<datas, typeOf, owner, call, set, met, handed, torn>>

SearchNothing(t) ==
  /\ pc[t] = "search" /\ Var(t) = NoVar
  /\ Goto(t, "search", "each")
  /\ left' = [left EXCEPT ![t] = Tail(@)]
  /\ UNCHANGED <<datas, typeOf, owner, call, set, met, handed, torn>>

SearchVar(t) ==
  /\ pc[t] = "search" /\ Var(t) # NoVar
  /\ Goto(t, "search", "apply")
  /\ UNCHANGED <<datas, typeOf, owner, call, left, set, met, handed, torn>>

\* fromString.  It returns if the text is not a value, is the variable's value, or a
\* listener throws; otherwise setValue waits for itself (see ConfigVar).
FromString(t) ==
  /\ \/ Goto(t, "apply", "each")
     \/ Goto(t, "apply", "stuck")
  /\ set' = [set EXCEPT ![t] = Append(@, Head(left[t]))]
  /\ left' = [left EXCEPT ![t] = Tail(@)]
  /\ UNCHANGED <<datas, typeOf, owner, call, met, handed, torn>>

EndLoad(t) ==
  /\ left[t] = <<>>
  /\ Goto(t, "each", "idle")
  /\ call' = [call EXCEPT ![t] = NoCall]
  /\ set' = [set EXCEPT ![t] = <<>>]
  /\ met' = [met EXCEPT ![t] = {}]
  /\ UNCHANGED <<datas, typeOf, owner, left, handed, torn>>

-----------------------------------------------------------------------------
Holding(t) == FindVar(t) \/ FindNothing(t) \/ FindNew(t) \/ Insert(t)

Loading(t) == \/ SkipEmpty(t) \/ NextKey(t) \/ SearchNothing(t) \/ SearchVar(t)
              \/ FromString(t) \/ EndLoad(t)

Next == ~torn /\ \E t \in Threads : \/ CallLookup(t) \/ Lock(t) \/ Holding(t)
                                    \/ CallLoad(t) \/ Loading(t)

Spec == Init /\ [][Next]_vars

-----------------------------------------------------------------------------
LookupsTypeOK ==
  /\ datas \in [Asked -> Vars \cup {NoVar}]
  /\ typeOf \in [Vars -> Types \cup {NoType}]
  /\ owner \in Threads \cup {NoThread}
  /\ pc \in [Threads -> PCs]
  /\ call \in [Threads -> {NoCall} \cup Lookups \cup Loads]
  /\ met \in [Threads -> SUBSET Asked]
  /\ handed \subseteq [name : Asked, type : Types, var : Vars]
  /\ torn \in BOOLEAN

TypeOK ==
  /\ LookupsTypeOK
  /\ \A t \in Threads : left[t] \o set[t] \in
       IF call[t].op = "LoadFromYaml" THEN Seq(Nodes(call[t].doc)) ELSE {<<>>}

\* A name has one variable, of one type, and a variable one name: whoever looks a
\* name up, in whichever form, gets that variable or null.
OneVariable == \A g, h \in handed :
  /\ g.name = h.name <=> g.var = h.var
  /\ g.var = h.var => g.type = h.type

\* When a load ends, each node whose name was registered when it began has been
\* offered to its variable, unless it is the empty name.
LoadComplete == \A t \in Threads : pc[t] = "each" /\ left[t] = <<>> =>
  \A n \in Nodes(call[t].doc) :
    Name(t, n) \in met[t] \ {EmptyString} => n \in ToSet(set[t])

\* The lock is held exactly inside a Lookup: however it ends, it is let go.
Locked == \A t \in Threads : pc[t] \in {"find", "insert"} <=> owner = t

\* Calls and where they are.
Stages == \A t \in Threads :
  /\ pc[t] \in {"lock", "find", "insert"} => call[t] \in Lookups
  /\ pc[t] = "insert" => datas[call[t].name] = NoVar /\ IsValid(call[t].name)

\* The map gives each variable one name, a valid one.
Injective == \A m, n \in Registered :
  /\ IsValid(n) /\ typeOf[datas[n]] # NoType
  /\ datas[m] = datas[n] => m = n

\* What was returned is still in the map.
HandedStays == \A h \in handed : datas[h.name] = h.var /\ typeOf[h.var] = h.type

\* Of each thread: whether it is in a load, and what that has done and has to do.
LoadTypeOK(t) ==
  IF pc[t] \in {"each", "search", "apply", "stuck"}
  THEN call[t] \in Loads /\ left[t] \in Seq(Nodes(call[t].doc)) /\ set[t] \in Seq(Nodes(call[t].doc))
  ELSE call[t] \in {NoCall} \cup Lookups /\ left[t] = <<>> /\ set[t] = <<>>

\* Of what was registered when a load began, everything that the document names
\* has been offered its node, or will be.
OnItsWay(t) ==
  /\ LoadTypeOK(t)
  /\ pc[t] \in {"each", "search", "apply"} =>
       /\ met[t] \subseteq Registered
       /\ pc[t] # "each" => left[t] # <<>>
       /\ \A n \in Nodes(call[t].doc) : Name(t, n) \in met[t] \ {EmptyString} =>
            n \in ToSet(left[t]) \cup ToSet(set[t])

LoadInv == /\ DOMAIN left = Threads /\ DOMAIN set = Threads
           /\ \A t \in Threads : OnItsWay(t)

\* The inductive invariant.
IInv == LookupsTypeOK /\ Locked /\ Stages /\ Injective /\ HandedStays
=============================================================================
