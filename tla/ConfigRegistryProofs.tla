------------------------ MODULE ConfigRegistryProofs ------------------------
(***************************************************************************)
(* Theorems about ConfigRegistry, for any threads, names, types and        *)
(* documents.                                                              *)
(***************************************************************************)
EXTENDS ConfigRegistry, YamlMembersProofs

LEMMA InitInvariant == Init => IInv
  <1> SUFFICES ASSUME Init
               PROVE  IInv
    OBVIOUS
  <1> USE SortAssumption DEF Init
  <1>1. LookupsTypeOK
    BY DEF LookupsTypeOK, PCs
  <1>2. Locked /\ Stages
    BY DEF Locked, Stages
  <1>3. Injective /\ HandedStays
    BY DEF Injective, Registered, HandedStays
  <1> QED
    BY <1>1, <1>2, <1>3 DEF IInv

\* A step that leaves the map and what was handed out alone.
LEMMA MapUnchanged ==
  ASSUME IInv, UNCHANGED <<datas, typeOf, handed>>
  PROVE  Injective' /\ HandedStays'
  BY DEF IInv, Injective, Registered, HandedStays

LEMMA CallLookupStep ==
  ASSUME IInv, NEW t \in Threads, CallLookup(t)
  PROVE  IInv'
  <1> USE DEF CallLookup, Goto, IInv
  <1>1. LookupsTypeOK'
    <2>1. call' \in [Threads -> {NoCall} \cup Lookups \cup Loads]
      BY DEF LookupsTypeOK
    <2>2. pc' \in [Threads -> PCs]
      BY DEF LookupsTypeOK, PCs
    <2> QED
      BY <2>1, <2>2 DEF LookupsTypeOK
  <1>2. Locked'
    BY DEF Locked, LookupsTypeOK
  <1>3. Stages'
    BY DEF Stages, LookupsTypeOK
  <1> QED
    BY <1>1, <1>2, <1>3, MapUnchanged

LEMMA LockStep ==
  ASSUME IInv, NEW t \in Threads, Lock(t)
  PROVE  IInv'
  <1> USE DEF Lock, Goto, IInv
  <1>1. LookupsTypeOK'
    BY DEF LookupsTypeOK, PCs
  <1>2. Locked'
    BY SortAssumption DEF Locked, LookupsTypeOK
  <1>3. Stages'
    BY DEF Stages, LookupsTypeOK
  <1> QED
    BY <1>1, <1>2, <1>3, MapUnchanged

\* Leaving unlocks, and no call is left to say anything about.
LEMMA LeaveStep ==
  ASSUME IInv, NEW t \in Threads, NEW here \in {"find", "insert"}, Leave(t, here)
  PROVE  /\ pc' \in [Threads -> PCs]
         /\ call' \in [Threads -> {NoCall} \cup Lookups \cup Loads]
         /\ owner' \in Threads \cup {NoThread}
         /\ met' \in [Threads -> SUBSET Asked]
         /\ Locked'
  <1> USE DEF Leave, Goto, IInv, LookupsTypeOK
  <1>1. pc' \in [Threads -> PCs]
    BY DEF PCs
  <1>2. Locked'
    BY SortAssumption DEF Locked
  <1> QED
    BY <1>1, <1>2

\* What a Lookup knows of its call.
LEMMA CallFields ==
  ASSUME IInv, NEW t \in Threads, pc[t] \in {"find", "insert"}
  PROVE  call[t].name \in Asked /\ call[t].type \in Types /\ call[t].default \in BOOLEAN
  BY DEF IInv, Stages, Lookups

LEMMA FindVarStep ==
  ASSUME IInv, NEW t \in Threads, FindVar(t)
  PROVE  IInv'
  <1> DEFINE c == call[t]
             v == datas[c.name]
             h == [name |-> c.name, type |-> c.type, var |-> v]
  <1>1. c.name \in Asked /\ c.type \in Types
    BY CallFields DEF FindVar
  <1>2. v \in Vars
    BY <1>1 DEF FindVar, IInv, LookupsTypeOK
  <1>3. handed' = handed \/ (typeOf[v] = c.type /\ handed' = handed \cup {h})
    BY DEF FindVar, Hand
  <1>4. /\ Leave(t, "find")
        /\ UNCHANGED <<datas, typeOf, torn>>
    BY DEF FindVar
  <1>5. LookupsTypeOK'
    <2>1. h \in [name : Asked, type : Types, var : Vars]
      BY <1>1, <1>2
    <2>2. handed' \subseteq [name : Asked, type : Types, var : Vars]
      BY <1>3, <2>1 DEF IInv, LookupsTypeOK
    <2> HIDE DEF h, v, c
    <2> QED
      BY <1>4, <2>2, LeaveStep DEF IInv, LookupsTypeOK
  <1>6. Locked'
    BY <1>4, LeaveStep
  <1>7. Stages'
    BY <1>4 DEF Leave, Goto, IInv, Stages, LookupsTypeOK
  <1>8. Injective'
    BY <1>4 DEF IInv, Injective, Registered
  <1>9. HandedStays'
    BY <1>3, <1>4 DEF IInv, HandedStays
  <1> QED
    BY <1>5, <1>6, <1>7, <1>8, <1>9 DEF IInv

LEMMA FindNothingStep ==
  ASSUME IInv, NEW t \in Threads, FindNothing(t)
  PROVE  IInv'
  <1>1. /\ Leave(t, "find")
        /\ UNCHANGED <<datas, typeOf, handed, torn>>
    BY DEF FindNothing
  <1>2. LookupsTypeOK' /\ Locked'
    BY <1>1, LeaveStep DEF IInv, LookupsTypeOK
  <1>3. Stages'
    BY <1>1 DEF Leave, Goto, IInv, Stages, LookupsTypeOK
  <1> QED
    BY <1>1, <1>2, <1>3, MapUnchanged DEF IInv

LEMMA FindNewStep ==
  ASSUME IInv, NEW t \in Threads, FindNew(t)
  PROVE  IInv'
  <1> USE DEF FindNew, Goto, IInv
  <1>1. LookupsTypeOK'
    BY DEF LookupsTypeOK, PCs
  <1>2. Locked'
    BY DEF Locked, LookupsTypeOK
  <1>3. Stages'
    BY DEF Stages, LookupsTypeOK
  <1> QED
    BY <1>1, <1>2, <1>3, MapUnchanged

\* The new variable has no other name, because nothing that has one is new; and no
\* other Lookup is between its search and its insertion, because of the lock.
LEMMA InsertStep ==
  ASSUME IInv, NEW t \in Threads, Insert(t)
  PROVE  IInv'
  <1> DEFINE c == call[t]
  <1>1. pc[t] = "insert" /\ c.name \in Asked /\ c.type \in Types
    BY CallFields DEF Insert
  <1>2. datas[c.name] = NoVar /\ IsValid(c.name)
    BY <1>1 DEF IInv, Stages
  <1>3. PICK v \in Vars : /\ typeOf[v] = NoType
                          /\ typeOf' = [typeOf EXCEPT ![v] = c.type]
                          /\ datas' = [datas EXCEPT ![c.name] = v]
                          /\ Hand(c, v)
    BY DEF Insert
  <1>4. Leave(t, "insert") /\ torn' \in {torn, TRUE}
    BY DEF Insert
  <1> DEFINE h == [name |-> c.name, type |-> c.type, var |-> v]
  <1>5. handed' = handed \cup {h} /\ h \in [name : Asked, type : Types, var : Vars]
    BY <1>1, <1>3 DEF Hand
  <1> HIDE DEF h
  <1>6. v # NoVar /\ c.type # NoType
    BY <1>1, SortAssumption
  <1>7. LookupsTypeOK'
    <2>1. datas' \in [Asked -> Vars \cup {NoVar}]
      BY <1>1, <1>3 DEF IInv, LookupsTypeOK
    <2>2. typeOf' \in [Vars -> Types \cup {NoType}]
      BY <1>1, <1>3 DEF IInv, LookupsTypeOK
    <2>3. handed' \subseteq [name : Asked, type : Types, var : Vars]
      BY <1>5 DEF IInv, LookupsTypeOK
    <2>4. torn' \in BOOLEAN
      BY <1>4 DEF IInv, LookupsTypeOK
    <2> QED
      BY <1>4, <2>1, <2>2, <2>3, <2>4, LeaveStep DEF LookupsTypeOK
  <1>8. Locked'
    BY <1>4, LeaveStep
  <1>9. Stages'
    <2> SUFFICES ASSUME NEW u \in Threads
                 PROVE  /\ pc'[u] \in {"lock", "find", "insert"} => call'[u] \in Lookups
                        /\ pc'[u] = "insert" => datas'[call'[u].name] = NoVar /\ IsValid(call'[u].name)
      BY DEF Stages
    <2>1. CASE u = t
      BY <1>4, <2>1 DEF Leave, Goto, IInv, LookupsTypeOK
    <2>2. CASE u # t
      <3>1. pc'[u] = pc[u] /\ call'[u] = call[u]
        BY <1>4, <2>2 DEF Leave, Goto, IInv, LookupsTypeOK
      <3>2. pc[u] # "insert"
        BY <1>1, <2>2 DEF IInv, Locked
      <3> QED
        BY <3>1, <3>2 DEF IInv, Stages
    <2> QED
      BY <2>1, <2>2
  <1>10. \A n \in Asked : n # c.name => datas'[n] = datas[n]
    BY <1>1, <1>3 DEF IInv, LookupsTypeOK
  <1>11. datas'[c.name] = v /\ typeOf'[v] = c.type
    BY <1>1, <1>3 DEF IInv, LookupsTypeOK
  <1>12. \A w \in Vars : w # v => typeOf'[w] = typeOf[w]
    BY <1>3 DEF IInv, LookupsTypeOK
  <1>13. \A n \in Registered : datas[n] # v /\ datas[n] \in Vars
    BY <1>3 DEF IInv, Injective, LookupsTypeOK, Registered
  <1>14. Injective'
    <2> SUFFICES ASSUME NEW m \in Registered', NEW n \in Registered'
                 PROVE  /\ IsValid(n) /\ typeOf'[datas'[n]] # NoType
                        /\ datas'[m] = datas'[n] => m = n
      BY DEF Injective
    <2>1. m \in Asked /\ n \in Asked
      BY DEF Registered
    <2>2. (m = c.name \/ m \in Registered) /\ (n = c.name \/ n \in Registered)
      BY <1>10, <2>1 DEF Registered
    <2>3. CASE n = c.name
      BY <1>2, <1>6, <1>10, <1>11, <1>13, <2>1, <2>2, <2>3
    <2>4. CASE n # c.name /\ n \in Registered
      <3>1. IsValid(n) /\ typeOf[datas[n]] # NoType
        BY <2>4 DEF IInv, Injective
      <3>2. datas'[n] = datas[n] /\ typeOf'[datas'[n]] = typeOf[datas[n]]
        BY <1>10, <1>12, <1>13, <2>1, <2>4
      <3>3. datas'[m] = datas'[n] => m = n
        BY <1>10, <1>11, <1>13, <2>1, <2>2, <2>4, <3>2 DEF IInv, Injective
      <3> QED
        BY <3>1, <3>2, <3>3
    <2> QED
      BY <2>2, <2>3, <2>4
  <1>15. HandedStays'
    <2> SUFFICES ASSUME NEW g \in handed'
                 PROVE  datas'[g.name] = g.var /\ typeOf'[g.var] = g.type
      BY DEF HandedStays
    <2>1. CASE g = h
      BY <1>11, <2>1 DEF h
    <2>2. CASE g \in handed
      <3>1. /\ g.name \in Asked /\ g.var \in Vars
            /\ datas[g.name] = g.var /\ typeOf[g.var] = g.type
        BY <2>2 DEF IInv, LookupsTypeOK, HandedStays
      <3>2. g.name \in Registered
        BY <3>1, SortAssumption DEF Registered
      <3> QED
        BY <1>2, <1>10, <1>12, <1>13, <3>1, <3>2 DEF Registered
    <2> QED
      BY <1>5, <2>1, <2>2
  <1> QED
    BY <1>7, <1>8, <1>9, <1>14, <1>15 DEF IInv

LEMMA CallLoadStep ==
  ASSUME IInv, NEW t \in Threads, CallLoad(t)
  PROVE  IInv'
  <1> PICK d \in Documents :
        /\ Goto(t, "idle", "each")
        /\ call' = [call EXCEPT ![t] = [op |-> "LoadFromYaml", doc |-> d]]
        /\ met' = [met EXCEPT ![t] = Registered]
        /\ UNCHANGED <<datas, typeOf, owner, handed, torn>>
    BY DEF CallLoad
  <1> USE DEF Goto, IInv
  <1>1. LookupsTypeOK'
    <2>1. [op |-> "LoadFromYaml", doc |-> d] \in Loads
      BY DEF Loads
    <2>2. call' \in [Threads -> {NoCall} \cup Lookups \cup Loads]
      BY <2>1 DEF LookupsTypeOK
    <2>3. pc' \in [Threads -> PCs]
      BY DEF LookupsTypeOK, PCs
    <2>4. met' \in [Threads -> SUBSET Asked]
      BY DEF LookupsTypeOK, Registered
    <2> QED
      BY <2>2, <2>3, <2>4 DEF LookupsTypeOK
  <1>2. Locked'
    BY DEF Locked, LookupsTypeOK
  <1>3. Stages'
    BY DEF Stages, LookupsTypeOK
  <1> QED
    BY <1>1, <1>2, <1>3, MapUnchanged

\* The rest of a load touches nothing that Lookup relies on.
LEMMA LoadingStep ==
  ASSUME IInv, NEW t \in Threads, Loading(t)
  PROVE  IInv'
  <1>1. /\ pc[t] \in {"each", "search", "apply"}
        /\ \E p \in {"idle", "each", "search", "apply", "stuck"} : pc' = [pc EXCEPT ![t] = p]
        /\ call' = call \/ call' = [call EXCEPT ![t] = NoCall]
        /\ met' = met \/ met' = [met EXCEPT ![t] = {}]
        /\ UNCHANGED <<datas, typeOf, owner, handed, torn>>
    <2>1. CASE SkipEmpty(t)
      <3>1. pc' = [pc EXCEPT ![t] = "each"]
        BY <2>1 DEF SkipEmpty, IInv, LookupsTypeOK
      <3> QED
        BY <2>1, <3>1 DEF SkipEmpty
    <2>2. CASE NextKey(t)
      BY <2>2 DEF NextKey, Goto
    <2>3. CASE SearchNothing(t)
      BY <2>3 DEF SearchNothing, Goto
    <2>4. CASE SearchVar(t)
      BY <2>4 DEF SearchVar, Goto
    <2>5. CASE FromString(t)
      BY <2>5 DEF FromString, Goto
    <2>6. CASE EndLoad(t)
      BY <2>6 DEF EndLoad, Goto
    <2> QED
      BY <2>1, <2>2, <2>3, <2>4, <2>5, <2>6 DEF Loading
  <1>2. PICK p \in {"idle", "each", "search", "apply", "stuck"} : pc' = [pc EXCEPT ![t] = p]
    BY <1>1
  <1>3. LookupsTypeOK'
    <2>1. pc' \in [Threads -> PCs]
      BY <1>2 DEF IInv, LookupsTypeOK, PCs
    <2>2. call' \in [Threads -> {NoCall} \cup Lookups \cup Loads]
      BY <1>1 DEF IInv, LookupsTypeOK
    <2>3. met' \in [Threads -> SUBSET Asked]
      BY <1>1 DEF IInv, LookupsTypeOK
    <2> QED
      BY <1>1, <2>1, <2>2, <2>3 DEF IInv, LookupsTypeOK
  <1>4. Locked'
    BY <1>1, <1>2 DEF IInv, Locked, LookupsTypeOK
  <1>5. Stages'
    BY <1>1, <1>2 DEF IInv, Stages, LookupsTypeOK
  <1> QED
    BY <1>1, <1>3, <1>4, <1>5, MapUnchanged DEF IInv

LEMMA NextInvariant == IInv /\ [Next]_vars => IInv'
  <1> SUFFICES ASSUME IInv, [Next]_vars
               PROVE  IInv'
    OBVIOUS
  <1>1. CASE UNCHANGED vars
    <2>1. LookupsTypeOK'
      BY <1>1 DEF vars, IInv, LookupsTypeOK
    <2>2. Locked' /\ Stages'
      BY <1>1 DEF vars, IInv, Locked, Stages
    <2> QED
      BY <1>1, <2>1, <2>2, MapUnchanged DEF vars, IInv
  <1>2. ASSUME NEW t \in Threads, Holding(t)
        PROVE  IInv'
    BY <1>2, FindVarStep, FindNothingStep, FindNewStep, InsertStep DEF Holding
  <1>3. ASSUME NEW t \in Threads, CallLookup(t) \/ Lock(t) \/ CallLoad(t) \/ Loading(t)
        PROVE  IInv'
    BY <1>3, CallLookupStep, LockStep, CallLoadStep, LoadingStep
  <1> QED
    BY <1>1, <1>2, <1>3 DEF Next

-----------------------------------------------------------------------------
\* Every reachable state satisfies the inductive invariant.
THEOREM Invariant == Spec => []IInv
  BY InitInvariant, NextInvariant, PTL DEF Spec

\* The map, the lock and the calls are well typed.
THEOREM LookupsTypeCorrect == Spec => []LookupsTypeOK
  BY Invariant, PTL DEF IInv

\* All Lookups of a name that return a variable return the same, with the T asked
\* for, and Lookups of different names never the same.
THEOREM NamesHaveOneVariable == Spec => []OneVariable
  <1>1. IInv => OneVariable
    <2> SUFFICES ASSUME IInv, NEW g \in handed, NEW h \in handed
                 PROVE  /\ g.name = h.name <=> g.var = h.var
                        /\ g.var = h.var => g.type = h.type
      BY DEF OneVariable
    <2>1. /\ g.name \in Asked /\ h.name \in Asked /\ g.var \in Vars /\ h.var \in Vars
          /\ datas[g.name] = g.var /\ datas[h.name] = h.var
          /\ typeOf[g.var] = g.type /\ typeOf[h.var] = h.type
      BY DEF IInv, LookupsTypeOK, HandedStays
    <2>2. g.name \in Registered /\ h.name \in Registered
      BY <2>1, SortAssumption DEF Registered
    <2> QED
      BY <2>1, <2>2 DEF IInv, Injective
  <1> QED
    BY <1>1, Invariant, PTL

-----------------------------------------------------------------------------
(* Loads                                                                    *)

\* Lowering a name that is registered changes nothing.
LEMMA RegisteredLowered ==
  ASSUME IInv, NEW n \in Registered
  PROVE  Lowered(n) = n
  <1>1. n \in Seq(Tokens) /\ IsValid(n)
    BY AskedAssumption DEF IInv, Injective, Registered, Strings
  <1>2. \A i \in DOMAIN n : LowerCase[n[i]] = n[i]
    BY <1>1, LowerCaseAssumption DEF IsValid
  <1>3. Lowered(n) = [i \in DOMAIN n |-> n[i]]
    BY <1>2 DEF Lowered
  <1> QED
    BY <1>1, <1>3

\* Taking the first element off loses nothing else.
LEMMA TailKeeps ==
  ASSUME NEW S, NEW s \in Seq(S), s # <<>>
  PROVE  /\ Tail(s) \in Seq(S) /\ Head(s) \in S
         /\ \A n \in ToSet(s) : n = Head(s) \/ n \in ToSet(Tail(s))
  <1>1. Tail(s) \in Seq(S) /\ Head(s) = s[1] /\ Head(s) \in S
    OBVIOUS
  <1>2. ASSUME NEW i \in DOMAIN s, i # 1
        PROVE  s[i] \in ToSet(Tail(s))
    <2>1. i - 1 \in DOMAIN Tail(s) /\ Tail(s)[i - 1] = s[i]
      BY <1>2
    <2> QED
      BY <2>1 DEF ToSet
  <1> QED
    BY <1>1, <1>2 DEF ToSet

LEMMA AppendKeeps ==
  ASSUME NEW S, NEW s \in Seq(S), NEW x \in S
  PROVE  /\ Append(s, x) \in Seq(S)
         /\ x \in ToSet(Append(s, x))
         /\ \A n \in ToSet(s) : n \in ToSet(Append(s, x))
  <1>1. /\ Append(s, x) \in Seq(S) /\ Len(s) + 1 \in DOMAIN Append(s, x)
        /\ Append(s, x)[Len(s) + 1] = x
        /\ \A i \in DOMAIN s : i \in DOMAIN Append(s, x) /\ Append(s, x)[i] = s[i]
    OBVIOUS
  <1> QED
    BY <1>1 DEF ToSet

\* The map only grows.
LEMMA MapGrows ==
  ASSUME IInv, NEW t \in Threads,
         CallLookup(t) \/ Lock(t) \/ Holding(t) \/ CallLoad(t) \/ Loading(t)
  PROVE  Registered \subseteq Registered'
  <1>1. CASE Insert(t)
    <2>1. PICK v \in Vars : datas' = [datas EXCEPT ![call[t].name] = v]
      BY <1>1 DEF Insert
    <2> QED
      BY <2>1, SortAssumption DEF Registered, IInv, LookupsTypeOK
  <1>2. CASE ~Insert(t)
    <2>1. UNCHANGED datas
      BY <1>2 DEF CallLookup, Lock, Holding, FindVar, FindNothing, FindNew, CallLoad, Loading,
                  SkipEmpty, NextKey, SearchNothing, SearchVar, FromString, EndLoad
    <2> QED
      BY <2>1 DEF Registered
  <1> QED
    BY <1>1, <1>2

\* A step of one thread leaves the loads of the others alone.
LEMMA OthersStay ==
  ASSUME IInv, LoadInv, NEW t \in Threads,
         CallLookup(t) \/ Lock(t) \/ Holding(t) \/ CallLoad(t) \/ Loading(t)
  PROVE  \A u \in Threads \ {t} : /\ pc'[u] = pc[u] /\ call'[u] = call[u]
                                  /\ left'[u] = left[u] /\ set'[u] = set[u] /\ met'[u] = met[u]
  <1> USE DEF IInv, LookupsTypeOK, LoadInv
  <1>1. CASE CallLookup(t) \/ Lock(t)
    BY <1>1 DEF CallLookup, Lock, Goto
  <1>2. CASE Holding(t)
    BY <1>2 DEF Holding, FindVar, FindNothing, FindNew, Insert, Leave, Goto
  <1>3. CASE CallLoad(t)
    BY <1>3 DEF CallLoad, Goto
  <1>4. CASE SkipEmpty(t) \/ NextKey(t) \/ SearchNothing(t) \/ SearchVar(t)
    BY <1>4 DEF SkipEmpty, NextKey, SearchNothing, SearchVar, Goto
  <1>5. CASE FromString(t) \/ EndLoad(t)
    BY <1>5 DEF FromString, EndLoad, Goto
  <1> QED
    BY <1>1, <1>2, <1>3, <1>4, <1>5 DEF Loading

\* A load starts with everything that has a valid name.
LEMMA LoadStarts ==
  ASSUME IInv, LoadInv, NEW t \in Threads, CallLoad(t)
  PROVE  OnItsWay(t)'
  <1>1. PICK d \in Documents :
          /\ Goto(t, "idle", "each")
          /\ call' = [call EXCEPT ![t] = [op |-> "LoadFromYaml", doc |-> d]]
          /\ left' = [left EXCEPT ![t] = ListAllMember(d)]
          /\ met' = [met EXCEPT ![t] = Registered]
          /\ UNCHANGED <<datas, set>>
    BY DEF CallLoad
  <1>2. call'[t] = [op |-> "LoadFromYaml", doc |-> d] /\ call'[t] \in Loads
    BY <1>1 DEF IInv, LookupsTypeOK, Loads
  <1>3. left'[t] = ListAllMember(d) /\ pc'[t] = "each" /\ met'[t] = Registered /\ set'[t] = <<>>
    BY <1>1 DEF Goto, IInv, LookupsTypeOK, LoadInv, OnItsWay, LoadTypeOK
  <1>4. Registered' = Registered
    BY <1>1 DEF Registered
  <1>5. ListsAll(d)
    BY DocumentAssumption, ValidNamesListed
  <1>6. ASSUME NEW n \in Nodes(d), Names(d)[n] \in Registered
        PROVE  n \in ToSet(ListAllMember(d))
    BY <1>5, <1>6 DEF IInv, Injective, ListsAll
  <1>7. \A n : Name(t, n)' = Names(d)[n]
    BY <1>2 DEF Name
  <1>8. LoadTypeOK(t)'
    <2>1. call'[t].doc = d /\ <<>> \in Seq(Nodes(d)) /\ ListAllMember(d) \in Seq(Nodes(d))
      BY <1>2, <1>5 DEF ListsAll
    <2> QED
      BY <1>2, <1>3, <2>1 DEF LoadTypeOK
  <1> QED
    BY <1>2, <1>3, <1>4, <1>6, <1>7, <1>8 DEF OnItsWay

\* A load goes on: a node leaves the list only if it is given to its variable, or
\* has the empty name, or has a name that was not registered.
LEMMA LoadGoesOn ==
  ASSUME IInv, LoadInv, NEW t \in Threads, Loading(t)
  PROVE  OnItsWay(t)'
  <1> DEFINE h == Head(left[t])
             S == Nodes(call[t].doc)
  <1>1. OnItsWay(t) /\ pc[t] \in {"each", "search", "apply"}
    BY DEF LoadInv, Loading, SkipEmpty, NextKey, SearchNothing, SearchVar, FromString, EndLoad, Goto
  <1>2. UNCHANGED datas
    BY DEF Loading, SkipEmpty, NextKey, SearchNothing, SearchVar, FromString, EndLoad
  <1>3. Registered' = Registered
    BY <1>2 DEF Registered
  <1>0. call[t] \in Loads /\ left[t] \in Seq(S) /\ set[t] \in Seq(S)
    BY <1>1 DEF OnItsWay, LoadTypeOK
  <1> HIDE DEF S
  <1>4. left[t] # <<>> =>
          /\ Tail(left[t]) \in Seq(S) /\ h \in S
          /\ \A n \in ToSet(left[t]) : n = h \/ n \in ToSet(Tail(left[t]))
    BY <1>0, TailKeeps
  <1> HIDE DEF h
  <1>5. CASE SkipEmpty(t)
    <2>1. /\ UNCHANGED <<call, pc, set, met>> /\ left[t] # <<>>
          /\ left'[t] = Tail(left[t]) /\ Name(t, h) = EmptyString
      BY <1>5 DEF SkipEmpty, LoadInv, h
    <2>2. pc[t] = "each"
      BY <1>5 DEF SkipEmpty
    <2>3. LoadTypeOK(t)'
      BY <1>0, <1>4, <2>1, <2>2 DEF LoadTypeOK, S
    <2> QED
      BY <1>1, <1>3, <1>4, <2>1, <2>2, <2>3 DEF OnItsWay, Name
  <1>6. CASE NextKey(t)
    <2>1. /\ UNCHANGED <<call, left, set, met>> /\ left[t] # <<>>
          /\ pc'[t] = "search" /\ pc[t] = "each"
      BY <1>6 DEF NextKey, Goto, IInv, LookupsTypeOK
    <2>2. LoadTypeOK(t)'
      BY <1>0, <2>1 DEF LoadTypeOK, S
    <2> QED
      BY <1>1, <1>3, <2>1, <2>2 DEF OnItsWay, Name
  <1>7. CASE SearchNothing(t)
    <2>1. /\ UNCHANGED <<call, set, met>> /\ pc[t] = "search" /\ pc'[t] = "each"
          /\ left'[t] = Tail(left[t]) /\ Var(t) = NoVar
      BY <1>7 DEF SearchNothing, Goto, IInv, LookupsTypeOK, LoadInv
    <2>2. left[t] # <<>> /\ met[t] \subseteq Registered
      BY <1>1, <2>1 DEF OnItsWay
    <2>3. Name(t, h) \notin met[t]
      <3>1. SUFFICES ASSUME Name(t, h) \in Registered
                     PROVE  FALSE
        BY <2>2
      <3>2. Lowered(Name(t, h)) = Name(t, h)
        BY <3>1, RegisteredLowered
      <3> QED
        BY <2>1, <3>1, <3>2 DEF Var, Registered, h
    <2>4. LoadTypeOK(t)'
      BY <1>0, <1>4, <2>1, <2>2 DEF LoadTypeOK, S
    <2> QED
      BY <1>1, <1>3, <1>4, <2>1, <2>2, <2>3, <2>4 DEF OnItsWay, Name
  <1>8. CASE SearchVar(t)
    <2>1. /\ UNCHANGED <<call, left, set, met>>
          /\ pc'[t] = "apply" /\ pc[t] = "search"
      BY <1>8 DEF SearchVar, Goto, IInv, LookupsTypeOK
    <2>2. LoadTypeOK(t)'
      BY <1>0, <2>1 DEF LoadTypeOK, S
    <2> QED
      BY <1>1, <1>3, <2>1, <2>2 DEF OnItsWay, Name
  <1>9. CASE FromString(t)
    <2>1. /\ UNCHANGED <<call, met>> /\ pc[t] = "apply" /\ pc'[t] \in {"each", "stuck"}
          /\ left'[t] = Tail(left[t]) /\ set'[t] = Append(set[t], h)
      BY <1>9 DEF FromString, Goto, IInv, LookupsTypeOK, LoadInv, h
    <2>2. left[t] # <<>>
      BY <1>1, <2>1 DEF OnItsWay
    <2>3. /\ set'[t] \in Seq(S) /\ h \in ToSet(set'[t])
          /\ \A n \in ToSet(set[t]) : n \in ToSet(set'[t])
      BY <1>0, <1>4, <2>1, <2>2, AppendKeeps
    <2>4. LoadTypeOK(t)'
      BY <1>0, <1>4, <2>1, <2>2, <2>3 DEF LoadTypeOK, S
    <2> QED
      BY <1>1, <1>3, <1>4, <2>1, <2>2, <2>3, <2>4 DEF OnItsWay, Name
  <1>10. CASE EndLoad(t)
    <2>1. pc'[t] = "idle" /\ set'[t] = <<>> /\ left'[t] = <<>> /\ call'[t] = NoCall
      BY <1>10 DEF EndLoad, Goto, IInv, LookupsTypeOK, LoadInv
    <2> QED
      BY <2>1 DEF OnItsWay, LoadTypeOK
  <1> QED
    BY <1>5, <1>6, <1>7, <1>8, <1>9, <1>10 DEF Loading

LEMMA NextLoadInv == IInv /\ LoadInv /\ [Next]_vars => LoadInv'
  <1> SUFFICES ASSUME IInv, LoadInv, [Next]_vars
               PROVE  LoadInv'
    OBVIOUS
  <1>1. CASE UNCHANGED vars
    BY <1>1 DEF vars, LoadInv, OnItsWay, LoadTypeOK, Name, Registered
  <1>2. ASSUME NEW t \in Threads,
               CallLookup(t) \/ Lock(t) \/ Holding(t) \/ CallLoad(t) \/ Loading(t)
        PROVE  LoadInv'
    <2>1. DOMAIN left' = Threads /\ DOMAIN set' = Threads
      <3>1. CASE CallLookup(t) \/ Lock(t) \/ CallLoad(t)
        BY <3>1 DEF CallLookup, Lock, CallLoad, LoadInv
      <3>2. CASE Holding(t)
        BY <3>2 DEF Holding, FindVar, FindNothing, FindNew, Insert, Leave, LoadInv
      <3>3. CASE Loading(t)
        BY <3>3 DEF Loading, SkipEmpty, NextKey, SearchNothing, SearchVar, FromString, EndLoad, LoadInv
      <3> QED
        BY <1>2, <3>1, <3>2, <3>3
    <2>2. ASSUME NEW u \in Threads \ {t}
          PROVE  OnItsWay(u)'
      <3>1. /\ pc'[u] = pc[u] /\ call'[u] = call[u] /\ left'[u] = left[u]
            /\ set'[u] = set[u] /\ met'[u] = met[u]
        BY <1>2, OthersStay
      <3>2. OnItsWay(u) /\ Registered \subseteq Registered'
        BY <1>2, MapGrows DEF LoadInv
      <3> QED
        BY <3>1, <3>2 DEF OnItsWay, LoadTypeOK, Name
    <2>3. OnItsWay(t)'
      <3>1. CASE CallLookup(t) \/ Lock(t)
        <4>1. /\ pc[t] \in {"idle", "lock"} /\ pc'[t] \in {"lock", "find"}
              /\ call'[t] \in Lookups \/ call'[t] = call[t]
              /\ UNCHANGED <<left, set>>
          BY <3>1 DEF CallLookup, Lock, Goto, IInv, LookupsTypeOK
        <4> QED
          BY <4>1 DEF OnItsWay, LoadTypeOK, LoadInv
      <3>2. CASE Holding(t)
        <4>1. /\ pc[t] \in {"find", "insert"} /\ pc'[t] \in {"idle", "insert"}
              /\ call'[t] = NoCall \/ call'[t] = call[t]
              /\ UNCHANGED <<left, set>>
          BY <3>2 DEF Holding, FindVar, FindNothing, FindNew, Insert, Leave, Goto, IInv, LookupsTypeOK
        <4> QED
          BY <4>1 DEF OnItsWay, LoadTypeOK, LoadInv
      <3>3. CASE CallLoad(t)
        BY <3>3, LoadStarts
      <3>4. CASE Loading(t)
        BY <3>4, LoadGoesOn
      <3> QED
        BY <1>2, <3>1, <3>2, <3>3, <3>4
    <2> QED
      BY <2>1, <2>2, <2>3 DEF LoadInv
  <1> QED
    BY <1>1, <1>2 DEF Next

\* In every reachable state each load is on its way.
THEOREM LoadsGoOn == Spec => [](IInv /\ LoadInv)
  <1>1. Init => LoadInv
    BY DEF Init, LoadInv, OnItsWay, LoadTypeOK
  <1>2. IInv /\ LoadInv /\ [Next]_vars => LoadInv'
    BY NextLoadInv
  <1> QED
    BY <1>1, <1>2, Invariant, PTL DEF Spec

\* The registry is well typed, and a load has before and behind it nothing but
\* nodes of its document: at no time does a thread without a load have any.
THEOREM RegistryTypeCorrect == Spec => []TypeOK
  <1>1. IInv /\ LoadInv => TypeOK
    <2> SUFFICES ASSUME IInv, LoadInv, NEW t \in Threads
                 PROVE  left[t] \o set[t] \in
                          IF call[t].op = "LoadFromYaml" THEN Seq(Nodes(call[t].doc)) ELSE {<<>>}
      BY DEF TypeOK, IInv
    <2>1. LoadTypeOK(t)
      BY DEF LoadInv, OnItsWay
    <2>2. CASE pc[t] \in {"each", "search", "apply", "stuck"}
      <3>1. call[t].op = "LoadFromYaml"
        BY <2>1, <2>2 DEF LoadTypeOK, Loads
      <3>2. left[t] \in Seq(Nodes(call[t].doc)) /\ set[t] \in Seq(Nodes(call[t].doc))
        BY <2>1, <2>2 DEF LoadTypeOK
      <3> QED
        BY <3>1, <3>2
    <2>3. CASE pc[t] \notin {"each", "search", "apply", "stuck"}
      <3>1. call[t].op # "LoadFromYaml"
        BY <2>1, <2>3 DEF LoadTypeOK, Lookups, NoCall
      <3>2. left[t] = <<>> /\ set[t] = <<>>
        BY <2>1, <2>3 DEF LoadTypeOK
      <3> QED
        BY <3>1, <3>2
    <2> QED
      BY <2>2, <2>3
  <1> QED
    BY <1>1, LoadsGoOn, PTL

\* Whatever the documents and the Lookups of other threads, a load that ends has
\* offered every variable that was registered when it began each node with its name.
THEOREM LoadsAreComplete == Spec => []LoadComplete
  <1>1. IInv /\ LoadInv => LoadComplete
    <2>1. ToSet(<<>>) = {}
      BY DEF ToSet
    <2> QED
      BY <2>1 DEF LoadInv, OnItsWay, LoadComplete
  <1> QED
    BY <1>1, LoadsGoOn, PTL
=============================================================================
