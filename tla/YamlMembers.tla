---------------------------- MODULE YamlMembers ----------------------------
(***************************************************************************)
(* ListAllMember (src/src/src/config/config.cpp 43-62), which collects the *)
(* nodes of a YAML document with their dotted names.                       *)
(*                                                                         *)
(* A string is the sequence of the tokens between its dots: the empty one  *)
(* is <<Empty>>, "a.b" two tokens, whoever wrote the dot.  A document is   *)
(* its nodes in the order of the file, each with its parent and its key;   *)
(* node 1 is the root.                                                     *)
(***************************************************************************)
EXTENDS Naturals, Sequences, SequencesExt

CONSTANTS
  Tokens,       \* what stands between dots
  Empty,        \* nothing
  ValidTokens,  \* those made of the characters of regex_str
  LowerCase     \* std::transform with tolower: [Tokens -> Tokens]

ASSUME TokenAssumption ==
  /\ Empty \in ValidTokens /\ ValidTokens \subseteq Tokens
  /\ LowerCase \in [Tokens -> Tokens]

\* regex_str has no capitals.
ASSUME LowerCaseAssumption == \A k \in ValidTokens : LowerCase[k] = k

Strings == Seq(Tokens)

EmptyString == <<Empty>>

Lowered(s) == [i \in DOMAIN s |-> LowerCase[s[i]]]

\* find_first_not_of(regex_str) finds nothing.
IsValid(s) == \A i \in DOMAIN s : s[i] \in ValidTokens

-----------------------------------------------------------------------------
(* Documents                                                                *)

Nodes(d) == DOMAIN d.parent

\* n and the nodes around it.
Around(d, n) == LET up[i \in 0 .. Len(d.parent)] ==
                      IF i = 0 THEN {} ELSE {i} \cup up[d.parent[i]]
                IN  up[n]

\* Every node is a child of the node before it or of one around that.
IsDocument(d) ==
  /\ d.parent \in Seq(Nat) /\ d.parent # <<>> /\ d.key \in Seq(Strings) /\ Len(d.key) = Len(d.parent)
  /\ \A n \in Nodes(d) :
       IF n = 1 THEN d.parent[n] = 0
       ELSE d.parent[n] < n /\ d.parent[n] \in Around(d, n - 1)

\* The prefix ListAllMember is called with for each node.
Names(d) == LET name[n \in Nodes(d)] ==
                  IF n = 1 THEN EmptyString
                  ELSE IF name[d.parent[n]] = EmptyString THEN d.key[n]
                  ELSE name[d.parent[n]] \o d.key[n]
            IN  name

\* Mutant of ListAllMember: emplace_back.
ListAllMemberBack(d) ==
  LET list[n \in Nodes(d)] ==
        IF ~IsValid(Names(d)[n]) THEN <<>>
        ELSE <<n>> \o FlattenSeq([c \in Nodes(d) |-> IF d.parent[c] = n THEN list[c] ELSE <<>>])
  IN  list[1]

\* emplace_front: what is collected later, from the children in their order, comes
\* before.
ListAllMember(d) ==
  LET list[n \in Nodes(d)] ==
        IF ~IsValid(Names(d)[n]) THEN <<>>
        ELSE FlattenSeq(Reverse([c \in Nodes(d) |-> IF d.parent[c] = n THEN list[c] ELSE <<>>]))
             \o <<n>>
  IN  list[1]

-----------------------------------------------------------------------------
Precedes(s, x, y) == \E i, j \in DOMAIN s : i < j /\ s[i] = x /\ s[j] = y

Decreasing(s) == \A i, j \in DOMAIN s : i < j => s[i] > s[j]

\* What ListAllMember computes: the nodes with a valid name, last one first.  That
\* it does not look below an invalid name makes no difference to the result.
ListsValidNames(d) ==
  /\ ToSet(ListAllMember(d)) = {n \in Nodes(d) : IsValid(Names(d)[n])}
  /\ Decreasing(ListAllMember(d))

\* What a load needs of that.
ListsAll(d) == /\ ListAllMember(d) \in Seq(Nodes(d))
               /\ \A n \in Nodes(d) : IsValid(Names(d)[n]) => n \in ToSet(ListAllMember(d))

\* A variable for an inner part of the document is set before one for a part around it.
InnerFirst(d) == \A m \in ToSet(ListAllMember(d)) : \A n \in Around(d, m) \ {m} :
  Precedes(ListAllMember(d), m, n)

\* Letters are converted to lower case: a name that is valid in lower case is listed.
CapitalsAreLowered(d) == \A n \in Nodes(d) :
  IsValid(Lowered(Names(d)[n])) => n \in ToSet(ListAllMember(d))
=============================================================================
