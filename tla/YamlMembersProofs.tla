------------------------- MODULE YamlMembersProofs -------------------------
(***************************************************************************)
(* Theorems about ListAllMember, for documents of any size and shape, and  *)
(* what they need: induction over the natural numbers, the existence of a  *)
(* function that is defined by its values at smaller arguments, and        *)
(* FlattenSeq.                                                             *)
(***************************************************************************)
EXTENDS YamlMembers, SequenceTheorems, FiniteSetTheorems, TLAPS

-----------------------------------------------------------------------------
(* Induction and recursion                                                  *)

\* A set that has 0 and with a number the next one has them all: if m were the
\* first not to be in it, x |-> x + 1 would be an injection of its numbers up
\* to m into those without 0.
LEMMA Induction ==
  ASSUME NEW I \in SUBSET Nat, 0 \in I, \A n \in I : n + 1 \in I
  PROVE  I = Nat
  <1> SUFFICES ASSUME NEW m \in Nat, m \notin I
               PROVE  FALSE
    OBVIOUS
  <1> DEFINE S == {n \in 0 .. m : n \in I}
             T == {n \in 1 .. m : n \in I}
             next == [n \in S |-> n + 1]
  <1>1. IsFiniteSet(S) /\ IsFiniteSet(T) /\ Cardinality(S) \in Nat
    <2>1. IsFiniteSet(0 .. m)
      BY FS_Interval
    <2>2. S \in SUBSET (0 .. m) /\ T \in SUBSET (0 .. m)
      OBVIOUS
    <2> HIDE DEF S, T
    <2> QED
      BY <2>1, <2>2, FS_Subset, FS_CardinalityType
  <1>2. Cardinality(T) < Cardinality(S)
    <2>1. T = S \ {0} /\ 0 \in S
      OBVIOUS
    <2> HIDE DEF S, T
    <2> QED
      BY <1>1, <2>1, FS_RemoveElement
  <1>3. next \in [S -> T]
    OBVIOUS
  <1>4. \A x, y \in S : next[x] = next[y] => x = y
    OBVIOUS
  <1> HIDE DEF S, T, next
  <1> QED
    BY <1>1, <1>2, <1>3, <1>4, FS_PigeonHole

\* Induction over a set by a number m[x] of each element.
LEMMA MeasureInduction ==
  ASSUME NEW D, NEW m \in [D -> Nat], NEW S,
         \A x \in D : (\A y \in D : m[y] < m[x] => y \in S) => x \in S
  PROVE  \A x \in D : x \in S
  <1> DEFINE I == {n \in Nat : \A y \in D : m[y] < n => y \in S}
  <1>1. I = Nat
    <2>1. 0 \in I
      OBVIOUS
    <2>2. ASSUME NEW n \in I PROVE n + 1 \in I
      <3>1. \A y \in D : m[y] < n + 1 => m[y] <= n
        OBVIOUS
      <3>2. \A x \in D : m[x] <= n => x \in S
        OBVIOUS
      <3> QED
        BY <3>1, <3>2
    <2>3. I \in SUBSET Nat
      OBVIOUS
    <2> HIDE DEF I
    <2> QED
      BY <2>1, <2>2, <2>3, Induction
  <1>2. \A x \in D : m[x] + 1 \in I
    BY <1>1
  <1> QED
    BY <1>2

\* The elements with a smaller number than x.
Before(D, m, x) == {y \in D : m[y] < m[x]}

\* F says for each x what a function is there, given what it is before x.
Rule(F, D, m, V) == \A x \in D : \A g \in [Before(D, m, x) -> V] : F[x][g] \in V

Obeys(f, F, D, m, V) == /\ f \in [D -> V]
                        /\ \A x \in D : f[x] = F[x][Restrict(f, Before(D, m, x))]

\* A function on D may be defined by such a rule.
LEMMA Recursion ==
  ASSUME NEW D, NEW b, NEW m, NEW V, NEW F, b \in Nat, m \in [D -> 0 .. b], Rule(F, D, m, V)
  PROVE  \E f : Obeys(f, F, D, m, V)
  <1> USE DEF Restrict, Rule
  <1> DEFINE Below(n) == {y \in D : m[y] < n}
             Solves(f, n) == /\ f \in [Below(n) -> V]
                             /\ \A x \in Below(n) : f[x] = F[x][Restrict(f, Before(D, m, x))]
             I == {n \in Nat : \E f : Solves(f, n)}
  <1>1. 0 \in I
    <2>1. Below(0) = {}
      OBVIOUS
    <2>2. Solves([x \in {} |-> 0], 0)
      BY <2>1
    <2> QED
      BY <2>2
  <1>2. ASSUME NEW n \in I PROVE n + 1 \in I
    <2>1. PICK f : Solves(f, n)
      OBVIOUS
    <2> DEFINE g == [x \in Below(n + 1) |-> IF m[x] < n THEN f[x]
                                            ELSE F[x][Restrict(f, Before(D, m, x))]]
    <2>2. \A x \in Below(n + 1) : m[x] <= n /\ (m[x] < n \/ m[x] = n)
      OBVIOUS
    <2>3. ASSUME NEW x \in Below(n + 1)
          PROVE  Restrict(g, Before(D, m, x)) = Restrict(f, Before(D, m, x))
      <3>1. \A y \in Before(D, m, x) : y \in Below(n + 1) /\ m[y] < n
        BY <2>2 DEF Before
      <3> QED
        BY <3>1
    <2>4. \A x \in Below(n + 1) : g[x] = F[x][Restrict(f, Before(D, m, x))]
      BY <2>1, <2>2
    <2>5. \A x \in Below(n + 1) : g[x] \in V
      <3>1. ASSUME NEW x \in Below(n + 1)
            PROVE  Restrict(f, Before(D, m, x)) \in [Before(D, m, x) -> V]
        <4>1. \A y \in Before(D, m, x) : y \in Below(n)
          BY <2>2 DEF Before
        <4> QED
          BY <2>1, <4>1
      <3> QED
        BY <2>4, <3>1
    <2>6. g \in [Below(n + 1) -> V]
      BY <2>5
    <2>7. \A x \in Below(n + 1) : g[x] = F[x][Restrict(g, Before(D, m, x))]
      BY <2>3, <2>4
    <2> HIDE DEF g
    <2>8. Solves(g, n + 1)
      BY <2>6, <2>7
    <2>9. n + 1 \in Nat
      OBVIOUS
    <2> HIDE DEF Solves
    <2> QED
      BY <2>8, <2>9
  <1>3. I = Nat
    <2>1. I \in SUBSET Nat
      OBVIOUS
    <2>2. \A n \in I : n + 1 \in I
      BY <1>2
    <2> HIDE DEF I
    <2> QED
      BY <1>1, <2>1, <2>2, Induction
  <1> HIDE DEF I
  <1>4. b + 1 \in I
    BY <1>3
  <1>5. PICK f : Solves(f, b + 1)
    BY <1>4 DEF I
  <1>6. Below(b + 1) = D
    OBVIOUS
  <1> QED
    BY <1>5, <1>6 DEF Obeys

LEMMA ObeysAt ==
  ASSUME NEW f, NEW F, NEW D, NEW m, NEW V, Obeys(f, F, D, m, V), NEW x \in D
  PROVE  LET g == Restrict(f, Before(D, m, x)) IN
         /\ g \in [Before(D, m, x) -> V] /\ f[x] = F[x][g]
         /\ \A y \in Before(D, m, x) : g[y] = f[y]
  BY DEF Obeys, Restrict, Before

\* Induction over the numbers from 1 to N, up and down.
LEMMA UpInduction ==
  ASSUME NEW N \in Nat, NEW S, \A n \in 1 .. N : (\A k \in 1 .. n - 1 : k \in S) => n \in S
  PROVE  \A n \in 1 .. N : n \in S
  <1> DEFINE D == 1 .. N
             m == [n \in D |-> n]
  <1>1. ASSUME NEW x \in D, \A y \in D : m[y] < m[x] => y \in S
        PROVE  x \in S
    <2>1. \A k \in 1 .. x - 1 : k \in D /\ m[k] < m[x]
      OBVIOUS
    <2> QED
      BY <1>1, <2>1
  <1>2. m \in [D -> Nat]
    OBVIOUS
  <1> HIDE DEF D, m
  <1>3. \A x \in D : x \in S
    BY <1>1, <1>2, MeasureInduction
  <1> QED
    BY <1>3 DEF D

LEMMA DownInduction ==
  ASSUME NEW N \in Nat, NEW S, \A n \in 1 .. N : (\A k \in n + 1 .. N : k \in S) => n \in S
  PROVE  \A n \in 1 .. N : n \in S
  <1> DEFINE D == 1 .. N
             m == [n \in D |-> N - n]
  <1>1. ASSUME NEW x \in D, \A y \in D : m[y] < m[x] => y \in S
        PROVE  x \in S
    <2>1. \A k \in x + 1 .. N : k \in D /\ m[k] < m[x]
      OBVIOUS
    <2> QED
      BY <1>1, <2>1
  <1>2. m \in [D -> Nat]
    OBVIOUS
  <1> HIDE DEF D, m
  <1>3. \A x \in D : x \in S
    BY <1>1, <1>2, MeasureInduction
  <1> QED
    BY <1>3 DEF D

-----------------------------------------------------------------------------
(* Documents                                                                *)

LEMMA DocumentFacts ==
  ASSUME NEW d, IsDocument(d)
  PROVE  /\ Len(d.parent) \in Nat \ {0} /\ Nodes(d) = 1 .. Len(d.parent)
         /\ 1 \in Nodes(d) /\ d.parent[1] = 0
         /\ \A n \in Nodes(d) : /\ d.parent[n] \in Nat /\ d.parent[n] < n /\ d.key[n] \in Strings
                                /\ n # 1 => d.parent[n] \in Around(d, n - 1)
  <1>1. /\ d.parent \in Seq(Nat) /\ d.parent # <<>> /\ d.key \in Seq(Strings)
        /\ Len(d.key) = Len(d.parent)
    BY DEF IsDocument
  <1>2. Len(d.parent) \in Nat \ {0} /\ Nodes(d) = 1 .. Len(d.parent)
    BY <1>1 DEF Nodes
  <1>3. \A n \in Nodes(d) : d.parent[n] \in Nat /\ d.key[n] \in Strings
    BY <1>1, <1>2
  <1> QED
    BY <1>2, <1>3 DEF IsDocument

\* Around a node are the node and what is around its parent.
LEMMA AroundDef ==
  ASSUME NEW d, IsDocument(d)
  PROVE  /\ Around(d, 0) = {}
         /\ \A n \in Nodes(d) : Around(d, n) = {n} \cup Around(d, d.parent[n])
  <1> DEFINE N == Len(d.parent)
             D == 0 .. N
             m == [n \in D |-> n]
             V == SUBSET Nat
             E(f, i) == IF i = 0 THEN {} ELSE {i} \cup f[d.parent[i]]
             F == [x \in D |-> [g \in [Before(D, m, x) -> V] |-> E(g, x)]]
             up == CHOOSE f : f = [i \in 0 .. N |-> E(f, i)]
  <1>1. N \in Nat /\ \A i \in D : i # 0 => d.parent[i] \in Before(D, m, i)
    BY DocumentFacts DEF Before
  <1> HIDE DEF m
  <1>2. \A x \in D : \A g \in [Before(D, m, x) -> V] : F[x][g] = E(g, x) /\ F[x][g] \in V
    BY <1>1
  <1>3. m \in [D -> 0 .. N]
    BY DEF m
  <1>4. \E f : f = [i \in 0 .. N |-> E(f, i)]
    <2> HIDE DEF F, V, D
    <2>0. Rule(F, D, m, V)
      BY <1>2 DEF Rule
    <2>1. PICK f : Obeys(f, F, D, m, V)
      BY <2>0, <1>1, <1>3, Recursion
    <2>2. ASSUME NEW x \in D PROVE f[x] = E(f, x)
      <3> DEFINE g == Restrict(f, Before(D, m, x))
      <3>1. /\ g \in [Before(D, m, x) -> V] /\ f[x] = F[x][g]
            /\ \A y \in Before(D, m, x) : g[y] = f[y]
        BY <2>1, ObeysAt
      <3> HIDE DEF g
      <3>2. f[x] = E(g, x)
        BY <1>2, <3>1
      <3> QED
        BY <1>1, <3>1, <3>2
    <2>3. f = [x \in D |-> E(f, x)]
      <3>1. f \in [D -> V]
        BY <2>1 DEF Obeys
      <3> HIDE DEF E
      <3> QED
        BY <2>2, <3>1
    <2> QED
      BY <2>3 DEF D
  <1>5. up = [i \in 0 .. N |-> E(up, i)]
    BY <1>4
  <1>6. \A n : Around(d, n) = up[n]
    BY DEF Around
  <1> HIDE DEF up
  <1>7. \A i \in D : up[i] = E(up, i)
    BY <1>5
  <1>8. \A n \in Nodes(d) : n \in D /\ n # 0
    BY DocumentFacts
  <1>9. 0 \in D
    BY <1>1
  <1> HIDE DEF D
  <1> QED
    BY <1>6, <1>7, <1>8, <1>9

LEMMA AroundBelow ==
  ASSUME NEW d, IsDocument(d)
  PROVE  \A n \in Nodes(d) : /\ n \in Around(d, n) /\ Around(d, n) \subseteq 1 .. n
                             /\ n # 1 => d.parent[n] \in 1 .. n - 1
  <1> DEFINE N == Len(d.parent)
             S == {n \in Nodes(d) : /\ Around(d, n) \subseteq 1 .. n
                                    /\ n # 1 => d.parent[n] \in 1 .. n - 1}
  <1>1. N \in Nat /\ Nodes(d) = 1 .. N
    BY DocumentFacts
  <1>2. ASSUME NEW n \in 1 .. N, \A k \in 1 .. n - 1 : k \in S
        PROVE  n \in S
    <2>1. CASE n = 1
      BY <1>1, <2>1, AroundDef, DocumentFacts
    <2>2. CASE n # 1
      <3>1. n - 1 \in 1 .. n - 1 /\ d.parent[n] \in Around(d, n - 1)
        BY <1>1, <2>2, DocumentFacts
      <3>2. d.parent[n] \in 1 .. n - 1
        BY <1>2, <3>1
      <3>3. Around(d, d.parent[n]) \subseteq 1 .. n
        BY <1>2, <3>2
      <3>4. Around(d, n) \subseteq 1 .. n
        BY <1>1, <3>3, AroundDef
      <3> QED
        BY <1>1, <3>2, <3>4
    <2> QED
      BY <2>1, <2>2
  <1> HIDE DEF S, N
  <1>3. \A n \in 1 .. N : n \in S
    BY <1>1, <1>2, UpInduction
  <1> QED
    BY <1>1, <1>3, AroundDef DEF S

\* What is around a node around m is around m.
LEMMA AroundTransitive ==
  ASSUME NEW d, IsDocument(d)
  PROVE  \A m \in Nodes(d) : \A k \in Around(d, m) : k \in Nodes(d) /\ Around(d, k) \subseteq Around(d, m)
  <1> DEFINE N == Len(d.parent)
             S == {m \in Nodes(d) : \A k \in Around(d, m) : Around(d, k) \subseteq Around(d, m)}
  <1>1. N \in Nat /\ Nodes(d) = 1 .. N
    BY DocumentFacts
  <1>2. ASSUME NEW m \in 1 .. N, \A k \in 1 .. m - 1 : k \in S
        PROVE  m \in S
    <2>1. Around(d, m) = {m} \cup Around(d, d.parent[m])
      BY <1>1, AroundDef
    <2>2. m # 1 => d.parent[m] \in S
      BY <1>1, <1>2, AroundBelow
    <2>3. m = 1 => Around(d, d.parent[m]) = {}
      BY AroundDef, DocumentFacts
    <2>4. \A k \in Around(d, d.parent[m]) : Around(d, k) \subseteq Around(d, d.parent[m])
      BY <2>2, <2>3
    <2> QED
      BY <1>1, <2>1, <2>4
  <1> HIDE DEF S, N
  <1>3. \A m \in 1 .. N : m \in S
    BY <1>1, <1>2, UpInduction
  <1>4. \A m \in Nodes(d) : Around(d, m) \subseteq Nodes(d)
    BY <1>1, AroundBelow DEF N
  <1> QED
    BY <1>1, <1>3, <1>4 DEF S

\* Around what is inside n, but is not n, is a child of n.
LEMMA ChildBetween ==
  ASSUME NEW d, IsDocument(d), NEW n \in Nodes(d)
  PROVE  \A m \in Nodes(d) : n \in Around(d, m) /\ n # m =>
           \E c \in Nodes(d) : d.parent[c] = n /\ c \in Around(d, m)
  <1> DEFINE N == Len(d.parent)
             S == {m \in Nodes(d) : n \in Around(d, m) /\ n # m =>
                     \E c \in Nodes(d) : d.parent[c] = n /\ c \in Around(d, m)}
  <1>1. N \in Nat /\ Nodes(d) = 1 .. N
    BY DocumentFacts
  <1>2. ASSUME NEW m \in 1 .. N, \A k \in 1 .. m - 1 : k \in S
        PROVE  m \in S
    <2> SUFFICES ASSUME n \in Around(d, m), n # m
                 PROVE  \E c \in Nodes(d) : d.parent[c] = n /\ c \in Around(d, m)
      BY <1>1
    <2>1. /\ Around(d, m) = {m} \cup Around(d, d.parent[m])
          /\ m \in Nodes(d)
      BY <1>1, AroundDef
    <2>2. m # 1
      BY <2>1, AroundDef, DocumentFacts
    <2>3. d.parent[m] \in S
      BY <1>1, <1>2, <2>2, AroundBelow
    <2> QED
      BY <2>1, <2>3
  <1> HIDE DEF S, N
  <1>3. \A m \in 1 .. N : m \in S
    BY <1>1, <1>2, UpInduction
  <1> QED
    BY <1>1, <1>3 DEF S

\* The nodes inside a node follow it without a gap.
LEMMA NoGap ==
  ASSUME NEW d, IsDocument(d)
  PROVE  \A m \in Nodes(d) : \A c \in Around(d, m) : \A k \in c .. m : c \in Around(d, k)
  <1> DEFINE N == Len(d.parent)
             S == {m \in Nodes(d) : \A c \in Around(d, m) : \A k \in c .. m : c \in Around(d, k)}
  <1>1. N \in Nat /\ Nodes(d) = 1 .. N
    BY DocumentFacts
  <1>2. ASSUME NEW m \in 1 .. N, \A k \in 1 .. m - 1 : k \in S
        PROVE  m \in S
    <2> SUFFICES ASSUME NEW c \in Around(d, m), NEW k \in c .. m
                 PROVE  c \in Around(d, k)
      BY <1>1
    <2>1. c \in 1 .. m
      BY <1>1, AroundBelow
    <2>2. CASE k = m
      BY <2>2
    <2>3. CASE k # m
      <3>1. c \in 1 .. m - 1 /\ k \in c .. m - 1 /\ m - 1 \in 1 .. m - 1 /\ m # 1
        BY <2>1, <2>3
      <3>2. c \in Around(d, d.parent[m])
        BY <1>1, <3>1, AroundDef
      <3>3. d.parent[m] \in Around(d, m - 1) /\ m - 1 \in Nodes(d)
        BY <1>1, <3>1, DocumentFacts
      <3>4. c \in Around(d, m - 1)
        BY <3>2, <3>3, AroundTransitive
      <3> QED
        BY <1>2, <3>1, <3>4
    <2> QED
      BY <2>2, <2>3
  <1> HIDE DEF S, N
  <1>3. \A m \in 1 .. N : m \in S
    BY <1>1, <1>2, UpInduction
  <1> QED
    BY <1>1, <1>3 DEF S

\* All that is inside a child comes before all that is inside a later one.
LEMMA SiblingsApart ==
  ASSUME NEW d, IsDocument(d), NEW b \in Nodes(d), NEW c \in Nodes(d),
         b < c, d.parent[b] = d.parent[c],
         NEW x \in Nodes(d), b \in Around(d, x), NEW y \in Nodes(d), c \in Around(d, y)
  PROVE  x < y
  <1>1. /\ b \in Nat /\ c \in Nat /\ x \in Nat /\ y \in Nat /\ c <= y
    BY AroundBelow, DocumentFacts
  <1> SUFFICES ASSUME c <= x
               PROVE  FALSE
    BY <1>1
  <1>2. b \in Around(d, c)
    BY <1>1, NoGap
  <1>3. b \in Around(d, d.parent[b])
    BY <1>1, <1>2, AroundDef
  <1>4. b # 1 /\ d.parent[b] \in 1 .. b - 1
    BY <1>3, AroundBelow, AroundDef, DocumentFacts
  <1>5. d.parent[b] \in Nodes(d)
    BY <1>1, <1>4, DocumentFacts
  <1> QED
    BY <1>1, <1>3, <1>4, <1>5, AroundBelow

-----------------------------------------------------------------------------
(* Names                                                                    *)

\* The name of a node is its key, after the name of its parent if that has one.
LEMMA NamesDef ==
  ASSUME NEW d, IsDocument(d)
  PROVE  \A n \in Nodes(d) : LET p == d.parent[n] IN
           Names(d)[n] = IF n = 1 THEN EmptyString
                         ELSE IF Names(d)[p] = EmptyString THEN d.key[n]
                         ELSE Names(d)[p] \o d.key[n]
  <1> DEFINE N == Len(d.parent)
             D == Nodes(d)
             m == [n \in D |-> n]
             V == Strings
             E(f, n) == IF n = 1 THEN EmptyString
                        ELSE IF f[d.parent[n]] = EmptyString THEN d.key[n]
                        ELSE f[d.parent[n]] \o d.key[n]
             F == [x \in D |-> [g \in [Before(D, m, x) -> V] |-> E(g, x)]]
             name == CHOOSE f : f = [n \in Nodes(d) |-> E(f, n)]
  <1>1. N \in Nat /\ D = 1 .. N /\ m \in [D -> 0 .. N]
    BY DocumentFacts
  <1>2. \A n \in D : (n # 1 => d.parent[n] \in Before(D, m, n)) /\ d.key[n] \in Seq(Tokens)
    BY DocumentFacts, AroundBelow DEF Before, Strings
  <1>3. EmptyString \in Seq(Tokens)
    BY TokenAssumption DEF EmptyString
  <1> HIDE DEF m, D
  <1>4. \A x \in D : \A g \in [Before(D, m, x) -> V] : F[x][g] = E(g, x) /\ F[x][g] \in V
    BY <1>2, <1>3 DEF Strings
  <1>5. \E f : f = [n \in D |-> E(f, n)]
    <2> HIDE DEF F, V
    <2>1. Rule(F, D, m, V)
      BY <1>4 DEF Rule
    <2>2. PICK f : Obeys(f, F, D, m, V)
      BY <2>1, <1>1, Recursion
    <2>3. ASSUME NEW x \in D PROVE f[x] = E(f, x)
      <3> DEFINE g == Restrict(f, Before(D, m, x))
      <3>1. /\ g \in [Before(D, m, x) -> V] /\ f[x] = F[x][g]
            /\ \A y \in Before(D, m, x) : g[y] = f[y]
        BY <2>2, ObeysAt
      <3> HIDE DEF g
      <3>2. f[x] = E(g, x)
        BY <1>4, <3>1
      <3> QED
        BY <1>2, <3>1, <3>2
    <2>4. f \in [D -> V]
      BY <2>2 DEF Obeys
    <2> HIDE DEF E
    <2>5. f = [x \in D |-> E(f, x)]
      BY <2>3, <2>4
    <2> QED
      BY <2>5
  <1>6. name = [n \in Nodes(d) |-> E(name, n)]
    BY <1>5 DEF D
  <1>7. Names(d) = name
    BY DEF Names
  <1> HIDE DEF name
  <1> QED
    BY <1>6, <1>7

LEMMA NamesType ==
  ASSUME NEW d, IsDocument(d)
  PROVE  \A n \in Nodes(d) : Names(d)[n] \in Seq(Tokens)
  <1> DEFINE N == Len(d.parent)
             S == {n \in Nodes(d) : Names(d)[n] \in Seq(Tokens)}
  <1>1. N \in Nat /\ Nodes(d) = 1 .. N
    BY DocumentFacts
  <1>2. ASSUME NEW n \in 1 .. N, \A k \in 1 .. n - 1 : k \in S
        PROVE  n \in S
    <2>1. EmptyString \in Seq(Tokens) /\ d.key[n] \in Seq(Tokens)
      BY <1>1, DocumentFacts, TokenAssumption DEF EmptyString, Strings
    <2>2. n # 1 => Names(d)[d.parent[n]] \in Seq(Tokens)
      BY <1>1, <1>2, AroundBelow
    <2>3. n # 1 => Names(d)[d.parent[n]] \o d.key[n] \in Seq(Tokens)
      BY <2>1, <2>2, ConcatProperties
    <2>4. n \in Nodes(d)
      BY <1>1
    <2> QED
      BY <2>1, <2>2, <2>3, <2>4, NamesDef
  <1> HIDE DEF S, N
  <1>3. \A n \in 1 .. N : n \in S
    BY <1>1, <1>2, UpInduction
  <1> QED
    BY <1>1, <1>3 DEF S

\* A name is valid only below valid names.
LEMMA ParentValid ==
  ASSUME NEW d, IsDocument(d), NEW n \in Nodes(d), n # 1, IsValid(Names(d)[n])
  PROVE  IsValid(Names(d)[d.parent[n]])
  <1> DEFINE s == Names(d)[d.parent[n]]
             k == d.key[n]
  <1>1. d.parent[n] \in Nodes(d)
    BY AroundBelow, DocumentFacts
  <1>2. s \in Seq(Tokens) /\ k \in Seq(Tokens)
    BY <1>1, NamesType, DocumentFacts DEF Strings
  <1>3. CASE s = EmptyString
    BY <1>3, TokenAssumption DEF IsValid, EmptyString
  <1>4. CASE s # EmptyString
    <2>1. IsValid(s \o k)
      BY <1>4, NamesDef
    <2>2. \A i \in DOMAIN s : i \in DOMAIN (s \o k) /\ (s \o k)[i] = s[i]
      <3> HIDE DEF s, k
      <3> QED
        BY <1>2, ConcatProperties
    <2> QED
      BY <2>1, <2>2 DEF IsValid
  <1> QED
    BY <1>3, <1>4

LEMMA AroundValid ==
  ASSUME NEW d, IsDocument(d)
  PROVE  \A m \in Nodes(d) : IsValid(Names(d)[m]) =>
           \A n \in Around(d, m) : n \in Nodes(d) /\ IsValid(Names(d)[n])
  <1> DEFINE N == Len(d.parent)
             S == {m \in Nodes(d) : IsValid(Names(d)[m]) =>
                     \A n \in Around(d, m) : n \in Nodes(d) /\ IsValid(Names(d)[n])}
  <1>1. N \in Nat /\ Nodes(d) = 1 .. N
    BY DocumentFacts
  <1>2. ASSUME NEW m \in 1 .. N, \A k \in 1 .. m - 1 : k \in S
        PROVE  m \in S
    <2> SUFFICES ASSUME IsValid(Names(d)[m]), NEW n \in Around(d, m), n # m
                 PROVE  n \in Nodes(d) /\ IsValid(Names(d)[n])
      BY <1>1
    <2>1. m \in Nodes(d) /\ n \in Around(d, d.parent[m])
      BY <1>1, AroundDef
    <2>2. m # 1
      BY <2>1, AroundDef, DocumentFacts
    <2>3. d.parent[m] \in S /\ IsValid(Names(d)[d.parent[m]])
      BY <1>1, <1>2, <2>1, <2>2, AroundBelow, ParentValid
    <2> QED
      BY <2>1, <2>3
  <1> HIDE DEF S, N
  <1>3. \A m \in 1 .. N : m \in S
    BY <1>1, <1>2, UpInduction
  <1> QED
    BY <1>1, <1>3 DEF S

\* The root is around every node.
LEMMA RootAround ==
  ASSUME NEW d, IsDocument(d)
  PROVE  \A m \in Nodes(d) : 1 \in Around(d, m)
  <1> DEFINE N == Len(d.parent)
             S == {m \in Nodes(d) : 1 \in Around(d, m)}
  <1>1. N \in Nat /\ Nodes(d) = 1 .. N
    BY DocumentFacts
  <1>2. ASSUME NEW m \in 1 .. N, \A k \in 1 .. m - 1 : k \in S
        PROVE  m \in S
    <2>1. m # 1 => d.parent[m] \in S
      BY <1>1, <1>2, AroundBelow
    <2> QED
      BY <1>1, <2>1, AroundDef
  <1> HIDE DEF S, N
  <1>3. \A m \in 1 .. N : m \in S
    BY <1>1, <1>2, UpInduction
  <1> QED
    BY <1>1, <1>3 DEF S

-----------------------------------------------------------------------------
(* FlattenSeq                                                               *)

\* FlattenSeq appends one sequence after the other.
LEMMA FlattenSteps ==
  ASSUME NEW S, NEW s \in Seq(Seq(S)), s # <<>>
  PROVE  \E f : /\ FlattenSeq(s) = f[Len(s)]
                /\ \A i \in 1 .. Len(s) : /\ f[i] \in Seq(S)
                                          /\ f[i] = IF i = 1 THEN s[i] ELSE f[i - 1] \o s[i]
  <1> DEFINE N == Len(s)
             D == 1 .. N
             m == [n \in D |-> n]
             V == Seq(S)
             E(f, i) == IF i = 1 THEN s[i] ELSE f[i - 1] \o s[i]
             F == [x \in D |-> [g \in [Before(D, m, x) -> V] |-> E(g, x)]]
             flatten == CHOOSE f : f = [i \in 1 .. N |-> E(f, i)]
  <1>1. N \in Nat \ {0} /\ m \in [D -> 0 .. N]
    OBVIOUS
  <1>2. \A i \in D : s[i] \in V /\ (i # 1 => i - 1 \in Before(D, m, i))
    BY DEF Before
  <1> HIDE DEF m, D
  <1>3. ASSUME NEW x \in D, NEW g \in [Before(D, m, x) -> V]
        PROVE  F[x][g] = E(g, x) /\ F[x][g] \in V
    <2>1. x # 1 => g[x - 1] \in V
      BY <1>2
    <2>2. x # 1 => g[x - 1] \o s[x] \in V
      BY <1>2, <2>1, ConcatProperties
    <2> QED
      BY <1>2, <2>2
  <1>4. PICK f : f = [i \in D |-> E(f, i)] /\ f \in [D -> V]
    <2> HIDE DEF F, V
    <2>1. Rule(F, D, m, V)
      BY <1>3 DEF Rule
    <2>2. PICK f : Obeys(f, F, D, m, V)
      BY <2>1, <1>1, Recursion
    <2>3. ASSUME NEW x \in D PROVE f[x] = E(f, x)
      <3> DEFINE g == Restrict(f, Before(D, m, x))
      <3>1. /\ g \in [Before(D, m, x) -> V] /\ f[x] = F[x][g]
            /\ \A y \in Before(D, m, x) : g[y] = f[y]
        BY <2>2, ObeysAt
      <3> HIDE DEF g
      <3>2. f[x] = E(g, x)
        BY <1>3, <3>1
      <3> QED
        BY <1>2, <3>1, <3>2
    <2>4. f \in [D -> V]
      BY <2>2 DEF Obeys
    <2> HIDE DEF E
    <2>5. f = [x \in D |-> E(f, x)]
      BY <2>3, <2>4
    <2> QED
      BY <2>4, <2>5
  <1>5. flatten = [i \in 1 .. N |-> E(flatten, i)]
    BY <1>4 DEF D
  <1>6. FlattenSeq(s) = flatten[N]
    BY <1>1 DEF FlattenSeq
  <1> HIDE DEF flatten
  <1>7. \A i \in D : flatten[i] = E(flatten, i)
    BY <1>5 DEF D
  <1>8. \A i \in D : flatten[i] \in V
    <2> DEFINE T == {i \in D : flatten[i] \in V}
    <2>1. ASSUME NEW n \in 1 .. N, \A k \in 1 .. n - 1 : k \in T
          PROVE  n \in T
      <3>1. n \in D /\ (n # 1 => flatten[n - 1] \in V)
        BY <2>1 DEF D
      <3>2. n # 1 => flatten[n - 1] \o s[n] \in V
        BY <1>2, <3>1, ConcatProperties
      <3> QED
        BY <1>2, <1>7, <3>1, <3>2
    <2> HIDE DEF T, N
    <2>2. \A n \in 1 .. N : n \in T
      BY <1>1, <2>1, UpInduction
    <2> QED
      BY <2>2 DEF T, D
  <1> QED
    BY <1>6, <1>7, <1>8 DEF D

LEMMA ConcatDecreasing ==
  ASSUME NEW a \in Seq(Nat), NEW b \in Seq(Nat), Decreasing(a), Decreasing(b),
         \A x \in ToSet(a), y \in ToSet(b) : x > y
  PROVE  /\ a \o b \in Seq(Nat) /\ Decreasing(a \o b)
         /\ \A x : x \in ToSet(a \o b) <=> x \in ToSet(a) \/ x \in ToSet(b)
  <1> DEFINE c == a \o b
  <1>1. /\ c \in Seq(Nat) /\ DOMAIN c = 1 .. Len(a) + Len(b)
        /\ Len(a) \in Nat /\ DOMAIN a = 1 .. Len(a) /\ Len(b) \in Nat /\ DOMAIN b = 1 .. Len(b)
        /\ \A i \in DOMAIN a : c[i] = a[i]
        /\ \A i \in DOMAIN b : c[Len(a) + i] = b[i]
    BY ConcatProperties
  <1> HIDE DEF c
  <1>2. \A k \in DOMAIN c : k \in DOMAIN a \/ (k > Len(a) /\ k - Len(a) \in DOMAIN b)
    BY <1>1
  <1>3. ASSUME NEW k \in DOMAIN c
        PROVE  \/ k \in DOMAIN a /\ c[k] = a[k]
               \/ k > Len(a) /\ k - Len(a) \in DOMAIN b /\ c[k] = b[k - Len(a)]
    <2>1. k \in Nat /\ Len(a) + (k - Len(a)) = k
      BY <1>1
    <2> QED
      BY <1>1, <1>2, <2>1
  <1>4. \A x : x \in ToSet(c) <=> x \in ToSet(a) \/ x \in ToSet(b)
    <2>1. \A i \in DOMAIN a : i \in DOMAIN c /\ c[i] = a[i]
      BY <1>1
    <2>2. \A i \in DOMAIN b : Len(a) + i \in DOMAIN c /\ c[Len(a) + i] = b[i]
      BY <1>1
    <2> QED
      BY <1>3, <2>1, <2>2 DEF ToSet
  <1>5. Decreasing(c)
    <2> SUFFICES ASSUME NEW i \in DOMAIN c, NEW j \in DOMAIN c, i < j
                 PROVE  c[i] > c[j]
      BY DEF Decreasing
    <2>1. i \in Nat /\ j \in Nat
      BY <1>1
    <2>2. CASE i \in DOMAIN a /\ c[i] = a[i] /\ j \in DOMAIN a /\ c[j] = a[j]
      BY <2>2 DEF Decreasing
    <2>3. CASE /\ i \in DOMAIN a /\ c[i] = a[i]
               /\ j - Len(a) \in DOMAIN b /\ c[j] = b[j - Len(a)]
      BY <2>3 DEF ToSet
    <2>4. CASE /\ i > Len(a) /\ i - Len(a) \in DOMAIN b /\ c[i] = b[i - Len(a)]
               /\ j - Len(a) \in DOMAIN b /\ c[j] = b[j - Len(a)]
      <3>1. i - Len(a) < j - Len(a)
        BY <1>1, <2>1
      <3> QED
        BY <2>4, <3>1 DEF Decreasing
    <2>5. ~(i > Len(a) /\ j \in DOMAIN a)
      BY <1>1, <2>1
    <2> QED
      BY <1>3, <2>2, <2>3, <2>4, <2>5
  <1> QED
    BY <1>1, <1>4, <1>5 DEF c

\* FlattenSeq collects what is in the sequences, and goes down if each of them
\* does and every one is above the next.
LEMMA FlattenDecreasing ==
  ASSUME NEW s \in Seq(Seq(Nat)), s # <<>>,
         \A i \in 1 .. Len(s) : Decreasing(s[i]),
         \A i, j \in 1 .. Len(s) : i < j => \A x \in ToSet(s[i]), y \in ToSet(s[j]) : x > y
  PROVE  /\ FlattenSeq(s) \in Seq(Nat) /\ Decreasing(FlattenSeq(s))
         /\ \A x : x \in ToSet(FlattenSeq(s)) <=> \E i \in 1 .. Len(s) : x \in ToSet(s[i])
  <1> DEFINE N == Len(s)
  <1>1. PICK f : /\ FlattenSeq(s) = f[N]
                 /\ \A i \in 1 .. N : /\ f[i] \in Seq(Nat)
                                      /\ f[i] = IF i = 1 THEN s[i] ELSE f[i - 1] \o s[i]
    BY FlattenSteps
  <1>2. N \in Nat \ {0} /\ \A i \in 1 .. N : s[i] \in Seq(Nat)
    OBVIOUS
  <1> DEFINE Good(n) == /\ Decreasing(f[n])
                        /\ \A x : x \in ToSet(f[n]) <=> \E i \in 1 .. n : x \in ToSet(s[i])
             S == {n \in 1 .. N : Good(n)}
  <1>3. ASSUME NEW n \in 1 .. N, \A k \in 1 .. n - 1 : k \in S
        PROVE  n \in S
    <2>1. CASE n = 1
      BY <1>1, <1>2, <2>1
    <2>2. CASE n # 1
      <3>0. n - 1 \in 1 .. n - 1
        BY <2>2
      <3>1. n - 1 \in S /\ f[n] = f[n - 1] \o s[n] /\ n - 1 \in 1 .. N
        <4> HIDE DEF S
        <4>1. n - 1 \in S
          BY <1>3, <3>0
        <4>2. n - 1 \in 1 .. N /\ n \in 1 .. N
          BY <1>2, <3>0
        <4>3. f[n] = f[n - 1] \o s[n]
          BY <1>1, <2>2, <4>2
        <4> QED
          BY <4>1, <4>2, <4>3
      <3>2. \A x \in ToSet(f[n - 1]), y \in ToSet(s[n]) : x > y
        <4>1. \A i \in 1 .. n - 1 : i \in 1 .. N /\ i < n
          OBVIOUS
        <4> QED
          BY <3>1, <4>1
      <3>3. /\ Decreasing(f[n])
            /\ \A x : x \in ToSet(f[n]) <=> x \in ToSet(f[n - 1]) \/ x \in ToSet(s[n])
        <4>1. /\ f[n - 1] \in Seq(Nat) /\ Decreasing(f[n - 1])
              /\ s[n] \in Seq(Nat) /\ Decreasing(s[n])
          BY <1>1, <1>2, <3>1
        <4> QED
          BY <3>1, <3>2, <4>1, ConcatDecreasing
      <3>4. \A i : i \in 1 .. n <=> i \in 1 .. n - 1 \/ i = n
        OBVIOUS
      <3>5. Good(n)
        BY <3>1, <3>3, <3>4
      <3> QED
        BY <3>5
    <2> QED
      BY <2>1, <2>2
  <1> HIDE DEF S, N
  <1>4. \A n \in 1 .. N : n \in S
    BY <1>2, <1>3, UpInduction
  <1>5. N \in S
    BY <1>2, <1>4
  <1> QED
    BY <1>1, <1>2, <1>5 DEF S, N

-----------------------------------------------------------------------------
(* ListAllMember                                                            *)

\* What ListAllMember collects from node n on: the nodes inside n with a valid
\* name, the last one first.
IsListing(s, d, n) ==
  /\ s \in Seq(Nat) /\ Decreasing(s)
  /\ \A x : x \in ToSet(s) <=> x \in Nodes(d) /\ n \in Around(d, x) /\ IsValid(Names(d)[x])

\* The listings of the children, the last child's first.
Below(d, n, list) == Reverse([c \in Nodes(d) |-> IF d.parent[c] = n THEN list[c] ELSE <<>>])

LEMMA ListsBelow ==
  ASSUME NEW d, IsDocument(d), NEW n \in Nodes(d), NEW list,
         \A c \in n + 1 .. Len(d.parent) : IsListing(list[c], d, c)
  PROVE  LET s == FlattenSeq(Below(d, n, list)) IN
         /\ s \in Seq(Nat) /\ Decreasing(s)
         /\ \A x : x \in ToSet(s) <=> \E c \in Nodes(d) : d.parent[c] = n /\ x \in ToSet(list[c])
  <1> DEFINE N == Len(d.parent)
             s == Below(d, n, list)
             L(c) == IF d.parent[c] = n THEN list[c] ELSE <<>>
  <1>1. N \in Nat \ {0} /\ Nodes(d) = 1 .. N /\ n \in Nat
    BY DocumentFacts
  <1>2. \A c \in Nodes(d) : d.parent[c] = n => IsListing(list[c], d, c)
    <2>1. \A c \in Nodes(d) : d.parent[c] = n => c \in n + 1 .. N
      BY <1>1, DocumentFacts
    <2> QED
      BY <2>1
  <1>3. \A c \in Nodes(d) : L(c) \in Seq(Nat) /\ Decreasing(L(c))
    BY <1>2 DEF IsListing, Decreasing
  <1>4. s = [i \in 1 .. N |-> L(N - i + 1)]
    <2> DEFINE r == [c \in 1 .. N |-> L(c)]
    <2>1. Len(r) = N
      BY <1>1
    <2>2. \A i \in 1 .. N : N - i + 1 \in 1 .. N
      BY <1>1
    <2>3. Reverse(r) = [i \in 1 .. N |-> r[N - i + 1]]
      BY <2>1 DEF Reverse
    <2> HIDE DEF L, N
    <2>4. Reverse(r) = [i \in 1 .. N |-> L(N - i + 1)]
      BY <2>2, <2>3
    <2> QED
      BY <1>1, <2>4 DEF Below, L
  <1> HIDE DEF L, s, N
  <1>5. \A i \in 1 .. N : N - i + 1 \in Nodes(d) /\ s[i] = L(N - i + 1)
    BY <1>1, <1>4
  <1>6. s \in Seq(Seq(Nat)) /\ Len(s) = N /\ s # <<>>
    BY <1>1, <1>3, <1>4, <1>5
  <1>7. \A i \in 1 .. Len(s) : Decreasing(s[i])
    BY <1>3, <1>5, <1>6
  <1>8. ASSUME NEW b \in Nodes(d), NEW c \in Nodes(d), b < c, NEW x \in ToSet(L(c)), NEW y \in ToSet(L(b))
        PROVE  x > y
    <2>1. ToSet(<<>>) = {}
      BY DEF ToSet
    <2>2. d.parent[b] = n /\ d.parent[c] = n
      BY <1>8, <2>1 DEF L
    <2>3. /\ x \in Nodes(d) /\ c \in Around(d, x)
          /\ y \in Nodes(d) /\ b \in Around(d, y)
      BY <1>2, <1>8, <2>2 DEF L, IsListing
    <2>4. y < x
      BY <1>8, <2>2, <2>3, SiblingsApart
    <2> QED
      BY <1>1, <2>3, <2>4
  <1>9. \A i, j \in 1 .. Len(s) : i < j => \A x \in ToSet(s[i]), y \in ToSet(s[j]) : x > y
    <2> SUFFICES ASSUME NEW i \in 1 .. N, NEW j \in 1 .. N, i < j,
                        NEW x \in ToSet(s[i]), NEW y \in ToSet(s[j])
                 PROVE  x > y
      BY <1>6
    <2>1. N - j + 1 < N - i + 1
      BY <1>1
    <2> QED
      BY <1>5, <1>8, <2>1
  <1>10. /\ FlattenSeq(s) \in Seq(Nat) /\ Decreasing(FlattenSeq(s))
         /\ \A x : x \in ToSet(FlattenSeq(s)) <=> \E i \in 1 .. N : x \in ToSet(s[i])
    BY <1>6, <1>7, <1>9, FlattenDecreasing
  <1>11. ASSUME NEW x
         PROVE  (\E i \in 1 .. N : x \in ToSet(s[i]))
                  <=> \E c \in Nodes(d) : d.parent[c] = n /\ x \in ToSet(list[c])
    <2>1. ToSet(<<>>) = {}
      BY DEF ToSet
    <2>2. \A c \in Nodes(d) : N - c + 1 \in 1 .. N /\ s[N - c + 1] = L(c)
      <3>1. \A c \in 1 .. N : N - c + 1 \in 1 .. N /\ N - (N - c + 1) + 1 = c
        BY <1>1
      <3> QED
        BY <1>1, <1>5, <3>1
    <2>3. ASSUME NEW i \in 1 .. N, x \in ToSet(s[i])
          PROVE  \E c \in Nodes(d) : d.parent[c] = n /\ x \in ToSet(list[c])
      BY <1>5, <2>1, <2>3 DEF L
    <2>4. ASSUME NEW c \in Nodes(d), d.parent[c] = n, x \in ToSet(list[c])
          PROVE  \E i \in 1 .. N : x \in ToSet(s[i])
      BY <2>2, <2>4 DEF L
    <2> QED
      BY <2>3, <2>4
  <1> QED
    BY <1>10, <1>11 DEF s

LEMMA BelowType ==
  ASSUME NEW d, IsDocument(d), NEW n \in Nodes(d), NEW list,
         \A c \in Nodes(d) : d.parent[c] = n => list[c] \in Seq(Nat)
  PROVE  FlattenSeq(Below(d, n, list)) \o <<n>> \in Seq(Nat)
  <1> DEFINE N == Len(d.parent)
             s == Below(d, n, list)
             r == [c \in 1 .. N |-> IF d.parent[c] = n THEN list[c] ELSE <<>>]
  <1>1. N \in Nat \ {0} /\ Nodes(d) = 1 .. N /\ n \in Nat
    BY DocumentFacts
  <1>2. r \in Seq(Seq(Nat)) /\ Len(r) = N
    BY <1>1
  <1> HIDE DEF r, N
  <1>3. \A i \in 1 .. N : N - i + 1 \in 1 .. N
    BY <1>1
  <1>4. Reverse(r) \in Seq(Seq(Nat)) /\ Len(Reverse(r)) = N
    BY <1>1, <1>2, <1>3 DEF Reverse
  <1>5. s = Reverse(r)
    BY <1>1 DEF Below, r
  <1> HIDE DEF s
  <1>6. s \in Seq(Seq(Nat)) /\ s # <<>> /\ Len(s) \in 1 .. Len(s)
    BY <1>1, <1>4, <1>5
  <1>7. FlattenSeq(s) \in Seq(Nat)
    BY <1>6, FlattenSteps
  <1>8. <<n>> \in Seq(Nat)
    BY <1>1
  <1> QED
    BY <1>7, <1>8, ConcatProperties DEF s

\* Below a node, ListAllMember depends on what is below its children only, all
\* of which come later.
LEMMA ListAllMemberDef ==
  ASSUME NEW d, IsDocument(d)
  PROVE  \E list : /\ ListAllMember(d) = list[1]
                   /\ \A n \in Nodes(d) :
                        list[n] = IF ~IsValid(Names(d)[n]) THEN <<>>
                                  ELSE FlattenSeq(Below(d, n, list)) \o <<n>>
  <1> DEFINE N == Len(d.parent)
             D == Nodes(d)
             m == [n \in D |-> N - n]
             V == Seq(Nat)
             E(f, n) == IF ~IsValid(Names(d)[n]) THEN <<>>
                        ELSE FlattenSeq(Below(d, n, f)) \o <<n>>
             F == [x \in D |-> [g \in [Before(D, m, x) -> V] |-> E(g, x)]]
             list == CHOOSE f : f = [n \in Nodes(d) |-> E(f, n)]
  <1>1. N \in Nat /\ D = 1 .. N /\ m \in [D -> 0 .. N]
    BY DocumentFacts
  <1>2. \A n, c \in D : d.parent[c] = n => c \in Before(D, m, n)
    BY <1>1, DocumentFacts DEF Before
  <1> HIDE DEF m, D
  <1>3. ASSUME NEW x \in D, NEW g \in [Before(D, m, x) -> V]
        PROVE  F[x][g] = E(g, x) /\ F[x][g] \in V
    <2>1. \A c \in Nodes(d) : d.parent[c] = x => g[c] \in Seq(Nat)
      BY <1>2 DEF D
    <2>2. FlattenSeq(Below(d, x, g)) \o <<x>> \in Seq(Nat)
      BY <2>1, BelowType DEF D
    <2>3. F[x][g] = E(g, x)
      <3> HIDE DEF E, V
      <3> QED
        OBVIOUS
    <2> QED
      BY <2>2, <2>3
  <1>4. \E f : f = [n \in D |-> E(f, n)]
    <2> HIDE DEF F, V, E
    <2>1. Rule(F, D, m, V)
      BY <1>3 DEF Rule
    <2>2. PICK f : Obeys(f, F, D, m, V)
      BY <2>1, <1>1, Recursion
    <2>3. ASSUME NEW x \in D PROVE f[x] = E(f, x)
      <3> DEFINE g == Restrict(f, Before(D, m, x))
      <3>1. /\ g \in [Before(D, m, x) -> V] /\ f[x] = F[x][g]
            /\ \A y \in Before(D, m, x) : g[y] = f[y]
        BY <2>2, ObeysAt
      <3> HIDE DEF g
      <3>2. f[x] = E(g, x)
        BY <1>3, <3>1
      <3>3. \A c \in Nodes(d) : (IF d.parent[c] = x THEN g[c] ELSE <<>>)
                                  = (IF d.parent[c] = x THEN f[c] ELSE <<>>)
        BY <1>2, <3>1 DEF D
      <3>4. Below(d, x, g) = Below(d, x, f)
        BY <3>3 DEF Below
      <3> QED
        BY <3>2, <3>4 DEF E
    <2>4. f \in [D -> V]
      BY <2>2 DEF Obeys
    <2>5. f = [x \in D |-> E(f, x)]
      BY <2>3, <2>4
    <2> QED
      BY <2>5
  <1>5. list = [n \in Nodes(d) |-> E(list, n)]
    BY <1>4 DEF D
  <1>6. ListAllMember(d) = list[1]
    BY DEF ListAllMember, Below
  <1> HIDE DEF list
  <1>7. \A n \in Nodes(d) : list[n] = E(list, n)
    <2> HIDE DEF E
    <2> QED
      BY <1>5
  <1> QED
    BY <1>6, <1>7

LEMMA ListingOfRoot ==
  ASSUME NEW d, IsDocument(d)
  PROVE  IsListing(ListAllMember(d), d, 1)
  <1> DEFINE N == Len(d.parent)
             valid(n) == IsValid(Names(d)[n])
  <1>1. N \in Nat \ {0} /\ Nodes(d) = 1 .. N
    BY DocumentFacts
  <1>2. PICK list : /\ ListAllMember(d) = list[1]
                    /\ \A n \in Nodes(d) : list[n] = IF ~valid(n) THEN <<>>
                                             ELSE FlattenSeq(Below(d, n, list)) \o <<n>>
    BY ListAllMemberDef
  <1> DEFINE S == {n \in 1 .. N : IsListing(list[n], d, n)}
  <1>3. ASSUME NEW n \in 1 .. N, \A k \in n + 1 .. N : k \in S
        PROVE  n \in S
    <2>0. n \in Nodes(d) /\ n \in Nat
      BY <1>1
    <2>1. CASE ~valid(n)
      <3>1. list[n] = <<>>
        BY <1>2, <2>0, <2>1
      <3>2. ASSUME NEW x \in Nodes(d), n \in Around(d, x), valid(x)
            PROVE  FALSE
        BY <2>1, <3>2, AroundValid
      <3>3. <<>> \in Seq(Nat) /\ Decreasing(<<>>) /\ ToSet(<<>>) = {}
        BY DEF Decreasing, ToSet
      <3>4. IsListing(list[n], d, n)
        BY <3>1, <3>2, <3>3 DEF IsListing
      <3> QED
        BY <3>4
    <2>2. CASE valid(n)
      <3> DEFINE t == FlattenSeq(Below(d, n, list))
      <3>1. \A c \in n + 1 .. N : IsListing(list[c], d, c)
        BY <1>3
      <3>2. /\ t \in Seq(Nat) /\ Decreasing(t)
            /\ \A x : x \in ToSet(t) <=> \E c \in Nodes(d) : d.parent[c] = n /\ x \in ToSet(list[c])
        BY <2>0, <3>1, ListsBelow
      <3> HIDE DEF t
      <3>3. \A c \in Nodes(d) : d.parent[c] = n => IsListing(list[c], d, c) /\ n < c /\ c \in Nat
        BY <1>1, <3>1, DocumentFacts
      <3>4. /\ <<n>> \in Seq(Nat) /\ Decreasing(<<n>>)
            /\ \A x : x \in ToSet(<<n>>) <=> x = n
        BY <2>0 DEF Decreasing, ToSet
      <3>5. ASSUME NEW x \in ToSet(t)
            PROVE  x > n /\ x \in Nodes(d) /\ n \in Around(d, x) /\ valid(x)
        <4>1. PICK c \in Nodes(d) : d.parent[c] = n /\ x \in ToSet(list[c])
          BY <3>2
        <4>2. x \in Nodes(d) /\ c \in Around(d, x) /\ valid(x) /\ n < c /\ c \in Nat
          BY <3>3, <4>1 DEF IsListing
        <4>3. c <= x /\ x \in Nat
          BY <1>1, <4>2, AroundBelow
        <4>4. n \in Around(d, c)
          BY <2>0, <4>1, AroundBelow, AroundDef
        <4> QED
          BY <2>0, <4>2, <4>3, <4>4, AroundTransitive
      <3>6. ASSUME NEW x \in Nodes(d), n \in Around(d, x), valid(x), x # n
            PROVE  x \in ToSet(t)
        <4>1. PICK c \in Nodes(d) : d.parent[c] = n /\ c \in Around(d, x)
          BY <2>0, <3>6, ChildBetween
        <4> QED
          BY <3>2, <3>3, <3>6, <4>1 DEF IsListing
      <3>7. \A x \in ToSet(t), y \in ToSet(<<n>>) : x > y
        BY <3>4, <3>5
      <3>8. /\ t \o <<n>> \in Seq(Nat) /\ Decreasing(t \o <<n>>)
            /\ \A x : x \in ToSet(t \o <<n>>) <=> x \in ToSet(t) \/ x \in ToSet(<<n>>)
        BY <3>2, <3>4, <3>7, ConcatDecreasing
      <3>9. list[n] = t \o <<n>>
        BY <1>2, <2>0, <2>2 DEF t
      <3>10. n \in Around(d, n)
        BY <2>0, AroundBelow
      <3> QED
        BY <2>0, <2>2, <3>4, <3>5, <3>6, <3>8, <3>9, <3>10 DEF IsListing
    <2> QED
      BY <2>1, <2>2
  <1> HIDE DEF S, N, valid
  <1>4. \A n \in 1 .. N : n \in S
    BY <1>1, <1>3, DownInduction
  <1> QED
    BY <1>1, <1>2, <1>4 DEF S

\* For every document, ListAllMember lists exactly the nodes with a valid name,
\* each once, the last one first.
THEOREM ValidNamesListed ==
  ASSUME NEW d, IsDocument(d)
  PROVE  ListsValidNames(d) /\ ListsAll(d)
  <1>1. IsListing(ListAllMember(d), d, 1)
    BY ListingOfRoot
  <1>2. \A x : x \in ToSet(ListAllMember(d)) <=> x \in Nodes(d) /\ IsValid(Names(d)[x])
    BY <1>1, RootAround DEF IsListing
  <1>3. ListAllMember(d) \in Seq(Nodes(d))
    <2>1. /\ ListAllMember(d) \in Seq(Nat)
          /\ \A i \in 1 .. Len(ListAllMember(d)) : ListAllMember(d)[i] \in Nodes(d)
      BY <1>1, <1>2 DEF IsListing, ToSet
    <2> QED
      BY <2>1
  <1> QED
    BY <1>1, <1>2, <1>3 DEF IsListing, ListsValidNames, ListsAll

\* For every document, what is inside a part of it is listed before that part, so
\* that a variable for the inner one is set first.
THEOREM InnerNodesFirst ==
  ASSUME NEW d, IsDocument(d)
  PROVE  InnerFirst(d)
  <1> DEFINE s == ListAllMember(d)
  <1>1. /\ s \in Seq(Nodes(d)) /\ Decreasing(s)
        /\ ToSet(s) = {n \in Nodes(d) : IsValid(Names(d)[n])}
    BY ValidNamesListed DEF ListsValidNames, ListsAll
  <1> HIDE DEF s
  <1> SUFFICES ASSUME NEW m \in ToSet(s), NEW n \in Around(d, m), n # m
               PROVE  Precedes(s, m, n)
    BY DEF InnerFirst, s
  <1>2. m \in Nodes(d) /\ n \in ToSet(s) /\ n \in 1 .. m /\ m \in Nat
    BY <1>1, AroundValid, AroundBelow, DocumentFacts
  <1>3. PICK i \in DOMAIN s, j \in DOMAIN s : s[i] = m /\ s[j] = n
    BY <1>2 DEF ToSet
  <1>4. i < j
    <2>1. i \in Nat /\ j \in Nat /\ n < m
      BY <1>1, <1>2
    <2>2. j < i => s[j] > s[i]
      BY <1>1 DEF Decreasing
    <2> QED
      BY <1>2, <1>3, <2>1, <2>2
  <1> QED
    BY <1>3, <1>4 DEF Precedes

=============================================================================
