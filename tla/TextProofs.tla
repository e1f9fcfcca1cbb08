----------------------------- MODULE TextProofs -----------------------------
(***************************************************************************)
(* Theorems about what is parsed and written: documents, definitions of    *)
(* loggers, patterns and values, of any length and depth.                  *)
(***************************************************************************)
EXTENDS MCText, YamlMembersProofs, FiniteSetTheorems

-----------------------------------------------------------------------------
(* Documents                                                                *)

\* ListAllMember lists the valid names of every document, inner ones first.
THEOREM MembersAreListed ==
  ASSUME IsDocument(doc)
  PROVE  Lists
  BY ValidNamesListed, InnerNodesFirst DEF Lists

-----------------------------------------------------------------------------
(* FlattenSeq, piece by piece                                               *)

\* The empty sequence, and what one more element can be put in front of, is every
\* sequence.
LEMMA SequenceInduction ==
  ASSUME NEW S, NEW I, <<>> \in I, \A c \in S, t \in Seq(S) : t \in I => <<c>> \o t \in I
  PROVE  \A t \in Seq(S) : t \in I
  <1> DEFINE J == {n \in Nat : \A t \in Seq(S) : Len(t) = n => t \in I}
  <1>1. 0 \in J
    <2>1. \A t \in Seq(S) : Len(t) = 0 => t = <<>>
      BY EmptySeq
    <2> QED
      BY <2>1
  <1>2. ASSUME NEW n \in J PROVE n + 1 \in J
    <2>1. ASSUME NEW t \in Seq(S), Len(t) = n + 1
          PROVE  t \in I
      <3>1. t # <<>> /\ n \in Nat
        BY <2>1, EmptySeq
      <3>2. Head(t) \in S /\ Tail(t) \in Seq(S) /\ Len(Tail(t)) = n /\ t = <<Head(t)>> \o Tail(t)
        BY <2>1, <3>1
      <3>3. Tail(t) \in I
        BY <3>2
      <3> QED
        BY <3>2, <3>3
    <2> QED
      BY <2>1
  <1>3. J = Nat
    <2>1. J \in SUBSET Nat
      OBVIOUS
    <2> HIDE DEF J
    <2> QED
      BY <1>1, <1>2, <2>1, Induction
  <1>4. ASSUME NEW t \in Seq(S) PROVE t \in I
    <2>1. Len(t) \in J
      BY <1>3, LenProperties
    <2> QED
      BY <2>1
  <1> QED
    BY <1>4

LEMMA FlattenEmpty == FlattenSeq(<<>>) = <<>>
  BY DEF FlattenSeq

\* One string after another, and three strings over one alphabet.
Joined(a, b) == a \o b
Three(A, a, b, c) == a \in Seq(A) /\ b \in Seq(A) /\ c \in Seq(A)

LEMMA JoinedAnyhow ==
  ASSUME NEW A, NEW a, NEW b, NEW c, Three(A, a, b, c)
  PROVE  /\ Joined(a, Joined(b, c)) = Joined(Joined(a, b), c)
         /\ Joined(a, b) \in Seq(A) /\ Joined(b, c) \in Seq(A)
  <1>1. (a \o b) \o c = a \o (b \o c)
    <2>1. a \in Seq(A) /\ b \in Seq(A) /\ c \in Seq(A)
      BY DEF Three
    <2> QED
      BY <2>1, ConcatAssociative
  <1> QED
    BY <1>1 DEF Joined, Three

LEMMA FlattenAppend ==
  ASSUME NEW S, NEW s \in Seq(Seq(S)), NEW x \in Seq(S)
  PROVE  FlattenSeq(s \o <<x>>) = FlattenSeq(s) \o x /\ FlattenSeq(s \o <<x>>) \in Seq(S)
  <1> DEFINE u == s \o <<x>>
             N == Len(s)
  <1>1. /\ u \in Seq(Seq(S)) /\ N \in Nat /\ Len(u) = N + 1 /\ u # <<>> /\ u[N + 1] = x
        /\ \A i \in 1 .. N : u[i] = s[i]
    OBVIOUS
  <1> HIDE DEF u
  <1>2. PICK g : /\ FlattenSeq(u) = g[Len(u)]
                 /\ \A i \in 1 .. Len(u) : /\ g[i] \in Seq(S)
                                           /\ g[i] = IF i = 1 THEN u[i] ELSE g[i - 1] \o u[i]
    <2>1. u \in Seq(Seq(S)) /\ u # <<>>
      BY <1>1
    <2> QED
      BY <2>1, FlattenSteps
  <1> HIDE DEF N
  <1>3. CASE s = <<>>
    <2>1. N = 0 /\ FlattenSeq(u) = x
      BY <1>1, <1>2, <1>3, EmptySeq DEF N
    <2> QED
      BY <1>3, <2>1, FlattenEmpty, ConcatEmptySeq DEF u
  <1>4. CASE s # <<>>
    <2>1. PICK f : /\ FlattenSeq(s) = f[N]
                   /\ \A i \in 1 .. N : /\ f[i] \in Seq(S)
                                        /\ f[i] = IF i = 1 THEN s[i] ELSE f[i - 1] \o s[i]
      BY <1>4, FlattenSteps DEF N
    <2>2. N \in Nat \ {0}
      BY <1>4, EmptySeq DEF N
    <2> DEFINE T == {i \in 1 .. N : f[i] = g[i]}
    <2>3. ASSUME NEW n \in 1 .. N, \A k \in 1 .. n - 1 : k \in T
          PROVE  n \in T
      <3>1. n # 1 => n - 1 \in 1 .. n - 1
        OBVIOUS
      <3>2. n # 1 => f[n - 1] = g[n - 1]
        BY <2>3, <3>1
      <3>3. n \in 1 .. Len(u) /\ u[n] = s[n]
        BY <1>1
      <3> QED
        BY <1>2, <2>1, <3>2, <3>3
    <2> HIDE DEF T
    <2>4. N \in T
      <3>1. \A n \in 1 .. N : n \in T
        BY <1>1, <2>3, UpInduction
      <3> QED
        BY <2>2, <3>1
    <2>5. g[N + 1] = g[N] \o x /\ g[N + 1] \in Seq(S)
      <3>1. N + 1 \in 1 .. Len(u) /\ N + 1 # 1 /\ (N + 1) - 1 = N
        BY <1>1, <2>2
      <3> QED
        BY <1>1, <1>2, <3>1
    <2>6. FlattenSeq(u) = g[N + 1] /\ g[N] = FlattenSeq(s)
      BY <1>1, <1>2, <2>1, <2>4 DEF T
    <2>7. FlattenSeq(u) = FlattenSeq(s) \o x /\ FlattenSeq(u) \in Seq(S)
      BY <2>5, <2>6
    <2> QED
      BY <2>7 DEF u
  <1> QED
    BY <1>3, <1>4

LEMMA FlattenType ==
  ASSUME NEW S, NEW s \in Seq(Seq(S))
  PROVE  FlattenSeq(s) \in Seq(S)
  <1>1. CASE s = <<>>
    <2>1. <<>> \in Seq(S)
      OBVIOUS
    <2> QED
      BY <1>1, <2>1, FlattenEmpty
  <1>2. CASE s # <<>>
    <2> DEFINE t == SubSeq(s, 1, Len(s) - 1)
               x == s[Len(s)]
    <2>1. t \in Seq(Seq(S)) /\ x \in Seq(S) /\ s = t \o <<x>>
      BY <1>2
    <2> HIDE DEF t, x
    <2> QED
      BY <2>1, FlattenAppend
  <1> QED
    BY <1>1, <1>2

LEMMA FlattenOne ==
  ASSUME NEW S, NEW x \in Seq(S)
  PROVE  FlattenSeq(<<x>>) = x
  <1>1. <<>> \in Seq(Seq(S)) /\ <<>> \o <<x>> = <<x>> /\ <<>> \o x = x
    BY ConcatEmptySeq
  <1> QED
    BY <1>1, FlattenAppend, FlattenEmpty

LEMMA FlattenCons ==
  ASSUME NEW S, NEW s \in Seq(Seq(S)), NEW x \in Seq(S)
  PROVE  FlattenSeq(<<x>> \o s) = x \o FlattenSeq(s)
  <1> DEFINE Ok(t) == FlattenSeq(<<x>> \o t) = x \o FlattenSeq(t)
             I == {n \in Nat : \A t \in Seq(Seq(S)) : Len(t) = n => Ok(t)}
  <1>1. 0 \in I
    <2>1. ASSUME NEW t \in Seq(Seq(S)), Len(t) = 0
          PROVE  Ok(t)
      <3>1. t = <<>> /\ <<x>> \o <<>> = <<x>> /\ x \o <<>> = x
        BY <2>1, EmptySeq, ConcatEmptySeq
      <3> QED
        BY <3>1, FlattenEmpty, FlattenOne
    <2> QED
      BY <2>1
  <1>2. ASSUME NEW n \in I PROVE n + 1 \in I
    <2>1. ASSUME NEW t \in Seq(Seq(S)), Len(t) = n + 1
          PROVE  Ok(t)
      <3> DEFINE r == SubSeq(t, 1, n)
                 y == t[n + 1]
      <3>1. r \in Seq(Seq(S)) /\ Len(r) = n /\ y \in Seq(S) /\ t = r \o <<y>>
        BY <2>1
      <3> HIDE DEF r, y
      <3>2. <<x>> \o t = (<<x>> \o r) \o <<y>> /\ <<x>> \o r \in Seq(Seq(S))
        <4>1. <<x>> \in Seq(Seq(S)) /\ <<y>> \in Seq(Seq(S))
          BY <3>1
        <4> QED
          BY <3>1, <4>1, ConcatAssociative, ConcatProperties
      <3>3. FlattenSeq(<<x>> \o t) = FlattenSeq(<<x>> \o r) \o y
        <4> DEFINE v == <<x>> \o r
        <4>1. v \in Seq(Seq(S)) /\ <<x>> \o t = v \o <<y>>
          BY <3>2
        <4> HIDE DEF v
        <4>2. FlattenSeq(v \o <<y>>) = FlattenSeq(v) \o y
          BY <3>1, <4>1, FlattenAppend
        <4> QED
          BY <4>1, <4>2 DEF v
      <3>4. FlattenSeq(<<x>> \o r) = x \o FlattenSeq(r)
        BY <3>1
      <3>5. FlattenSeq(t) = FlattenSeq(r) \o y
        BY <3>1, FlattenAppend
      <3> DEFINE fr == FlattenSeq(r)
      <3>6. fr \in Seq(S) /\ y \in Seq(S)
        BY <3>1, FlattenType
      <3> HIDE DEF fr
      <3>7. (x \o fr) \o y = x \o (fr \o y)
        <4>1. Three(S, x, fr, y)
          BY <3>6 DEF Three
        <4>2. Joined(x, Joined(fr, y)) = Joined(Joined(x, fr), y)
          BY <4>1, JoinedAnyhow
        <4> QED
          BY <4>2 DEF Joined
      <3> QED
        BY <3>3, <3>4, <3>5, <3>7 DEF fr
    <2>2. n + 1 \in Nat
      OBVIOUS
    <2> HIDE DEF Ok
    <2> QED
      BY <2>1, <2>2
  <1>3. I = Nat
    <2>1. I \in SUBSET Nat
      OBVIOUS
    <2> HIDE DEF I
    <2> QED
      BY <1>1, <1>2, <2>1, Induction
  <1>4. Len(s) \in I
    BY <1>3, LenProperties
  <1> QED
    BY <1>4

\* What E makes of each element.
Each(E, u) == [i \in DOMAIN u |-> E[u[i]]]

\* u is t with one element in front, and E makes a text of every element.
OneMore(E, S, V, c, t, u) == /\ E \in [S -> Seq(V)]
                             /\ c \in S /\ t \in Seq(S) /\ u = <<c>> \o t

LEMMA FlattenEach ==
  ASSUME NEW S, NEW V, NEW E, NEW c, NEW t, NEW u, OneMore(E, S, V, c, t, u)
  PROVE  FlattenSeq(Each(E, u)) = E[c] \o FlattenSeq(Each(E, t))
  <1> E \in [S -> Seq(V)] /\ c \in S /\ t \in Seq(S) /\ u = <<c>> \o t
    BY DEF OneMore
  <1>1. ASSUME NEW v \in Seq(S)
        PROVE  /\ Each(E, v) \in Seq(Seq(V)) /\ Len(Each(E, v)) = Len(v)
               /\ \A i \in 1 .. Len(v) : Each(E, v)[i] = E[v[i]]
    <2>1. DOMAIN v = 1 .. Len(v) /\ Len(v) \in Nat /\ \A i \in 1 .. Len(v) : E[v[i]] \in Seq(V)
      BY LenProperties
    <2>2. Each(E, v) = [i \in 1 .. Len(v) |-> E[v[i]]]
      BY <2>1 DEF Each
    <2> QED
      BY <2>1, <2>2
  <1> DEFINE b == <<E[c]>> \o Each(E, t)
  <1>2. /\ u \in Seq(S) /\ Len(u) = Len(t) + 1 /\ Len(t) \in Nat /\ u[1] = c
        /\ \A i \in 2 .. Len(t) + 1 : u[i] = t[i - 1]
    OBVIOUS
  <1>3. /\ Each(E, t) \in Seq(Seq(V)) /\ Len(Each(E, t)) = Len(t)
        /\ \A i \in 1 .. Len(t) : Each(E, t)[i] = E[t[i]]
    BY <1>1
  <1>4. /\ Each(E, u) \in Seq(Seq(V)) /\ Len(Each(E, u)) = Len(u)
        /\ \A i \in 1 .. Len(u) : Each(E, u)[i] = E[u[i]]
    BY <1>1, <1>2
  <1>5. E[c] \in Seq(V)
    OBVIOUS
  <1>6. /\ b \in Seq(Seq(V)) /\ Len(b) = Len(t) + 1 /\ b[1] = E[c]
        /\ \A i \in 2 .. Len(t) + 1 : b[i] = Each(E, t)[i - 1]
    BY <1>2, <1>3, <1>5
  <1>7. FlattenSeq(b) = E[c] \o FlattenSeq(Each(E, t))
    BY <1>3, <1>5, FlattenCons
  <1> HIDE DEF b
  <1>8. ASSUME NEW i \in 1 .. Len(u)
        PROVE  Each(E, u)[i] = b[i]
    <2>1. CASE i = 1
      BY <1>2, <1>4, <1>6, <2>1
    <2>2. CASE i # 1
      <3>1. i \in 2 .. Len(t) + 1 /\ i - 1 \in 1 .. Len(t)
        BY <1>2, <2>2
      <3>2. Each(E, u)[i] = E[u[i]] /\ u[i] = t[i - 1]
        BY <1>2, <1>4, <3>1
      <3>3. b[i] = Each(E, t)[i - 1] /\ Each(E, t)[i - 1] = E[t[i - 1]]
        BY <1>3, <1>6, <3>1
      <3> QED
        BY <3>2, <3>3
    <2> QED
      BY <2>1, <2>2
  <1>9. Each(E, u) = b
    BY <1>2, <1>4, <1>6, <1>8, SeqEqual
  <1> QED
    BY <1>7, <1>9

LEMMA FlattenSingles ==
  ASSUME NEW S, NEW s \in Seq(S)
  PROVE  FlattenSeq([i \in DOMAIN s |-> <<s[i]>>]) = s
  <1> DEFINE E == [c \in S |-> <<c>>]
             I == {t \in Seq(S) : FlattenSeq(Each(E, t)) = t}
  <1>1. <<>> \in I
    <2>1. Each(E, <<>>) = <<>> /\ <<>> \in Seq(S)
      BY DEF Each
    <2> QED
      BY <2>1, FlattenEmpty
  <1>2. ASSUME NEW c \in S, NEW t \in Seq(S), t \in I
        PROVE  <<c>> \o t \in I
    <2>1. E[c] = <<c>> /\ <<c>> \o t \in Seq(S)
      OBVIOUS
    <2>2. FlattenSeq(Each(E, t)) = t
      BY <1>2
    <2> DEFINE u == <<c>> \o t
    <2>3. FlattenSeq(Each(E, u)) = E[c] \o FlattenSeq(Each(E, t))
      <3>1. OneMore(E, S, S, c, t, u)
        BY DEF OneMore
      <3> HIDE DEF E, u
      <3> QED
        BY <3>1, FlattenEach
    <2> QED
      BY <2>1, <2>2, <2>3
  <1>3. Each(E, s) = [i \in DOMAIN s |-> <<s[i]>>]
    <2>1. \A i \in DOMAIN s : s[i] \in S
      OBVIOUS
    <2> QED
      BY <2>1 DEF Each
  <1> HIDE DEF I
  <1>4. s \in I
    BY <1>1, <1>2, SequenceInduction
  <1> QED
    BY <1>3, <1>4 DEF I

-----------------------------------------------------------------------------
(* Definitions of loggers                                                   *)

LEMMA ContentOfScalar == \A t : Content(Scalar(t)) = t
  BY DEF Content, Scalar

LEMMA ContentOfKey == \A k : Content(Key(k)) = Key(k) /\ LoadText(Key(k)) = Key(k)
  BY DEF Content, Key, LoadText

\* A node that is written has the entries it was written with, and no others.
LEMMA WrittenEntries ==
  ASSUME NEW f, NEW keys, keys # {}
  PROVE  /\ LoadText(Written(f, keys)) = Written(f, keys)
         /\ \A k : Has(Written(f, keys), k) <=> k \in keys
         /\ \A k \in keys : Entries(Written(f, keys))[Key(k)] = f[k]
  <1> DEFINE e == [k \in {Key(x) : x \in keys} |-> f[k[2]]]
  <1>1. e # <<>>
    <2>1. PICK x \in keys : TRUE
      OBVIOUS
    <2>2. Key(x) \in DOMAIN e
      BY <2>1
    <2>3. DOMAIN <<>> = {}
      OBVIOUS
    <2> HIDE DEF e
    <2> QED
      BY <2>2, <2>3
  <1>2. Written(f, keys) = <<"map", e>>
    <2> HIDE DEF e
    <2>1. NodeOf("map", e) = <<"map", e>>
      BY <1>1 DEF NodeOf
    <2> QED
      BY <2>1 DEF Written, e
  <1>3. \A k : Key(k) \in DOMAIN e <=> k \in keys
    BY DEF Key
  <1>4. \A k \in keys : e[Key(k)] = f[k]
    BY DEF Key
  <1> HIDE DEF e
  <1>5. Entries(Written(f, keys)) = e /\ LoadText(Written(f, keys)) = Written(f, keys)
    BY <1>2 DEF Entries, LoadText
  <1> QED
    BY <1>3, <1>4, <1>5 DEF Has

\* The appenders that can be made, with texts of W.
Made(W) == {a \in [type : {1, 2}, level : {"UNKNOW"}, formatter : W, file : W] :
              a.type = 2 => a.file = EmptyText}

LEMMA TypeNumbers ==
  /\ DOMAIN Types = {1, 2} /\ ToSet(Types) = {Types[1], Types[2]}
  /\ Types[1] = Key("FileLogAppender") /\ Types[2] = Key("StdoutLogAppender")
  /\ \A i \in {1, 2} : TypeNumber(Types[i]) = i
  <1>1. /\ DOMAIN Types = {1, 2}
        /\ Types[1] = Key("FileLogAppender") /\ Types[2] = Key("StdoutLogAppender")
    BY DEF Types
  <1>2. Types[1] # Types[2]
    BY <1>1 DEF Key
  <1> QED
    BY <1>1, <1>2 DEF ToSet, TypeNumber

\* An appender that is read can be made.
LEMMA AppenderIsMade ==
  ASSUME NEW W, NEW n, EmptyText \in W, As(n, "file") \in W, As(n, "formatter") \in W
  PROVE  ReadAppender(n) \in Seq(Made(W))
  <1> DEFINE y == TypeNumber(As(n, "type"))
             a == [type |-> y, level |-> "UNKNOW", formatter |-> As(n, "formatter"),
                   file |-> IF y = 1 THEN As(n, "file") ELSE EmptyText]
  <1>1. ReadAppender(n) = <<>> \/ (As(n, "type") \in ToSet(Types) /\ ReadAppender(n) = <<a>>)
    BY DEF ReadAppender
  <1>2. As(n, "type") \in ToSet(Types) => y \in {1, 2}
    BY TypeNumbers
  <1>3. y \in {1, 2} => a \in Made(W)
    BY DEF Made
  <1> HIDE DEF a, y
  <1>4. CASE ReadAppender(n) = <<>>
    <2>1. <<>> \in Seq(Made(W))
      OBVIOUS
    <2> QED
      BY <1>4, <2>1
  <1>5. CASE As(n, "type") \in ToSet(Types) /\ ReadAppender(n) = <<a>>
    <2>1. a \in Made(W)
      BY <1>2, <1>3, <1>5
    <2>2. <<a>> \in Seq(Made(W))
      BY <2>1
    <2> QED
      BY <1>5, <2>2
  <1> QED
    BY <1>1, <1>4, <1>5

\* What can be made is read back from what is written of it.
LEMMA AppenderComesBack ==
  ASSUME NEW W, NEW a \in Made(W)
  PROVE  ReadAppender(WriteAppender(a)) = <<a>>
  <1> DEFINE f == [type |-> IF a.type = 0 THEN Null ELSE Types[a.type], file |-> Scalar(a.file),
                   level |-> Key(a.level), formatter |-> Scalar(a.formatter)]
             keys == (IF a.type = 0 THEN {} ELSE {"type"}) \cup (IF a.type = 1 THEN {"file"} ELSE {})
                     \cup (IF a.level = "UNKNOW" THEN {} ELSE {"level"})
                     \cup (IF a.formatter = EmptyText THEN {} ELSE {"formatter"})
             n == WriteAppender(a)
  <1>1. /\ a.type \in {1, 2} /\ a.level = "UNKNOW" /\ (a.type = 2 => a.file = EmptyText)
        /\ a = [type |-> a.type, level |-> a.level, formatter |-> a.formatter, file |-> a.file]
    BY DEF Made
  <1>2. "type" \in keys
    BY <1>1
  <1>3. ("file" \in keys <=> a.type = 1) /\ ("formatter" \in keys <=> a.formatter # EmptyText)
    BY <1>1
  <1>4. f["type"] = Types[a.type] /\ f["file"] = Scalar(a.file) /\ f["formatter"] = Scalar(a.formatter)
    BY <1>1
  <1>5. n = Written(f, keys)
    BY DEF WriteAppender
  <1> HIDE DEF f, keys, n
  <1>6. /\ \A k : Has(n, k) <=> k \in keys
        /\ \A k \in keys : Entries(n)[Key(k)] = f[k]
    BY <1>2, <1>5, WrittenEntries
  <1>7. Has(n, "type") /\ As(n, "type") = Types[a.type]
    BY <1>1, <1>2, <1>4, <1>6, TypeNumbers, ContentOfKey DEF As
  <1>8. (Has(n, "file") <=> a.type = 1) /\ (a.type = 1 => As(n, "file") = a.file)
    BY <1>3, <1>4, <1>6, ContentOfScalar DEF As
  <1>9. As(n, "formatter") = a.formatter
    BY <1>3, <1>4, <1>6, ContentOfScalar DEF As
  <1>10. TypeNumber(As(n, "type")) = a.type /\ As(n, "type") \in ToSet(Types)
    BY <1>1, <1>7, TypeNumbers
  <1>11. ReadAppender(n) = <<[type |-> a.type, level |-> "UNKNOW", formatter |-> a.formatter,
                              file |-> IF a.type = 1 THEN a.file ELSE EmptyText]>>
    BY <1>1, <1>7, <1>8, <1>9, <1>10 DEF ReadAppender
  <1>12. (IF a.type = 1 THEN a.file ELSE EmptyText) = a.file
    BY <1>1
  <1> QED
    BY <1>1, <1>11, <1>12 DEF n

\* The nodes of the appenders in a definition.
AppendersOf(t) ==
  LET n == LoadText(t) IN
  Elements(IF Has(n, "appenders") THEN Entries(n)[Key("appenders")] ELSE Null)

ReadAppenders(a) == FlattenSeq([i \in DOMAIN a |-> ReadAppender(a[i])])

LEMMA ReadDefineDef ==
  ASSUME NEW t
  PROVE  LET n == LoadText(t) IN
         ReadDefine(t) = IF ~Has(n, "name") THEN Thrown
                         ELSE Cast([name |-> As(n, "name"), level |-> FromString(As(n, "level")),
                                    formatter |-> As(n, "formatter"),
                                    appenders |-> ReadAppenders(AppendersOf(t))])
  BY DEF ReadDefine, AppendersOf, ReadAppenders

LEMMA AppendersAreMade ==
  ASSUME NEW S, NEW b \in Seq(S)
  PROVE  \E W : ReadAppenders(b) \in Seq(Made(W))
  <1> DEFINE W == {EmptyText} \cup {As(x, "file") : x \in S} \cup {As(x, "formatter") : x \in S}
             s == [i \in DOMAIN b |-> ReadAppender(b[i])]
  <1>1. \A x \in S : ReadAppender(x) \in Seq(Made(W))
    <2>1. ASSUME NEW x \in S
          PROVE  ReadAppender(x) \in Seq(Made(W))
      <3>1. EmptyText \in W /\ As(x, "file") \in W /\ As(x, "formatter") \in W
        OBVIOUS
      <3> HIDE DEF W
      <3> QED
        BY <3>1, AppenderIsMade
    <2> QED
      BY <2>1
  <1> HIDE DEF W
  <1>2. s \in Seq(Seq(Made(W)))
    <2>1. DOMAIN b = 1 .. Len(b) /\ Len(b) \in Nat /\ \A i \in DOMAIN b : b[i] \in S
      OBVIOUS
    <2>2. \A i \in 1 .. Len(b) : ReadAppender(b[i]) \in Seq(Made(W))
      BY <1>1, <2>1
    <2> QED
      BY <2>1, <2>2
  <1> HIDE DEF s
  <1>3. FlattenSeq(s) \in Seq(Made(W))
    BY <1>2, FlattenType
  <1> QED
    BY <1>3 DEF ReadAppenders, s

LEMMA AppendersComeBack ==
  ASSUME NEW W, NEW s \in Seq(Made(W))
  PROVE  ReadAppenders([i \in DOMAIN s |-> WriteAppender(s[i])]) = s
  <1> DEFINE w == [i \in DOMAIN s |-> WriteAppender(s[i])]
  <1>1. \A i \in DOMAIN s : ReadAppender(WriteAppender(s[i])) = <<s[i]>>
    <2>1. \A i \in DOMAIN s : s[i] \in Made(W)
      OBVIOUS
    <2> QED
      BY <2>1, AppenderComesBack
  <1>2. [i \in DOMAIN w |-> ReadAppender(w[i])] = [i \in DOMAIN s |-> <<s[i]>>]
    BY <1>1
  <1> HIDE DEF w
  <1>3. ReadAppenders(w) = s
    BY <1>2, FlattenSingles DEF ReadAppenders
  <1> QED
    BY <1>3 DEF w

\* The level is read from what is written for it.
LEMMA LevelComesBack ==
  ASSUME NEW t
  PROVE  /\ FromString(t) \in Levels \cup {"UNKNOW"} /\ "UNKNOW" \notin Levels
         /\ FromString(EmptyText) = "UNKNOW"
         /\ \A l \in Levels : FromString(Key(l)) = l
  BY DEF FromString, Levels, Key, EmptyText

\* What a definition may have been read as.
ReadAs(W, name, formatter, level, s) == level \in Levels \cup {"UNKNOW"} /\ s \in Seq(Made(W))

LEMMA DefineComesBack ==
  ASSUME NEW W, NEW name, NEW formatter, NEW level, NEW s, ReadAs(W, name, formatter, level, s)
  PROVE  LET d == [name |-> name, level |-> level, formatter |-> formatter, appenders |-> s] IN
         ReadDefine(WriteDefine(d)) = Cast(d)
  <1> level \in Levels \cup {"UNKNOW"} /\ s \in Seq(Made(W))
    BY DEF ReadAs
  <1> DEFINE d == [name |-> name, level |-> level, formatter |-> formatter, appenders |-> s]
             nodes == [i \in DOMAIN s |-> WriteAppender(s[i])]
             f == [name |-> Scalar(d.name), level |-> Key(d.level), formatter |-> Scalar(d.formatter),
                   appenders |-> <<"seq", [i \in DOMAIN d.appenders |-> WriteAppender(d.appenders[i])]>>]
             keys == {"name"} \cup (IF d.level = "UNKNOW" THEN {} ELSE {"level"})
                     \cup (IF d.formatter = EmptyText THEN {} ELSE {"formatter"})
                     \cup (IF d.appenders = <<>> THEN {} ELSE {"appenders"})
             n == WriteDefine(d)
  <1>1. n = Written(f, keys)
    BY DEF WriteDefine
  <1>2. /\ "name" \in keys /\ ("level" \in keys <=> level # "UNKNOW")
        /\ ("formatter" \in keys <=> formatter # EmptyText) /\ ("appenders" \in keys <=> s # <<>>)
    OBVIOUS
  <1>3. /\ f["name"] = Scalar(name) /\ f["level"] = Key(level) /\ f["formatter"] = Scalar(formatter)
        /\ f["appenders"] = <<"seq", nodes>>
    OBVIOUS
  <1> HIDE DEF f, keys, n
  <1>4. /\ LoadText(n) = n /\ \A k : Has(n, k) <=> k \in keys
        /\ \A k \in keys : Entries(n)[Key(k)] = f[k]
    BY <1>1, <1>2, WrittenEntries
  <1>5. As(n, "name") = name
    BY <1>2, <1>3, <1>4, ContentOfScalar DEF As
  <1>6. FromString(As(n, "level")) = level
    <2>1. As(n, "level") = IF level = "UNKNOW" THEN EmptyText ELSE Key(level)
      BY <1>2, <1>3, <1>4, ContentOfKey DEF As
    <2> QED
      BY <2>1, LevelComesBack
  <1>7. As(n, "formatter") = formatter
    BY <1>2, <1>3, <1>4, ContentOfScalar DEF As
  <1>8. AppendersOf(n) = nodes
    <2>1. CASE s = <<>>
      <3>1. AppendersOf(n) = <<>>
        BY <1>2, <1>4, <2>1 DEF AppendersOf, Elements, Null
      <3>2. nodes = <<>>
        BY <2>1
      <3> QED
        BY <3>1, <3>2
    <2>2. CASE s # <<>>
      <3> HIDE DEF nodes
      <3>1. AppendersOf(n) = Elements(<<"seq", nodes>>)
        BY <1>2, <1>3, <1>4, <2>2 DEF AppendersOf
      <3> QED
        BY <3>1 DEF Elements
    <2> QED
      BY <2>1, <2>2
  <1>9. ReadAppenders(nodes) = s
    BY AppendersComeBack
  <1> HIDE DEF nodes
  <1>10. Has(n, "name")
    BY <1>2, <1>4
  <1>11. ReadDefine(n) = Cast([name |-> As(n, "name"), level |-> FromString(As(n, "level")),
                               formatter |-> As(n, "formatter"),
                               appenders |-> ReadAppenders(AppendersOf(n))])
    BY <1>4, <1>10, ReadDefineDef
  <1> QED
    BY <1>5, <1>6, <1>7, <1>8, <1>9, <1>11 DEF n

\* Every definition that is read from any node at all, if yaml-cpp gives it its
\* appenders in a sequence, has appenders that can be made, and what is written of
\* it is read as the same definition.
THEOREM DefinitionsMakeable ==
  ASSUME NEW S, AppendersOf(define) \in Seq(S)
  PROVE  DefinesMakeable
  <1> DEFINE t == define
             n == LoadText(t)
             s == ReadAppenders(AppendersOf(t))
             name == As(n, "name")
             formatter == As(n, "formatter")
             level == FromString(As(n, "level"))
             d == [name |-> name, level |-> level, formatter |-> formatter, appenders |-> s]
  <1>1. PICK W : s \in Seq(Made(W))
    BY AppendersAreMade
  <1>2. ReadDefine(t) = Thrown \/ ReadDefine(t) = Cast(d)
    BY ReadDefineDef
  <1>3. level \in Levels \cup {"UNKNOW"}
    BY LevelComesBack
  <1> HIDE DEF s, name, formatter, level, n, t
  <1>4. ReadDefine(WriteDefine(d)) = Cast(d)
    <2>1. ReadAs(W, name, formatter, level, s)
      BY <1>1, <1>3 DEF ReadAs
    <2> QED
      BY <2>1, DefineComesBack
  <1>5. \A i \in DOMAIN s : s[i].type \in {1, 2}
    <2>1. \A i \in DOMAIN s : s[i] \in Made(W)
      BY <1>1
    <2> QED
      BY <2>1 DEF Made
  <1>6. d.appenders = s
    OBVIOUS
  <1> HIDE DEF d
  <1>7. CASE ReadDefine(t) = Thrown
    BY <1>7 DEF DefinesMakeable, IsMakeable, Thrown, t
  <1>8. CASE ReadDefine(t) = Cast(d)
    <2>1. Cast(d).val = d
      BY DEF Cast
    <2> QED
      BY <1>4, <1>5, <1>6, <1>8, <2>1 DEF DefinesMakeable, IsMakeable, t
  <1> QED
    BY <1>2, <1>7, <1>8

-----------------------------------------------------------------------------
(* Patterns: Find and ItemAt                                                *)

\* k is the first position from i on with a character in S, or the end.
IsFirst(k, p, i, S) == /\ k \in i .. Len(p) + 1
                       /\ k <= Len(p) => p[k] \in S
                       /\ \A m \in i .. k - 1 : p[m] \notin S

LEMMA FindIsFirst ==
  ASSUME NEW p, NEW S, Len(p) \in Nat, NEW i \in 1 .. Len(p) + 1
  PROVE  IsFirst(Find(p, i, S), p, i, S)
  <1> DEFINE at == {n \in i .. Len(p) : p[n] \in S}
  <1>1. CASE at = {}
    <2>1. Find(p, i, S) = Len(p) + 1
      BY <1>1 DEF Find
    <2>2. \A m \in i .. Len(p) : p[m] \notin S
      BY <1>1
    <2> QED
      BY <2>1, <2>2 DEF IsFirst
  <1>2. CASE at # {}
    <2>1. \E n \in at : \A m \in at : n <= m
      <3>1. SUFFICES ASSUME \A n \in at : \E m \in at : ~(n <= m)
                     PROVE  FALSE
        OBVIOUS
      <3> DEFINE T == {n \in Nat : n \notin at}
      <3>2. ASSUME NEW n \in 1 .. Len(p), \A k \in 1 .. n - 1 : k \in T
            PROVE  n \in T
        <4>1. SUFFICES ASSUME n \in at
                       PROVE  FALSE
          OBVIOUS
        <4>2. PICK m \in at : ~(n <= m)
          BY <3>1, <4>1
        <4>3. m \in 1 .. n - 1
          BY <4>2
        <4> QED
          BY <3>2, <4>2, <4>3
      <3> HIDE DEF T
      <3>3. \A n \in 1 .. Len(p) : n \in T
        BY <3>2, UpInduction
      <3>4. PICK n \in at : TRUE
        BY <1>2
      <3>5. n \in 1 .. Len(p)
        OBVIOUS
      <3> QED
        BY <3>3, <3>5 DEF T
    <2> DEFINE k == CHOOSE n \in at : \A m \in at : n <= m
    <2>2. k \in at /\ \A m \in at : k <= m
      BY <2>1
    <2>3. Find(p, i, S) = k
      BY <1>2 DEF Find
    <2> HIDE DEF k
    <2>4. \A m \in i .. k - 1 : p[m] \notin S
      <3>1. ASSUME NEW m \in i .. k - 1, p[m] \in S
            PROVE  FALSE
        <4>1. m \in at
          BY <2>2, <3>1
        <4> QED
          BY <2>2, <4>1
      <3> QED
        BY <3>1
    <2> QED
      BY <2>2, <2>3, <2>4 DEF IsFirst
  <1> QED
    BY <1>1, <1>2

LEMMA FirstIsOne ==
  ASSUME NEW p, NEW S, Len(p) \in Nat, NEW i \in 1 .. Len(p) + 1, NEW j, NEW k,
         IsFirst(j, p, i, S), IsFirst(k, p, i, S)
  PROVE  j = k
  <1>1. j \in i .. Len(p) + 1 /\ k \in i .. Len(p) + 1
    BY DEF IsFirst
  <1>2. ASSUME j < k PROVE FALSE
    <2>1. j \in i .. k - 1 /\ j <= Len(p)
      BY <1>1, <1>2
    <2> QED
      BY <2>1 DEF IsFirst
  <1>3. ASSUME k < j PROVE FALSE
    <2>1. k \in i .. j - 1 /\ k <= Len(p)
      BY <1>1, <1>3
    <2> QED
      BY <2>1 DEF IsFirst
  <1> QED
    BY <1>1, <1>2, <1>3

\* What p is from i on, q is from j on.
SameFrom(p, i, q, j) == /\ Len(p) \in Nat /\ Len(q) \in Nat /\ i \in 1 .. Len(p) + 1 /\ j \in 1 .. Len(q) + 1
                        /\ Len(p) - i = Len(q) - j
                        /\ \A d \in 0 .. Len(p) - i : p[i + d] = q[j + d]

LEMMA SameLater ==
  ASSUME NEW p, NEW i, NEW q, NEW j, SameFrom(p, i, q, j), NEW d \in 0 .. Len(p) + 1 - i
  PROVE  SameFrom(p, i + d, q, j + d)
  <1>1. ASSUME NEW e \in 0 .. Len(p) - (i + d)
        PROVE  p[(i + d) + e] = q[(j + d) + e]
    <2>1. d + e \in 0 .. Len(p) - i /\ (i + d) + e = i + (d + e) /\ (j + d) + e = j + (d + e)
      BY DEF SameFrom
    <2> QED
      BY <2>1 DEF SameFrom
  <1>2. /\ Len(p) \in Nat /\ Len(q) \in Nat /\ i \in 1 .. Len(p) + 1 /\ j \in 1 .. Len(q) + 1
        /\ Len(p) - i = Len(q) - j
    BY DEF SameFrom
  <1>3. /\ i + d \in 1 .. Len(p) + 1 /\ j + d \in 1 .. Len(q) + 1
        /\ Len(p) - (i + d) = Len(q) - (j + d)
    BY <1>2
  <1> QED
    BY <1>1, <1>2, <1>3 DEF SameFrom

LEMMA SameFirst ==
  ASSUME NEW p, NEW i, NEW q, NEW j, SameFrom(p, i, q, j), NEW S, NEW T,
         \A d \in 0 .. Len(p) - i : p[i + d] \in S <=> q[j + d] \in T
  PROVE  Find(q, j, T) - j = Find(p, i, S) - i
  <1> DEFINE k == Find(p, i, S)
             m == j + (k - i)
  <1>1. /\ Len(p) \in Nat /\ Len(q) \in Nat /\ i \in 1 .. Len(p) + 1 /\ j \in 1 .. Len(q) + 1
        /\ Len(p) - i = Len(q) - j
    BY DEF SameFrom
  <1>2. IsFirst(k, p, i, S)
    BY <1>1, FindIsFirst
  <1> HIDE DEF k
  <1>3. k \in i .. Len(p) + 1
    BY <1>2 DEF IsFirst
  <1>4. IsFirst(m, q, j, T)
    <2>1. m \in j .. Len(q) + 1
      BY <1>1, <1>3
    <2>2. m <= Len(q) => q[m] \in T
      <3>1. ASSUME m <= Len(q) PROVE k - i \in 0 .. Len(p) - i /\ i + (k - i) = k /\ k <= Len(p)
        BY <1>1, <1>3, <3>1
      <3> QED
        BY <1>2, <3>1 DEF IsFirst
    <2>3. ASSUME NEW n \in j .. m - 1
          PROVE  q[n] \notin T
      <3>1. n - j \in 0 .. Len(p) - i /\ i + (n - j) \in i .. k - 1 /\ j + (n - j) = n
        BY <1>1, <1>3
      <3> QED
        BY <1>2, <3>1 DEF IsFirst
    <2> QED
      BY <2>1, <2>2, <2>3 DEF IsFirst
  <1>5. IsFirst(Find(q, j, T), q, j, T)
    BY <1>1, FindIsFirst
  <1>6. Find(q, j, T) = m
    BY <1>1, <1>4, <1>5, FirstIsOne
  <1> QED
    BY <1>1, <1>3, <1>6 DEF k

\* a is as far from i as a2 from j.
Moved(i, j, a, a2) == a2 - a = j - i

Part(p, a, b) == SubSeq(p, a, b)

LEMMA SamePart ==
  ASSUME NEW C, NEW p \in Seq(C), NEW i, NEW q \in Seq(C), NEW j, SameFrom(p, i, q, j),
         NEW a \in i .. Len(p) + 1, NEW b \in Int, b <= Len(p),
         NEW a2 \in Int, NEW b2 \in Int, Moved(i, j, a, a2), Moved(i, j, b, b2)
  PROVE  Part(p, a, b) = Part(q, a2, b2)
  <1> USE DEF Moved, Part
  <1>1. /\ Len(p) \in Nat /\ Len(q) \in Nat /\ i \in 1 .. Len(p) + 1 /\ j \in 1 .. Len(q) + 1
        /\ Len(p) - i = Len(q) - j
        /\ \A x \in 0 .. Len(p) - i : p[i + x] = q[j + x]
    BY DEF SameFrom
  <1>2. SubSeq(p, a, b) = [k \in 1 .. b - a + 1 |-> p[a + k - 1]]
    BY <1>1
  <1>3. SubSeq(q, a2, b2) = [k \in 1 .. b - a + 1 |-> q[a2 + k - 1]]
    <2>1. b2 - a2 + 1 = b - a + 1
      BY <1>1
    <2> QED
      BY <1>1, <2>1
  <1>4. ASSUME NEW k \in 1 .. b - a + 1
        PROVE  p[a + k - 1] = q[a2 + k - 1]
    <2>1. a + k - 1 - i \in 0 .. Len(p) - i
      BY <1>1
    <2>2. i + (a + k - 1 - i) = a + k - 1 /\ j + (a + k - 1 - i) = a2 + k - 1
      BY <1>1
    <2> QED
      BY <1>1, <2>1, <2>2
  <1> QED
    BY <1>2, <1>3, <1>4

\* The positions that ItemAt finds.
LEMMA NameEndIs ==
  ASSUME NEW C, NEW p \in Seq(C), NEW i \in 1 .. Len(p) + 1
  PROVE  LET n == NameEnd(p, i)
             close == Find(p, n, {CloseBrace}) IN
         /\ n \in i .. Len(p) + 1
         /\ \A m \in i .. n - 1 : p[m] \in Letters \cup {CloseBrace}
         /\ n <= Len(p) => p[n] \notin Letters \cup {CloseBrace}
         /\ close \in n .. Len(p) + 1
         /\ \A m \in n .. close - 1 : p[m] # CloseBrace
         /\ close <= Len(p) => p[close] = CloseBrace /\ n < close
  <1> DEFINE n == NameEnd(p, i)
             close == Find(p, n, {CloseBrace})
             S == ToSet(p) \ (Letters \cup {CloseBrace})
  <1>1. Len(p) \in Nat /\ DOMAIN p = 1 .. Len(p)
    BY LenProperties
  <1>2. \A m \in 1 .. Len(p) : p[m] \in S <=> p[m] \notin Letters \cup {CloseBrace}
    BY <1>1 DEF ToSet
  <1> HIDE DEF S
  <1>3. IsFirst(n, p, i, S)
    BY <1>1, FindIsFirst DEF NameEnd, S
  <1> HIDE DEF n
  <1>4. /\ n \in i .. Len(p) + 1
        /\ \A m \in i .. n - 1 : p[m] \in Letters \cup {CloseBrace}
        /\ n <= Len(p) => p[n] \notin Letters \cup {CloseBrace}
    <2>1. n \in i .. Len(p) + 1
      BY <1>3 DEF IsFirst
    <2>2. \A m \in i .. n - 1 : m \in 1 .. Len(p) /\ p[m] \notin S
      BY <1>1, <1>3, <2>1 DEF IsFirst
    <2>3. n <= Len(p) => n \in 1 .. Len(p) /\ p[n] \in S
      BY <1>1, <1>3, <2>1 DEF IsFirst
    <2> QED
      BY <1>2, <2>1, <2>2, <2>3
  <1>5. n \in 1 .. Len(p) + 1
    BY <1>1, <1>4
  <1>6. IsFirst(close, p, n, {CloseBrace})
    BY <1>1, <1>5, FindIsFirst
  <1> HIDE DEF close
  <1>7. /\ close \in n .. Len(p) + 1
        /\ \A m \in n .. close - 1 : p[m] # CloseBrace
        /\ close <= Len(p) => p[close] = CloseBrace
    BY <1>6 DEF IsFirst
  <1>8. close <= Len(p) => n < close
    BY <1>1, <1>4, <1>7
  <1> QED
    BY <1>4, <1>7, <1>8 DEF n, close

LEMMA BracesDiffer ==
  OpenBrace # CloseBrace /\ OpenBrace # "%" /\ CloseBrace # "%"
  BY Zenon DEF OpenBrace, CloseBrace

ItemsOf(C) == [item : BOOLEAN, str : Seq(C \cup {"<<error>>"}), fmt : Seq(C), error : BOOLEAN]

LEMMA ItemAtType ==
  ASSUME NEW C, NEW p \in Seq(C), NEW i \in 1 .. Len(p) + 1
  PROVE  /\ ItemAt(p, i)[1] \in ItemsOf(C) /\ ItemAt(p, i)[1].item
         /\ ItemAt(p, i)[2] \in i .. Len(p) + 1
  <1> DEFINE n == NameEnd(p, i)
             close == Find(p, n, {CloseBrace})
             E == C \cup {"<<error>>"}
  <1>1. /\ n \in i .. Len(p) + 1 /\ close \in n .. Len(p) + 1 /\ Len(p) \in Nat
    BY NameEndIs, LenProperties
  <1>2. ItemAt(p, i) = IF n > Len(p) \/ p[n] # OpenBrace THEN <<Item(SubSeq(p, i, n - 1), <<>>), n>>
                       ELSE IF close > Len(p) THEN <<Unclosed, close>>
                       ELSE <<Item(SubSeq(p, i, n - 1), SubSeq(p, n + 1, close - 1)), close + 1>>
    BY DEF ItemAt
  <1> HIDE DEF n, close
  <1>3. SubSeq(p, i, n - 1) \in Seq(E)
    <2>1. \A m \in i .. n - 1 : p[m] \in E
      BY <1>1
    <2> QED
      BY <1>1, <2>1, SubSeqProperties
  <1>4. SubSeq(p, n + 1, close - 1) \in Seq(C)
    <2>1. \A m \in n + 1 .. close - 1 : p[m] \in C
      BY <1>1
    <2> QED
      BY <1>1, <2>1, SubSeqProperties
  <1>5. <<>> \in Seq(C) /\ <<"<<error>>">> \in Seq(E)
    OBVIOUS
  <1>6. CASE n > Len(p) \/ p[n] # OpenBrace
    BY <1>1, <1>2, <1>3, <1>5, <1>6 DEF Item, ItemsOf
  <1>7. CASE ~(n > Len(p) \/ p[n] # OpenBrace) /\ close > Len(p)
    BY <1>1, <1>2, <1>5, <1>7 DEF Unclosed, ItemsOf
  <1>8. CASE ~(n > Len(p) \/ p[n] # OpenBrace) /\ ~(close > Len(p))
    BY <1>1, <1>2, <1>3, <1>4, <1>8 DEF Item, ItemsOf
  <1> QED
    BY <1>6, <1>7, <1>8

LEMMA SameItem ==
  ASSUME NEW C, NEW p \in Seq(C), NEW i, NEW q \in Seq(C), NEW j, SameFrom(p, i, q, j)
  PROVE  ItemAt(q, j)[1] = ItemAt(p, i)[1] /\ ItemAt(q, j)[2] - j = ItemAt(p, i)[2] - i
  <1> DEFINE n == NameEnd(p, i)
             close == Find(p, n, {CloseBrace})
             n2 == NameEnd(q, j)
             close2 == Find(q, n2, {CloseBrace})
  <1>1. /\ Len(p) \in Nat /\ Len(q) \in Nat /\ i \in 1 .. Len(p) + 1 /\ j \in 1 .. Len(q) + 1
        /\ Len(p) - i = Len(q) - j
    BY DEF SameFrom
  <1>2. n2 - j = n - i
    <2> DEFINE S == ToSet(p) \ (Letters \cup {CloseBrace})
               T == ToSet(q) \ (Letters \cup {CloseBrace})
    <2>1. ASSUME NEW d \in 0 .. Len(p) - i
          PROVE  p[i + d] \in S <=> q[j + d] \in T
      <3>1. p[i + d] = q[j + d] /\ p[i + d] \in ToSet(p) /\ q[j + d] \in ToSet(q)
        BY <1>1 DEF SameFrom, ToSet
      <3> QED
        BY <3>1
    <2> HIDE DEF S, T
    <2>2. Find(q, j, T) - j = Find(p, i, S) - i
      BY <2>1, SameFirst
    <2> QED
      BY <2>2 DEF S, T, NameEnd
  <1>3. /\ n \in i .. Len(p) + 1 /\ close \in n .. Len(p) + 1
        /\ n2 \in j .. Len(q) + 1 /\ close2 \in n2 .. Len(q) + 1
        /\ close <= Len(p) => n < close
    BY <1>1, NameEndIs
  <1>4. SameFrom(p, n, q, n2)
    <2>1. n - i \in 0 .. Len(p) + 1 - i /\ i + (n - i) = n /\ j + (n - i) = n2
      BY <1>1, <1>2, <1>3
    <2> HIDE DEF n, n2
    <2> QED
      BY <2>1, SameLater
  <1> HIDE DEF n, n2
  <1>5. close2 - n2 = close - n
    <2> DEFINE R == {CloseBrace}
    <2>1. \A d \in 0 .. Len(p) - n : p[n + d] \in R <=> q[n2 + d] \in R
      BY <1>4 DEF SameFrom
    <2> HIDE DEF R
    <2>2. Find(q, n2, R) - n2 = Find(p, n, R) - n
      BY <1>4, <2>1, SameFirst
    <2> QED
      BY <2>2 DEF R
  <1>6. n <= Len(p) => p[n] = q[n2]
    <2>1. n <= Len(p) => 0 \in 0 .. Len(p) - n /\ n + 0 = n /\ n2 + 0 = n2
      BY <1>1, <1>3
    <2> QED
      BY <1>4, <2>1 DEF SameFrom
  <1> HIDE DEF close, close2
  <1>7. SubSeq(p, i, n - 1) = SubSeq(q, j, n2 - 1)
    <2> DEFINE b == n - 1
               b2 == n2 - 1
    <2>1. /\ i \in i .. Len(p) + 1 /\ b \in Int /\ b <= Len(p)
          /\ j \in Int /\ b2 \in Int /\ Moved(i, j, i, j) /\ Moved(i, j, b, b2)
      BY <1>1, <1>2, <1>3 DEF Moved
    <2> HIDE DEF b, b2
    <2>2. Part(p, i, b) = Part(q, j, b2)
      BY <2>1, SamePart
    <2> QED
      BY <2>2 DEF Part, b, b2
  <1>8. ASSUME n <= Len(p) /\ close <= Len(p)
        PROVE  SubSeq(p, n + 1, close - 1) = SubSeq(q, n2 + 1, close2 - 1)
    <2> DEFINE a == n + 1
               b == close - 1
               a2 == n2 + 1
               b2 == close2 - 1
    <2>1. /\ a \in n .. Len(p) + 1 /\ b \in Int /\ b <= Len(p)
          /\ a2 \in Int /\ b2 \in Int /\ Moved(n, n2, a, a2) /\ Moved(n, n2, b, b2)
      BY <1>1, <1>3, <1>5, <1>8 DEF Moved
    <2> HIDE DEF a, b, a2, b2
    <2>2. Part(p, a, b) = Part(q, a2, b2)
      BY <1>4, <2>1, SamePart
    <2> QED
      BY <2>2 DEF Part, a, b, a2, b2
  <1>9. ItemAt(p, i) = IF n > Len(p) \/ p[n] # OpenBrace THEN <<Item(SubSeq(p, i, n - 1), <<>>), n>>
                       ELSE IF close > Len(p) THEN <<Unclosed, close>>
                       ELSE <<Item(SubSeq(p, i, n - 1), SubSeq(p, n + 1, close - 1)), close + 1>>
    BY DEF ItemAt, n, close
  <1>10. ItemAt(q, j) = IF n2 > Len(q) \/ q[n2] # OpenBrace THEN <<Item(SubSeq(q, j, n2 - 1), <<>>), n2>>
                        ELSE IF close2 > Len(q) THEN <<Unclosed, close2>>
                        ELSE <<Item(SubSeq(q, j, n2 - 1), SubSeq(q, n2 + 1, close2 - 1)), close2 + 1>>
    BY DEF ItemAt, n2, close2
  <1>11. (n > Len(p) <=> n2 > Len(q)) /\ (close > Len(p) <=> close2 > Len(q)) /\ close2 - j = close - i
    BY <1>1, <1>2, <1>3, <1>5
  <1>12. CASE n > Len(p) \/ p[n] # OpenBrace
    <2> DEFINE x == Item(SubSeq(p, i, n - 1), <<>>)
    <2>1. ItemAt(p, i) = <<x, n>>
      BY <1>9, <1>12
    <2>2. n2 > Len(q) \/ q[n2] # OpenBrace
      BY <1>1, <1>3, <1>6, <1>11, <1>12
    <2>3. ItemAt(q, j) = <<x, n2>>
      BY <1>7, <1>10, <2>2
    <2> HIDE DEF x
    <2> QED
      BY <1>2, <2>1, <2>3
  <1>13. CASE ~(n > Len(p) \/ p[n] # OpenBrace) /\ close > Len(p)
    <2>1. ItemAt(p, i) = <<Unclosed, close>>
      BY <1>9, <1>13
    <2>2. ~(n2 > Len(q) \/ q[n2] # OpenBrace) /\ close2 > Len(q)
      BY <1>1, <1>3, <1>6, <1>11, <1>13
    <2>3. ItemAt(q, j) = <<Unclosed, close2>>
      BY <1>10, <2>2
    <2> QED
      BY <1>11, <2>1, <2>3
  <1>14. CASE ~(n > Len(p) \/ p[n] # OpenBrace) /\ ~(close > Len(p))
    <2> DEFINE x == Item(SubSeq(p, i, n - 1), SubSeq(p, n + 1, close - 1))
    <2>1. ItemAt(p, i) = <<x, close + 1>>
      BY <1>9, <1>14
    <2>2. n <= Len(p) /\ close <= Len(p)
      BY <1>1, <1>3, <1>14
    <2>3. ~(n2 > Len(q) \/ q[n2] # OpenBrace) /\ ~(close2 > Len(q))
      BY <1>6, <1>11, <1>14, <2>2
    <2>4. ItemAt(q, j) = <<x, close2 + 1>>
      BY <1>7, <1>8, <1>10, <2>2, <2>3
    <2> HIDE DEF x
    <2> QED
      BY <1>1, <1>3, <1>11, <2>1, <2>4
  <1> QED
    BY <1>12, <1>13, <1>14

-----------------------------------------------------------------------------
(* Patterns: Scan                                                           *)

\* What Scan says of position i, given what it says of later ones.
ScanAt(p, from, i) ==
  IF i = Len(p) + 1 THEN <<>>
  ELSE IF p[i] # "%" THEN Literal(p[i], from[i + 1])
  ELSE IF i < Len(p) /\ p[i + 1] = "%" THEN Literal("%", from[i + 2])
  ELSE LET found == ItemAt(p, i + 1) IN <<found[1]>> \o from[found[2]]

LEMMA LiteralType ==
  ASSUME NEW C, NEW c \in C, NEW r \in Seq(ItemsOf(C))
  PROVE  Literal(c, r) \in Seq(ItemsOf(C))
  <1> DEFINE E == C \cup {"<<error>>"}
  <1>1. c \in E /\ <<c>> \in Seq(E) /\ <<>> \in Seq(C)
    OBVIOUS
  <1>2. \A x \in Seq(E) : Text(x) \in ItemsOf(C)
    BY <1>1 DEF Text, ItemsOf
  <1>3. CASE r # <<>> /\ ~r[1].item
    <2>1. r[1] \in ItemsOf(C) /\ Tail(r) \in Seq(ItemsOf(C))
      BY <1>3
    <2>2. r[1].str \in Seq(E)
      BY <2>1 DEF ItemsOf
    <2>3. <<c>> \o r[1].str \in Seq(E)
      BY <1>1, <2>2, ConcatProperties
    <2>4. Text(<<c>> \o r[1].str) \in ItemsOf(C)
      BY <1>2, <2>3
    <2> HIDE DEF E
    <2>5. <<Text(<<c>> \o r[1].str)>> \in Seq(ItemsOf(C))
      BY <2>4
    <2>6. Literal(c, r) = <<Text(<<c>> \o r[1].str)>> \o Tail(r)
      BY <1>3 DEF Literal
    <2> QED
      BY <2>1, <2>5, <2>6, ConcatProperties
  <1>4. CASE ~(r # <<>> /\ ~r[1].item)
    <2>0. Text(<<c>>) \in ItemsOf(C)
      BY <1>1, <1>2
    <2>1. <<Text(<<c>>)>> \in Seq(ItemsOf(C))
      BY <2>0
    <2>2. Literal(c, r) = <<Text(<<c>>)>> \o r
      BY <1>4 DEF Literal
    <2> QED
      BY <2>1, <2>2, ConcatProperties
  <1> QED
    BY <1>3, <1>4

\* At each position Scan goes on at a later one.
LEMMA ScanGoesOn ==
  ASSUME NEW C, NEW p \in Seq(C), NEW i \in 1 .. Len(p) + 1, NEW f, NEW g,
         \A k \in i + 1 .. Len(p) + 1 : f[k] = g[k] /\ f[k] \in Seq(ItemsOf(C))
  PROVE  ScanAt(p, f, i) = ScanAt(p, g, i) /\ ScanAt(p, f, i) \in Seq(ItemsOf(C))
  <1>1. Len(p) \in Nat /\ \A k \in 1 .. Len(p) : p[k] \in C
    BY LenProperties
  <1>2. CASE i = Len(p) + 1
    <2>1. <<>> \in Seq(ItemsOf(C))
      OBVIOUS
    <2> QED
      BY <1>2, <2>1 DEF ScanAt
  <1>3. CASE i # Len(p) + 1 /\ p[i] # "%"
    <2>1. f[i + 1] = g[i + 1] /\ f[i + 1] \in Seq(ItemsOf(C)) /\ p[i] \in C
      BY <1>1, <1>3
    <2>2. ScanAt(p, f, i) = Literal(p[i], f[i + 1]) /\ ScanAt(p, g, i) = Literal(p[i], g[i + 1])
      BY <1>3 DEF ScanAt
    <2> QED
      BY <2>1, <2>2, LiteralType
  <1>4. CASE i # Len(p) + 1 /\ p[i] = "%" /\ i < Len(p) /\ p[i + 1] = "%"
    <2>1. f[i + 2] = g[i + 2] /\ f[i + 2] \in Seq(ItemsOf(C)) /\ "%" \in C
      BY <1>1, <1>4
    <2>2. ScanAt(p, f, i) = Literal("%", f[i + 2]) /\ ScanAt(p, g, i) = Literal("%", g[i + 2])
      BY <1>4 DEF ScanAt
    <2> QED
      BY <2>1, <2>2, LiteralType
  <1>5. CASE i # Len(p) + 1 /\ p[i] = "%" /\ ~(i < Len(p) /\ p[i + 1] = "%")
    <2> DEFINE found == ItemAt(p, i + 1)
    <2>1. i + 1 \in 1 .. Len(p) + 1
      BY <1>1, <1>5
    <2>2. found[1] \in ItemsOf(C) /\ found[2] \in i + 1 .. Len(p) + 1
      BY <2>1, ItemAtType
    <2>3. /\ ScanAt(p, f, i) = <<found[1]>> \o f[found[2]]
          /\ ScanAt(p, g, i) = <<found[1]>> \o g[found[2]]
      BY <1>5 DEF ScanAt
    <2> HIDE DEF found
    <2>4. f[found[2]] = g[found[2]] /\ f[found[2]] \in Seq(ItemsOf(C))
      BY <2>2
    <2>5. <<found[1]>> \in Seq(ItemsOf(C))
      BY <2>2
    <2> QED
      BY <2>3, <2>4, <2>5, ConcatProperties
  <1> QED
    BY <1>2, <1>3, <1>4, <1>5

\* f is the function that Scan defines.
IsScan(f, p, C) == \A i \in 1 .. Len(p) + 1 : f[i] = ScanAt(p, f, i) /\ f[i] \in Seq(ItemsOf(C))

LEMMA ScanIsDefined ==
  ASSUME NEW C, NEW p \in Seq(C)
  PROVE  \E f : IsScan(f, p, C) /\ Scan(p) = f[1]
  <1> DEFINE N == Len(p) + 1
             D == 1 .. N
             V == Seq(ItemsOf(C))
             m == [i \in D |-> N - i]
             F == [x \in D |-> [g \in [Before(D, m, x) -> V] |-> ScanAt(p, g, x)]]
             from == CHOOSE f : f = [i \in 1 .. N |-> ScanAt(p, f, i)]
  <1>1. N \in Nat /\ m \in [D -> 0 .. N] /\ 1 \in D
    BY LenProperties
  <1>2. \A x \in D : \A k \in x + 1 .. N : k \in D /\ k \in Before(D, m, x)
    BY <1>1 DEF Before
  <1>3. Scan(p) = from[1]
    BY DEF Scan, ScanAt
  <1> HIDE DEF m
  <1>4. ASSUME NEW x \in D, NEW g \in [Before(D, m, x) -> V]
        PROVE  F[x][g] = ScanAt(p, g, x) /\ F[x][g] \in V
    <2>1. \A k \in x + 1 .. N : g[k] \in V
      BY <1>2
    <2>2. ScanAt(p, g, x) \in V
      BY <2>1, ScanGoesOn
    <2> QED
      BY <2>2
  <1> HIDE DEF F
  <1>5. Rule(F, D, m, V)
    BY <1>4 DEF Rule
  <1> HIDE DEF V
  <1>6. PICK f : Obeys(f, F, D, m, V)
    BY <1>1, <1>5, Recursion
  <1>7. ASSUME NEW x \in D PROVE f[x] = ScanAt(p, f, x)
    <2> DEFINE g == Restrict(f, Before(D, m, x))
    <2>1. /\ g \in [Before(D, m, x) -> V] /\ f[x] = F[x][g]
          /\ \A y \in Before(D, m, x) : g[y] = f[y]
      BY <1>6, ObeysAt
    <2> HIDE DEF g
    <2>2. f[x] = ScanAt(p, g, x)
      BY <1>4, <2>1
    <2>3. \A k \in x + 1 .. N : g[k] = f[k] /\ g[k] \in V
      BY <1>2, <2>1
    <2>4. ScanAt(p, g, x) = ScanAt(p, f, x)
      BY <2>3, ScanGoesOn DEF V
    <2> QED
      BY <2>2, <2>4
  <1>8. f \in [D -> V]
    BY <1>6 DEF Obeys
  <1>9. f = [i \in 1 .. N |-> ScanAt(p, f, i)]
    BY <1>7, <1>8
  <1>10. from = [i \in 1 .. N |-> ScanAt(p, from, i)]
    BY <1>9
  <1> HIDE DEF from
  <1>11. ASSUME NEW x \in D PROVE from[x] = ScanAt(p, from, x)
    BY <1>10
  <1> DEFINE S == {i \in D : from[i] \in V}
  <1>12. ASSUME NEW n \in 1 .. N, \A k \in n + 1 .. N : k \in S
         PROVE  n \in S
    <2>1. \A k \in n + 1 .. N : from[k] \in V
      BY <1>12
    <2>2. ScanAt(p, from, n) \in V
      BY <2>1, ScanGoesOn DEF V
    <2> QED
      BY <1>11, <2>2
  <1> HIDE DEF S
  <1>13. \A n \in 1 .. N : n \in S
    BY <1>1, <1>12, DownInduction
  <1>14. \A n \in 1 .. N : from[n] \in V
    BY <1>13 DEF S
  <1> QED
    BY <1>3, <1>11, <1>14 DEF IsScan, V

\* What Scan says of a position depends on what comes from there on only.
LEMMA SameScan ==
  ASSUME NEW C, NEW p \in Seq(C), NEW i, NEW q \in Seq(C), NEW j, SameFrom(p, i, q, j),
         NEW f, NEW g, IsScan(f, p, C), IsScan(g, q, C)
  PROVE  f[i] = g[j]
  <1> DEFINE N == Len(p) + 1
             S == {k \in 1 .. N : k >= i => f[k] = g[j + (k - i)]}
  <1>1. /\ Len(p) \in Nat /\ Len(q) \in Nat /\ i \in 1 .. Len(p) + 1 /\ j \in 1 .. Len(q) + 1
        /\ Len(p) - i = Len(q) - j
    BY DEF SameFrom
  <1>2. ASSUME NEW k \in 1 .. N, \A n \in k + 1 .. N : n \in S
        PROVE  k \in S
    <2> SUFFICES ASSUME k >= i
                 PROVE  f[k] = g[j + (k - i)]
      OBVIOUS
    <2> DEFINE m == j + (k - i)
    <2>1. /\ m \in 1 .. Len(q) + 1 /\ Len(p) - k = Len(q) - m
      BY <1>1
    <2>2. SameFrom(p, k, q, m)
      <3>1. k - i \in 0 .. Len(p) + 1 - i /\ i + (k - i) = k
        BY <1>1
      <3> HIDE DEF m
      <3>2. SameFrom(p, i + (k - i), q, j + (k - i))
        BY <3>1, SameLater
      <3> QED
        BY <3>1, <3>2 DEF m
    <2>3. ASSUME NEW n \in k + 1 .. N PROVE f[n] = g[m + (n - k)]
      <3>1. n \in S /\ n >= i /\ j + (n - i) = m + (n - k)
        BY <1>1, <1>2, <2>1
      <3> QED
        BY <3>1
    <2> HIDE DEF m, S
    <2>4. f[k] = ScanAt(p, f, k) /\ g[m] = ScanAt(q, g, m)
      BY <2>1 DEF IsScan
    <2>5. k <= Len(p) => p[k] = q[m]
      <3>1. k <= Len(p) => 0 \in 0 .. Len(p) - k /\ k + 0 = k /\ m + 0 = m
        BY <1>1, <2>1
      <3> QED
        BY <2>2, <3>1 DEF SameFrom
    <2>6. k < Len(p) => p[k + 1] = q[m + 1]
      <3>1. k < Len(p) => 1 \in 0 .. Len(p) - k
        BY <1>1
      <3> QED
        BY <2>2, <3>1 DEF SameFrom
    <2>7. (k = Len(p) + 1 <=> m = Len(q) + 1) /\ (k < Len(p) <=> m < Len(q))
      BY <1>1, <2>1
    <2>8. CASE k = Len(p) + 1
      BY <2>4, <2>7, <2>8 DEF ScanAt, m
    <2>9. CASE k # Len(p) + 1 /\ p[k] # "%"
      <3>1. ScanAt(p, f, k) = Literal(p[k], f[k + 1])
        BY <2>9 DEF ScanAt
      <3>2. p[k] = q[m]
        BY <1>1, <2>5, <2>9
      <3>3. ScanAt(q, g, m) = Literal(q[m], g[m + 1])
        BY <2>7, <2>9, <3>2 DEF ScanAt
      <3>4. f[k + 1] = g[m + 1]
        <4>1. k + 1 \in k + 1 .. N /\ m + ((k + 1) - k) = m + 1
          BY <1>1, <2>1, <2>9
        <4> QED
          BY <2>3, <4>1
      <3> QED
        BY <2>4, <3>1, <3>2, <3>3, <3>4 DEF m
    <2>10. CASE k # Len(p) + 1 /\ p[k] = "%" /\ k < Len(p) /\ p[k + 1] = "%"
      <3>1. ScanAt(p, f, k) = Literal("%", f[k + 2])
        BY <2>10 DEF ScanAt
      <3>2. p[k] = q[m] /\ p[k + 1] = q[m + 1]
        BY <1>1, <2>5, <2>6, <2>10
      <3>3. ScanAt(q, g, m) = Literal("%", g[m + 2])
        BY <2>7, <2>10, <3>2 DEF ScanAt
      <3>4. f[k + 2] = g[m + 2]
        <4>1. k + 2 \in k + 1 .. N /\ m + ((k + 2) - k) = m + 2
          BY <1>1, <2>1, <2>10
        <4> QED
          BY <2>3, <4>1
      <3> QED
        BY <2>4, <3>1, <3>3, <3>4 DEF m
    <2>11. CASE k # Len(p) + 1 /\ p[k] = "%" /\ ~(k < Len(p) /\ p[k + 1] = "%")
      <3> DEFINE x == ItemAt(p, k + 1)
                 y == ItemAt(q, m + 1)
      <3>1. ScanAt(p, f, k) = <<x[1]>> \o f[x[2]]
        BY <2>11 DEF ScanAt
      <3>2. k <= Len(p) /\ p[k] = q[m]
        BY <1>1, <2>5, <2>11
      <3>3. ScanAt(q, g, m) = <<y[1]>> \o g[y[2]]
        BY <2>6, <2>7, <2>11, <3>2 DEF ScanAt
      <3>4. k + 1 \in 1 .. Len(p) + 1 /\ SameFrom(p, k + 1, q, m + 1)
        <4>1. 1 \in 0 .. Len(p) + 1 - k
          BY <1>1, <3>2
        <4> QED
          BY <1>1, <2>2, <3>2, <4>1, SameLater
      <3>5. x[1] = y[1] /\ y[2] - (m + 1) = x[2] - (k + 1)
        BY <3>4, SameItem
      <3>6. x[2] \in k + 1 .. N /\ y[2] \in Int
        <4>1. m + 1 \in 1 .. Len(q) + 1
          BY <3>4 DEF SameFrom
        <4>2. y[2] \in m + 1 .. Len(q) + 1
          BY <4>1, ItemAtType
        <4>3. x[2] \in k + 1 .. Len(p) + 1
          BY <3>4, ItemAtType
        <4> QED
          BY <2>1, <4>2, <4>3
      <3> HIDE DEF x, y
      <3>7. f[x[2]] = g[y[2]]
        <4> DEFINE a == x[2]
                   b == y[2]
        <4>1. b - (m + 1) = a - (k + 1) /\ a \in k + 1 .. N /\ b \in Int
          BY <3>5, <3>6
        <4>2. m \in Int /\ k \in Int /\ N \in Int
          BY <1>1, <2>1
        <4> HIDE DEF a, b
        <4>3. a \in Int
          BY <4>1, <4>2
        <4>4. m + (a - k) = b
          BY <4>1, <4>2, <4>3
        <4>5. f[a] = g[m + (a - k)]
          BY <2>3, <4>1
        <4> QED
          BY <4>4, <4>5 DEF a, b
      <3> QED
        BY <2>4, <3>1, <3>3, <3>5, <3>7 DEF m
    <2> QED
      BY <2>8, <2>9, <2>10, <2>11
  <1>3. N \in Nat /\ i \in 1 .. N
    BY <1>1
  <1> HIDE DEF S, N
  <1>4. \A k \in 1 .. N : k \in S
    BY <1>2, <1>3, DownInduction
  <1>5. i \in S
    BY <1>3, <1>4
  <1> QED
    BY <1>1, <1>5 DEF S

\* What comes from position k on.
From(p, k) == SubSeq(p, k, Len(p))

LEMMA FromIs ==
  ASSUME NEW C, NEW p \in Seq(C), NEW k \in 1 .. Len(p) + 1
  PROVE  From(p, k) \in Seq(C) /\ Len(From(p, k)) = Len(p) + 1 - k /\ SameFrom(p, k, From(p, k), 1)
  <1>1. Len(p) \in Nat /\ \A m \in k .. Len(p) : p[m] \in C
    BY LenProperties
  <1>2. /\ From(p, k) \in Seq(C) /\ Len(From(p, k)) = Len(p) + 1 - k
        /\ \A n \in 1 .. Len(p) - k + 1 : From(p, k)[n] = p[k + n - 1]
    BY <1>1 DEF From
  <1>3. ASSUME NEW d \in 0 .. Len(p) - k
        PROVE  p[k + d] = From(p, k)[1 + d]
    <2>1. 1 + d \in 1 .. Len(p) - k + 1 /\ k + (1 + d) - 1 = k + d
      BY <1>1
    <2> QED
      BY <1>2, <2>1
  <1> QED
    BY <1>1, <1>2, <1>3 DEF SameFrom

LEMMA ScanFrom ==
  ASSUME NEW C, NEW p \in Seq(C), NEW f, IsScan(f, p, C), NEW k \in 1 .. Len(p) + 1
  PROVE  f[k] = Scan(From(p, k))
  <1>1. From(p, k) \in Seq(C) /\ SameFrom(p, k, From(p, k), 1)
    BY FromIs
  <1>2. PICK g : IsScan(g, From(p, k), C) /\ Scan(From(p, k)) = g[1]
    BY <1>1, ScanIsDefined
  <1> QED
    BY <1>1, <1>2, SameScan

Reads(f, p, C) == p \in Seq(C) /\ IsScan(f, p, C)

LEMMA SameReading ==
  ASSUME NEW C, NEW p, NEW i, NEW q, NEW j, SameFrom(p, i, q, j),
         NEW f, NEW g, Reads(f, p, C), Reads(g, q, C)
  PROVE  f[i] = g[j]
  <1>1. p \in Seq(C) /\ q \in Seq(C) /\ IsScan(f, p, C) /\ IsScan(g, q, C)
    BY DEF Reads
  <1> QED
    BY <1>1, SameScan

LEMMA ScanType ==
  ASSUME NEW C, NEW p \in Seq(C)
  PROVE  Scan(p) \in Seq(ItemsOf(C))
  <1>1. 1 \in 1 .. Len(p) + 1
    BY LenProperties
  <1> QED
    BY <1>1, ScanIsDefined DEF IsScan

LEMMA ScanEmpty == Scan(<<>>) = <<>>
  <1>1. <<>> \in Seq({}) /\ 1 \in 1 .. Len(<<>>) + 1 /\ 1 = Len(<<>>) + 1
    OBVIOUS
  <1>2. PICK f : IsScan(f, <<>>, {}) /\ Scan(<<>>) = f[1]
    BY <1>1, ScanIsDefined
  <1> QED
    BY <1>1, <1>2 DEF IsScan, ScanAt

\* The three ways a pattern may begin.
LEMMA ScanText ==
  ASSUME NEW C, NEW c \in C, c # "%", NEW q \in Seq(C)
  PROVE  Scan(<<c>> \o q) = Literal(c, Scan(q))
  <1> DEFINE p == <<c>> \o q
  <1>1. p \in Seq(C) /\ Len(p) = Len(q) + 1 /\ Len(q) \in Nat /\ p[1] = c /\ From(p, 2) = q
    BY DEF From
  <1> HIDE DEF p
  <1>2. PICK f : IsScan(f, p, C) /\ Scan(p) = f[1]
    BY <1>1, ScanIsDefined
  <1>3. 1 \in 1 .. Len(p) + 1 /\ 2 \in 1 .. Len(p) + 1 /\ 1 # Len(p) + 1 /\ 1 + 1 = 2
    BY <1>1
  <1>4. f[1] = Literal(c, f[2])
    BY <1>1, <1>2, <1>3 DEF IsScan, ScanAt
  <1>5. f[2] = Scan(q)
    BY <1>1, <1>2, <1>3, ScanFrom
  <1> QED
    BY <1>2, <1>4, <1>5 DEF p

LEMMA ScanEscape ==
  ASSUME NEW C, "%" \in C, NEW q \in Seq(C)
  PROVE  Scan(<<"%", "%">> \o q) = Literal("%", Scan(q))
  <1> DEFINE p == <<"%", "%">> \o q
  <1>1. /\ p \in Seq(C) /\ Len(p) = Len(q) + 2 /\ Len(q) \in Nat /\ p[1] = "%" /\ p[2] = "%"
        /\ From(p, 3) = q
    BY DEF From
  <1> HIDE DEF p
  <1>2. PICK f : IsScan(f, p, C) /\ Scan(p) = f[1]
    BY <1>1, ScanIsDefined
  <1>3. /\ 1 \in 1 .. Len(p) + 1 /\ 3 \in 1 .. Len(p) + 1 /\ 1 # Len(p) + 1 /\ 1 < Len(p)
        /\ 1 + 1 = 2 /\ 1 + 2 = 3
    BY <1>1
  <1>4. f[1] = Literal("%", f[3])
    BY <1>1, <1>2, <1>3 DEF IsScan, ScanAt
  <1>5. f[3] = Scan(q)
    BY <1>1, <1>2, <1>3, ScanFrom
  <1> QED
    BY <1>2, <1>4, <1>5 DEF p

LEMMA ScanItem ==
  ASSUME NEW C, "%" \in C, NEW q \in Seq(C), q = <<>> \/ q[1] # "%"
  PROVE  LET found == ItemAt(q, 1) IN
         Scan(<<"%">> \o q) = <<found[1]>> \o Scan(From(q, found[2]))
  <1> DEFINE p == <<"%">> \o q
             found == ItemAt(q, 1)
             at == ItemAt(p, 2)
  <1>1. /\ p \in Seq(C) /\ Len(p) = Len(q) + 1 /\ Len(q) \in Nat /\ p[1] = "%"
        /\ \A i \in 1 .. Len(q) : p[i + 1] = q[i]
    OBVIOUS
  <1> HIDE DEF p
  <1>2. PICK f : IsScan(f, p, C) /\ Scan(p) = f[1]
    BY <1>1, ScanIsDefined
  <1>3. /\ 1 \in 1 .. Len(p) + 1 /\ 2 \in 1 .. Len(p) + 1 /\ 1 # Len(p) + 1 /\ 1 + 1 = 2
        /\ 1 \in 1 .. Len(q) + 1
    BY <1>1
  <1>4. ~(1 < Len(p) /\ p[2] = "%")
    <2>1. q = <<>> => Len(q) = 0
      OBVIOUS
    <2>2. q # <<>> => p[1 + 1] = q[1]
      BY <1>1, EmptySeq
    <2> QED
      BY <1>1, <2>1, <2>2
  <1>5. f[1] = <<at[1]>> \o f[at[2]]
    BY <1>1, <1>2, <1>3, <1>4 DEF IsScan, ScanAt
  <1>6. SameFrom(p, 2, q, 1)
    <2>1. ASSUME NEW d \in 0 .. Len(p) - 2
          PROVE  p[2 + d] = q[1 + d]
      <3>1. 1 + d \in 1 .. Len(q) /\ (1 + d) + 1 = 2 + d
        BY <1>1
      <3> QED
        BY <1>1, <3>1
    <2> QED
      BY <1>1, <1>3, <2>1 DEF SameFrom
  <1>7. at[1] = found[1] /\ found[2] - 1 = at[2] - 2
    BY <1>1, <1>6, SameItem
  <1>8. at[2] \in 2 .. Len(p) + 1 /\ found[2] \in 1 .. Len(q) + 1
    BY <1>1, <1>3, ItemAtType
  <1> HIDE DEF at, found
  <1>9. PICK g : IsScan(g, q, C)
    BY ScanIsDefined
  <1>10. f[at[2]] = g[found[2]]
    <2>1. /\ at[2] - 2 \in 0 .. Len(p) + 1 - 2 /\ 2 + (at[2] - 2) = at[2] /\ 1 + (at[2] - 2) = found[2]
      <3>1. Len(p) \in Nat
        BY <1>1
      <3> DEFINE a == at[2]
                 b == found[2]
      <3>2. a \in 2 .. Len(p) + 1 /\ b \in 1 .. Len(q) + 1 /\ b - 1 = a - 2
        BY <1>7, <1>8
      <3> HIDE DEF a, b
      <3>3. a - 2 \in 0 .. Len(p) + 1 - 2 /\ 2 + (a - 2) = a /\ 1 + (a - 2) = b
        BY <1>1, <3>1, <3>2
      <3> QED
        BY <3>3 DEF a, b
    <2>2. SameFrom(p, 2 + (at[2] - 2), q, 1 + (at[2] - 2))
      BY <1>6, <2>1, SameLater
    <2> DEFINE a == at[2]
               b == found[2]
    <2>3. SameFrom(p, a, q, b)
      BY <2>1, <2>2
    <2>4. Reads(f, p, C) /\ Reads(g, q, C)
      BY <1>1, <1>2, <1>9 DEF Reads
    <2> HIDE DEF a, b
    <2>5. f[a] = g[b]
      BY <2>3, <2>4, SameReading
    <2> QED
      BY <2>5 DEF a, b
  <1>11. g[found[2]] = Scan(From(q, found[2]))
    BY <1>8, <1>9, ScanFrom
  <1> QED
    BY <1>2, <1>5, <1>7, <1>10, <1>11 DEF p, found

\* A text with every '%' doubled.
Escape(c) == IF c = "%" THEN <<"%", "%">> ELSE <<c>>

LEMMA DoubledCons ==
  ASSUME NEW C, NEW c \in C, NEW t \in Seq(C)
  PROVE  Doubled(<<c>> \o t) = Escape(c) \o Doubled(t)
  <1> DEFINE E == [x \in C |-> Escape(x)]
             V == C \cup {"%"}
  <1>1. ASSUME NEW u \in Seq(C)
        PROVE  Doubled(u) = FlattenSeq(Each(E, u))
    <2>1. \A i \in DOMAIN u : u[i] \in C
      OBVIOUS
    <2>2. Each(E, u) = [i \in DOMAIN u |-> IF u[i] = "%" THEN <<"%", "%">> ELSE <<u[i]>>]
      BY <2>1 DEF Escape, Each
    <2> QED
      BY <2>2 DEF Doubled
  <1>2. \A x \in C : Escape(x) \in Seq(V)
    <2>1. \A x \in C : x \in V /\ "%" \in V
      OBVIOUS
    <2> HIDE DEF V
    <2>2. \A x \in C : <<x>> \in Seq(V) /\ <<"%", "%">> \in Seq(V)
      BY <2>1
    <2> QED
      BY <2>2 DEF Escape
  <1> DEFINE u == <<c>> \o t
  <1>3. E[c] = Escape(c) /\ <<c>> \o t \in Seq(C)
    OBVIOUS
  <1>4. FlattenSeq(Each(E, u)) = E[c] \o FlattenSeq(Each(E, t))
    <2>1. OneMore(E, C, V, c, t, u)
      BY <1>2 DEF OneMore
    <2> HIDE DEF E, V, u
    <2> QED
      BY <2>1, FlattenEach
  <1> QED
    BY <1>1, <1>3, <1>4

LEMMA DoubledType ==
  ASSUME NEW C, "%" \in C
  PROVE  \A t \in Seq(C) : Doubled(t) \in Seq(C)
  <1> DEFINE I == {t \in Seq(C) : Doubled(t) \in Seq(C)}
  <1>1. <<>> \in I
    <2>1. Doubled(<<>>) = FlattenSeq(<<>>) /\ <<>> \in Seq(C)
      BY DEF Doubled
    <2> QED
      BY <2>1, FlattenEmpty
  <1>2. ASSUME NEW c \in C, NEW t \in Seq(C), t \in I
        PROVE  <<c>> \o t \in I
    <2>1. Escape(c) \in Seq(C) /\ Doubled(t) \in Seq(C) /\ <<c>> \o t \in Seq(C)
      BY <1>2 DEF Escape
    <2>2. Escape(c) \o Doubled(t) \in Seq(C)
      BY <2>1, ConcatProperties
    <2> QED
      BY <2>1, <2>2, DoubledCons
  <1> HIDE DEF I
  <1>3. \A t \in Seq(C) : t \in I
    BY <1>1, <1>2, SequenceInduction
  <1> QED
    BY <1>3 DEF I

\* It is read as one piece of text.
OneText(t) == IF t = <<>> THEN <<>> ELSE <<Text(t)>>

LEMMA LiteralGoesOn ==
  ASSUME NEW C, NEW c \in C, NEW t \in Seq(C)
  PROVE  Literal(c, OneText(t)) = OneText(<<c>> \o t)
  <1>1. <<c>> \o t # <<>> /\ <<c>> \o t \in Seq(C)
    OBVIOUS
  <1>2. CASE t = <<>>
    <2>1. Literal(c, <<>>) = <<Text(<<c>>)>> \o <<>>
      BY DEF Literal
    <2>2. <<Text(<<c>>)>> \o <<>> = <<Text(<<c>>)>> /\ <<c>> \o <<>> = <<c>>
      BY ConcatEmptySeq
    <2> QED
      BY <1>1, <1>2, <2>1, <2>2 DEF OneText
  <1>3. CASE t # <<>>
    <2> DEFINE x == Text(t)
               y == Text(<<c>> \o t)
    <2>1. ~x.item /\ x.str = t
      BY DEF Text
    <2> HIDE DEF x
    <2>2. <<x>> # <<>> /\ <<x>>[1] = x /\ Tail(<<x>>) = <<>>
      OBVIOUS
    <2>3. Literal(c, <<x>>) = <<y>> \o <<>>
      BY <2>1, <2>2 DEF Literal
    <2> HIDE DEF y
    <2>4. <<y>> \o <<>> = <<y>>
      OBVIOUS
    <2> QED
      BY <1>1, <1>3, <2>3, <2>4 DEF OneText, x, y
  <1> QED
    BY <1>2, <1>3

LEMMA DoubledIsText ==
  ASSUME NEW C, "%" \in C
  PROVE  \A t \in Seq(C) : Scan(Doubled(t)) = OneText(t)
  <1> DEFINE I == {t \in Seq(C) : Scan(Doubled(t)) = OneText(t)}
  <1>1. <<>> \in I
    <2>1. Doubled(<<>>) = FlattenSeq(<<>>) /\ <<>> \in Seq(C)
      BY DEF Doubled
    <2> QED
      BY <2>1, FlattenEmpty, ScanEmpty DEF OneText
  <1>2. ASSUME NEW c \in C, NEW t \in Seq(C), t \in I
        PROVE  <<c>> \o t \in I
    <2> DEFINE q == Doubled(t)
    <2>1. q \in Seq(C) /\ Scan(q) = OneText(t) /\ <<c>> \o t \in Seq(C)
      BY <1>2, DoubledType
    <2> HIDE DEF q
    <2>2. Scan(Escape(c) \o q) = Literal(c, Scan(q))
      <3>1. CASE c = "%"
        BY <2>1, <3>1, ScanEscape DEF Escape
      <3>2. CASE c # "%"
        BY <2>1, <3>2, ScanText DEF Escape
      <3> QED
        BY <3>1, <3>2
    <2>3. Doubled(<<c>> \o t) = Escape(c) \o q
      BY DoubledCons DEF q
    <2> QED
      BY <2>1, <2>2, <2>3, LiteralGoesOn
  <1> HIDE DEF I
  <1>3. \A t \in Seq(C) : t \in I
    BY <1>1, <1>2, SequenceInduction
  <1> QED
    BY <1>3 DEF I

\* LogFormatter::format prints every text whose '%' are doubled as the text, and
\* init finds no error in it.
THEOREM TextIsPrinted ==
  ASSUME NEW C, pattern \in Seq(C)
  PROVE  EscapesPrint
  <1> DEFINE D == C \cup {"%"}
             t == pattern
             printed == [k \in DOMAIN Scan(Doubled(t)) |-> Output(Scan(Doubled(t))[k])]
  <1>1. t \in Seq(D) /\ "%" \in D
    OBVIOUS
  <1>2. Scan(Doubled(t)) = OneText(t)
    BY <1>1, DoubledIsText
  <1>3. CASE t = <<>>
    <2>1. Scan(Doubled(t)) = <<>>
      BY <1>2, <1>3 DEF OneText
    <2>2. printed = <<>>
      BY <2>1
    <2>3. Format(Doubled(t)) = t /\ ~IsError(Doubled(t))
      BY <1>3, <2>1, <2>2, FlattenEmpty DEF Format, IsError
    <2> QED
      BY <2>3 DEF EscapesPrint, PrintsItself
  <1>4. CASE t # <<>>
    <2> DEFINE x == Text(t)
    <2>1. Scan(Doubled(t)) = <<x>>
      BY <1>2, <1>4 DEF OneText
    <2>2. ~x.error /\ Output(x) = t
      BY DEF Text, Output
    <2> HIDE DEF x
    <2>3. printed = <<t>>
      BY <2>1, <2>2
    <2>4. FlattenSeq(<<t>>) = t
      BY <1>1, FlattenOne
    <2>5. Format(Doubled(t)) = t
      BY <2>3, <2>4 DEF Format
    <2>6. ~IsError(Doubled(t))
      BY <2>1, <2>2 DEF IsError
    <2> QED
      BY <2>5, <2>6 DEF EscapesPrint, PrintsItself
  <1> QED
    BY <1>3, <1>4

-----------------------------------------------------------------------------
(* Patterns: what Scan makes of any pattern                                 *)

\* What may follow the '%' of an item, and what comes after the item.
StartsItem(q) == q = <<>> \/ q[1] # "%"

After(q) == From(q, ItemAt(q, 1)[2])

LEMMA AfterType ==
  ASSUME NEW C, NEW q \in Seq(C)
  PROVE  /\ After(q) \in Seq(C) /\ ItemAt(q, 1)[2] \in 1 .. Len(q) + 1
         /\ Len(After(q)) = Len(q) + 1 - ItemAt(q, 1)[2] /\ Len(After(q)) <= Len(q)
  <1> DEFINE k == ItemAt(q, 1)[2]
  <1>1. Len(q) \in Nat /\ 1 \in 1 .. Len(q) + 1
    BY LenProperties
  <1>2. k \in 1 .. Len(q) + 1
    BY <1>1, ItemAtType
  <1> HIDE DEF k
  <1>3. From(q, k) \in Seq(C) /\ Len(From(q, k)) = Len(q) + 1 - k
    BY <1>2, FromIs
  <1>4. Len(From(q, k)) <= Len(q)
    BY <1>1, <1>2, <1>3
  <1> QED
    BY <1>2, <1>3, <1>4 DEF After, k

\* What holds of the empty pattern, and of a pattern if it does of what is left
\* after its first character, escaped or not, or its first item, holds of all.
LEMMA PatternInduction ==
  ASSUME NEW C, NEW I, <<>> \in I,
         \A c \in C, q \in Seq(C) : q \in I => Escape(c) \o q \in I,
         \A q \in Seq(C) : StartsItem(q) /\ After(q) \in I => <<"%">> \o q \in I
  PROVE  \A p \in Seq(C) : p \in I
  <1> DEFINE D == Seq(C)
             m == [p \in D |-> Len(p)]
  <1>1. m \in [D -> Nat]
    BY LenProperties
  <1>2. ASSUME NEW p \in D, \A q \in D : m[q] < m[p] => q \in I
        PROVE  p \in I
    <2>1. \A q \in D : Len(q) < Len(p) => q \in I
      BY <1>2
    <2>2. CASE p = <<>>
      BY <2>2
    <2>3. CASE p # <<>>
      <3> DEFINE c == Head(p)
                 q == Tail(p)
      <3>1. c \in C /\ q \in Seq(C) /\ p = <<c>> \o q /\ Len(q) < Len(p) /\ Len(q) \in Nat
        BY <2>3
      <3> HIDE DEF c, q
      <3>2. CASE c # "%"
        <4>1. q \in I
          BY <2>1, <3>1
        <4> QED
          BY <3>1, <3>2, <4>1 DEF Escape
      <3>3. CASE c = "%" /\ StartsItem(q)
        <4>1. After(q) \in I
          BY <2>1, <3>1, AfterType, LenProperties
        <4> QED
          BY <3>1, <3>3, <4>1
      <3>4. CASE c = "%" /\ ~StartsItem(q)
        <4> DEFINE r == Tail(q)
        <4>1. q # <<>> /\ q[1] = "%"
          BY <3>4 DEF StartsItem
        <4>2. r \in Seq(C) /\ q = <<"%">> \o r /\ Len(r) < Len(q) /\ Len(r) \in Nat
          BY <3>1, <4>1
        <4> HIDE DEF r
        <4>3. p = <<"%", "%">> \o r
          BY <3>1, <3>4, <4>2
        <4>4. r \in I
          BY <2>1, <3>1, <4>2, LenProperties
        <4> QED
          BY <3>1, <3>4, <4>2, <4>3, <4>4 DEF Escape
      <3> QED
        BY <3>2, <3>3, <3>4
    <2> QED
      BY <2>2, <2>3
  <1> HIDE DEF D, m
  <1>3. \A p \in D : p \in I
    BY <1>1, <1>2, MeasureInduction
  <1> QED
    BY <1>3 DEF D

LEMMA ScanCharacter ==
  ASSUME NEW C, NEW c \in C, NEW q \in Seq(C)
  PROVE  Scan(Escape(c) \o q) = Literal(c, Scan(q))
  <1>1. CASE c = "%"
    BY <1>1, ScanEscape DEF Escape
  <1>2. CASE c # "%"
    BY <1>2, ScanText DEF Escape
  <1> QED
    BY <1>1, <1>2

LEMMA ScanAfter ==
  ASSUME NEW C, "%" \in C, NEW q \in Seq(C), StartsItem(q)
  PROVE  Scan(<<"%">> \o q) = <<ItemAt(q, 1)[1]>> \o Scan(After(q))
  BY ScanItem DEF StartsItem, After

\* Every piece of text has something in it, and nothing else.
Clean(items) == \A k \in DOMAIN items : ~items[k].item =>
  items[k] = Text(items[k].str) /\ items[k].str # <<>>

HasError(items) == \E k \in DOMAIN items : items[k].error

\* The first of the items, and the rest.
LEMMA FirstAndRest ==
  ASSUME NEW S, NEW x \in S, NEW r \in Seq(S)
  PROVE  LET s == <<x>> \o r IN
         /\ s \in Seq(S) /\ s # <<>> /\ s[1] = x /\ Tail(s) = r /\ Len(s) = Len(r) + 1
         /\ DOMAIN s = 1 .. Len(r) + 1 /\ DOMAIN r = 1 .. Len(r) /\ Len(r) \in Nat
         /\ \A k \in 1 .. Len(r) : s[k + 1] = r[k]
         /\ \A k \in 1 .. Len(r) + 1 : k = 1 \/ (k - 1 \in 1 .. Len(r) /\ s[k] = r[k - 1])
  OBVIOUS

LEMMA CleanFirst ==
  ASSUME NEW S, NEW x \in S, NEW r \in Seq(S)
  PROVE  Clean(<<x>> \o r) <=> Clean(r) /\ (x.item \/ (x = Text(x.str) /\ x.str # <<>>))
  <1> DEFINE s == <<x>> \o r
  <1>1. /\ s[1] = x /\ DOMAIN s = 1 .. Len(r) + 1 /\ DOMAIN r = 1 .. Len(r) /\ Len(r) \in Nat
        /\ \A k \in 1 .. Len(r) : s[k + 1] = r[k]
        /\ \A k \in 1 .. Len(r) + 1 : k = 1 \/ (k - 1 \in 1 .. Len(r) /\ s[k] = r[k - 1])
    BY FirstAndRest
  <1> HIDE DEF s
  <1>2. 1 \in DOMAIN s /\ \A k \in 1 .. Len(r) : k + 1 \in DOMAIN s
    BY <1>1
  <1> DEFINE Ok(y) == y.item \/ (y = Text(y.str) /\ y.str # <<>>)
  <1>3. (\A k \in DOMAIN s : Ok(s[k])) <=> Ok(x) /\ \A k \in DOMAIN r : Ok(r[k])
    <2> HIDE DEF Ok
    <2>1. ASSUME \A k \in DOMAIN s : Ok(s[k])
          PROVE  Ok(x) /\ \A k \in DOMAIN r : Ok(r[k])
      BY <1>1, <1>2, <2>1
    <2>2. ASSUME Ok(x), \A k \in DOMAIN r : Ok(r[k])
          PROVE  \A k \in DOMAIN s : Ok(s[k])
      BY <1>1, <1>2, <2>2
    <2> QED
      BY <2>1, <2>2
  <1> QED
    BY <1>3 DEF Clean, s

LEMMA ErrorFirst ==
  ASSUME NEW S, NEW x \in S, NEW r \in Seq(S)
  PROVE  HasError(<<x>> \o r) <=> x.error \/ HasError(r)
  <1> DEFINE s == <<x>> \o r
  <1>1. /\ s[1] = x /\ DOMAIN s = 1 .. Len(r) + 1 /\ DOMAIN r = 1 .. Len(r) /\ Len(r) \in Nat
        /\ \A k \in 1 .. Len(r) : s[k + 1] = r[k]
        /\ \A k \in 1 .. Len(r) + 1 : k = 1 \/ (k - 1 \in 1 .. Len(r) /\ s[k] = r[k - 1])
    BY FirstAndRest
  <1> HIDE DEF s
  <1>2. 1 \in DOMAIN s /\ \A k \in 1 .. Len(r) : k + 1 \in DOMAIN s
    BY <1>1
  <1>3. ASSUME HasError(s) PROVE x.error \/ HasError(r)
    BY <1>1, <1>3 DEF HasError
  <1>4. ASSUME x.error \/ HasError(r) PROVE HasError(s)
    BY <1>1, <1>2, <1>4 DEF HasError
  <1> QED
    BY <1>3, <1>4 DEF s

StringsOver(C) == Seq(C \cup {"<<error>>"})

LEMMA TextType ==
  ASSUME NEW C, NEW t \in StringsOver(C)
  PROVE  Text(t) \in ItemsOf(C) /\ ~Text(t).item /\ ~Text(t).error /\ Text(t).str = t
  <1>1. <<>> \in Seq(C)
    OBVIOUS
  <1> QED
    BY <1>1 DEF Text, StringsOver, ItemsOf

LEMMA LongerText ==
  ASSUME NEW C, NEW c \in C, NEW t \in StringsOver(C)
  PROVE  <<c>> \o t \in StringsOver(C) /\ <<c>> \o t # <<>> /\ <<c>> \in StringsOver(C)
  BY DEF StringsOver

\* A character in front of the items r is a new text, or is put in front of the
\* text that comes first.
NewText(c, r) == (r = <<>> \/ r[1].item) /\ Literal(c, r) = <<Text(<<c>>)>> \o r

LongText(c, r, t, s) == /\ r = <<Text(t)>> \o s /\ t # <<>> /\ Clean(s)
                        /\ Literal(c, r) = <<Text(<<c>> \o t)>> \o s

LEMMA LiteralCases ==
  ASSUME NEW C, NEW c \in C, NEW r \in Seq(ItemsOf(C)), Clean(r)
  PROVE  NewText(c, r) \/ \E t \in StringsOver(C), s \in Seq(ItemsOf(C)) : LongText(c, r, t, s)
  <1>1. CASE r = <<>> \/ r[1].item
    BY <1>1 DEF Literal, NewText
  <1>2. CASE r # <<>> /\ ~r[1].item
    <2> DEFINE x == r[1]
               t == x.str
               s == Tail(r)
    <2>1. x \in ItemsOf(C) /\ s \in Seq(ItemsOf(C)) /\ r = <<x>> \o s
      BY <1>2
    <2>2. Literal(c, r) = <<Text(<<c>> \o t)>> \o s
      BY <1>2 DEF Literal
    <2> HIDE DEF x, s
    <2>3. ~x.item
      BY <1>2 DEF x
    <2>4. t \in StringsOver(C)
      BY <2>1 DEF ItemsOf, StringsOver
    <2>5. Clean(s) /\ x = Text(t) /\ t # <<>>
      BY <2>1, <2>3, CleanFirst
    <2> HIDE DEF t
    <2>6. r = <<Text(t)>> \o s
      BY <2>1, <2>5
    <2>7. LongText(c, r, t, s)
      BY <2>2, <2>5, <2>6 DEF LongText
    <2> QED
      BY <2>1, <2>4, <2>7
  <1> QED
    BY <1>1, <1>2

LEMMA ScanClean ==
  ASSUME NEW C, "%" \in C
  PROVE  \A p \in Seq(C) : Clean(Scan(p))
  <1> DEFINE I == {p \in Seq(C) : Clean(Scan(p))}
  <1>1. <<>> \in I
    BY ScanEmpty DEF Clean
  <1>2. ASSUME NEW c \in C, NEW q \in Seq(C), q \in I
        PROVE  Escape(c) \o q \in I
    <2> DEFINE r == Scan(q)
               p == Escape(c) \o q
    <2>1. r \in Seq(ItemsOf(C)) /\ Clean(r) /\ Scan(p) = Literal(c, r)
      BY <1>2, ScanType, ScanCharacter
    <2>2. Escape(c) \o q \in Seq(C)
      BY DEF Escape
    <2> HIDE DEF r
    <2>3. \A x : Text(x).str = x /\ Text(x) = Text(Text(x).str)
      BY DEF Text
    <2>4. CASE NewText(c, r)
      <3> DEFINE x == Text(<<c>>)
      <3>1. <<c>> \in StringsOver(C) /\ <<c>> # <<>>
        BY DEF StringsOver
      <3>2. x \in ItemsOf(C)
        BY <3>1, TextType
      <3>3. x.str = <<c>>
        BY <2>3
      <3>4. x = Text(x.str) /\ x.str # <<>>
        BY <3>1, <3>3
      <3> HIDE DEF x
      <3>5. Clean(<<x>> \o r)
        BY <2>1, <3>2, <3>4, CleanFirst
      <3> QED
        BY <2>1, <2>2, <2>4, <3>5 DEF x, NewText
    <2>5. ASSUME NEW t \in StringsOver(C), NEW s \in Seq(ItemsOf(C)), LongText(c, r, t, s)
          PROVE  p \in I
      <3> DEFINE x == Text(<<c>> \o t)
      <3>1. <<c>> \o t \in StringsOver(C) /\ <<c>> \o t # <<>>
        BY LongerText
      <3>2. x \in ItemsOf(C)
        BY <3>1, TextType
      <3>3. x = Text(x.str) /\ x.str # <<>>
        BY <2>3, <3>1
      <3> HIDE DEF x
      <3>4. Clean(<<x>> \o s)
        BY <2>5, <3>2, <3>3, CleanFirst DEF LongText
      <3> QED
        BY <2>1, <2>2, <2>5, <3>4 DEF x, LongText
    <2>6. NewText(c, r) \/ \E t \in StringsOver(C), s \in Seq(ItemsOf(C)) : LongText(c, r, t, s)
      BY <2>1, LiteralCases
    <2> QED
      BY <2>4, <2>5, <2>6
  <1>3. ASSUME NEW q \in Seq(C), StartsItem(q), After(q) \in I
        PROVE  <<"%">> \o q \in I
    <2> DEFINE x == ItemAt(q, 1)[1]
               r == Scan(After(q))
    <2>1. Scan(<<"%">> \o q) = <<x>> \o r
      BY <1>3, ScanAfter
    <2>2. After(q) \in Seq(C) /\ Clean(r) /\ <<"%">> \o q \in Seq(C)
      BY <1>3
    <2>3. 1 \in 1 .. Len(q) + 1
      BY LenProperties
    <2>4. x \in ItemsOf(C) /\ x.item /\ r \in Seq(ItemsOf(C))
      BY <2>2, <2>3, ItemAtType, ScanType
    <2> HIDE DEF x, r
    <2>5. Clean(<<x>> \o r)
      BY <2>2, <2>4, CleanFirst
    <2> QED
      BY <2>1, <2>2, <2>5
  <1> HIDE DEF I
  <1>4. \A p \in Seq(C) : p \in I
    BY <1>1, <1>2, <1>3, PatternInduction
  <1> QED
    BY <1>4 DEF I

-----------------------------------------------------------------------------
(* Patterns: what is read was written                                       *)

LEMMA FromSplit ==
  ASSUME NEW C, NEW q \in Seq(C), NEW a \in 1 .. Len(q) + 1, NEW b \in a .. Len(q) + 1
  PROVE  /\ From(q, a) = Part(q, a, b - 1) \o From(q, b)
         /\ Part(q, a, b - 1) \in Seq(C) /\ From(q, b) \in Seq(C)
  <1>1. Len(q) \in Nat /\ \A k \in 1 .. Len(q) : q[k] \in C
    BY LenProperties
  <1> DEFINE s == Part(q, a, b - 1)
             t == From(q, b)
             u == From(q, a)
  <1>2. s \in Seq(C) /\ Len(s) = b - a /\ \A k \in 1 .. b - a : s[k] = q[a + k - 1]
    BY <1>1 DEF Part
  <1>3. t \in Seq(C) /\ Len(t) = Len(q) + 1 - b /\ \A k \in 1 .. Len(q) + 1 - b : t[k] = q[b + k - 1]
    BY <1>1 DEF From
  <1>4. u \in Seq(C) /\ Len(u) = Len(q) + 1 - a /\ \A k \in 1 .. Len(q) + 1 - a : u[k] = q[a + k - 1]
    BY <1>1 DEF From
  <1> HIDE DEF s, t, u
  <1> DEFINE v == s \o t
  <1>5. /\ v \in Seq(C) /\ Len(v) = Len(u)
        /\ \A k \in 1 .. Len(u) : v[k] = IF k <= Len(s) THEN s[k] ELSE t[k - Len(s)]
    <2>1. /\ v \in Seq(C) /\ Len(v) = Len(s) + Len(t)
          /\ \A k \in 1 .. Len(s) + Len(t) : v[k] = IF k <= Len(s) THEN s[k] ELSE t[k - Len(s)]
      BY <1>2, <1>3, ConcatProperties
    <2>2. Len(s) + Len(t) = Len(u)
      BY <1>1, <1>2, <1>3, <1>4
    <2> QED
      BY <2>1, <2>2
  <1> HIDE DEF v
  <1>6. ASSUME NEW k \in 1 .. Len(u)
        PROVE  u[k] = v[k]
    <2> DEFINE n == Len(s)
    <2>1. CASE k <= n
      <3>1. k \in 1 .. b - a /\ k \in 1 .. Len(q) + 1 - a
        BY <1>1, <1>2, <1>4, <2>1
      <3>2. v[k] = s[k]
        BY <1>5, <2>1
      <3> QED
        BY <1>2, <1>4, <3>1, <3>2
    <2>2. CASE k > n
      <3> DEFINE m == k - Len(s)
      <3>1. m \in 1 .. Len(q) + 1 - b /\ k \in 1 .. Len(q) + 1 - a /\ b + m - 1 = a + k - 1
        BY <1>1, <1>2, <1>4, <2>2
      <3>2. v[k] = t[m]
        <4>1. ~(k <= Len(s))
          BY <1>1, <1>2, <1>4, <2>2
        <4> QED
          BY <1>5, <4>1
      <3> QED
        BY <1>3, <1>4, <3>1, <3>2
    <2>3. k \in Int /\ n \in Int
      BY <1>1, <1>2, <1>4
    <2> HIDE DEF n
    <2>4. k <= n \/ k > n
      BY <2>3
    <2> QED
      BY <2>1, <2>2, <2>4
  <1>7. u = v
    BY <1>4, <1>5, <1>6, SeqEqual
  <1> QED
    BY <1>2, <1>3, <1>7 DEF s, t, u, v

LEMMA FromFirst ==
  ASSUME NEW C, NEW q \in Seq(C), NEW a \in 1 .. Len(q)
  PROVE  From(q, a) = <<q[a]>> \o From(q, a + 1)
  <1>1. Len(q) \in Nat /\ q[a] \in C
    BY LenProperties
  <1> DEFINE b == a + 1
  <1>2. a \in 1 .. Len(q) + 1 /\ b \in a .. Len(q) + 1 /\ b - 1 = a
    BY <1>1
  <1>3. Part(q, a, a) = <<q[a]>>
    <2> DEFINE s == Part(q, a, a)
    <2>1. s \in Seq(C) /\ Len(s) = 1 /\ s[1] = q[a]
      BY <1>1 DEF Part
    <2>2. <<q[a]>> \in Seq(C) /\ Len(<<q[a]>>) = 1 /\ <<q[a]>>[1] = q[a]
      BY <1>1
    <2> HIDE DEF s
    <2>3. \A k \in 1 .. Len(s) : s[k] = <<q[a]>>[k]
      BY <2>1, <2>2
    <2>4. s = <<q[a]>>
      BY <2>1, <2>2, <2>3, SeqEqual
    <2> QED
      BY <2>4 DEF s
  <1> HIDE DEF b
  <1>4. From(q, a) = Part(q, a, b - 1) \o From(q, b)
    BY <1>2, FromSplit
  <1> QED
    BY <1>2, <1>3, <1>4 DEF b

LEMMA FromStart ==
  ASSUME NEW C, NEW q \in Seq(C)
  PROVE  From(q, 1) = q
  BY DEF From

\* Every character that a writing may have.
Alphabet(C) == C \cup {"<<error>>", "%", OpenBrace, CloseBrace}

LEMMA SpellingType ==
  ASSUME NEW C, NEW x \in ItemsOf(C), NEW b \in BOOLEAN
  PROVE  Spelling(x, b) \in Seq(Alphabet(C))
  <1> DEFINE A == Alphabet(C)
             braces == IF b THEN <<OpenBrace>> \o x.fmt \o <<CloseBrace>> ELSE <<>>
  <1>1. "%" \in A /\ OpenBrace \in A /\ CloseBrace \in A /\ C \subseteq A /\ "<<error>>" \in A
    BY DEF Alphabet
  <1>2. x.str \in Seq(C \cup {"<<error>>"}) /\ x.fmt \in Seq(C)
    BY DEF ItemsOf
  <1> HIDE DEF A
  <1>3. x.str \in Seq(A) /\ x.fmt \in Seq(A)
    BY <1>1, <1>2
  <1>4. braces \in Seq(A)
    BY <1>1, <1>3
  <1> HIDE DEF braces
  <1>5. Doubled(x.str) \in Seq(A)
    BY <1>1, <1>3, DoubledType
  <1>6. <<"%">> \o x.str \o braces \in Seq(A)
    BY <1>1, <1>3, <1>4
  <1> QED
    BY <1>5, <1>6 DEF Spelling, A, braces

Spelled(items, B) == [k \in DOMAIN items |-> Spelling(items[k], k \in B)]

\* The positions in B, without the first one.
Rest(r, B) == {k \in DOMAIN r : k + 1 \in B}

FirstSpelling(x, B) == Spelling(x, 1 \in B)

\* A writing of the items, with the first one in front.
WithFirst(C, x, r, s) == x \in ItemsOf(C) /\ r \in Seq(ItemsOf(C)) /\ s = <<x>> \o r

LEMMA SpelledFirst ==
  ASSUME NEW C, NEW x, NEW r, NEW s, WithFirst(C, x, r, s), NEW B
  PROVE  /\ Spelled(r, Rest(r, B)) \in Seq(Seq(Alphabet(C)))
         /\ Spelled(s, B) = <<FirstSpelling(x, B)>> \o Spelled(r, Rest(r, B))
  <1> x \in ItemsOf(C) /\ r \in Seq(ItemsOf(C)) /\ s = <<x>> \o r
    BY DEF WithFirst
  <1> DEFINE D == Rest(r, B)
             y == Spelling(x, 1 \in B)
             T == Seq(Alphabet(C))
             f == Spelled(r, D)
             g == Spelled(s, B)
             h == <<y>> \o f
  <1>1. /\ s \in Seq(ItemsOf(C)) /\ s[1] = x
        /\ DOMAIN s = 1 .. Len(r) + 1 /\ DOMAIN r = 1 .. Len(r) /\ Len(r) \in Nat
        /\ \A k \in 1 .. Len(r) + 1 : k = 1 \/ (k - 1 \in 1 .. Len(r) /\ s[k] = r[k - 1])
    BY FirstAndRest
  <1>2. \A k \in 1 .. Len(r) : k \in D <=> k + 1 \in B
    BY <1>1 DEF Rest
  <1> HIDE DEF D
  <1>3. (1 \in B) \in BOOLEAN /\ \A k : (k \in B) \in BOOLEAN /\ (k \in D) \in BOOLEAN
    OBVIOUS
  <1>4. y \in T
    BY <1>3, SpellingType
  <1>5. \A k \in 1 .. Len(r) : Spelling(r[k], k \in D) \in T
    <2>1. ASSUME NEW k \in 1 .. Len(r) PROVE Spelling(r[k], k \in D) \in T
      <3>1. r[k] \in ItemsOf(C)
        BY <1>1
      <3> QED
        BY <1>3, <3>1, SpellingType
    <2> QED
      BY <2>1
  <1> HIDE DEF T, y
  <1>6. f = [k \in 1 .. Len(r) |-> Spelling(r[k], k \in D)]
    BY <1>1 DEF Spelled
  <1>7. f \in Seq(T) /\ Len(f) = Len(r)
    BY <1>1, <1>5, <1>6
  <1>8. g = [k \in 1 .. Len(r) + 1 |-> Spelling(s[k], k \in B)]
    BY <1>1 DEF Spelled
  <1> HIDE DEF g
  <1>9. h \in Seq(T) /\ DOMAIN h = 1 .. Len(r) + 1 /\ h[1] = y
        /\ \A k \in 1 .. Len(r) + 1 : k = 1 \/ h[k] = f[k - 1]
    BY <1>4, <1>7, FirstAndRest
  <1> HIDE DEF f, h
  <1>10. ASSUME NEW k \in 1 .. Len(r) + 1
         PROVE  Spelling(s[k], k \in B) = h[k]
    <2>1. CASE k = 1
      BY <1>1, <1>9, <2>1 DEF y
    <2>2. CASE k # 1
      <3> DEFINE m == k - 1
      <3>1. m \in 1 .. Len(r) /\ s[k] = r[m] /\ m + 1 = k
        BY <1>1, <2>2
      <3>2. h[k] = f[m]
        BY <1>9, <2>2
      <3>3. (m \in D) <=> (k \in B)
        BY <1>2, <3>1
      <3> HIDE DEF m
      <3>4. f[m] = Spelling(r[m], m \in D)
        BY <1>6, <3>1
      <3>5. (m \in D) = (k \in B)
        BY <3>3
      <3> QED
        BY <3>1, <3>2, <3>4, <3>5
    <2> QED
      BY <2>1, <2>2
  <1>11. h = [k \in 1 .. Len(r) + 1 |-> h[k]]
    BY <1>9
  <1>12. g = h
    BY <1>8, <1>10, <1>11
  <1> QED
    BY <1>7, <1>12 DEF f, g, h, y, D, T, FirstSpelling

LEMMA FirstWritten ==
  ASSUME NEW C, NEW x, NEW r, NEW s, WithFirst(C, x, r, s), NEW B
  PROVE  /\ FlattenSeq(Spelled(r, Rest(r, B))) \in Seq(Alphabet(C))
         /\ FlattenSeq(Spelled(s, B)) = FirstSpelling(x, B) \o FlattenSeq(Spelled(r, Rest(r, B)))
  <1> DEFINE f == Spelled(r, Rest(r, B))
             y == FirstSpelling(x, B)
             A == Alphabet(C)
  <1>1. f \in Seq(Seq(A)) /\ Spelled(s, B) = <<y>> \o f
    BY SpelledFirst
  <1>2. (1 \in B) \in BOOLEAN
    OBVIOUS
  <1>3. y \in Seq(A)
    BY <1>2, SpellingType DEF FirstSpelling, WithFirst
  <1> HIDE DEF f, y, A
  <1>4. FlattenSeq(f) \in Seq(A)
    BY <1>1, FlattenType
  <1>5. FlattenSeq(<<y>> \o f) = y \o FlattenSeq(f)
    BY <1>1, <1>3, FlattenCons
  <1> QED
    BY <1>1, <1>4, <1>5 DEF f, y, A

Braced(p, items, B) == /\ B \subseteq DOMAIN items
                       /\ \A k \in DOMAIN items \ B : items[k].fmt = <<>>
                       /\ p = FlattenSeq(Spelled(items, B))

LEMMA WritingIs == \A p, items : IsWriting(p, items) <=> \E B : Braced(p, items, B)
  <1>1. ASSUME NEW p, NEW items, IsWriting(p, items)
        PROVE  \E B : Braced(p, items, B)
    BY <1>1 DEF IsWriting, Braced, Spelled
  <1>2. ASSUME NEW p, NEW items, NEW B, Braced(p, items, B)
        PROVE  IsWriting(p, items)
    <2>1. /\ B \in SUBSET DOMAIN items /\ \A k \in DOMAIN items \ B : items[k].fmt = <<>>
          /\ p = FlattenSeq([k \in DOMAIN items |-> Spelling(items[k], k \in B)])
      BY <1>2 DEF Braced, Spelled
    <2> QED
      BY <2>1 DEF IsWriting
  <1> QED
    BY <1>1, <1>2

LEMMA Shift ==
  ASSUME NEW N \in Nat, NEW E \in SUBSET (1 .. N), NEW b \in BOOLEAN
  PROVE  LET B == {k + 1 : k \in E} \cup (IF b THEN {1} ELSE {}) IN
         B \subseteq 1 .. N + 1 /\ (1 \in B <=> b) /\ \A k \in 1 .. N : k + 1 \in B <=> k \in E
  <1> DEFINE F == {k + 1 : k \in E}
  <1>1. F \subseteq 2 .. N + 1
    OBVIOUS
  <1>2. ASSUME NEW k \in 1 .. N
        PROVE  k + 1 \in F <=> k \in E
    <2>1. ASSUME k + 1 \in F PROVE k \in E
      <3>1. PICK j \in E : j + 1 = k + 1
        BY <2>1
      <3>2. j = k
        BY <3>1
      <3> QED
        BY <3>2
    <2> QED
      BY <2>1
  <1> HIDE DEF F
  <1>3. \A k \in 1 .. N : k + 1 # 1
    OBVIOUS
  <1>4. 1 \notin F
    BY <1>1
  <1> QED
    BY <1>1, <1>2, <1>3, <1>4 DEF F

\* One more item is written in front of a writing.
LEMMA WritingFirst ==
  ASSUME NEW C, NEW x \in ItemsOf(C), NEW r \in Seq(ItemsOf(C)), NEW p, IsWriting(p, r),
         NEW b \in BOOLEAN, b \/ x.fmt = <<>>
  PROVE  IsWriting(Spelling(x, b) \o p, <<x>> \o r)
  <1>1. PICK E : Braced(p, r, E)
    BY WritingIs
  <1> DEFINE s == <<x>> \o r
             B == {k + 1 : k \in E} \cup (IF b THEN {1} ELSE {})
             D == Rest(r, B)
  <1>2. /\ s[1] = x /\ DOMAIN s = 1 .. Len(r) + 1 /\ DOMAIN r = 1 .. Len(r) /\ Len(r) \in Nat
        /\ \A k \in 1 .. Len(r) : s[k + 1] = r[k]
        /\ \A k \in 1 .. Len(r) + 1 : k = 1 \/ (k - 1 \in 1 .. Len(r) /\ s[k] = r[k - 1])
    BY FirstAndRest
  <1>3. E \subseteq 1 .. Len(r)
    BY <1>1, <1>2 DEF Braced
  <1>4. /\ B \subseteq 1 .. Len(r) + 1 /\ (1 \in B <=> b)
        /\ \A k \in 1 .. Len(r) : k + 1 \in B <=> k \in E
    BY <1>2, <1>3, Shift
  <1> HIDE DEF B
  <1>5. D = E
    BY <1>2, <1>3, <1>4 DEF Rest
  <1>6. (1 \in B) = b
    BY <1>4
  <1>7. ASSUME NEW k \in 1 .. Len(r) + 1, k # 1, k \notin B
        PROVE  k - 1 \in 1 .. Len(r) /\ k - 1 \notin E
    <2> DEFINE j == k - 1
    <2>1. j \in 1 .. Len(r) /\ j + 1 = k
      BY <1>2, <1>7
    <2> HIDE DEF j
    <2>2. j \notin E
      BY <1>4, <1>7, <2>1
    <2> QED
      BY <2>1, <2>2 DEF j
  <1>8. FlattenSeq(Spelled(s, B)) = FirstSpelling(x, B) \o FlattenSeq(Spelled(r, D))
    <2>1. WithFirst(C, x, r, s)
      BY DEF WithFirst
    <2> HIDE DEF s
    <2> QED
      BY <2>1, FirstWritten
  <1> HIDE DEF s, D
  <1>9. FlattenSeq(Spelled(s, B)) = Spelling(x, b) \o p
    BY <1>1, <1>5, <1>6, <1>8 DEF Braced, FirstSpelling
  <1>10. ASSUME NEW k \in DOMAIN s \ B
        PROVE  s[k].fmt = <<>>
    <2>1. k \in 1 .. Len(r) + 1 /\ k \notin B
      BY <1>2
    <2>2. CASE k = 1
      BY <1>2, <1>6, <2>1, <2>2
    <2>3. CASE k # 1
      <3>1. k - 1 \in DOMAIN r \ E /\ s[k] = r[k - 1]
        BY <1>2, <1>7, <2>1, <2>3
      <3> QED
        BY <1>1, <3>1 DEF Braced
    <2> QED
      BY <2>2, <2>3
  <1>11. Braced(Spelling(x, b) \o p, s, B)
    BY <1>2, <1>4, <1>9, <1>10 DEF Braced
  <1> QED
    BY <1>11, WritingIs DEF s

\* A character more in the text that is written first.
LEMMA WritingText ==
  ASSUME NEW C, NEW c \in C, NEW t \in StringsOver(C), NEW r \in Seq(ItemsOf(C)),
         NEW p, IsWriting(p, <<Text(t)>> \o r)
  PROVE  IsWriting(Escape(c) \o p, <<Text(<<c>> \o t)>> \o r)
  <1> DEFINE x == Text(t)
             y == Text(<<c>> \o t)
             u == <<x>> \o r
             v == <<y>> \o r
  <1>1. PICK B : Braced(p, u, B)
    BY WritingIs
  <1> DEFINE w == FlattenSeq(Spelled(r, Rest(r, B)))
             A == Alphabet(C)
  <1>2. <<c>> \o t \in StringsOver(C)
    BY LongerText
  <1>3. x \in ItemsOf(C) /\ y \in ItemsOf(C)
    BY <1>2, TextType
  <1>4. \A b : Spelling(x, b) = Doubled(t) /\ Spelling(y, b) = Doubled(<<c>> \o t)
    BY DEF Spelling, Text
  <1>5. FirstSpelling(x, B) = Doubled(t) /\ FirstSpelling(y, B) = Doubled(<<c>> \o t)
    BY <1>4 DEF FirstSpelling
  <1>6. x.fmt = <<>> /\ y.fmt = <<>>
    BY DEF Text
  <1> HIDE DEF x, y
  <1>7. /\ w \in Seq(A)
        /\ FlattenSeq(Spelled(u, B)) = FirstSpelling(x, B) \o w
    <2>1. WithFirst(C, x, r, u)
      BY <1>3 DEF WithFirst
    <2> HIDE DEF u
    <2> QED
      BY <2>1, FirstWritten
  <1>8. FlattenSeq(Spelled(v, B)) = FirstSpelling(y, B) \o w
    <2>1. WithFirst(C, y, r, v)
      BY <1>3 DEF WithFirst
    <2> HIDE DEF v
    <2> QED
      BY <2>1, FirstWritten
  <1>9. /\ u[1] = x /\ DOMAIN u = 1 .. Len(r) + 1
        /\ \A k \in 1 .. Len(r) + 1 : k = 1 \/ u[k] = r[k - 1]
    BY <1>3, FirstAndRest
  <1>10. /\ v[1] = y /\ DOMAIN v = 1 .. Len(r) + 1
        /\ \A k \in 1 .. Len(r) + 1 : k = 1 \/ v[k] = r[k - 1]
    BY <1>3, FirstAndRest
  <1> HIDE DEF w, u, v
  <1>11. "%" \in A /\ C \cup {"<<error>>"} \subseteq A /\ c \in A
    BY DEF Alphabet
  <1>12. t \in Seq(A)
    BY <1>11 DEF StringsOver
  <1> HIDE DEF A
  <1>13. Doubled(<<c>> \o t) = Escape(c) \o Doubled(t)
    BY <1>11, <1>12, DoubledCons
  <1>14. Doubled(t) \in Seq(A)
    BY <1>11, <1>12, DoubledType
  <1>15. Escape(c) \in Seq(A)
    BY <1>11 DEF Escape
  <1>16. (Escape(c) \o Doubled(t)) \o w = Escape(c) \o (Doubled(t) \o w)
    BY <1>7, <1>14, <1>15, ConcatAssociative
  <1>17. p = Doubled(t) \o w
    BY <1>1, <1>5, <1>7 DEF Braced
  <1>18. Escape(c) \o p = FlattenSeq(Spelled(v, B))
    BY <1>5, <1>8, <1>13, <1>16, <1>17
  <1>19. \A k \in DOMAIN v \ B : v[k].fmt = <<>>
    <2>1. ASSUME NEW k \in DOMAIN v \ B PROVE v[k].fmt = <<>>
      <3>1. k = 1 \/ v[k] = u[k]
        BY <1>9, <1>10
      <3>2. k \in DOMAIN u \ B
        BY <1>9, <1>10
      <3>3. u[k].fmt = <<>>
        BY <1>1, <3>2 DEF Braced
      <3> QED
        BY <1>6, <1>10, <3>1, <3>3
    <2> QED
      BY <2>1
  <1>20. Braced(Escape(c) \o p, v, B)
    BY <1>1, <1>9, <1>10, <1>18, <1>19 DEF Braced
  <1> QED
    BY <1>20, WritingIs DEF v, y

\* ItemAt with the part of the pattern that it takes.
ItemEnds(q, n, close) == /\ n = NameEnd(q, 1) /\ close = Find(q, n, {CloseBrace})
                         /\ n \in 1 .. Len(q) + 1 /\ close \in n .. Len(q) + 1
Bare(q, n, close) == /\ n > Len(q) \/ q[n] # OpenBrace
                     /\ ItemAt(q, 1) = <<Item(Part(q, 1, n - 1), <<>>), n>>
Open(q, n, close) == /\ n <= Len(q) /\ q[n] = OpenBrace /\ close > Len(q)
                     /\ ItemAt(q, 1) = <<Unclosed, close>>
Closed(q, n, close) ==
  /\ n <= Len(q) /\ q[n] = OpenBrace /\ n < close /\ close <= Len(q) /\ q[close] = CloseBrace
  /\ ItemAt(q, 1) = <<Item(Part(q, 1, n - 1), Part(q, n + 1, close - 1)), close + 1>>

LEMMA ItemCases ==
  ASSUME NEW C, NEW q \in Seq(C)
  PROVE  \E n, close : /\ ItemEnds(q, n, close)
                       /\ Bare(q, n, close) \/ Open(q, n, close) \/ Closed(q, n, close)
  <1> DEFINE n == NameEnd(q, 1)
             close == Find(q, n, {CloseBrace})
  <1>1. 1 \in 1 .. Len(q) + 1 /\ Len(q) \in Nat
    BY LenProperties
  <1>2. /\ n \in 1 .. Len(q) + 1 /\ close \in n .. Len(q) + 1
        /\ close <= Len(q) => q[close] = CloseBrace /\ n < close
    BY <1>1, NameEndIs
  <1>3. ItemAt(q, 1) = IF n > Len(q) \/ q[n] # OpenBrace THEN <<Item(Part(q, 1, n - 1), <<>>), n>>
                       ELSE IF close > Len(q) THEN <<Unclosed, close>>
                       ELSE <<Item(Part(q, 1, n - 1), Part(q, n + 1, close - 1)), close + 1>>
    BY DEF ItemAt, Part
  <1>4. ItemEnds(q, n, close)
    BY <1>2 DEF ItemEnds
  <1> HIDE DEF n, close
  <1>5. CASE n > Len(q) \/ q[n] # OpenBrace
    BY <1>3, <1>4, <1>5 DEF Bare
  <1>6. CASE ~(n > Len(q) \/ q[n] # OpenBrace) /\ close > Len(q)
    <2>1. n <= Len(q)
      BY <1>1, <1>2, <1>6
    <2> QED
      BY <1>3, <1>4, <1>6, <2>1 DEF Open
  <1>7. CASE ~(n > Len(q) \/ q[n] # OpenBrace) /\ ~(close > Len(q))
    <2>1. n <= Len(q) /\ close <= Len(q)
      BY <1>1, <1>2, <1>7
    <2> QED
      BY <1>2, <1>3, <1>4, <1>7, <2>1 DEF Closed
  <1> QED
    BY <1>5, <1>6, <1>7

\* Six strings after each other, as an item with braces is written.
LEMMA SixStrings ==
  ASSUME NEW A, NEW z, NEW s, NEW o, NEW f, NEW e, NEW r, Three(A, z, s, o), Three(A, f, e, r)
  PROVE  Joined(z, Joined(s, Joined(o, Joined(f, Joined(e, r)))))
           = Joined(Joined(Joined(z, s), Joined(Joined(o, f), e)), r)
  <1>1. Three(A, o, f, Joined(e, r)) /\ Three(A, o, f, e)
    BY JoinedAnyhow DEF Three
  <1>2. Three(A, Joined(o, f), e, r)
    BY <1>1, JoinedAnyhow DEF Three
  <1> DEFINE g == Joined(Joined(o, f), e)
  <1>3. Joined(o, Joined(f, Joined(e, r))) = Joined(g, r)
    BY <1>1, <1>2, JoinedAnyhow
  <1>4. g \in Seq(A)
    BY <1>2, JoinedAnyhow
  <1> HIDE DEF g
  <1>5. Three(A, z, s, Joined(g, r)) /\ Three(A, s, g, r)
    <2>1. Three(A, s, g, r)
      BY <1>4 DEF Three
    <2> QED
      BY <2>1, JoinedAnyhow DEF Three
  <1>6. Three(A, Joined(z, s), g, r)
    BY <1>5, JoinedAnyhow DEF Three
  <1>7. Joined(z, Joined(s, Joined(g, r))) = Joined(Joined(Joined(z, s), g), r)
    BY <1>5, <1>6, JoinedAnyhow
  <1> QED
    BY <1>3, <1>7 DEF g

\* An item that is closed is read as one of its spellings.
LEMMA ItemIsWritten ==
  ASSUME NEW C, NEW q \in Seq(C), ~ItemAt(q, 1)[1].error
  PROVE  \E b \in BOOLEAN : /\ b \/ ItemAt(q, 1)[1].fmt = <<>>
                            /\ <<"%">> \o q = Spelling(ItemAt(q, 1)[1], b) \o After(q)
  <1>1. PICK n, close : /\ ItemEnds(q, n, close)
                        /\ Bare(q, n, close) \/ Open(q, n, close) \/ Closed(q, n, close)
    BY ItemCases
  <1> DEFINE A == Alphabet(C)
             s == Part(q, 1, n - 1)
             x == ItemAt(q, 1)[1]
  <1>2. n \in 1 .. Len(q) + 1 /\ close \in n .. Len(q) + 1 /\ Len(q) \in Nat
    BY <1>1, LenProperties DEF ItemEnds
  <1>3. "%" \in A /\ OpenBrace \in A /\ CloseBrace \in A /\ C \subseteq A
    BY DEF Alphabet
  <1> HIDE DEF A
  <1>4. q = s \o From(q, n) /\ s \in Seq(A) /\ From(q, n) \in Seq(A)
    <2>1. 1 \in 1 .. Len(q) + 1 /\ n \in 1 .. Len(q) + 1
      BY <1>2
    <2>2. From(q, 1) = s \o From(q, n) /\ s \in Seq(C) /\ From(q, n) \in Seq(C)
      BY <2>1, FromSplit
    <2> QED
      BY <1>3, <2>2, FromStart
  <1> HIDE DEF s
  <1>5. CASE Bare(q, n, close)
    <2>1. x = Item(s, <<>>) /\ After(q) = From(q, n)
      BY <1>5 DEF Bare, After, s
    <2> HIDE DEF x
    <2>2. x.fmt = <<>> /\ Spelling(x, FALSE) = <<"%">> \o s \o <<>>
      BY <2>1 DEF Spelling, Item
    <2>3. <<"%">> \in Seq(A) /\ <<"%">> \o s \o <<>> = <<"%">> \o s
      BY <1>3, <1>4
    <2>4. <<"%">> \o (s \o From(q, n)) = (<<"%">> \o s) \o From(q, n)
      <3>1. Three(A, <<"%">>, s, From(q, n))
        BY <1>4, <2>3 DEF Three
      <3> QED
        BY <3>1, JoinedAnyhow DEF Joined
    <2>5. <<"%">> \o q = Spelling(x, FALSE) \o After(q)
      BY <1>4, <2>1, <2>2, <2>3, <2>4
    <2> QED
      BY <2>2, <2>5 DEF x
  <1>6. CASE Open(q, n, close)
    BY <1>6 DEF Open, Unclosed
  <1>7. CASE Closed(q, n, close)
    <2> DEFINE f == Part(q, n + 1, close - 1)
               k == close + 1
               m == n + 1
               r == From(q, k)
               o == <<OpenBrace>>
               e == <<CloseBrace>>
               z == <<"%">>
    <2>1. x = Item(s, f) /\ After(q) = r
      BY <1>7 DEF Closed, After, s
    <2> HIDE DEF x
    <2>2. x.fmt = f /\ Spelling(x, TRUE) = z \o s \o (o \o f \o e)
      BY <2>1 DEF Spelling, Item
    <2>3. n \in 1 .. Len(q) /\ close \in 1 .. Len(q) /\ q[n] = OpenBrace /\ q[close] = CloseBrace
      BY <1>2, <1>7 DEF Closed
    <2>4. From(q, n) = o \o From(q, m)
      BY <2>3, FromFirst
    <2>5. From(q, close) = e \o r
      BY <2>3, FromFirst
    <2>6. m \in 1 .. Len(q) + 1 /\ close \in m .. Len(q) + 1 /\ k \in 1 .. Len(q) + 1
      BY <1>2, <1>7, <2>3 DEF Closed
    <2>7. r \in Seq(C)
      BY <2>6, FromIs
    <2> HIDE DEF k, m
    <2>8. From(q, m) = Part(q, m, close - 1) \o From(q, close) /\ Part(q, m, close - 1) \in Seq(C)
      BY <2>6, FromSplit
    <2>9. From(q, m) = f \o From(q, close) /\ f \in Seq(C)
      BY <2>8 DEF m
    <2>10. z \in Seq(A) /\ o \in Seq(A) /\ e \in Seq(A) /\ f \in Seq(A) /\ r \in Seq(A)
      BY <1>3, <2>7, <2>9
    <2> HIDE DEF f, r, o, e, z
    <2>11. From(q, n) = o \o (f \o (e \o r))
      BY <2>4, <2>5, <2>9
    <2>12. q = s \o (o \o (f \o (e \o r)))
      BY <1>4, <2>11
    <2>13. z \o (s \o (o \o (f \o (e \o r)))) = ((z \o s) \o ((o \o f) \o e)) \o r
      <3>1. Three(A, z, s, o) /\ Three(A, f, e, r)
        BY <1>4, <2>10 DEF Three
      <3>2. Joined(z, Joined(s, Joined(o, Joined(f, Joined(e, r)))))
            = Joined(Joined(Joined(z, s), Joined(Joined(o, f), e)), r)
        BY <3>1, SixStrings
      <3> QED
        BY <3>2 DEF Joined
    <2>14. z \o q = Spelling(x, TRUE) \o After(q)
      BY <2>1, <2>2, <2>12, <2>13
    <2> QED
      BY <2>14 DEF z, x
  <1> QED
    BY <1>1, <1>5, <1>6, <1>7

\* A pattern without an error is one of the writings of its items.
LEMMA ReadsAsWritten ==
  ASSUME NEW C, "%" \in C
  PROVE  \A p \in Seq(C) : ~HasError(Scan(p)) => IsWriting(p, Scan(p))
  <1> DEFINE I == {p \in Seq(C) : ~HasError(Scan(p)) => IsWriting(p, Scan(p))}
  <1>1. IsWriting(<<>>, <<>>)
    <2>1. Braced(<<>>, <<>>, {})
      BY FlattenEmpty DEF Braced, Spelled
    <2> QED
      BY <2>1, WritingIs
  <1>2. <<>> \in I
    BY <1>1, ScanEmpty
  <1>3. ASSUME NEW c \in C, NEW q \in Seq(C), q \in I
        PROVE  Escape(c) \o q \in I
    <2> DEFINE r == Scan(q)
               p == Escape(c) \o q
    <2>1. r \in Seq(ItemsOf(C)) /\ Clean(r) /\ Scan(p) = Literal(c, r)
      BY ScanType, ScanCharacter, ScanClean
    <2>2. p \in Seq(C)
      BY DEF Escape
    <2>3. ~HasError(r) => IsWriting(q, r)
      BY <1>3
    <2> HIDE DEF r
    <2>4. ASSUME NewText(c, r), ~HasError(Literal(c, r))
          PROVE  IsWriting(p, Literal(c, r))
      <3> DEFINE x == Text(<<c>>)
      <3>1. <<c>> \in StringsOver(C)
        BY DEF StringsOver
      <3>2. x \in ItemsOf(C) /\ Literal(c, r) = <<x>> \o r
        BY <2>4, <3>1, TextType DEF NewText
      <3>3. Spelling(x, FALSE) = Doubled(<<c>>) /\ x.fmt = <<>>
        BY DEF Spelling, Text
      <3>4. Doubled(<<c>>) = Escape(c)
        <4>1. Doubled(<<>>) = <<>>
          <5>1. Doubled(<<>>) = FlattenSeq(<<>>)
            BY DEF Doubled
          <5> QED
            BY <5>1, FlattenEmpty
        <4>2. <<>> \in Seq(C) /\ <<c>> \o <<>> = <<c>> /\ Escape(c) \in Seq(C)
          BY DEF Escape
        <4>3. Doubled(<<c>> \o <<>>) = Escape(c) \o Doubled(<<>>)
          BY <4>2, DoubledCons
        <4> QED
          BY <4>1, <4>2, <4>3, ConcatEmptySeq
      <3> HIDE DEF x, p
      <3>5. ~HasError(r)
        BY <2>1, <2>4, <3>2, ErrorFirst
      <3>6. IsWriting(Spelling(x, FALSE) \o q, <<x>> \o r)
        BY <2>1, <2>3, <3>2, <3>3, <3>5, WritingFirst
      <3> QED
        BY <3>2, <3>3, <3>4, <3>6 DEF p
    <2>5. ASSUME NEW t \in StringsOver(C), NEW s \in Seq(ItemsOf(C)), LongText(c, r, t, s),
                 ~HasError(Literal(c, r))
          PROVE  IsWriting(p, Literal(c, r))
      <3> DEFINE x == Text(t)
                 y == Text(<<c>> \o t)
      <3>1. <<c>> \o t \in StringsOver(C)
        BY LongerText
      <3>2. x \in ItemsOf(C) /\ y \in ItemsOf(C) /\ ~x.error
        BY <3>1, TextType
      <3>3. r = <<x>> \o s /\ Literal(c, r) = <<y>> \o s
        BY <2>5 DEF LongText
      <3> HIDE DEF x, y
      <3>4. ~HasError(s)
        <4>1. ~HasError(<<y>> \o s)
          BY <2>5, <3>3
        <4> QED
          BY <3>2, <4>1, ErrorFirst
      <3>5. ~HasError(r)
        BY <3>2, <3>3, <3>4, ErrorFirst
      <3>6. IsWriting(q, <<Text(t)>> \o s)
        BY <2>3, <3>3, <3>5 DEF x
      <3>7. IsWriting(Escape(c) \o q, <<Text(<<c>> \o t)>> \o s)
        BY <3>6, WritingText
      <3> QED
        BY <3>3, <3>7 DEF y
    <2>6. NewText(c, r) \/ \E t \in StringsOver(C), s \in Seq(ItemsOf(C)) : LongText(c, r, t, s)
      BY <2>1, LiteralCases
    <2>7. ~HasError(Literal(c, r)) => IsWriting(p, Literal(c, r))
      BY <2>4, <2>5, <2>6
    <2> QED
      BY <2>1, <2>2, <2>7
  <1>4. ASSUME NEW q \in Seq(C), StartsItem(q), After(q) \in I
        PROVE  <<"%">> \o q \in I
    <2> DEFINE x == ItemAt(q, 1)[1]
               r == Scan(After(q))
               p == <<"%">> \o q
    <2>1. Scan(p) = <<x>> \o r
      BY <1>4, ScanAfter
    <2>2. p \in Seq(C) /\ After(q) \in Seq(C) /\ (~HasError(r) => IsWriting(After(q), r))
      BY <1>4
    <2>3. 1 \in 1 .. Len(q) + 1
      BY LenProperties
    <2>4. x \in ItemsOf(C) /\ r \in Seq(ItemsOf(C))
      BY <2>2, <2>3, ItemAtType, ScanType
    <2>5. ASSUME ~HasError(<<x>> \o r)
          PROVE  IsWriting(p, <<x>> \o r)
      <3>1. ~x.error /\ ~HasError(r)
        <4> HIDE DEF x, r
        <4> QED
          BY <2>4, <2>5, ErrorFirst
      <3>2. PICK b \in BOOLEAN : (b \/ x.fmt = <<>>) /\ p = Spelling(x, b) \o After(q)
        BY <3>1, ItemIsWritten
      <3> HIDE DEF x, r, p
      <3>3. IsWriting(Spelling(x, b) \o After(q), <<x>> \o r)
        BY <2>2, <2>4, <3>1, <3>2, WritingFirst
      <3> QED
        BY <3>2, <3>3
    <2> HIDE DEF r, x
    <2> QED
      BY <2>1, <2>2, <2>5
  <1> HIDE DEF I
  <1>5. \A p \in Seq(C) : p \in I
    BY <1>2, <1>3, <1>4, PatternInduction
  <1> QED
    BY <1>5 DEF I

-----------------------------------------------------------------------------
(* Patterns: what comes behind changes nothing before it                    *)

\* u is the pattern q with b behind it.
Longer(C, q, b, u) == q \in Seq(C) /\ b \in Seq(C) /\ u = q \o b

LEMMA LongerIs ==
  ASSUME NEW C, NEW q, NEW b, NEW u, Longer(C, q, b, u)
  PROVE  /\ q \in Seq(C) /\ b \in Seq(C) /\ u \in Seq(C)
         /\ Len(q) \in Nat /\ Len(b) \in Nat /\ Len(u) = Len(q) + Len(b)
         /\ \A m \in 1 .. Len(q) : m \in 1 .. Len(u) /\ u[m] = q[m]
         /\ \A m \in 1 .. Len(b) : u[Len(q) + m] = b[m]
         /\ \A m \in Len(q) + 1 .. Len(u) : m - Len(q) \in 1 .. Len(b) /\ u[m] = b[m - Len(q)]
  <1> q \in Seq(C) /\ b \in Seq(C) /\ u = q \o b
    BY DEF Longer
  <1>1. Len(q) \in Nat /\ Len(b) \in Nat
    BY LenProperties
  <1>2. /\ u \in Seq(C) /\ Len(u) = Len(q) + Len(b)
        /\ \A m \in 1 .. Len(u) : u[m] = IF m <= Len(q) THEN q[m] ELSE b[m - Len(q)]
    BY ConcatProperties
  <1>3. ASSUME NEW m \in 1 .. Len(q) PROVE m \in 1 .. Len(u) /\ u[m] = q[m]
    BY <1>1, <1>2
  <1>4. ASSUME NEW m \in 1 .. Len(b) PROVE u[Len(q) + m] = b[m]
    <2>1. Len(q) + m \in 1 .. Len(u) /\ ~(Len(q) + m <= Len(q)) /\ Len(q) + m - Len(q) = m
      BY <1>1, <1>2
    <2> QED
      BY <1>2, <2>1
  <1>5. ASSUME NEW m \in Len(q) + 1 .. Len(u)
        PROVE  m - Len(q) \in 1 .. Len(b) /\ u[m] = b[m - Len(q)]
    BY <1>1, <1>2
  <1> QED
    BY <1>1, <1>2, <1>3, <1>4, <1>5

NameLetters == Letters \cup {CloseBrace}

\* n is where the name ends that begins at i.
EndsName(n, p, i) == /\ n \in i .. Len(p) + 1
                     /\ \A m \in i .. n - 1 : p[m] \in NameLetters
                     /\ n <= Len(p) => p[n] \notin NameLetters

LEMMA NameEnds ==
  ASSUME NEW C, NEW p \in Seq(C)
  PROVE  /\ EndsName(NameEnd(p, 1), p, 1)
         /\ \A n : EndsName(n, p, 1) => n = NameEnd(p, 1)
  <1> DEFINE n == NameEnd(p, 1)
  <1>1. Len(p) \in Nat /\ 1 \in 1 .. Len(p) + 1
    BY LenProperties
  <1>2. EndsName(n, p, 1)
    BY <1>1, NameEndIs DEF EndsName, NameLetters
  <1> HIDE DEF n
  <1>3. ASSUME NEW k, EndsName(k, p, 1) PROVE k = n
    <2>1. n \in 1 .. Len(p) + 1 /\ k \in 1 .. Len(p) + 1
      BY <1>2, <1>3 DEF EndsName
    <2>2. ASSUME n < k PROVE FALSE
      <3>1. n \in 1 .. k - 1 /\ n <= Len(p)
        BY <1>1, <2>1, <2>2
      <3> QED
        BY <1>2, <1>3, <3>1 DEF EndsName
    <2>3. ASSUME k < n PROVE FALSE
      <3>1. k \in 1 .. n - 1 /\ k <= Len(p)
        BY <1>1, <2>1, <2>3
      <3> QED
        BY <1>2, <1>3, <3>1 DEF EndsName
    <2> QED
      BY <1>1, <2>1, <2>2, <2>3
  <1> QED
    BY <1>2, <1>3 DEF n

LEMMA NameGoesOn ==
  ASSUME NEW C, NEW q, NEW b, NEW u, Longer(C, q, b, u)
  PROVE  /\ NameEnd(q, 1) <= Len(q) => NameEnd(u, 1) = NameEnd(q, 1)
         /\ NameEnd(q, 1) = Len(q) + 1 /\ (b = <<>> \/ b[1] \notin NameLetters)
            => NameEnd(u, 1) = Len(q) + 1
         /\ NameEnd(q, 1) = Len(q) + 1 /\ b # <<>> /\ b[1] \in NameLetters
            => NameEnd(u, 1) > Len(q) + 1
  <1> DEFINE n == NameEnd(q, 1)
             k == NameEnd(u, 1)
  <1>1. /\ q \in Seq(C) /\ b \in Seq(C) /\ u \in Seq(C)
        /\ Len(q) \in Nat /\ Len(b) \in Nat /\ Len(u) = Len(q) + Len(b)
        /\ \A m \in 1 .. Len(q) : m \in 1 .. Len(u) /\ u[m] = q[m]
        /\ \A m \in 1 .. Len(b) : u[Len(q) + m] = b[m]
    BY LongerIs
  <1>2. b = <<>> => Len(b) = 0
    BY EmptySeq
  <1>3. b # <<>> => 1 \in 1 .. Len(b)
    BY <1>1, EmptySeq
  <1>4. EndsName(n, q, 1) /\ EndsName(k, u, 1) /\ \A m : EndsName(m, u, 1) => m = k
    BY <1>1, NameEnds
  <1> HIDE DEF n, k
  <1>5. n \in 1 .. Len(q) + 1 /\ k \in 1 .. Len(u) + 1
    BY <1>4 DEF EndsName
  <1>6. \A m \in 1 .. n - 1 : u[m] \in NameLetters
    <2>1. ASSUME NEW m \in 1 .. n - 1 PROVE u[m] \in NameLetters
      <3>1. m \in 1 .. Len(q)
        BY <1>1, <1>5
      <3> QED
        BY <1>1, <1>4, <3>1 DEF EndsName
    <2> QED
      BY <2>1
  <1>7. ASSUME n <= Len(q) PROVE k = n
    <2>1. n \in 1 .. Len(q) /\ n \in 1 .. Len(u) + 1
      BY <1>1, <1>5, <1>7
    <2>2. u[n] \notin NameLetters
      BY <1>1, <1>4, <1>7, <2>1 DEF EndsName
    <2>3. EndsName(n, u, 1)
      BY <1>6, <2>1, <2>2 DEF EndsName
    <2> QED
      BY <1>4, <2>3
  <1>8. ASSUME n = Len(q) + 1, b = <<>> \/ b[1] \notin NameLetters PROVE k = n
    <2>1. n \in 1 .. Len(u) + 1
      BY <1>1, <1>8
    <2>2. n <= Len(u) => u[n] \notin NameLetters
      BY <1>1, <1>2, <1>3, <1>8
    <2>3. EndsName(n, u, 1)
      BY <1>6, <2>1, <2>2 DEF EndsName
    <2> QED
      BY <1>4, <2>3
  <1>9. ASSUME n = Len(q) + 1, b # <<>>, b[1] \in NameLetters PROVE k > Len(q) + 1
    <2>1. ASSUME k <= n PROVE FALSE
      <3>1. k <= Len(u) /\ n <= Len(u) /\ (k = n \/ k \in 1 .. n - 1)
        BY <1>1, <1>3, <1>5, <1>9, <2>1
      <3>2. u[n] \in NameLetters
        BY <1>1, <1>3, <1>9
      <3>3. u[k] \in NameLetters
        BY <1>6, <3>1, <3>2
      <3> QED
        BY <1>4, <3>1, <3>3 DEF EndsName
    <2> QED
      BY <1>1, <1>5, <1>9, <2>1
  <1> QED
    BY <1>7, <1>8, <1>9 DEF n, k

LEMMA FindGoesOn ==
  ASSUME NEW C, NEW q, NEW b, NEW u, Longer(C, q, b, u), NEW n \in 1 .. Len(q) + 1,
         NEW R, Find(q, n, R) <= Len(q)
  PROVE  Find(u, n, R) = Find(q, n, R)
  <1> DEFINE k == Find(q, n, R)
             m == Find(u, n, R)
  <1>1. /\ Len(q) \in Nat /\ Len(u) \in Nat /\ Len(q) <= Len(u)
        /\ \A j \in 1 .. Len(q) : u[j] = q[j]
    <2>1. /\ Len(q) \in Nat /\ Len(b) \in Nat /\ Len(u) = Len(q) + Len(b)
          /\ \A j \in 1 .. Len(q) : u[j] = q[j]
      BY LongerIs
    <2> QED
      BY <2>1
  <1>2. n \in 1 .. Len(u) + 1
    BY <1>1
  <1>3. IsFirst(k, q, n, R) /\ IsFirst(m, u, n, R)
    BY <1>1, <1>2, FindIsFirst
  <1>4. k <= Len(q)
    OBVIOUS
  <1> HIDE DEF k, m
  <1>5. k \in n .. Len(q) + 1
    BY <1>3 DEF IsFirst
  <1>6. k \in n .. Len(u) + 1 /\ k \in 1 .. Len(q)
    BY <1>1, <1>4, <1>5
  <1>7. ASSUME NEW j \in n .. k - 1 PROVE u[j] \notin R
    <2>1. j \in 1 .. Len(q)
      BY <1>1, <1>6
    <2> QED
      BY <1>1, <1>3, <2>1 DEF IsFirst
  <1>8. u[k] \in R
    BY <1>1, <1>3, <1>4, <1>6 DEF IsFirst
  <1>9. IsFirst(k, u, n, R)
    BY <1>6, <1>7, <1>8 DEF IsFirst
  <1>10. k = m
    BY <1>1, <1>2, <1>3, <1>9, FirstIsOne
  <1> QED
    BY <1>10 DEF k, m

LEMMA PartGoesOn ==
  ASSUME NEW C, NEW q, NEW b, NEW u, Longer(C, q, b, u),
         NEW i \in 1 .. Len(q) + 1, NEW k \in Int, k <= Len(q)
  PROVE  Part(u, i, k) = Part(q, i, k)
  <1>1. /\ Len(q) \in Nat /\ \A j \in 1 .. Len(q) : u[j] = q[j]
    BY LongerIs
  <1>2. Part(u, i, k) = [j \in 1 .. k - i + 1 |-> u[i + j - 1]]
    BY DEF Part
  <1>3. Part(q, i, k) = [j \in 1 .. k - i + 1 |-> q[i + j - 1]]
    BY DEF Part
  <1>4. ASSUME NEW j \in 1 .. k - i + 1 PROVE u[i + j - 1] = q[i + j - 1]
    <2>1. i + j - 1 \in 1 .. Len(q)
      BY <1>1
    <2> QED
      BY <1>1, <2>1
  <1> QED
    BY <1>2, <1>3, <1>4

LEMMA FromGoesOn ==
  ASSUME NEW C, NEW q, NEW b, NEW u, Longer(C, q, b, u), NEW i \in 1 .. Len(q) + 1
  PROVE  From(u, i) = From(q, i) \o b
  <1>1. /\ q \in Seq(C) /\ b \in Seq(C) /\ u \in Seq(C)
        /\ Len(q) \in Nat /\ Len(b) \in Nat /\ Len(u) = Len(q) + Len(b)
        /\ \A m \in 1 .. Len(q) : m \in 1 .. Len(u) /\ u[m] = q[m]
        /\ \A m \in 1 .. Len(b) : u[Len(q) + m] = b[m]
    BY LongerIs
  <1> DEFINE s == From(u, i)
             r == From(q, i)
             t == r \o b
  <1>2. s \in Seq(C) /\ Len(s) = Len(u) + 1 - i /\ \A k \in 1 .. Len(u) + 1 - i : s[k] = u[i + k - 1]
    BY <1>1 DEF From
  <1>3. r \in Seq(C) /\ Len(r) = Len(q) + 1 - i /\ \A k \in 1 .. Len(q) + 1 - i : r[k] = q[i + k - 1]
    BY <1>1 DEF From
  <1> HIDE DEF s, r
  <1>4. /\ t \in Seq(C) /\ Len(t) = Len(s)
        /\ \A k \in 1 .. Len(s) : t[k] = IF k <= Len(r) THEN r[k] ELSE b[k - Len(r)]
    <2>1. /\ t \in Seq(C) /\ Len(t) = Len(r) + Len(b)
          /\ \A k \in 1 .. Len(r) + Len(b) : t[k] = IF k <= Len(r) THEN r[k] ELSE b[k - Len(r)]
      BY <1>1, <1>3, ConcatProperties
    <2>2. Len(r) + Len(b) = Len(s)
      BY <1>1, <1>2, <1>3
    <2> QED
      BY <2>1, <2>2
  <1> HIDE DEF t
  <1>5. ASSUME NEW k \in 1 .. Len(s) PROVE s[k] = t[k]
    <2>1. CASE k <= Len(r)
      <3>1. k \in 1 .. Len(u) + 1 - i /\ k \in 1 .. Len(q) + 1 - i /\ i + k - 1 \in 1 .. Len(q)
        BY <1>1, <1>2, <1>3, <2>1
      <3> QED
        BY <1>1, <1>2, <1>3, <1>4, <2>1, <3>1
    <2>2. CASE ~(k <= Len(r))
      <3> DEFINE m == k - Len(r)
      <3>1. k \in 1 .. Len(u) + 1 - i /\ m \in 1 .. Len(b) /\ i + k - 1 = Len(q) + m
        BY <1>1, <1>2, <1>3, <2>2
      <3>2. s[k] = u[Len(q) + m]
        BY <1>2, <3>1
      <3> QED
        BY <1>1, <1>4, <2>2, <3>1, <3>2
    <2> QED
      BY <2>1, <2>2
  <1>6. s = t
    BY <1>2, <1>4, <1>5, SeqEqual
  <1> QED
    BY <1>6 DEF s, t, r

\* What ItemAt finds, given where the name ends and a brace closes.
Finds(C, q, n, close) == q \in Seq(C) /\ n = NameEnd(q, 1) /\ close = Find(q, n, {CloseBrace})

LEMMA ItemFound ==
  ASSUME NEW C, NEW q, NEW n, NEW close, Finds(C, q, n, close)
  PROVE  /\ n \in 1 .. Len(q) + 1 /\ close \in n .. Len(q) + 1 /\ Len(q) \in Nat
         /\ n > Len(q) \/ q[n] # OpenBrace =>
              ItemAt(q, 1)[1] = Item(Part(q, 1, n - 1), <<>>) /\ ItemAt(q, 1)[2] = n
         /\ n <= Len(q) /\ q[n] = OpenBrace /\ close > Len(q) =>
              ItemAt(q, 1)[1] = Unclosed /\ ItemAt(q, 1)[2] = close
         /\ n <= Len(q) /\ q[n] = OpenBrace /\ close <= Len(q) =>
              /\ q[close] = CloseBrace /\ n < close
              /\ ItemAt(q, 1)[1] = Item(Part(q, 1, n - 1), Part(q, n + 1, close - 1))
              /\ ItemAt(q, 1)[2] = close + 1
  <1> q \in Seq(C) /\ n = NameEnd(q, 1) /\ close = Find(q, n, {CloseBrace})
    BY DEF Finds
  <1>1. 1 \in 1 .. Len(q) + 1 /\ Len(q) \in Nat
    BY LenProperties
  <1>2. /\ n \in 1 .. Len(q) + 1 /\ close \in n .. Len(q) + 1
        /\ close <= Len(q) => q[close] = CloseBrace /\ n < close
    BY <1>1, NameEndIs
  <1>3. ItemAt(q, 1) = IF n > Len(q) \/ q[n] # OpenBrace THEN <<Item(Part(q, 1, n - 1), <<>>), n>>
                       ELSE IF close > Len(q) THEN <<Unclosed, close>>
                       ELSE <<Item(Part(q, 1, n - 1), Part(q, n + 1, close - 1)), close + 1>>
    BY DEF ItemAt, Part
  <1>4. CASE n > Len(q) \/ q[n] # OpenBrace
    BY <1>1, <1>2, <1>3, <1>4
  <1>5. CASE ~(n > Len(q) \/ q[n] # OpenBrace) /\ close > Len(q)
    BY <1>1, <1>2, <1>3, <1>5
  <1>6. CASE ~(n > Len(q) \/ q[n] # OpenBrace) /\ ~(close > Len(q))
    BY <1>1, <1>2, <1>3, <1>6
  <1> QED
    BY <1>4, <1>5, <1>6

\* An item that does not reach the end of the pattern stays what it is when the
\* pattern goes on.
LEMMA ItemGoesOn ==
  ASSUME NEW C, NEW q, NEW b, NEW u, Longer(C, q, b, u), After(q) # <<>>
  PROVE  ItemAt(u, 1)[1] = ItemAt(q, 1)[1] /\ After(u) = After(q) \o b
  <1> DEFINE n == NameEnd(q, 1)
             close == Find(q, n, {CloseBrace})
             k == ItemAt(q, 1)[2]
             x == ItemAt(q, 1)[1]
             n2 == NameEnd(u, 1)
             close2 == Find(u, n2, {CloseBrace})
  <1>1. /\ q \in Seq(C) /\ u \in Seq(C) /\ Len(q) \in Nat /\ Len(u) \in Nat /\ Len(q) <= Len(u)
        /\ \A m \in 1 .. Len(q) : m \in 1 .. Len(u) /\ u[m] = q[m]
    <2>1. /\ q \in Seq(C) /\ u \in Seq(C)
          /\ Len(q) \in Nat /\ Len(b) \in Nat /\ Len(u) = Len(q) + Len(b)
          /\ \A m \in 1 .. Len(q) : m \in 1 .. Len(u) /\ u[m] = q[m]
      BY LongerIs
    <2> QED
      BY <2>1
  <1>2. k \in 1 .. Len(q)
    <2> HIDE DEF k
    <2>1. k \in 1 .. Len(q) + 1 /\ Len(After(q)) = Len(q) + 1 - k /\ After(q) \in Seq(C)
      BY <1>1, AfterType DEF k
    <2>2. Len(After(q)) \in Nat \ {0}
      BY <2>1, EmptySeq
    <2> QED
      BY <1>1, <2>1, <2>2
  <1>3. n <= Len(q) => n2 = n
    BY NameGoesOn
  <1>4. Finds(C, q, n, close) /\ Finds(C, u, n2, close2)
    BY <1>1 DEF Finds
  <1>5. close = Find(q, n, {CloseBrace}) /\ close2 = Find(u, n2, {CloseBrace})
    OBVIOUS
  <1> HIDE DEF n, close, n2, close2
  <1>6. /\ n \in 1 .. Len(q) + 1 /\ close \in n .. Len(q) + 1
        /\ n > Len(q) \/ q[n] # OpenBrace => x = Item(Part(q, 1, n - 1), <<>>) /\ k = n
        /\ n <= Len(q) /\ q[n] = OpenBrace /\ close > Len(q) => x = Unclosed /\ k = close
        /\ n <= Len(q) /\ q[n] = OpenBrace /\ close <= Len(q) =>
             n < close /\ x = Item(Part(q, 1, n - 1), Part(q, n + 1, close - 1)) /\ k = close + 1
    BY <1>4, ItemFound
  <1>7. /\ n2 > Len(u) \/ u[n2] # OpenBrace =>
             ItemAt(u, 1)[1] = Item(Part(u, 1, n2 - 1), <<>>) /\ ItemAt(u, 1)[2] = n2
        /\ n2 <= Len(u) /\ u[n2] = OpenBrace /\ close2 <= Len(u) =>
             /\ ItemAt(u, 1)[1] = Item(Part(u, 1, n2 - 1), Part(u, n2 + 1, close2 - 1))
             /\ ItemAt(u, 1)[2] = close2 + 1
    BY <1>4, ItemFound
  <1>8. close <= Len(q) /\ n2 = n => close2 = close
    <2> DEFINE R == {CloseBrace}
    <2>1. close = Find(q, n, R) /\ close2 = Find(u, n2, R)
      BY <1>5
    <2> HIDE DEF R
    <2>2. ASSUME close <= Len(q) PROVE Find(u, n, R) = close
      BY <1>6, <2>1, <2>2, FindGoesOn
    <2> QED
      BY <2>1, <2>2
  <1> HIDE DEF k, x
  <1>9. n <= Len(q)
    BY <1>1, <1>2, <1>6
  <1>10. n2 = n /\ u[n] = q[n] /\ n <= Len(u)
    BY <1>1, <1>6, <1>3, <1>9
  <1>11. Part(u, 1, n - 1) = Part(q, 1, n - 1)
    <2> DEFINE e == n - 1
    <2>1. e \in Int /\ e <= Len(q) /\ 1 \in 1 .. Len(q) + 1
      BY <1>1, <1>6
    <2> HIDE DEF e
    <2>2. Part(u, 1, e) = Part(q, 1, e)
      BY <2>1, PartGoesOn
    <2> QED
      BY <2>2 DEF e
  <1>12. From(u, k) = From(q, k) \o b
    <2>1. k \in 1 .. Len(q) + 1
      BY <1>1, <1>2
    <2> QED
      BY <2>1, FromGoesOn
  <1>13. ItemAt(u, 1)[1] = x /\ ItemAt(u, 1)[2] = k
    <2>1. CASE q[n] # OpenBrace
      BY <1>6, <1>7, <1>10, <1>11, <2>1
    <2>2. CASE q[n] = OpenBrace
      <3>1. close <= Len(q)
        BY <1>1, <1>2, <1>6, <1>9, <2>2
      <3>2. close2 = close /\ close2 <= Len(u)
        BY <1>1, <1>6, <1>8, <1>10, <3>1
      <3>3. Part(u, n + 1, close - 1) = Part(q, n + 1, close - 1)
        <4> DEFINE i == n + 1
                   e == close - 1
        <4>1. e \in Int /\ e <= Len(q) /\ i \in 1 .. Len(q) + 1
          BY <1>1, <1>6, <1>9, <3>1
        <4> HIDE DEF e, i
        <4>2. Part(u, i, e) = Part(q, i, e)
          BY <4>1, PartGoesOn
        <4> QED
          BY <4>2 DEF e, i
      <3> QED
        BY <1>6, <1>7, <1>9, <1>10, <1>11, <2>2, <3>1, <3>2, <3>3
    <2> QED
      BY <2>1, <2>2
  <1> QED
    BY <1>12, <1>13 DEF After, k, x

-----------------------------------------------------------------------------
(* Patterns: an error is a brace that is never closed                       *)

\* The items r end in one that is not closed; when it is, it is x.
Repairs(C, p, r, x) == /\ r \in Seq(ItemsOf(C)) /\ x \in ItemsOf(C)
                       /\ x.item /\ ~x.error /\ ~HasError(r)
                       /\ Scan(p) = r \o <<Unclosed>>
                       /\ Scan(p \o <<CloseBrace>>) = r \o <<x>>

\* An item that is not closed is the last one, and is closed by a brace behind it.
LEMMA OpenIsClosed ==
  ASSUME NEW C, CloseBrace \in C, NEW q \in Seq(C), ItemAt(q, 1)[1].error
  PROVE  /\ ItemAt(q, 1)[1] = Unclosed /\ After(q) = <<>> /\ After(q \o <<CloseBrace>>) = <<>>
         /\ ~ItemAt(q \o <<CloseBrace>>, 1)[1].error
  <1> DEFINE b == <<CloseBrace>>
             u == q \o b
             n == NameEnd(q, 1)
             close == Find(q, n, {CloseBrace})
             n2 == NameEnd(u, 1)
             close2 == Find(u, n2, {CloseBrace})
  <1>1. Longer(C, q, b, u)
    BY DEF Longer
  <1>2. Len(b) = 1 /\ b[1] = CloseBrace
    OBVIOUS
  <1> HIDE DEF b, u
  <1>3. /\ u \in Seq(C) /\ Len(q) \in Nat /\ Len(u) = Len(q) + 1 /\ u[Len(q) + 1] = CloseBrace
        /\ \A m \in 1 .. Len(q) : m \in 1 .. Len(u) /\ u[m] = q[m]
    <2>1. /\ u \in Seq(C) /\ Len(q) \in Nat /\ Len(u) = Len(q) + Len(b)
          /\ \A m \in 1 .. Len(q) : m \in 1 .. Len(u) /\ u[m] = q[m]
          /\ \A m \in 1 .. Len(b) : u[Len(q) + m] = b[m]
      BY <1>1, LongerIs
    <2> QED
      BY <1>2, <2>1
  <1>4. Finds(C, q, n, close) /\ Finds(C, u, n2, close2)
    BY <1>3 DEF Finds
  <1>5. /\ n \in 1 .. Len(q) + 1 /\ close \in n .. Len(q) + 1
        /\ n > Len(q) \/ q[n] # OpenBrace => ~ItemAt(q, 1)[1].error
        /\ n <= Len(q) /\ q[n] = OpenBrace /\ close > Len(q) =>
             ItemAt(q, 1)[1] = Unclosed /\ ItemAt(q, 1)[2] = close
        /\ n <= Len(q) /\ q[n] = OpenBrace /\ close <= Len(q) => ~ItemAt(q, 1)[1].error
    <2> HIDE DEF n, close
    <2>1. \A t, f : ~Item(t, f).error
      BY DEF Item
    <2>2. /\ n \in 1 .. Len(q) + 1 /\ close \in n .. Len(q) + 1
          /\ n > Len(q) \/ q[n] # OpenBrace => ItemAt(q, 1)[1] = Item(Part(q, 1, n - 1), <<>>)
          /\ n <= Len(q) /\ q[n] = OpenBrace /\ close > Len(q) =>
               ItemAt(q, 1)[1] = Unclosed /\ ItemAt(q, 1)[2] = close
          /\ n <= Len(q) /\ q[n] = OpenBrace /\ close <= Len(q) =>
               ItemAt(q, 1)[1] = Item(Part(q, 1, n - 1), Part(q, n + 1, close - 1))
      BY <1>4, ItemFound
    <2> QED
      BY <2>1, <2>2
  <1>6. n <= Len(q) /\ q[n] = OpenBrace /\ close = Len(q) + 1
    BY <1>3, <1>5
  <1>7. n2 = n
    BY <1>1, <1>6, NameGoesOn
  <1>8. close2 = Len(u)
    <2> DEFINE R == {CloseBrace}
    <2>1. n \in 1 .. Len(q) + 1 /\ n \in 1 .. Len(u) + 1 /\ Len(u) \in Nat
      BY <1>3, <1>5
    <2>2. IsFirst(close, q, n, R)
      BY <1>3, <2>1, FindIsFirst
    <2>3. IsFirst(close2, u, n, R)
      BY <1>3, <1>7, <2>1, FindIsFirst
    <2> HIDE DEF R, close2, close, n
    <2>4. ASSUME NEW m \in n .. Len(u) - 1 PROVE u[m] \notin R
      <3>1. m \in n .. close - 1 /\ m \in 1 .. Len(q)
        BY <1>3, <1>6, <2>1, <2>4
      <3> QED
        BY <1>3, <2>2, <3>1 DEF IsFirst
    <2>5. u[Len(u)] \in R
      BY <1>3 DEF R
    <2>6. IsFirst(Len(u), u, n, R)
      <3>1. Len(u) \in n .. Len(u) + 1
        BY <1>3, <1>6, <2>1
      <3> QED
        BY <2>4, <2>5, <3>1 DEF IsFirst
    <2> DEFINE e == Len(u)
    <2>7. IsFirst(e, u, n, R)
      BY <2>6
    <2> HIDE DEF e
    <2>8. e = close2
      BY <2>1, <2>3, <2>7, FirstIsOne
    <2> QED
      BY <2>8 DEF e
  <1>9. n2 <= Len(u) /\ u[n2] = OpenBrace /\ close2 <= Len(u)
    BY <1>3, <1>5, <1>6, <1>7, <1>8
  <1>10. /\ ItemAt(u, 1)[1] = Item(Part(u, 1, n2 - 1), Part(u, n2 + 1, close2 - 1))
        /\ ItemAt(u, 1)[2] = close2 + 1
    <2> HIDE DEF n2, close2
    <2> QED
      BY <1>9, <1>4, ItemFound
  <1>11. \A p \in Seq(C) : ItemAt(p, 1)[2] = Len(p) + 1 => After(p) = <<>>
    <2> TAKE p \in Seq(C)
    <2> HAVE ItemAt(p, 1)[2] = Len(p) + 1
    <2> DEFINE k == ItemAt(p, 1)[2]
    <2>1. Len(p) \in Nat /\ k = Len(p) + 1
      BY LenProperties
    <2> HIDE DEF k
    <2>2. After(p) \in Seq(C) /\ Len(After(p)) = Len(p) + 1 - k
      BY AfterType DEF k
    <2>3. Len(After(p)) = 0
      BY <2>1, <2>2
    <2> QED
      BY <2>2, <2>3, EmptySeq
  <1>12. After(q) = <<>> /\ After(u) = <<>>
    BY <1>3, <1>5, <1>6, <1>8, <1>10, <1>11
  <1>13. ~ItemAt(u, 1)[1].error
    BY <1>10 DEF Item
  <1> QED
    BY <1>5, <1>6, <1>12, <1>13 DEF u, b

LEMMA CharacterType ==
  ASSUME NEW C, NEW c \in C
  PROVE  Text(<<c>>) \in ItemsOf(C) /\ ~Text(<<c>>).item /\ ~Text(<<c>>).error
  <1>1. <<c>> \in StringsOver(C)
    BY DEF StringsOver
  <1> QED
    BY <1>1, TextType

\* A character goes in front of what comes first, whatever follows.
InFront(C, c, r, s) == /\ c \in C /\ r \in Seq(ItemsOf(C)) /\ s \in Seq(ItemsOf(C))
                       /\ r # <<>> \/ s = <<>> \/ s[1].item

LEMMA LiteralBefore ==
  ASSUME NEW C, NEW c, NEW r, NEW s, InFront(C, c, r, s)
  PROVE  Literal(c, r \o s) = Literal(c, r) \o s
  <1> /\ c \in C /\ r \in Seq(ItemsOf(C)) /\ s \in Seq(ItemsOf(C))
      /\ r # <<>> \/ s = <<>> \/ s[1].item
    BY DEF InFront
  <1> DEFINE y == Text(<<c>>)
  <1>1. y \in ItemsOf(C)
    BY CharacterType
  <1>2. CASE r = <<>>
    <2>1. r \o s = s /\ Literal(c, s) = <<y>> \o s /\ Literal(c, r) = <<y>> \o r
      BY <1>2 DEF Literal
    <2> HIDE DEF y
    <2>2. <<y>> \o r = <<y>>
      BY <1>1, <1>2
    <2> QED
      BY <2>1, <2>2
  <1>3. CASE r # <<>>
    <2> DEFINE x == r[1]
               t == Tail(r)
               z == Text(<<c>> \o x.str)
               u == r \o s
    <2>1. x \in ItemsOf(C) /\ t \in Seq(ItemsOf(C)) /\ r = <<x>> \o t
      BY <1>3
    <2>2. u # <<>> /\ u[1] = x /\ Tail(u) = t \o s
      <3> HIDE DEF x, t
      <3>1. Three(ItemsOf(C), <<x>>, t, s)
        BY <2>1 DEF Three
      <3>2. u = <<x>> \o (t \o s) /\ t \o s \in Seq(ItemsOf(C))
        BY <2>1, <3>1, JoinedAnyhow DEF Joined
      <3> HIDE DEF u
      <3> DEFINE w == t \o s
      <3>3. w \in Seq(ItemsOf(C)) /\ u = <<x>> \o w
        BY <3>2
      <3> HIDE DEF w
      <3>4. u # <<>> /\ u[1] = x /\ Tail(u) = w
        BY <2>1, <3>3, FirstAndRest
      <3> QED
        BY <3>4 DEF w
    <2>3. CASE x.item
      <3>1. Literal(c, u) = <<y>> \o u /\ Literal(c, r) = <<y>> \o r
        BY <1>3, <2>2, <2>3 DEF Literal
      <3> HIDE DEF y
      <3>2. Three(ItemsOf(C), <<y>>, r, s)
        BY <1>1 DEF Three
      <3>3. <<y>> \o (r \o s) = (<<y>> \o r) \o s
        BY <3>2, JoinedAnyhow DEF Joined
      <3> QED
        BY <3>1, <3>3
    <2>4. CASE ~x.item
      <3>1. Literal(c, u) = <<z>> \o Tail(u) /\ Literal(c, r) = <<z>> \o t
        BY <1>3, <2>2, <2>4 DEF Literal
      <3>2. z \in ItemsOf(C)
        <4>1. x.str \in StringsOver(C)
          BY <2>1 DEF ItemsOf, StringsOver
        <4> HIDE DEF x
        <4>2. <<c>> \o x.str \in StringsOver(C)
          BY <4>1, LongerText
        <4> QED
          BY <4>2, TextType
      <3> HIDE DEF z, t, u
      <3>3. Three(ItemsOf(C), <<z>>, t, s)
        BY <2>1, <3>2 DEF Three
      <3>4. <<z>> \o (t \o s) = (<<z>> \o t) \o s
        BY <3>3, JoinedAnyhow DEF Joined
      <3>5. Literal(c, u) = Literal(c, r) \o s
        BY <2>2, <3>1, <3>4
      <3> QED
        BY <3>5 DEF u
    <2> QED
      BY <2>3, <2>4
  <1> QED
    BY <1>2, <1>3

\* A character in front is no error.
LEMMA LiteralError ==
  ASSUME NEW C, NEW c \in C, NEW r \in Seq(ItemsOf(C)), HasError(Literal(c, r))
  PROVE  HasError(r)
  <1>1. CASE r = <<>> \/ r[1].item
    <2> DEFINE y == Text(<<c>>)
    <2>1. y \in ItemsOf(C) /\ ~y.error
      BY CharacterType
    <2>2. Literal(c, r) = <<y>> \o r
      BY <1>1 DEF Literal
    <2> HIDE DEF y
    <2>3. HasError(<<y>> \o r)
      BY <2>2
    <2> QED
      BY <2>1, <2>3, ErrorFirst
  <1>2. CASE r # <<>> /\ ~r[1].item
    <2> DEFINE x == r[1]
               t == Tail(r)
               z == Text(<<c>> \o x.str)
    <2>1. x \in ItemsOf(C) /\ t \in Seq(ItemsOf(C)) /\ r = <<x>> \o t
      BY <1>2
    <2>2. Literal(c, r) = <<z>> \o t
      BY <1>2 DEF Literal
    <2>3. z \in ItemsOf(C) /\ ~z.error
      <3>1. x.str \in StringsOver(C)
        BY <2>1 DEF ItemsOf, StringsOver
      <3> HIDE DEF x
      <3>2. <<c>> \o x.str \in StringsOver(C)
        BY <3>1, LongerText
      <3> QED
        BY <3>2, TextType
    <2> HIDE DEF x, t, z
    <2>4. HasError(<<z>> \o t)
      BY <2>2
    <2>5. HasError(t)
      BY <2>1, <2>3, <2>4, ErrorFirst
    <2>6. HasError(<<x>> \o t)
      BY <2>1, <2>5, ErrorFirst
    <2> QED
      BY <2>1, <2>6
  <1> QED
    BY <1>1, <1>2

\* The items and the one behind them.
LEMMA RestAndLast ==
  ASSUME NEW S, NEW r \in Seq(S), NEW y \in S
  PROVE  LET s == r \o <<y>> IN
         /\ s \in Seq(S) /\ s # <<>> /\ Len(s) = Len(r) + 1 /\ Last(s) = y /\ Front(s) = r
         /\ HasError(s) => HasError(r) \/ y.error
  <1> DEFINE s == r \o <<y>>
             n == Len(r)
  <1>1. n \in Nat /\ r \in [1 .. n -> S]
    BY LenProperties
  <1>2. s \in Seq(S) /\ Len(s) = n + 1 /\ \A k \in 1 .. n : s[k] = r[k]
    OBVIOUS
  <1>3. s[n + 1] = y
    OBVIOUS
  <1> HIDE DEF s
  <1>4. Last(s) = y
    BY <1>2, <1>3 DEF Last
  <1>5. Front(s) = r
    <2>1. SubSeq(s, 1, n) = [k \in 1 .. n |-> s[k]]
      BY <1>1, <1>2
    <2>2. [k \in 1 .. n |-> s[k]] = r
      BY <1>1, <1>2
    <2>3. Len(s) - 1 = n
      BY <1>1, <1>2
    <2> QED
      BY <2>1, <2>2, <2>3 DEF Front
  <1>6. s # <<>>
    BY <1>1, <1>2
  <1>7. ASSUME HasError(s) PROVE HasError(r) \/ y.error
    <2>1. DOMAIN s = 1 .. n + 1 /\ DOMAIN r = 1 .. n
      BY <1>1, <1>2
    <2>2. PICK k \in 1 .. n + 1 : s[k].error
      BY <1>7, <2>1 DEF HasError
    <2>3. CASE k = n + 1
      BY <1>3, <2>2, <2>3
    <2>4. CASE k # n + 1
      <3>1. k \in 1 .. n
        BY <1>1, <2>4
      <3> QED
        BY <1>2, <2>1, <2>2, <3>1 DEF HasError
    <2> QED
      BY <2>3, <2>4
  <1> QED
    BY <1>2, <1>4, <1>5, <1>6, <1>7 DEF s

LEMMA EmptyHasNoError == ~HasError(<<>>)
  BY DEF HasError

LEMMA UnclosedType == \A C : Unclosed \in ItemsOf(C) /\ Unclosed.item /\ Unclosed.error
  <1> TAKE C
  <1>1. <<>> \in Seq(C) /\ <<"<<error>>">> \in Seq(C \cup {"<<error>>"})
    OBVIOUS
  <1> QED
    BY <1>1 DEF Unclosed, ItemsOf

\* In a pattern with an error one brace is open, and closing it repairs the item.
LEMMA ErrorIsRepaired ==
  ASSUME NEW C, "%" \in C, CloseBrace \in C
  PROVE  \A p \in Seq(C) : HasError(Scan(p)) => \E r, x : Repairs(C, p, r, x)
  <1> DEFINE b == <<CloseBrace>>
             I == {p \in Seq(C) : HasError(Scan(p)) => \E r, x : Repairs(C, p, r, x)}
  <1>1. <<>> \in I
    <2>1. <<>> \in Seq(C)
      OBVIOUS
    <2> QED
      BY <2>1, ScanEmpty, EmptyHasNoError
  <1>2. b \in Seq(C)
    OBVIOUS
  <1>3. ASSUME NEW c \in C, NEW q \in Seq(C), q \in I
        PROVE  Escape(c) \o q \in I
    <2> DEFINE e == Escape(c)
               p == e \o q
    <2>1. e \in Seq(C) /\ p \in Seq(C)
      BY DEF Escape
    <2>2. Scan(p) = Literal(c, Scan(q)) /\ Scan(q) \in Seq(ItemsOf(C))
      BY ScanCharacter, ScanType
    <2>3. ASSUME HasError(Scan(p))
          PROVE  \E r, x : Repairs(C, p, r, x)
      <3>1. HasError(Scan(q))
        <4> DEFINE s == Scan(q)
        <4>1. s \in Seq(ItemsOf(C)) /\ HasError(Literal(c, s))
          BY <2>2, <2>3
        <4> HIDE DEF s
        <4>2. HasError(s)
          BY <4>1, LiteralError
        <4> QED
          BY <4>2 DEF s
      <3>2. PICK r, x : Repairs(C, q, r, x)
        BY <1>3, <3>1
      <3>3. /\ r \in Seq(ItemsOf(C)) /\ x \in ItemsOf(C) /\ x.item /\ ~x.error /\ ~HasError(r)
            /\ Scan(q) = r \o <<Unclosed>> /\ Scan(q \o b) = r \o <<x>>
        BY <3>2 DEF Repairs
      <3>4. \A y \in ItemsOf(C) : y.item => Literal(c, r \o <<y>>) = Literal(c, r) \o <<y>>
        <4> TAKE y \in ItemsOf(C)
        <4> HAVE y.item
        <4> DEFINE s == <<y>>
        <4>1. s \in Seq(ItemsOf(C)) /\ s[1].item
          OBVIOUS
        <4>2. InFront(C, c, r, s)
          BY <3>3, <4>1 DEF InFront
        <4> HIDE DEF s
        <4>3. Literal(c, r \o s) = Literal(c, r) \o s
          BY <4>2, LiteralBefore
        <4> QED
          BY <4>3 DEF s
      <3>5. Scan(p) = Literal(c, r) \o <<Unclosed>>
        BY <2>2, <3>3, <3>4, UnclosedType
      <3>6. Scan(p \o b) = Literal(c, r) \o <<x>>
        <4>1. p \o b = e \o (q \o b) /\ q \o b \in Seq(C)
          <5>1. Three(C, e, q, b)
            BY <1>2, <2>1 DEF Three
          <5> HIDE DEF e, b
          <5> QED
            BY <5>1, JoinedAnyhow DEF Joined
        <4> DEFINE t == q \o b
        <4>2. t \in Seq(C) /\ p \o b = e \o t
          BY <4>1
        <4> HIDE DEF t
        <4>3. Scan(e \o t) = Literal(c, Scan(t))
          BY <4>2, ScanCharacter
        <4>4. Scan(t) = r \o <<x>>
          BY <3>3 DEF t
        <4> QED
          BY <3>3, <3>4, <4>2, <4>3, <4>4
      <3>7. Literal(c, r) \in Seq(ItemsOf(C)) /\ ~HasError(Literal(c, r))
        BY <3>3, LiteralType, LiteralError
      <3>8. Repairs(C, p, Literal(c, r), x)
        BY <3>3, <3>5, <3>6, <3>7 DEF Repairs
      <3> QED
        BY <3>8
    <2> QED
      BY <2>1, <2>3
  <1>4. ASSUME NEW q \in Seq(C), StartsItem(q), After(q) \in I
        PROVE  <<"%">> \o q \in I
    <2> DEFINE z == <<"%">>
               p == z \o q
               u == q \o b
               x0 == ItemAt(q, 1)[1]
               a == After(q)
    <2>1. z \in Seq(C) /\ p \in Seq(C) /\ u \in Seq(C) /\ a \in Seq(C)
      BY <1>2, <1>4
    <2>2. x0 \in ItemsOf(C) /\ x0.item /\ Scan(a) \in Seq(ItemsOf(C)) /\ Scan(p) = <<x0>> \o Scan(a)
      <3>1. 1 \in 1 .. Len(q) + 1
        BY LenProperties
      <3> QED
        BY <1>4, <2>1, <3>1, ItemAtType, ScanType, ScanAfter
    <2>3. p \o b = z \o u
      <3>1. Three(C, z, q, b)
        BY <1>2, <2>1 DEF Three
      <3> HIDE DEF z, b
      <3> QED
        BY <3>1, JoinedAnyhow DEF Joined
    <2>4. StartsItem(u)
      <3>1. q = <<>> => u[1] = CloseBrace
        OBVIOUS
      <3>2. q # <<>> => u[1] = q[1]
        OBVIOUS
      <3> QED
        BY <1>4, <3>1, <3>2, BracesDiffer DEF StartsItem
    <2>5. Scan(p \o b) = <<ItemAt(u, 1)[1]>> \o Scan(After(u))
      <3> HIDE DEF u, p
      <3> QED
        BY <2>1, <2>3, <2>4, ScanAfter
    <2>6. Longer(C, q, b, u)
      BY <1>2 DEF Longer
    <2>7. CASE x0.error
      <3>1. x0 = Unclosed /\ a = <<>> /\ After(u) = <<>> /\ ~ItemAt(u, 1)[1].error
        BY <2>7, OpenIsClosed
      <3> DEFINE x == ItemAt(u, 1)[1]
      <3>2. x \in ItemsOf(C) /\ x.item
        <4>1. 1 \in 1 .. Len(u) + 1
          BY <2>1, LenProperties
        <4> HIDE DEF u
        <4> QED
          BY <2>1, <4>1, ItemAtType
      <3> HIDE DEF x, x0, a, u, p
      <3>3. Scan(p) = <<Unclosed>> \o <<>> /\ Scan(p \o b) = <<x>> \o <<>>
        BY <2>2, <2>5, <3>1, ScanEmpty DEF x
      <3>4. \A y \in ItemsOf(C) : <<y>> \o <<>> = <<>> \o <<y>>
        OBVIOUS
      <3>5. Scan(p) = <<>> \o <<Unclosed>> /\ Scan(p \o b) = <<>> \o <<x>>
        BY <3>2, <3>3, <3>4, UnclosedType
      <3>6. <<>> \in Seq(ItemsOf(C))
        OBVIOUS
      <3>7. ~x.error
        BY <3>1 DEF x
      <3>8. Repairs(C, p, <<>>, x)
        BY <3>2, <3>5, <3>6, <3>7, EmptyHasNoError DEF Repairs
      <3> QED
        BY <2>1, <3>8 DEF p
    <2>8. CASE ~x0.error
      <3>1. ASSUME HasError(Scan(p))
            PROVE  \E r, x : Repairs(C, p, r, x)
        <4>1. HasError(Scan(a))
          <5> DEFINE s == Scan(a)
          <5>1. s \in Seq(ItemsOf(C)) /\ HasError(<<x0>> \o s)
            BY <2>2, <3>1
          <5> HIDE DEF s, x0
          <5>2. HasError(s)
            BY <2>2, <2>8, <5>1, ErrorFirst
          <5> QED
            BY <5>2 DEF s
        <4>2. PICK r, x : Repairs(C, a, r, x)
          BY <1>4, <4>1
        <4>3. /\ r \in Seq(ItemsOf(C)) /\ x \in ItemsOf(C) /\ x.item /\ ~x.error /\ ~HasError(r)
              /\ Scan(a) = r \o <<Unclosed>> /\ Scan(a \o b) = r \o <<x>>
          BY <4>2 DEF Repairs
        <4>4. a # <<>>
          BY <4>1, ScanEmpty, EmptyHasNoError
        <4>5. ItemAt(u, 1)[1] = x0 /\ After(u) = a \o b
          <5> HIDE DEF u, b
          <5> QED
            BY <2>6, <4>4, ItemGoesOn
        <4> HIDE DEF x0, a, u, p
        <4>6. Scan(p) = <<x0>> \o (r \o <<Unclosed>>) /\ Scan(p \o b) = <<x0>> \o (r \o <<x>>)
          BY <2>2, <2>5, <4>3, <4>5
        <4>7. \A y \in ItemsOf(C) : <<x0>> \o (r \o <<y>>) = (<<x0>> \o r) \o <<y>>
          <5> TAKE y \in ItemsOf(C)
          <5>1. Three(ItemsOf(C), <<x0>>, r, <<y>>)
            BY <2>2, <4>3 DEF Three
          <5> QED
            BY <5>1, JoinedAnyhow DEF Joined
        <4>8. Scan(p) = (<<x0>> \o r) \o <<Unclosed>> /\ Scan(p \o b) = (<<x0>> \o r) \o <<x>>
          BY <4>3, <4>6, <4>7, UnclosedType
        <4>9. <<x0>> \o r \in Seq(ItemsOf(C)) /\ ~HasError(<<x0>> \o r)
          BY <2>2, <2>8, <4>3, ErrorFirst, FirstAndRest
        <4>10. Repairs(C, p, <<x0>> \o r, x)
          BY <4>3, <4>8, <4>9 DEF Repairs
        <4> QED
          BY <4>10
      <3> QED
        BY <2>1, <3>1
    <2> QED
      BY <2>7, <2>8
  <1> HIDE DEF I
  <1>5. \A p \in Seq(C) : p \in I
    BY <1>1, <1>3, <1>4, PatternInduction
  <1> QED
    BY <1>5 DEF I

\* What is read of any pattern is what it is a writing of, up to an open brace.
LEMMA PatternIsReading ==
  ASSUME NEW C, NEW p \in Seq(C)
  PROVE  IsReading(p)
  <1> DEFINE A == Alphabet(C)
  <1>1. "%" \in A /\ CloseBrace \in A /\ p \in Seq(A)
    BY DEF Alphabet
  <1> HIDE DEF A
  <1>2. \A q : IsError(q) <=> HasError(Scan(q))
    BY DEF IsError, HasError
  <1>3. CASE ~IsError(p)
    <2>1. IsWriting(p, Scan(p))
      BY <1>1, <1>2, <1>3, ReadsAsWritten
    <2> QED
      BY <1>3, <2>1 DEF IsReading
  <1>4. CASE IsError(p)
    <2>1. PICK r, x : Repairs(A, p, r, x)
      BY <1>1, <1>2, <1>4, ErrorIsRepaired
    <2> DEFINE c == Append(p, CloseBrace)
    <2>2. c = p \o <<CloseBrace>>
      BY <1>1, AppendIsConcat
    <2>3. /\ r \in Seq(ItemsOf(A)) /\ x \in ItemsOf(A) /\ ~x.error /\ ~HasError(r)
          /\ Scan(p) = r \o <<Unclosed>> /\ Scan(c) = r \o <<x>>
      BY <2>1, <2>2 DEF Repairs
    <2> HIDE DEF c
    <2>4. /\ Len(Scan(p)) = Len(r) + 1 /\ Front(Scan(p)) = r
          /\ Len(Scan(c)) = Len(r) + 1 /\ Front(Scan(c)) = r
      BY <2>3, RestAndLast, UnclosedType
    <2>5. ~HasError(Scan(c))
      BY <2>3, RestAndLast
    <2>6. ~IsError(c) /\ Len(Scan(c)) = Len(Scan(p)) /\ Front(Scan(c)) = Front(Scan(p))
      BY <1>2, <2>4, <2>5
    <2> QED
      BY <1>4, <2>6 DEF IsReading, c
  <1> QED
    BY <1>3, <1>4

-----------------------------------------------------------------------------
(* Patterns: where a pattern may be cut                                     *)

LEMMA LastOfMore ==
  ASSUME NEW S, NEW x \in S, NEW t \in Seq(S)
  PROVE  Last(<<x>> \o t) = IF t = <<>> THEN x ELSE Last(t)
  <1> DEFINE s == <<x>> \o t
             n == Len(t)
  <1>1. s[1] = x /\ Len(s) = n + 1 /\ n \in Nat /\ \A k \in 1 .. n : s[k + 1] = t[k]
    BY FirstAndRest
  <1> HIDE DEF s
  <1>2. CASE t = <<>>
    <2>1. n = 0
      BY <1>2
    <2> QED
      BY <1>1, <1>2, <2>1 DEF Last, s
  <1>3. CASE t # <<>>
    <2>1. n \in 1 .. n
      BY <1>1, <1>3, EmptySeq
    <2>2. s[n + 1] = t[n]
      BY <1>1, <2>1
    <2> QED
      BY <1>1, <1>3, <2>2 DEF Last, s
  <1> QED
    BY <1>2, <1>3

\* A character in front of the items leaves the last one, if it is not text.
LEMMA LiteralLast ==
  ASSUME NEW C, NEW c \in C, NEW r \in Seq(ItemsOf(C)), Last(Literal(c, r)).item
  PROVE  r # <<>> /\ Last(r).item
  <1>1. CASE r = <<>> \/ r[1].item
    <2> DEFINE y == Text(<<c>>)
    <2>1. y \in ItemsOf(C) /\ ~y.item
      BY CharacterType
    <2>2. Literal(c, r) = <<y>> \o r
      BY <1>1 DEF Literal
    <2> HIDE DEF y
    <2>3. Last(<<y>> \o r).item
      BY <2>2
    <2>4. Last(<<y>> \o r) = IF r = <<>> THEN y ELSE Last(r)
      BY <2>1, LastOfMore
    <2> QED
      BY <2>1, <2>3, <2>4
  <1>2. CASE r # <<>> /\ ~r[1].item
    <2> DEFINE x == r[1]
               t == Tail(r)
               z == Text(<<c>> \o x.str)
    <2>1. x \in ItemsOf(C) /\ t \in Seq(ItemsOf(C)) /\ r = <<x>> \o t
      BY <1>2
    <2>2. Literal(c, r) = <<z>> \o t
      BY <1>2 DEF Literal
    <2>3. z \in ItemsOf(C) /\ ~z.item
      <3>1. x.str \in StringsOver(C)
        BY <2>1 DEF ItemsOf, StringsOver
      <3> HIDE DEF x
      <3>2. <<c>> \o x.str \in StringsOver(C)
        BY <3>1, LongerText
      <3> QED
        BY <3>2, TextType
    <2> HIDE DEF x, t, z
    <2>4. Last(<<z>> \o t).item
      BY <2>2
    <2>5. Last(<<z>> \o t) = IF t = <<>> THEN z ELSE Last(t)
      BY <2>1, <2>3, LastOfMore
    <2>6. Last(<<x>> \o t) = IF t = <<>> THEN x ELSE Last(t)
      BY <2>1, LastOfMore
    <2>7. Last(<<x>> \o t).item
      BY <2>3, <2>4, <2>5, <2>6
    <2>8. Last(r).item
      BY <2>1, <2>7
    <2> QED
      BY <1>2, <2>8
  <1> QED
    BY <1>1, <1>2

SameJoin(S, x, r, y, s) ==
  x \in S /\ y \in S /\ r \in Seq(S) /\ s \in Seq(S) /\ <<x>> \o r = <<y>> \o s

LEMMA SameFirstAndRest ==
  ASSUME NEW S, NEW x, NEW r, NEW y, NEW s, SameJoin(S, x, r, y, s)
  PROVE  x = y /\ r = s
  <1> x \in S /\ y \in S /\ r \in Seq(S) /\ s \in Seq(S) /\ <<x>> \o r = <<y>> \o s
    BY DEF SameJoin
  <1>1. (<<x>> \o r)[1] = x /\ Tail(<<x>> \o r) = r
    BY FirstAndRest
  <1>2. (<<y>> \o s)[1] = y /\ Tail(<<y>> \o s) = s
    BY FirstAndRest
  <1> QED
    BY <1>1, <1>2

\* How many characters of text the items begin with.
TextBefore(r) == IF r = <<>> \/ r[1].item THEN 0 ELSE Len(r[1].str)

\* A character in front takes nothing away.
LEMMA LiteralOnly ==
  ASSUME NEW C, NEW c \in C, NEW r \in Seq(ItemsOf(C)), NEW s \in Seq(ItemsOf(C)),
         Clean(r), Clean(s), Literal(c, r) = Literal(c, s)
  PROVE  r = s
  <1> DEFINE y == Text(<<c>>)
  <1>1. y \in ItemsOf(C) /\ y.str = <<c>>
    BY CharacterType DEF Text
  <1>2. \A t \in StringsOver(C) : t # <<>> => /\ Text(<<c>> \o t) \in ItemsOf(C)
                                        /\ Text(<<c>> \o t).str = <<c>> \o t /\ <<c>> \o t # <<c>>
    <2> TAKE t \in StringsOver(C)
    <2> HAVE t # <<>>
    <2>1. <<c>> \o t \in StringsOver(C)
      BY LongerText
    <2>2. <<c>> \o t # <<c>>
      <3>1. t \in Seq(C \cup {"<<error>>"}) /\ <<c>> \in Seq(C \cup {"<<error>>"}) /\ Len(<<c>>) = 1
        BY DEF StringsOver
      <3>2. Len(<<c>> \o t) = 1 + Len(t) /\ Len(t) \in Nat \ {0}
        BY <3>1, EmptySeq, ConcatProperties
      <3> DEFINE v == <<c>> \o t
      <3>3. Len(v) # 1
        BY <3>2
      <3> HIDE DEF v
      <3>4. v # <<c>>
        BY <3>3
      <3> QED
        BY <3>4 DEF v
    <2> QED
      BY <2>1, <2>2, TextType
  <1> HIDE DEF y
  <1>3. ASSUME NEW u \in Seq(ItemsOf(C)), NEW v \in Seq(ItemsOf(C)), NewText(c, u), NewText(c, v),
               Literal(c, u) = Literal(c, v)
        PROVE  u = v
    <2>1. <<y>> \o u = <<y>> \o v
      BY <1>3 DEF NewText, y
    <2>2. SameJoin(ItemsOf(C), y, u, y, v)
      BY <1>1, <2>1 DEF SameJoin
    <2> QED
      BY <2>2, SameFirstAndRest
  <1>4. ASSUME NEW u \in Seq(ItemsOf(C)), NEW v, NEW t \in StringsOver(C), NEW w \in Seq(ItemsOf(C)),
               NewText(c, u), LongText(c, v, t, w), Literal(c, u) = Literal(c, v)
        PROVE  FALSE
    <2> DEFINE z == Text(<<c>> \o t)
    <2>1. z \in ItemsOf(C) /\ z.str # <<c>>
      <3>1. t # <<>>
        BY <1>4 DEF LongText
      <3> QED
        BY <1>2, <3>1
    <2> HIDE DEF z
    <2>2. <<y>> \o u = <<z>> \o w
      BY <1>4 DEF NewText, LongText, y, z
    <2>3. SameJoin(ItemsOf(C), y, u, z, w)
      BY <1>1, <2>1, <2>2 DEF SameJoin
    <2>4. y = z
      BY <2>3, SameFirstAndRest
    <2> QED
      BY <1>1, <2>1, <2>4
  <1>5. ASSUME NEW u, NEW v, NEW t \in StringsOver(C), NEW w \in Seq(ItemsOf(C)),
               NEW t2 \in StringsOver(C), NEW w2 \in Seq(ItemsOf(C)),
               LongText(c, u, t, w), LongText(c, v, t2, w2), Literal(c, u) = Literal(c, v)
        PROVE  u = v
    <2> DEFINE z == Text(<<c>> \o t)
               z2 == Text(<<c>> \o t2)
    <2>1. z \in ItemsOf(C) /\ z.str = <<c>> \o t /\ z2 \in ItemsOf(C) /\ z2.str = <<c>> \o t2
      <3>1. t # <<>> /\ t2 # <<>>
        BY <1>5 DEF LongText
      <3> QED
        BY <1>2, <3>1
    <2> HIDE DEF z, z2
    <2>2. <<z>> \o w = <<z2>> \o w2
      BY <1>5 DEF LongText, z, z2
    <2>3. SameJoin(ItemsOf(C), z, w, z2, w2)
      BY <2>1, <2>2 DEF SameJoin
    <2>4. z = z2 /\ w = w2
      BY <2>3, SameFirstAndRest
    <2>5. t = t2
      <3> DEFINE E == C \cup {"<<error>>"}
      <3>1. t \in Seq(E) /\ t2 \in Seq(E) /\ c \in E
        BY DEF StringsOver
      <3>2. <<c>> \o t = <<c>> \o t2
        BY <2>1, <2>4
      <3> HIDE DEF E
      <3>3. SameJoin(E, c, t, c, t2)
        BY <3>1, <3>2 DEF SameJoin
      <3> QED
        BY <3>3, SameFirstAndRest
    <2> QED
      BY <1>5, <2>4, <2>5 DEF LongText
  <1>6. /\ NewText(c, r) \/ \E t \in StringsOver(C), w \in Seq(ItemsOf(C)) : LongText(c, r, t, w)
        /\ NewText(c, s) \/ \E t \in StringsOver(C), w \in Seq(ItemsOf(C)) : LongText(c, s, t, w)
    BY LiteralCases
  <1>7. CASE NewText(c, r) /\ NewText(c, s)
    BY <1>3, <1>7
  <1>8. CASE NewText(c, r) /\ ~NewText(c, s)
    BY <1>4, <1>6, <1>8
  <1>9. CASE ~NewText(c, r) /\ NewText(c, s)
    BY <1>4, <1>6, <1>9
  <1>10. CASE ~NewText(c, r) /\ ~NewText(c, s)
    BY <1>5, <1>6, <1>10
  <1> QED
    BY <1>7, <1>8, <1>9, <1>10

\* A character in front is one character more of text.
LEMMA LiteralCounts ==
  ASSUME NEW C, NEW c \in C, NEW r \in Seq(ItemsOf(C))
  PROVE  TextBefore(Literal(c, r)) = TextBefore(r) + 1 /\ TextBefore(r) \in Nat
  <1>1. CASE r = <<>> \/ r[1].item
    <2> DEFINE y == Text(<<c>>)
               s == <<y>> \o r
    <2>1. y \in ItemsOf(C) /\ ~y.item /\ y.str = <<c>>
      BY CharacterType DEF Text
    <2>2. Literal(c, r) = s
      BY <1>1 DEF Literal
    <2> HIDE DEF y
    <2>3. s # <<>> /\ s[1] = y
      BY <2>1, FirstAndRest
    <2> HIDE DEF s
    <2>4. TextBefore(s) = 1
      BY <2>1, <2>3 DEF TextBefore
    <2>5. TextBefore(r) = 0
      BY <1>1 DEF TextBefore
    <2> QED
      BY <2>2, <2>4, <2>5
  <1>2. CASE r # <<>> /\ ~r[1].item
    <2> DEFINE x == r[1]
               t == Tail(r)
               z == Text(<<c>> \o x.str)
               s == <<z>> \o t
    <2>1. x \in ItemsOf(C) /\ t \in Seq(ItemsOf(C))
      BY <1>2
    <2>2. Literal(c, r) = s
      BY <1>2 DEF Literal
    <2>3. x.str \in StringsOver(C) /\ Len(x.str) \in Nat
      BY <2>1 DEF ItemsOf, StringsOver
    <2>4. TextBefore(r) = Len(x.str)
      BY <1>2 DEF TextBefore
    <2> HIDE DEF x
    <2>5. z \in ItemsOf(C) /\ ~z.item /\ Len(z.str) = Len(x.str) + 1
      <3>1. <<c>> \o x.str \in StringsOver(C)
        BY <2>3, LongerText
      <3>2. Len(<<c>> \o x.str) = Len(x.str) + 1
        BY <2>3 DEF StringsOver
      <3> QED
        BY <3>1, <3>2, TextType
    <2> HIDE DEF z, t
    <2>6. s # <<>> /\ s[1] = z
      BY <2>1, <2>5, FirstAndRest
    <2> HIDE DEF s
    <2>7. TextBefore(s) = Len(z.str)
      BY <2>5, <2>6 DEF TextBefore
    <2> QED
      BY <2>2, <2>3, <2>4, <2>5, <2>7
  <1> QED
    BY <1>1, <1>2

LEMMA CleanBoth ==
  ASSUME NEW S, NEW r \in Seq(S), NEW s \in Seq(S), Clean(r), Clean(s)
  PROVE  Clean(r \o s)
  <1> DEFINE u == r \o s
  <1>1. /\ Len(r) \in Nat /\ Len(s) \in Nat /\ DOMAIN r = 1 .. Len(r) /\ DOMAIN s = 1 .. Len(s)
        /\ DOMAIN u = 1 .. Len(r) + Len(s)
        /\ \A k \in 1 .. Len(r) + Len(s) : u[k] = IF k <= Len(r) THEN r[k] ELSE s[k - Len(r)]
    <2>1. u \in Seq(S) /\ Len(u) = Len(r) + Len(s)
      BY ConcatProperties
    <2>2. DOMAIN u = 1 .. Len(u)
      BY <2>1, LenProperties
    <2> QED
      BY <2>1, <2>2, LenProperties, ConcatProperties
  <1> HIDE DEF u
  <1>2. ASSUME NEW k \in DOMAIN u
        PROVE  (\E j \in DOMAIN r : u[k] = r[j]) \/ (\E j \in DOMAIN s : u[k] = s[j])
    <2>1. CASE k <= Len(r)
      <3>1. k \in DOMAIN r /\ u[k] = r[k]
        BY <1>1, <1>2, <2>1
      <3> QED
        BY <3>1
    <2>2. CASE ~(k <= Len(r))
      <3>1. k - Len(r) \in DOMAIN s /\ u[k] = s[k - Len(r)]
        BY <1>1, <1>2, <2>2
      <3> QED
        BY <3>1
    <2> QED
      BY <2>1, <2>2
  <1>3. Clean(u)
    BY <1>2 DEF Clean
  <1> QED
    BY <1>3 DEF u

\* What is not empty has items.
LEMMA ScanSome ==
  ASSUME NEW C, "%" \in C
  PROVE  \A p \in Seq(C) : p # <<>> => Scan(p) # <<>>
  <1> DEFINE I == {p \in Seq(C) : p # <<>> => Scan(p) # <<>>}
  <1>1. <<>> \in I
    OBVIOUS
  <1>2. ASSUME NEW c \in C, NEW q \in Seq(C), q \in I
        PROVE  Escape(c) \o q \in I
    <2>1. Escape(c) \o q \in Seq(C)
      BY DEF Escape
    <2>2. Scan(Escape(c) \o q) = Literal(c, Scan(q)) /\ Scan(q) \in Seq(ItemsOf(C))
      BY ScanCharacter, ScanType
    <2>3. \A r \in Seq(ItemsOf(C)) : Literal(c, r) # <<>>
      <3> TAKE r \in Seq(ItemsOf(C))
      <3>1. TextBefore(Literal(c, r)) = TextBefore(r) + 1 /\ TextBefore(r) \in Nat
        BY LiteralCounts
      <3>2. TextBefore(<<>>) = 0
        BY DEF TextBefore
      <3> QED
        BY <3>1, <3>2
    <2> QED
      BY <2>1, <2>2, <2>3
  <1>3. ASSUME NEW q \in Seq(C), StartsItem(q), After(q) \in I
        PROVE  <<"%">> \o q \in I
    <2> DEFINE x == ItemAt(q, 1)[1]
               r == Scan(After(q))
    <2>1. Scan(<<"%">> \o q) = <<x>> \o r
      BY <1>3, ScanAfter
    <2>2. x \in ItemsOf(C) /\ r \in Seq(ItemsOf(C)) /\ <<"%">> \o q \in Seq(C)
      <3>1. 1 \in 1 .. Len(q) + 1
        BY LenProperties
      <3> QED
        BY <1>3, <3>1, ItemAtType, ScanType
    <2> HIDE DEF x, r
    <2>3. <<x>> \o r # <<>>
      BY <2>2, FirstAndRest
    <2> QED
      BY <2>1, <2>2, <2>3
  <1> HIDE DEF I
  <1>4. \A p \in Seq(C) : p \in I
    BY <1>1, <1>2, <1>3, PatternInduction
  <1> QED
    BY <1>4 DEF I

LEMMA LastBehind ==
  ASSUME NEW C, NEW q \in Seq(C), q # <<>>
  PROVE  /\ "%" \in C => Last(<<"%">> \o q) = Last(q)
         /\ \A c \in C : Last(Escape(c) \o q) = Last(q)
         /\ After(q) # <<>> => Last(After(q)) = Last(q)
  <1>1. ASSUME NEW c \in C PROVE Last(<<c>> \o q) = Last(q)
    BY LastOfMore
  <1>2. ASSUME NEW c \in C PROVE Last(Escape(c) \o q) = Last(q)
    <2>1. CASE c # "%"
      BY <1>1, <2>1 DEF Escape
    <2>2. CASE c = "%"
      <3> DEFINE s == <<"%">> \o q
      <3>1. s \in Seq(C) /\ s # <<>> /\ Last(s) = Last(q)
        <4>1. s \in Seq(C) /\ s # <<>>
          BY <2>2
        <4> QED
          BY <1>1, <2>2, <4>1
      <3>2. Escape(c) \o q = <<c>> \o s
        BY <2>2 DEF Escape
      <3> HIDE DEF s
      <3>3. Last(<<c>> \o s) = Last(s)
        BY <3>1, LastOfMore
      <3> QED
        BY <3>1, <3>2, <3>3
    <2> QED
      BY <2>1, <2>2
  <1>3. ASSUME After(q) # <<>> PROVE Last(After(q)) = Last(q)
    <2> DEFINE k == ItemAt(q, 1)[2]
               s == From(q, k)
    <2>1. k \in 1 .. Len(q) + 1 /\ s \in Seq(C) /\ Len(s) = Len(q) + 1 - k /\ Len(q) \in Nat /\ s # <<>>
      BY <1>3, AfterType, LenProperties DEF After
    <2>2. SameFrom(q, k, s, 1)
      <3> HIDE DEF k
      <3> QED
        BY <2>1, FromIs
    <2> HIDE DEF k, s
    <2>3. Len(s) \in Nat \ {0}
      BY <2>1, EmptySeq
    <2> DEFINE d == Len(q) - k
    <2>4. d \in 0 .. Len(q) - k /\ k + d = Len(q) /\ 1 + d = Len(s)
      BY <2>1, <2>3
    <2> HIDE DEF d
    <2>5. q[k + d] = s[1 + d]
      BY <2>2, <2>4 DEF SameFrom
    <2> QED
      BY <2>4, <2>5 DEF Last, After, k, s
  <1> QED
    BY <1>1, <1>2, <1>3

\* An item that ends the pattern, and not with a brace, is all name.
LEMMA ItemToTheEnd ==
  ASSUME NEW C, NEW q \in Seq(C), q # <<>>, After(q) = <<>>, ~ItemAt(q, 1)[1].error,
         Last(q) # CloseBrace
  PROVE  NameEnd(q, 1) = Len(q) + 1 /\ ItemAt(q, 1)[1] = Item(q, <<>>)
  <1> DEFINE n == NameEnd(q, 1)
             close == Find(q, n, {CloseBrace})
             k == ItemAt(q, 1)[2]
             x == ItemAt(q, 1)[1]
  <1>1. Len(q) \in Nat /\ k = Len(q) + 1
    <2> HIDE DEF k
    <2>1. k \in 1 .. Len(q) + 1 /\ Len(After(q)) = Len(q) + 1 - k
      BY AfterType DEF k
    <2>2. Len(q) \in Nat /\ Len(After(q)) = 0
      BY LenProperties
    <2> QED
      BY <2>1, <2>2
  <1>2. Finds(C, q, n, close)
    BY DEF Finds
  <1> HIDE DEF n, close
  <1>3. /\ n \in 1 .. Len(q) + 1 /\ close \in n .. Len(q) + 1
        /\ n > Len(q) \/ q[n] # OpenBrace => x = Item(Part(q, 1, n - 1), <<>>) /\ k = n
        /\ n <= Len(q) /\ q[n] = OpenBrace /\ close > Len(q) => x = Unclosed
        /\ n <= Len(q) /\ q[n] = OpenBrace /\ close <= Len(q) => q[close] = CloseBrace /\ k = close + 1
    BY <1>2, ItemFound
  <1> HIDE DEF k, x
  <1>4. n > Len(q) \/ q[n] # OpenBrace
    <2> SUFFICES ASSUME n <= Len(q), q[n] = OpenBrace
                 PROVE  FALSE
      BY <1>1, <1>3
    <2>1. x # Unclosed
      BY UnclosedType DEF x
    <2>2. close <= Len(q)
      BY <1>1, <1>3, <2>1
    <2>3. close = Len(q) /\ q[close] = CloseBrace
      BY <1>1, <1>3, <2>2
    <2> QED
      BY <2>3 DEF Last
  <1>5. n = Len(q) + 1 /\ x = Item(Part(q, 1, n - 1), <<>>)
    BY <1>1, <1>3, <1>4
  <1>6. Part(q, 1, n - 1) = q
    <2>1. n - 1 = Len(q)
      BY <1>1, <1>5
    <2>2. Part(q, 1, Len(q)) = q
      BY FromStart DEF From, Part
    <2> QED
      BY <2>1, <2>2
  <1> QED
    BY <1>5, <1>6 DEF n, x

NextLetters == Letters \cup {OpenBrace, CloseBrace}

\* An item that is all name stays what it is when the pattern goes on with
\* something else than a name or a brace goes on with.
LEMMA NameIsCut ==
  ASSUME NEW C, NEW q, NEW b, NEW u, Longer(C, q, b, u), b # <<>>,
         NameEnd(q, 1) = Len(q) + 1, b[1] \notin NextLetters
  PROVE  ItemAt(u, 1)[1] = Item(q, <<>>) /\ After(u) = b
  <1> DEFINE n == NameEnd(u, 1)
             close == Find(u, n, {CloseBrace})
  <1>1. b[1] \notin NameLetters /\ b[1] # OpenBrace
    BY DEF NextLetters, NameLetters
  <1>2. n = Len(q) + 1
    BY <1>1, NameGoesOn
  <1>3. /\ q \in Seq(C) /\ b \in Seq(C) /\ u \in Seq(C) /\ Len(q) \in Nat
        /\ \A m \in 1 .. Len(b) : u[Len(q) + m] = b[m]
    BY LongerIs
  <1>4. u[n] = b[1]
    <2>1. 1 \in 1 .. Len(b)
      BY <1>3, EmptySeq
    <2> QED
      BY <1>2, <1>3, <2>1
  <1>5. Finds(C, u, n, close)
    BY <1>3 DEF Finds
  <1> HIDE DEF n, close
  <1>6. ItemAt(u, 1)[1] = Item(Part(u, 1, n - 1), <<>>) /\ ItemAt(u, 1)[2] = n
    BY <1>1, <1>4, <1>5, ItemFound
  <1>7. Part(u, 1, n - 1) = q
    <2> DEFINE e == Len(q)
    <2>1. n - 1 = e /\ e \in Int /\ e <= Len(q) /\ 1 \in 1 .. Len(q) + 1
      BY <1>2, <1>3
    <2>2. Part(q, 1, e) = q
      BY <1>3, FromStart DEF From, Part
    <2> HIDE DEF e
    <2>3. Part(u, 1, e) = Part(q, 1, e)
      BY <2>1, PartGoesOn
    <2> QED
      BY <2>1, <2>2, <2>3
  <1>8. From(u, n) = b
    <2>1. n \in 1 .. Len(q) + 1
      BY <1>2, <1>3
    <2>2. From(u, n) = From(q, n) \o b
      BY <2>1, FromGoesOn
    <2>3. From(q, n) \in Seq(C) /\ Len(From(q, n)) = Len(q) + 1 - n
      BY <1>3, <2>1, FromIs
    <2>4. Len(From(q, n)) = 0
      BY <1>2, <1>3, <2>3
    <2>5. From(q, n) = <<>>
      BY <2>3, <2>4, EmptySeq
    <2> QED
      BY <1>3, <2>2, <2>5, ConcatEmptySeq
  <1> QED
    BY <1>6, <1>7, <1>8 DEF After

\* And it is another item when the pattern goes on with one of those, but for
\* empty braces, which are left out.
LEMMA NameTakesMore ==
  ASSUME NEW C, NEW q, NEW b, NEW u, Longer(C, q, b, u), b # <<>>,
         NameEnd(q, 1) = Len(q) + 1, b[1] \in NextLetters
  PROVE  \/ ItemAt(u, 1)[1] # Item(q, <<>>)
         \/ After(u) \in Seq(C) /\ b = <<OpenBrace>> \o (<<CloseBrace>> \o After(u))
  <1> DEFINE n == NameEnd(u, 1)
             close == Find(u, n, {CloseBrace})
             x == ItemAt(u, 1)[1]
             y == Item(q, <<>>)
  <1>1. y.str = q /\ y.fmt = <<>> /\ ~y.error
    BY DEF Item
  <1>2. /\ q \in Seq(C) /\ b \in Seq(C) /\ u \in Seq(C)
        /\ Len(q) \in Nat /\ Len(b) \in Nat /\ Len(u) = Len(q) + Len(b)
        /\ \A m \in 1 .. Len(b) : u[Len(q) + m] = b[m]
    BY LongerIs
  <1>3. 1 \in 1 .. Len(b)
    BY <1>2, EmptySeq
  <1>4. Finds(C, u, n, close)
    BY <1>2 DEF Finds
  <1>5. b[1] \in NameLetters => n > Len(q) + 1
    BY NameGoesOn
  <1>6. b[1] \notin NameLetters => n = Len(q) + 1
    BY NameGoesOn
  <1> HIDE DEF n, close, y
  <1>7. /\ n \in 1 .. Len(u) + 1 /\ close \in n .. Len(u) + 1
        /\ n > Len(u) \/ u[n] # OpenBrace => x = Item(Part(u, 1, n - 1), <<>>)
        /\ n <= Len(u) /\ u[n] = OpenBrace /\ close > Len(u) => x = Unclosed
        /\ n <= Len(u) /\ u[n] = OpenBrace /\ close <= Len(u) =>
             /\ u[close] = CloseBrace /\ n < close
             /\ x = Item(Part(u, 1, n - 1), Part(u, n + 1, close - 1))
             /\ ItemAt(u, 1)[2] = close + 1
    BY <1>4, ItemFound
  <1> HIDE DEF x
  <1>8. x # Unclosed \/ x # y
    BY <1>1, UnclosedType
  <1>9. CASE b[1] \in NameLetters
    <2>1. Len(Part(u, 1, n - 1)) = n - 1
      <3>1. \A m \in 1 .. n - 1 : u[m] \in C
        BY <1>2, <1>7
      <3>2. n - 1 \in Int /\ 1 <= n - 1
        BY <1>2, <1>5, <1>7, <1>9
      <3> QED
        BY <3>1, <3>2, SubSeqProperties DEF Part
    <2>2. n - 1 # Len(q)
      BY <1>2, <1>5, <1>7, <1>9
    <2>3. \A f : Item(Part(u, 1, n - 1), f) # y
      <3> TAKE f
      <3>1. Item(Part(u, 1, n - 1), f).str = Part(u, 1, n - 1)
        BY DEF Item
      <3> QED
        BY <1>1, <2>1, <2>2, <3>1
    <2>4. x # y
      BY <1>2, <1>7, <1>8, <2>3
    <2> QED
      BY <2>4 DEF x, y
  <1>10. CASE b[1] \notin NameLetters
    <2>1. b[1] = OpenBrace /\ n = Len(q) + 1
      BY <1>6, <1>10 DEF NextLetters, NameLetters
    <2>2. u[n] = OpenBrace /\ n <= Len(u)
      BY <1>2, <1>3, <2>1
    <2>3. CASE close > Len(u)
      BY <1>7, <1>8, <2>2, <2>3 DEF x, y
    <2>4. CASE ~(close > Len(u)) /\ close # n + 1
      <3>1. close <= Len(u) /\ n + 1 <= close - 1
        BY <1>2, <1>7, <2>2, <2>4
      <3> DEFINE f == Part(u, n + 1, close - 1)
      <3>2. f # <<>>
        <4>1. \A m \in n + 1 .. close - 1 : u[m] \in C
          BY <1>2, <1>7, <3>1
        <4>2. Len(f) = (close - 1) - (n + 1) + 1
          BY <1>2, <1>7, <3>1, <4>1, SubSeqProperties DEF Part
        <4>3. Len(f) # 0
          BY <1>2, <1>7, <3>1, <4>2
        <4> QED
          BY <4>3, EmptySeq
      <3>3. x.fmt = f
        BY <1>7, <2>2, <3>1 DEF Item
      <3> QED
        BY <1>1, <3>2, <3>3 DEF x, y
    <2>5. CASE ~(close > Len(u)) /\ close = n + 1
      <3> DEFINE k == n + 1
                 k2 == k + 1
      <3>1. k <= Len(u) /\ u[k] = CloseBrace /\ ItemAt(u, 1)[2] = k2
        BY <1>2, <1>7, <2>2, <2>5
      <3>2. n \in 1 .. Len(u) /\ k \in 1 .. Len(u) /\ n \in 1 .. Len(q) + 1 /\ k2 \in 1 .. Len(u) + 1
        BY <1>2, <1>7, <2>1, <2>2, <3>1
      <3>3. From(u, n) = <<OpenBrace>> \o From(u, k)
        BY <1>2, <2>2, <3>2, FromFirst
      <3> HIDE DEF k
      <3>4. From(u, k) = <<CloseBrace>> \o From(u, k2)
        BY <1>2, <3>1, <3>2, FromFirst
      <3> HIDE DEF k2
      <3>5. From(u, n) = b
        <4>1. From(u, n) = From(q, n) \o b
          BY <3>2, FromGoesOn
        <4>2. From(q, n) \in Seq(C) /\ Len(From(q, n)) = Len(q) + 1 - n
          BY <1>2, <3>2, FromIs
        <4>3. Len(From(q, n)) = 0
          BY <1>2, <2>1, <4>2
        <4>4. From(q, n) = <<>>
          BY <4>2, <4>3, EmptySeq
        <4> QED
          BY <1>2, <4>1, <4>4, ConcatEmptySeq
      <3>6. From(u, k2) \in Seq(C)
        BY <1>2, <3>2, FromIs
      <3>7. After(u) = From(u, k2)
        BY <3>1 DEF After
      <3> QED
        BY <3>3, <3>4, <3>5, <3>6, <3>7
    <2> QED
      BY <2>3, <2>4, <2>5
  <1> QED
    BY <1>9, <1>10

\* The pattern ends with an item without braces.
EndsBare(a) == /\ a # <<>> /\ Last(Scan(a)).item /\ ~HasError(Scan(a))
               /\ Last(a) # "%" /\ Last(a) # CloseBrace

\* a may be cut off in front of b exactly where b does not go on with the item.
Cuts(a, b) == (Scan(a \o b) = Scan(a) \o Scan(b)) <=> b[1] \notin NextLetters

\* Empty braces are text of their own when they do not follow a name.
LEMMA BracesAreText ==
  ASSUME NEW C, "%" \in C, OpenBrace \in C, CloseBrace \in C, NEW t \in Seq(C)
  PROVE  Scan(<<OpenBrace>> \o (<<CloseBrace>> \o t)) # Scan(t)
  <1> DEFINE s == <<CloseBrace>> \o t
             r == Scan(t)
             r1 == Literal(CloseBrace, r)
  <1>1. s \in Seq(C) /\ r \in Seq(ItemsOf(C)) /\ r1 \in Seq(ItemsOf(C))
    BY ScanType, LiteralType
  <1>2. Scan(s) = r1
    BY ScanText, BracesDiffer
  <1>3. Scan(<<OpenBrace>> \o s) = Literal(OpenBrace, r1)
    <2> HIDE DEF s, r1
    <2> QED
      BY <1>1, <1>2, ScanText, BracesDiffer
  <1>4. TextBefore(r1) = TextBefore(r) + 1 /\ TextBefore(r) \in Nat
    BY <1>1, LiteralCounts
  <1>5. TextBefore(Literal(OpenBrace, r1)) = TextBefore(r1) + 1
    BY <1>1, LiteralCounts
  <1> HIDE DEF r1
  <1>6. TextBefore(Scan(<<OpenBrace>> \o s)) # TextBefore(r)
    BY <1>3, <1>4, <1>5
  <1> QED
    BY <1>6

LEMMA LiteralKeepsError ==
  ASSUME NEW C, NEW c \in C, NEW r \in Seq(ItemsOf(C)), Clean(r), HasError(r)
  PROVE  HasError(Literal(c, r))
  <1>1. CASE NewText(c, r)
    <2> DEFINE y == Text(<<c>>)
    <2>1. y \in ItemsOf(C) /\ Literal(c, r) = <<y>> \o r
      BY <1>1, CharacterType DEF NewText
    <2> HIDE DEF y
    <2> QED
      BY <2>1, ErrorFirst
  <1>2. ASSUME NEW t \in StringsOver(C), NEW s \in Seq(ItemsOf(C)), LongText(c, r, t, s)
        PROVE  HasError(Literal(c, r))
    <2> DEFINE x == Text(t)
               y == Text(<<c>> \o t)
    <2>1. x \in ItemsOf(C) /\ ~x.error /\ y \in ItemsOf(C)
      BY LongerText, TextType
    <2>2. r = <<x>> \o s /\ Literal(c, r) = <<y>> \o s
      BY <1>2 DEF LongText
    <2> HIDE DEF x, y
    <2>3. HasError(<<x>> \o s)
      BY <2>2
    <2>4. HasError(s)
      BY <2>1, <2>3, ErrorFirst
    <2>5. HasError(<<y>> \o s)
      BY <2>1, <2>4, ErrorFirst
    <2> QED
      BY <2>2, <2>5
  <1> QED
    BY <1>1, <1>2, LiteralCases

LEMMA CutAfterCharacter ==
  ASSUME NEW C, "%" \in C, NEW c \in C, NEW q \in Seq(C), NEW b \in Seq(C), b # <<>>,
         EndsBare(q) => Cuts(q, b), EndsBare(Escape(c) \o q)
  PROVE  Cuts(Escape(c) \o q, b)
  <1> DEFINE e == Escape(c)
             r == Scan(q)
             s == Scan(b)
             g == Scan(q \o b)
  <1>1. e \in Seq(C) /\ Scan(e \o q) = Literal(c, r)
    BY ScanCharacter DEF Escape
  <1>2. r \in Seq(ItemsOf(C)) /\ s \in Seq(ItemsOf(C)) /\ Clean(r) /\ Clean(s)
    BY ScanType, ScanClean
  <1>3. q \o b \in Seq(C)
    BY ConcatProperties
  <1>4. g \in Seq(ItemsOf(C)) /\ Clean(g)
    BY <1>3, ScanType, ScanClean
  <1>5. Scan(e \o (q \o b)) = Literal(c, g)
    BY <1>3, ScanCharacter
  <1>6. (e \o q) \o b = e \o (q \o b)
    <2>1. Three(C, e, q, b)
      BY <1>1 DEF Three
    <2> HIDE DEF e
    <2> QED
      BY <2>1, JoinedAnyhow DEF Joined
  <1>7. /\ Last(Scan(e \o q)).item /\ ~HasError(Scan(e \o q))
        /\ Last(e \o q) # "%" /\ Last(e \o q) # CloseBrace
    BY DEF EndsBare
  <1> HIDE DEF r, s, g
  <1>8. r # <<>> /\ Last(r).item
    BY <1>1, <1>2, <1>7, LiteralLast
  <1>9. ~HasError(r)
    <2>1. ASSUME HasError(r) PROVE HasError(Literal(c, r))
      BY <1>2, <2>1, LiteralKeepsError
    <2> QED
      BY <1>1, <1>7, <2>1
  <1>10. q # <<>>
    BY <1>8, ScanEmpty DEF r
  <1>11. Last(e \o q) = Last(q)
    BY <1>10, LastBehind
  <1>12. EndsBare(q)
    BY <1>7, <1>8, <1>9, <1>10, <1>11 DEF EndsBare, r
  <1>13. (g = r \o s) <=> b[1] \notin NextLetters
    BY <1>12 DEF Cuts, r, s, g
  <1>14. Literal(c, r \o s) = Literal(c, r) \o s
    <2>1. InFront(C, c, r, s)
      BY <1>2, <1>8 DEF InFront
    <2> QED
      BY <2>1, LiteralBefore
  <1> DEFINE w == r \o s
  <1>15. w \in Seq(ItemsOf(C)) /\ Clean(w)
    BY <1>2, CleanBoth, ConcatProperties
  <1> HIDE DEF w
  <1>16. Literal(c, g) = Literal(c, w) => g = w
    BY <1>4, <1>15, LiteralOnly
  <1>17. (Literal(c, g) = Literal(c, r) \o s) <=> b[1] \notin NextLetters
    BY <1>13, <1>14, <1>16 DEF w
  <1> QED
    BY <1>1, <1>5, <1>6, <1>17 DEF Cuts, s

LEMMA CutAfterItem ==
  ASSUME NEW C, "%" \in C, OpenBrace \in C, CloseBrace \in C,
         NEW q \in Seq(C), StartsItem(q), NEW b \in Seq(C), b # <<>>,
         EndsBare(After(q)) => Cuts(After(q), b), EndsBare(<<"%">> \o q)
  PROVE  Cuts(<<"%">> \o q, b)
  <1> DEFINE z == <<"%">>
             x == ItemAt(q, 1)[1]
             a == After(q)
             u == q \o b
             s == Scan(b)
             y == ItemAt(u, 1)[1]
             g == Scan(After(u))
  <1>1. z \in Seq(C) /\ a \in Seq(C) /\ u \in Seq(C) /\ Longer(C, q, b, u)
    <2>1. a \in Seq(C)
      BY AfterType
    <2> QED
      BY <2>1, ConcatProperties DEF Longer
  <1>2. x \in ItemsOf(C) /\ Scan(z \o q) = <<x>> \o Scan(a)
    <2>1. 1 \in 1 .. Len(q) + 1
      BY LenProperties
    <2> QED
      BY <2>1, ItemAtType, ScanAfter
  <1>3. (z \o q) \o b = z \o u
    <2>1. Three(C, z, q, b)
      BY <1>1 DEF Three
    <2> HIDE DEF z
    <2> QED
      BY <2>1, JoinedAnyhow DEF Joined
  <1>4. /\ Last(Scan(z \o q)).item /\ ~HasError(Scan(z \o q))
        /\ Last(z \o q) # "%" /\ Last(z \o q) # CloseBrace
    BY DEF EndsBare
  <1>5. q # <<>>
    <2> SUFFICES ASSUME q = <<>> PROVE FALSE
      OBVIOUS
    <2>1. "%" \in C /\ <<>> \in Seq(C)
      OBVIOUS
    <2>2. Last(<<"%">> \o <<>>) = "%"
      BY <2>1, LastOfMore
    <2> QED
      BY <1>4, <2>2
  <1>6. StartsItem(u)
    <2>1. u[1] = q[1]
      BY <1>5
    <2> QED
      BY <1>5, <2>1 DEF StartsItem
  <1> HIDE DEF u
  <1>7. y \in ItemsOf(C) /\ g \in Seq(ItemsOf(C)) /\ Scan(z \o u) = <<y>> \o g
    <2>1. 1 \in 1 .. Len(u) + 1 /\ After(u) \in Seq(C)
      BY <1>1, AfterType, LenProperties
    <2> QED
      BY <1>1, <1>6, <2>1, ItemAtType, ScanType, ScanAfter
  <1>8. s \in Seq(ItemsOf(C)) /\ Scan(a) \in Seq(ItemsOf(C))
    BY <1>1, ScanType
  <1>9. Last(z \o q) = Last(q)
    BY <1>5, LastBehind
  <1>10. ~x.error /\ ~HasError(Scan(a))
    <2> DEFINE r == Scan(a)
    <2>1. r \in Seq(ItemsOf(C)) /\ ~HasError(<<x>> \o r)
      BY <1>2, <1>4, <1>8
    <2> HIDE DEF r, x
    <2>2. ~x.error /\ ~HasError(r)
      BY <1>2, <2>1, ErrorFirst
    <2> QED
      BY <2>2 DEF r
  <1> HIDE DEF z, y, g, s, x
  <1>11. CASE a # <<>>
    <2>1. y = x /\ After(u) = a \o b
      BY <1>1, <1>11, ItemGoesOn DEF x, y
    <2>2. EndsBare(a)
      <3> DEFINE r == Scan(a)
      <3>1. r # <<>>
        BY <1>1, <1>11, ScanSome
      <3>2. r \in Seq(ItemsOf(C)) /\ Last(<<x>> \o r).item
        BY <1>2, <1>4, <1>8
      <3> HIDE DEF r
      <3>3. Last(r).item
        BY <1>2, <3>1, <3>2, LastOfMore
      <3>4. Last(a) = Last(q)
        BY <1>5, <1>11, LastBehind
      <3> QED
        BY <1>4, <1>9, <1>10, <1>11, <3>3, <3>4 DEF EndsBare, r
    <2>3. (g = Scan(a) \o s) <=> b[1] \notin NextLetters
      BY <2>1, <2>2 DEF Cuts, g, s
    <2> DEFINE r == Scan(a)
    <2>4. r \in Seq(ItemsOf(C)) /\ Scan(z \o q) = <<x>> \o r /\ ((g = r \o s) <=> b[1] \notin NextLetters)
      BY <1>2, <1>8, <2>3
    <2> HIDE DEF r, a
    <2>5. (<<x>> \o r) \o s = <<x>> \o (r \o s) /\ r \o s \in Seq(ItemsOf(C))
      <3>1. Three(ItemsOf(C), <<x>>, r, s)
        BY <1>2, <1>8, <2>4 DEF Three
      <3> QED
        BY <3>1, JoinedAnyhow DEF Joined
    <2> DEFINE w == r \o s
    <2>6. w \in Seq(ItemsOf(C)) /\ Scan(z \o q) \o s = <<x>> \o w /\ ((g = w) <=> b[1] \notin NextLetters)
      BY <2>4, <2>5
    <2> HIDE DEF w
    <2>7. <<x>> \o g = <<x>> \o w => g = w
      <3>1. ASSUME <<x>> \o g = <<x>> \o w PROVE SameJoin(ItemsOf(C), x, g, x, w)
        BY <1>2, <1>7, <2>6, <3>1 DEF SameJoin
      <3> QED
        BY <3>1, SameFirstAndRest
    <2>8. (<<y>> \o g = <<x>> \o w) <=> b[1] \notin NextLetters
      BY <2>1, <2>6, <2>7
    <2> QED
      BY <1>3, <1>7, <2>6, <2>8 DEF Cuts, s, z
  <1>12. CASE a = <<>>
    <2>1. NameEnd(q, 1) = Len(q) + 1 /\ x = Item(q, <<>>)
      BY <1>4, <1>5, <1>9, <1>10, <1>12, ItemToTheEnd DEF x
    <2>2. Scan(z \o q) \o s = <<x>> \o s
      <3>1. Scan(z \o q) = <<x>> \o <<>>
        BY <1>2, <1>12, ScanEmpty
      <3>2. <<x>> \o <<>> = <<x>>
        BY <1>2
      <3> QED
        BY <3>1, <3>2
    <2>3. CASE b[1] \notin NextLetters
      <3>1. y = x /\ g = s
        BY <1>1, <2>1, <2>3, NameIsCut DEF y, g, s
      <3> QED
        BY <1>3, <1>7, <2>2, <2>3, <3>1 DEF Cuts, s, z
    <2>4. CASE b[1] \in NextLetters
      <3>1. y # x \/ g # s
        <4>1. \/ y # x
              \/ After(u) \in Seq(C) /\ b = <<OpenBrace>> \o (<<CloseBrace>> \o After(u))
          BY <1>1, <2>1, <2>4, NameTakesMore DEF y
        <4>2. ASSUME After(u) \in Seq(C), b = <<OpenBrace>> \o (<<CloseBrace>> \o After(u))
              PROVE  g # s
          BY <4>2, BracesAreText DEF g, s
        <4> QED
          BY <4>1, <4>2
      <3>2. <<y>> \o g # <<x>> \o s
        <4>1. ASSUME <<y>> \o g = <<x>> \o s PROVE SameJoin(ItemsOf(C), y, g, x, s)
          BY <1>2, <1>7, <1>8, <4>1 DEF SameJoin
        <4> QED
          BY <3>1, <4>1, SameFirstAndRest
      <3> QED
        BY <1>3, <1>7, <2>2, <2>4, <3>2 DEF Cuts, s, z
    <2> QED
      BY <2>3, <2>4
  <1> QED
    BY <1>11, <1>12

LEMMA PatternIsCut ==
  ASSUME NEW C, "%" \in C, OpenBrace \in C, CloseBrace \in C, NEW b \in Seq(C), b # <<>>
  PROVE  \A a \in Seq(C) : EndsBare(a) => Cuts(a, b)
  <1> DEFINE I == {a \in Seq(C) : EndsBare(a) => Cuts(a, b)}
  <1>1. <<>> \in I
    BY DEF EndsBare
  <1>2. ASSUME NEW c \in C, NEW q \in Seq(C), q \in I
        PROVE  Escape(c) \o q \in I
    <2>1. Escape(c) \o q \in Seq(C)
      BY DEF Escape
    <2>2. EndsBare(q) => Cuts(q, b)
      BY <1>2
    <2>3. EndsBare(Escape(c) \o q) => Cuts(Escape(c) \o q, b)
      BY <2>2, CutAfterCharacter
    <2> QED
      BY <2>1, <2>3
  <1>3. ASSUME NEW q \in Seq(C), StartsItem(q), After(q) \in I
        PROVE  <<"%">> \o q \in I
    <2>1. EndsBare(After(q)) => Cuts(After(q), b)
      BY <1>3
    <2>2. EndsBare(<<"%">> \o q) => Cuts(<<"%">> \o q, b)
      BY <1>3, <2>1, CutAfterItem
    <2> QED
      BY <2>2
  <1> HIDE DEF I
  <1>4. \A a \in Seq(C) : a \in I
    BY <1>1, <1>2, <1>3, PatternInduction
  <1> QED
    BY <1>4 DEF I

LEMMA PatternIsGreedy ==
  ASSUME NEW C, NEW p \in Seq(C)
  PROVE  IsGreedy(p)
  <1> DEFINE A == Alphabet(C)
  <1>1. "%" \in A /\ OpenBrace \in A /\ CloseBrace \in A /\ p \in Seq(A)
    BY DEF Alphabet
  <1> HIDE DEF A
  <1>2. Len(p) \in Nat
    BY LenProperties
  <1>3. ASSUME NEW k \in 1 .. Len(p) - 1,
               Last(Scan(SubSeq(p, 1, k))).item, ~IsError(SubSeq(p, 1, k)),
               p[k] \notin {"%", CloseBrace}
        PROVE  (Scan(p) = Scan(SubSeq(p, 1, k)) \o Scan(SubSeq(p, k + 1, Len(p))))
               <=> SubSeq(p, k + 1, Len(p))[1] \notin Letters \cup {OpenBrace, CloseBrace}
    <2> DEFINE m == k + 1
               a == Part(p, 1, k)
               b == From(p, m)
    <2>1. m \in 1 .. Len(p) /\ m \in 1 .. Len(p) + 1 /\ m - 1 = k /\ k \in Int /\ 1 <= k /\ k <= Len(p)
      BY <1>2
    <2>2. p = a \o b /\ a \in Seq(A) /\ b \in Seq(A)
      <3> HIDE DEF m
      <3>1. 1 \in 1 .. Len(p) + 1
        BY <1>2
      <3>2. From(p, 1) = Part(p, 1, m - 1) \o From(p, m) /\ Part(p, 1, m - 1) \in Seq(A) /\ From(p, m) \in Seq(A)
        BY <1>1, <2>1, <3>1, FromSplit
      <3>3. From(p, 1) = p
        BY FromStart
      <3> QED
        BY <2>1, <3>2, <3>3
    <2>3. Len(a) = k /\ a[k] = p[k]
      <3>1. \A j \in 1 .. k : p[j] \in A
        BY <1>1, <2>1
      <3> QED
        BY <2>1, <3>1, SubSeqProperties DEF Part
    <2>4. b # <<>>
      <3> HIDE DEF m
      <3>1. Len(From(p, m)) = Len(p) + 1 - m
        BY <2>1, FromIs
      <3>2. Len(b) # 0
        BY <1>2, <2>1, <3>1
      <3> QED
        BY <3>2, EmptySeq
    <2>5. Last(Scan(a)).item /\ ~IsError(a)
      BY <1>3 DEF Part
    <2>6. SubSeq(p, 1, k) = a /\ SubSeq(p, k + 1, Len(p)) = b
      BY DEF Part, From
    <2> HIDE DEF a, b
    <2>7. EndsBare(a)
      <3>1. Last(a) = p[k]
        BY <2>3 DEF Last
      <3>2. a # <<>>
        BY <2>1, <2>3
      <3>3. ~HasError(Scan(a))
        BY <2>5 DEF IsError, HasError
      <3> QED
        BY <1>3, <2>5, <3>1, <3>2, <3>3 DEF EndsBare
    <2>8. Cuts(a, b)
      BY <1>1, <2>2, <2>4, <2>7, PatternIsCut
    <2> QED
      BY <2>2, <2>6, <2>8 DEF Cuts, NextLetters
  <1> QED
    BY <1>3 DEF IsGreedy

\* LogFormatter::init (140-298) reads a pattern as what it is a writing of, for
\* every pattern: what is read, written again, is the pattern; an error is one
\* brace that is open, and closing it changes its item and no other; and an item
\* without braces takes all it can, so that a pattern may be cut behind it exactly
\* where neither a letter nor a brace follows.
THEOREM PatternIsRead ==
  ASSUME NEW C, pattern \in Seq(C)
  PROVE  ScanReads
  BY PatternIsReading, PatternIsGreedy DEF ScanReads

-----------------------------------------------------------------------------
(* LexicalCast: what is inside a container, and what becomes of it          *)

\* What is inside at depth k, given what is inside at the depths before.
PartsFrom(to, T, x, parts, k) ==
  IF k = 1 THEN {x} ELSE UNION {Inside(to, T[k - 1], y) : y \in parts[k - 1]}

\* What Parts defines.
LEMMA PartsAt ==
  ASSUME NEW to, NEW T, NEW x, Len(T) \in Nat
  PROVE  \A k \in 1 .. Len(T) : Parts(to, T, x)[k] = PartsFrom(to, T, x, Parts(to, T, x), k)
  <1> DEFINE At(p, k) == PartsFrom(to, T, x, p, k)
             J == {n \in Nat : \E p : p = [k \in 1 .. n |-> At(p, k)]}
             parts == CHOOSE p : p = [k \in 1 .. Len(T) |-> At(p, k)]
  <1>1. 0 \in J
    <2> DEFINE p == [k \in 1 .. 0 |-> {}]
    <2>1. p = [k \in 1 .. 0 |-> At(p, k)]
      OBVIOUS
    <2> QED
      BY <2>1
  <1>2. ASSUME NEW n \in J PROVE n + 1 \in J
    <2>1. n \in Nat
      OBVIOUS
    <2>2. PICK p : p = [k \in 1 .. n |-> At(p, k)]
      OBVIOUS
    <2> DEFINE q == [k \in 1 .. n + 1 |-> IF k \in 1 .. n THEN p[k] ELSE At(p, k)]
    <2>3. ASSUME NEW k \in 1 .. n + 1 PROVE q[k] = At(q, k)
      <3>1. k # 1 => k - 1 \in 1 .. n /\ k - 1 \in 1 .. n + 1
        BY <2>1
      <3>2. k # 1 => q[k - 1] = p[k - 1]
        BY <3>1
      <3>3. At(q, k) = At(p, k)
        BY <3>2 DEF PartsFrom
      <3>4. k \in 1 .. n => p[k] = At(p, k)
        BY <2>2
      <3> HIDE DEF At
      <3> QED
        BY <3>3, <3>4
    <2>4. q = [k \in 1 .. n + 1 |-> At(q, k)]
      BY <2>3
    <2> HIDE DEF q, At
    <2> QED
      BY <2>1, <2>4
  <1>3. J = Nat
    <2>1. J \in SUBSET Nat
      OBVIOUS
    <2> HIDE DEF J
    <2> QED
      BY <1>1, <1>2, <2>1, Induction
  <1>4. parts = [k \in 1 .. Len(T) |-> At(parts, k)]
    <2>1. Len(T) \in J
      BY <1>3
    <2> HIDE DEF At
    <2> QED
      BY <2>1
  <1>5. Parts(to, T, x) = parts
    BY DEF Parts, PartsFrom
  <1> HIDE DEF At, parts
  <1>6. \A k \in 1 .. Len(T) : parts[k] = At(parts, k)
    BY <1>4
  <1> QED
    BY <1>5, <1>6 DEF At

\* What the parts y at depth k become, given what those at depth k + 1 become.
CastAt(to, T, casts, k, y) ==
  IF k = Len(T) THEN Single(to, T[k], y)
  ELSE Container(to, T[k], T[k + 1], [z \in Inside(to, T[k], y) |-> casts[k + 1][z]], y)

CastsFrom(to, T, x, casts, k) == [y \in Parts(to, T, x)[k] |-> CastAt(to, T, casts, k, y)]

\* What Casts defines.
LEMMA CastsAt ==
  ASSUME NEW to, NEW T, NEW x, Len(T) \in Nat
  PROVE  \A k \in 1 .. Len(T) : Casts(to, T, x)[k] = CastsFrom(to, T, x, Casts(to, T, x), k)
  <1> DEFINE N == Len(T)
             At(c, k) == CastsFrom(to, T, x, c, k)
             J == {n \in Nat : n <= N => \E c : c = [k \in N - n + 1 .. N |-> At(c, k)]}
             casts == CHOOSE c : c = [k \in 1 .. N |-> At(c, k)]
  <1>1. 0 \in J
    <2> DEFINE c == [k \in N - 0 + 1 .. N |-> {}]
    <2>1. c = [k \in N - 0 + 1 .. N |-> At(c, k)]
      BY N - 0 + 1 .. N = {}
    <2> QED
      BY <2>1
  <1>2. ASSUME NEW n \in J PROVE n + 1 \in J
    <2>1. n \in Nat
      OBVIOUS
    <2>2. SUFFICES ASSUME n + 1 <= N
                   PROVE  \E c : c = [k \in N - (n + 1) + 1 .. N |-> At(c, k)]
      BY <2>1
    <2>3. PICK c : c = [k \in N - n + 1 .. N |-> At(c, k)]
      BY <2>1, <2>2
    <2> DEFINE d == [k \in N - (n + 1) + 1 .. N |-> IF k \in N - n + 1 .. N THEN c[k] ELSE At(c, k)]
    <2>4. ASSUME NEW k \in N - (n + 1) + 1 .. N PROVE d[k] = At(d, k)
      <3>1. k # N => k + 1 \in N - n + 1 .. N /\ k + 1 \in N - (n + 1) + 1 .. N
        BY <2>1, <2>2
      <3>2. k # N => d[k + 1] = c[k + 1]
        BY <3>1
      <3>3. At(d, k) = At(c, k)
        <4> HIDE DEF d
        <4>1. \A y : CastAt(to, T, d, k, y) = CastAt(to, T, c, k, y)
          BY <3>2 DEF CastAt
        <4> QED
          BY <4>1 DEF CastsFrom
      <3>4. k \in N - n + 1 .. N => c[k] = At(c, k)
        BY <2>3
      <3> HIDE DEF At
      <3> QED
        BY <3>3, <3>4
    <2>5. d = [k \in N - (n + 1) + 1 .. N |-> At(d, k)]
      BY <2>4
    <2> HIDE DEF d, At
    <2> QED
      BY <2>5
  <1>3. J = Nat
    <2>1. J \in SUBSET Nat
      OBVIOUS
    <2> HIDE DEF J
    <2> QED
      BY <1>1, <1>2, <2>1, Induction
  <1>4. casts = [k \in 1 .. N |-> At(casts, k)]
    <2>1. N \in J /\ N - N + 1 = 1
      BY <1>3
    <2> HIDE DEF At
    <2> QED
      BY <2>1
  <1>5. Casts(to, T, x) = casts
    BY DEF Casts, CastsFrom, CastAt
  <1> HIDE DEF At, casts
  <1>6. \A k \in 1 .. Len(T) : casts[k] = At(casts, k)
    BY <1>4
  <1> QED
    BY <1>5, <1>6 DEF At

\* The same, one depth after another.
LEMMA PartsNext ==
  ASSUME NEW to, NEW T, NEW x, Len(T) \in Nat \ {0}
  PROVE  /\ Parts(to, T, x)[1] = {x}
         /\ \A k \in 1 .. Len(T) - 1 : \A z :
              z \in Parts(to, T, x)[k + 1] <=> \E w \in Parts(to, T, x)[k] : z \in Inside(to, T[k], w)
  <1>0. Len(T) \in Nat /\ 1 \in 1 .. Len(T)
    OBVIOUS
  <1>1. Parts(to, T, x)[1] = {x}
    <2>1. Parts(to, T, x)[1] = PartsFrom(to, T, x, Parts(to, T, x), 1)
      BY <1>0, PartsAt
    <2> QED
      BY <2>1 DEF PartsFrom
  <1>2. ASSUME NEW k \in 1 .. Len(T) - 1
        PROVE  Parts(to, T, x)[k + 1] = UNION {Inside(to, T[k], y) : y \in Parts(to, T, x)[k]}
    <2>1. k + 1 \in 1 .. Len(T) /\ k + 1 # 1 /\ k + 1 - 1 = k
      OBVIOUS
    <2>2. Parts(to, T, x)[k + 1] = PartsFrom(to, T, x, Parts(to, T, x), k + 1)
      BY <1>0, <2>1, PartsAt
    <2> QED
      BY <2>1, <2>2 DEF PartsFrom
  <1> QED
    BY <1>1, <1>2

\* U is the type of what is inside a container of type T.
ElementType(T, U) == /\ Len(U) \in Nat \ {0} /\ Len(T) = Len(U) + 1
                     /\ \A k \in 1 .. Len(U) : T[k + 1] = U[k]

\* What is inside x, is inside something that is inside x.
LEMMA PartsOfElements ==
  ASSUME NEW to, NEW T, NEW U, NEW x, ElementType(T, U)
  PROVE  \A k \in 1 .. Len(U) : \A z :
           z \in Parts(to, T, x)[k + 1] <=> \E y \in Inside(to, T[1], x) : z \in Parts(to, U, y)[k]
  <1> DEFINE Is(k) == \A z : z \in Parts(to, T, x)[k + 1] <=>
                               \E y \in Inside(to, T[1], x) : z \in Parts(to, U, y)[k]
             S == {k \in 1 .. Len(U) : Is(k)}
  <1>1. /\ Len(U) \in Nat /\ Len(T) \in Nat \ {0} /\ Len(U) \in Nat \ {0} /\ Len(T) - 1 = Len(U)
        /\ \A k \in 1 .. Len(U) : T[k + 1] = U[k]
    BY DEF ElementType
  <1>2. ASSUME NEW k \in 1 .. Len(U), \A j \in 1 .. k - 1 : j \in S
        PROVE  Is(k)
    <2>1. CASE k = 1
      <3>1. \A z : z \in Parts(to, T, x)[2] <=> z \in Inside(to, T[1], x)
        <4>1. 1 \in 1 .. Len(T) - 1
          BY <1>1
        <4>2. \A z : z \in Parts(to, T, x)[1 + 1] <=>
                       \E w \in Parts(to, T, x)[1] : z \in Inside(to, T[1], w)
          BY <1>1, <4>1, PartsNext
        <4>3. Parts(to, T, x)[1] = {x} /\ 1 + 1 = 2
          BY <1>1, PartsNext
        <4> QED
          BY <4>2, <4>3
      <3>2. \A y : Parts(to, U, y)[1] = {y}
        BY <1>1, PartsNext
      <3> QED
        BY <2>1, <3>1, <3>2
    <2>2. CASE k # 1
      <3>1. /\ k - 1 \in 1 .. Len(U) - 1 /\ k \in 1 .. Len(T) - 1 /\ k - 1 \in 1 .. k - 1
            /\ (k - 1) + 1 = k /\ k - 1 \in 1 .. Len(U)
        BY <1>1, <2>2
      <3>2. Is(k - 1)
        BY <1>2, <3>1
      <3>3. T[k] = U[k - 1]
        BY <1>1, <3>1
      <3>4. \A z : z \in Parts(to, T, x)[k + 1] <=>
                     \E w \in Parts(to, T, x)[k] : z \in Inside(to, U[k - 1], w)
        BY <1>1, <3>1, <3>3, PartsNext
      <3>5. \A y, z : z \in Parts(to, U, y)[k] <=>
                        \E w \in Parts(to, U, y)[k - 1] : z \in Inside(to, U[k - 1], w)
        BY <1>1, <3>1, PartsNext
      <3>6. \A w : w \in Parts(to, T, x)[k] <=>
                     \E y \in Inside(to, T[1], x) : w \in Parts(to, U, y)[k - 1]
        BY <3>1, <3>2
      <3> QED
        BY <3>4, <3>5, <3>6
    <2> QED
      BY <2>1, <2>2
  <1> HIDE DEF Is
  <1>3. \A k \in 1 .. Len(U) : k \in S
    <2>1. \A k \in 1 .. Len(U) : (\A j \in 1 .. k - 1 : j \in S) => k \in S
      BY <1>2
    <2> HIDE DEF S
    <2> QED
      BY <1>1, <2>1, UpInduction
  <1>4. \A k \in 1 .. Len(U) : Is(k)
    BY <1>3
  <1> QED
    BY <1>4 DEF Is

LEMMA CastBecomes ==
  ASSUME NEW to, NEW T, NEW x, Len(T) \in Nat, NEW k \in 1 .. Len(T), NEW z \in Parts(to, T, x)[k]
  PROVE  Casts(to, T, x)[k][z] = CastAt(to, T, Casts(to, T, x), k, z)
  <1>1. Casts(to, T, x)[k] = CastsFrom(to, T, x, Casts(to, T, x), k)
    BY CastsAt
  <1> QED
    BY <1>1 DEF CastsFrom

\* And becomes the same there.
LEMMA CastsOfElements ==
  ASSUME NEW to, NEW T, NEW U, NEW x, ElementType(T, U), NEW y \in Inside(to, T[1], x)
  PROVE  \A k \in 1 .. Len(U) : \A z \in Parts(to, U, y)[k] :
           Casts(to, T, x)[k + 1][z] = Casts(to, U, y)[k][z]
  <1> DEFINE c == Casts(to, T, x)
             d == Casts(to, U, y)
             Is(k) == \A z \in Parts(to, U, y)[k] : c[k + 1][z] = d[k][z]
             S == {k \in 1 .. Len(U) : Is(k)}
  <1>1. /\ Len(U) \in Nat /\ Len(T) \in Nat \ {0} /\ Len(U) \in Nat \ {0} /\ Len(T) = Len(U) + 1
        /\ Len(T) \in Nat /\ \A k \in 1 .. Len(U) : T[k + 1] = U[k]
    BY DEF ElementType
  <1>2. ASSUME NEW k \in 1 .. Len(U), \A j \in k + 1 .. Len(U) : j \in S
        PROVE  Is(k)
    <2> SUFFICES ASSUME NEW z \in Parts(to, U, y)[k]
                 PROVE  c[k + 1][z] = d[k][z]
      OBVIOUS
    <2>1. z \in Parts(to, T, x)[k + 1]
      BY PartsOfElements
    <2>2. k + 1 \in 1 .. Len(T)
      BY <1>1
    <2> HIDE DEF Is, S
    <2>3. c[k + 1][z] = CastAt(to, T, c, k + 1, z)
      <3>1. Len(T) \in Nat
        BY <1>1
      <3> QED
        BY <2>1, <2>2, <3>1, CastBecomes
    <2>4. d[k][z] = CastAt(to, U, d, k, z)
      <3>1. Len(U) \in Nat
        BY <1>1
      <3> QED
        BY <3>1, CastBecomes
    <2> USE DEF Is, S
    <2> HIDE DEF c, d
    <2>5. T[k + 1] = U[k] /\ (k + 1 = Len(T) <=> k = Len(U))
      BY <1>1
    <2>6. CASE k = Len(U)
      BY <2>3, <2>4, <2>5, <2>6 DEF CastAt
    <2>7. CASE k # Len(U)
      <3>1. k + 1 \in 1 .. Len(U) /\ k + 1 \in k + 1 .. Len(U) /\ k \in 1 .. Len(U) - 1
        BY <1>1, <2>7
      <3>2. T[k + 1 + 1] = U[k + 1]
        BY <1>1, <3>1
      <3>3. Is(k + 1)
        BY <1>2, <3>1
      <3>4. \A w \in Inside(to, U[k], z) : w \in Parts(to, U, y)[k + 1]
        BY <1>1, <3>1, PartsNext
      <3>5. [w \in Inside(to, T[k + 1], z) |-> c[k + 1 + 1][w]] = [w \in Inside(to, U[k], z) |-> d[k + 1][w]]
        BY <2>5, <3>3, <3>4
      <3> QED
        BY <2>3, <2>4, <2>5, <2>7, <3>2, <3>5 DEF CastAt
    <2> QED
      BY <2>6, <2>7
  <1> HIDE DEF Is
  <1>3. \A k \in 1 .. Len(U) : k \in S
    <2>1. \A k \in 1 .. Len(U) : (\A j \in k + 1 .. Len(U) : j \in S) => k \in S
      BY <1>2
    <2> HIDE DEF S
    <2> QED
      BY <1>1, <2>1, DownInduction
  <1>4. \A k \in 1 .. Len(U) : Is(k)
    BY <1>3
  <1> QED
    BY <1>4 DEF Is

\* What x becomes.
Becomes(to, T, x) == Casts(to, T, x)[1][x]

\* The two equations that every conversion obeys: it is a conversion of a number,
\* a string or a LogDefine,
LEMMA SingleBecomes ==
  ASSUME NEW to, NEW T, NEW x, Len(T) = 1
  PROVE  Becomes(to, T, x) = Single(to, T[1], x)
  <1>1. Len(T) \in Nat \ {0} /\ Len(T) \in Nat /\ 1 \in 1 .. Len(T)
    OBVIOUS
  <1>2. x \in Parts(to, T, x)[1]
    BY <1>1, PartsNext
  <1>3. Casts(to, T, x)[1][x] = CastAt(to, T, Casts(to, T, x), 1, x)
    BY <1>1, <1>2, CastBecomes
  <1> QED
    BY <1>3 DEF Becomes, CastAt

\* or of a container whose elements have become what they become on their own.
LEMMA ContainerBecomes ==
  ASSUME NEW to, NEW T, NEW U, NEW x, ElementType(T, U)
  PROVE  Becomes(to, T, x) =
           Container(to, T[1], T[2], [y \in Inside(to, T[1], x) |-> Becomes(to, U, y)], x)
  <1>1. /\ Len(T) \in Nat \ {0} /\ Len(T) \in Nat /\ 1 \in 1 .. Len(T) /\ Len(T) # 1
        /\ Len(U) \in Nat \ {0} /\ 1 \in 1 .. Len(U)
    BY DEF ElementType
  <1>2. x \in Parts(to, T, x)[1]
    BY <1>1, PartsNext
  <1>3. Casts(to, T, x)[1][x] = CastAt(to, T, Casts(to, T, x), 1, x)
    BY <1>1, <1>2, CastBecomes
  <1>4. ASSUME NEW y \in Inside(to, T[1], x)
        PROVE  Casts(to, T, x)[2][y] = Becomes(to, U, y)
    <2>1. y \in Parts(to, U, y)[1]
      BY <1>1, PartsNext
    <2>2. Casts(to, T, x)[1 + 1][y] = Casts(to, U, y)[1][y]
      BY <1>1, <2>1, CastsOfElements
    <2> QED
      BY <2>2 DEF Becomes
  <1>5. [y \in Inside(to, T[1], x) |-> Casts(to, T, x)[1 + 1][y]]
          = [y \in Inside(to, T[1], x) |-> Becomes(to, U, y)]
    BY <1>4
  <1>6. CastAt(to, T, Casts(to, T, x), 1, x)
          = Container(to, T[1], T[2], [y \in Inside(to, T[1], x) |-> Becomes(to, U, y)], x)
    BY <1>1, <1>5 DEF CastAt
  <1> QED
    BY <1>3, <1>6 DEF Becomes

-----------------------------------------------------------------------------
(* One container, given what becomes of its elements                        *)

LEMMA ElementKind ==
  ASSUME NEW T, NEW U, ElementType(T, U)
  PROVE  T[2] = U[1]
  <1>1. 1 \in 1 .. Len(U) /\ 1 + 1 = 2
    BY DEF ElementType
  <1> QED
    BY <1>1 DEF ElementType

\* The texts of containers from those of their elements.
LEMMA WriteListIs ==
  ASSUME NEW T, NEW U, NEW v, ElementType(T, U), T[1] = "list"
  PROVE  Write(T, v) = NodeOf("seq", [i \in DOMAIN v |-> LoadText(Write(U, v[i]))])
  <1> DEFINE e == [y \in Inside("text", T[1], v) |-> Becomes("text", U, y)]
  <1>1. Write(T, v) = Container("text", T[1], T[2], e, v)
    BY ContainerBecomes DEF Write, Becomes
  <1>2. \A i \in DOMAIN v : e[v[i]] = Write(U, v[i])
    BY DEF Inside, Write, Becomes
  <1> HIDE DEF e
  <1>3. Write(T, v) = WriteList(e, v)
    BY <1>1 DEF Container
  <1>4. [i \in DOMAIN v |-> LoadText(e[v[i]])] = [i \in DOMAIN v |-> LoadText(Write(U, v[i]))]
    BY <1>2
  <1> QED
    BY <1>3, <1>4 DEF WriteList

LEMMA WriteMapIs ==
  ASSUME NEW T, NEW U, NEW v, ElementType(T, U), T[1] = "map"
  PROVE  Write(T, v) = NodeOf("map", [k \in {Scalar(t) : t \in DOMAIN v} |->
                                        LoadText(Write(U, v[Content(k)]))])
  <1> DEFINE e == [y \in Inside("text", T[1], v) |-> Becomes("text", U, y)]
  <1>1. Write(T, v) = Container("text", T[1], T[2], e, v)
    BY ContainerBecomes DEF Write, Becomes
  <1>2. \A i \in DOMAIN v : e[v[i]] = Write(U, v[i])
    BY DEF Inside, Write, Becomes
  <1> HIDE DEF e
  <1>3. Write(T, v) = WriteMap(e, v)
    BY <1>1 DEF Container
  <1>4. \A k \in {Scalar(t) : t \in DOMAIN v} : Content(k) \in DOMAIN v
    BY DEF Scalar, Content
  <1>5. [k \in {Scalar(t) : t \in DOMAIN v} |-> LoadText(e[v[Content(k)]])]
          = [k \in {Scalar(t) : t \in DOMAIN v} |-> LoadText(Write(U, v[Content(k)]))]
    BY <1>2, <1>4
  <1> QED
    BY <1>3, <1>5 DEF WriteMap

\* The elements of a set in some order.
LEMMA SetToSeqIs ==
  ASSUME NEW v, IsFiniteSet(v)
  PROVE  SetToSeq(v) \in Seq(v) /\ ToSet(SetToSeq(v)) = v
  <1> DEFINE n == Cardinality(v)
             s == SetToSeq(v)
  <1>1. n \in Nat /\ \E f : f \in Bijection(1 .. n, v)
    BY FS_CardinalityType DEF ExistsBijection
  <1>2. \E f \in [1 .. n -> v] : IsInjective(f)
    BY <1>1 DEF Bijection, Injection, IsInjective
  <1>3. s \in [1 .. n -> v] /\ IsInjective(s)
    BY <1>2 DEF SetToSeq
  <1>4. IsFiniteSet(1 .. n) /\ Cardinality(1 .. n) = n
    BY <1>1, FS_Interval
  <1> HIDE DEF s
  <1>5. s \in Injection(1 .. n, v)
    BY <1>3 DEF Injection, IsInjective
  <1>6. s \in Surjection(1 .. n, v)
    BY <1>4, <1>5, FS_Injection
  <1>7. ToSet(s) = v
    BY <1>3, <1>6 DEF ToSet, Surjection
  <1>8. s \in Seq(v)
    BY <1>1, <1>3
  <1> QED
    BY <1>7, <1>8 DEF s

LEMMA WriteSetIs ==
  ASSUME NEW T, NEW U, NEW v, ElementType(T, U), T[1] = "set", IsFiniteSet(v)
  PROVE  Write(T, v) = NodeOf("seq", [i \in DOMAIN SetToSeq(v) |->
                                        Scalar(LoadText(Write(U, SetToSeq(v)[i])))])
  <1> DEFINE e == [y \in Inside("text", T[1], v) |-> Becomes("text", U, y)]
             s == SetToSeq(v)
  <1>1. Write(T, v) = Container("text", T[1], T[2], e, v)
    BY ContainerBecomes DEF Write, Becomes
  <1>2. \A i \in DOMAIN s : s[i] \in v
    BY SetToSeqIs
  <1>3. \A i \in DOMAIN s : e[s[i]] = Write(U, s[i])
    BY <1>2 DEF Inside, Write, Becomes
  <1> HIDE DEF e
  <1>4. Write(T, v) = WriteSet(e, v)
    BY <1>1 DEF Container
  <1>5. [i \in DOMAIN s |-> Scalar(LoadText(e[s[i]]))] = [i \in DOMAIN s |-> Scalar(LoadText(Write(U, s[i])))]
    BY <1>3
  <1> QED
    BY <1>4, <1>5 DEF WriteSet

\* The values in the elements of the text t.
ElementsRead(U, t) == All([i \in DOMAIN Elements(LoadText(t)) |-> Read(U, Elements(LoadText(t))[i])])

\* And the values of containers from those of their elements.
LEMMA ReadListIs ==
  ASSUME NEW T, NEW U, NEW t, NEW e, ElementType(T, U),
         e = [y \in Inside("value", T[1], t) |-> Becomes("value", U, y)]
  PROVE  ReadList(e, t) = ElementsRead(U, t)
  <1> DEFINE n == Elements(LoadText(t))
  <1>1. \A i \in DOMAIN n : n[i] \in Inside("value", T[1], t)
    BY DEF Inside, ToSet
  <1>2. \A i \in DOMAIN n : e[n[i]] = Read(U, n[i])
    BY <1>1 DEF Read, Becomes
  <1>3. [i \in DOMAIN n |-> e[n[i]]] = [i \in DOMAIN n |-> Read(U, n[i])]
    BY <1>2
  <1> QED
    BY <1>3 DEF ReadList, ElementsRead

LEMMA ReadIsContainer ==
  ASSUME NEW T, NEW U, NEW t, ElementType(T, U)
  PROVE  LET e == [y \in Inside("value", T[1], t) |-> Becomes("value", U, y)] IN
         /\ T[1] = "list" => Read(T, t) = ElementsRead(U, t)
         /\ T[1] = "set" => Read(T, t) = ReadSet(U[1], e, t) /\ ReadList(e, t) = ElementsRead(U, t)
         /\ T[1] = "map" => Read(T, t) = ReadMap(e, t)
  <1> DEFINE e == [y \in Inside("value", T[1], t) |-> Becomes("value", U, y)]
  <1>1. Read(T, t) = Container("value", T[1], T[2], e, t)
    BY ContainerBecomes DEF Read, Becomes
  <1>2. ReadList(e, t) = ElementsRead(U, t)
    BY ReadListIs
  <1>3. T[2] = U[1]
    BY ElementKind
  <1> HIDE DEF e
  <1>4. T[1] = "list" => Read(T, t) = ElementsRead(U, t)
    BY <1>1, <1>2 DEF Container
  <1>5. T[1] = "set" => Read(T, t) = ReadSet(U[1], e, t)
    BY <1>1, <1>3 DEF Container
  <1>6. T[1] = "map" => Read(T, t) = ReadMap(e, t)
    BY <1>1 DEF Container
  <1> QED
    BY <1>2, <1>4, <1>5, <1>6 DEF e

\* The keys of the map t.
KeysIn(t) == {Content(x) : x \in DOMAIN Entries(LoadText(t))}

LEMMA ReadMapIs ==
  ASSUME NEW T, NEW U, NEW t, ElementType(T, U), T[1] = "map"
  PROVE  Read(T, t) = All([k \in KeysIn(t) |-> Read(U, Scalar(k))])
  <1> DEFINE e == [y \in Inside("value", T[1], t) |-> Becomes("value", U, y)]
  <1>1. Read(T, t) = ReadMap(e, t)
    BY ReadIsContainer
  <1>2. \A k \in KeysIn(t) : Scalar(k) \in Inside("value", T[1], t)
    BY DEF Inside, KeysIn
  <1>3. \A k \in KeysIn(t) : e[Scalar(k)] = Read(U, Scalar(k))
    BY <1>2 DEF Read, Becomes
  <1> HIDE DEF e
  <1>4. [k \in KeysIn(t) |-> e[Scalar(k)]] = [k \in KeysIn(t) |-> Read(U, Scalar(k))]
    BY <1>3
  <1> QED
    BY <1>1, <1>4 DEF ReadMap, KeysIn

\* Of a set of anything but LogDefines all elements are read.
LEMMA AllElements ==
  ASSUME NEW S, NEW s \in Seq(S), NEW kind, kind # "LogDefine"
  PROVE  {s[i] : i \in {n \in DOMAIN s : \A m \in 1 .. n - 1 : ~SameElement(kind, s[m], s[n])}} = ToSet(s)
  <1> DEFINE First(n) == \A m \in 1 .. n - 1 : ~SameElement(kind, s[m], s[n])
             D == {n \in DOMAIN s : \E i \in DOMAIN s : First(i) /\ s[i] = s[n]}
  <1>1. DOMAIN s = 1 .. Len(s) /\ Len(s) \in Nat
    OBVIOUS
  <1>2. ASSUME NEW n \in 1 .. Len(s), \A k \in 1 .. n - 1 : k \in D
        PROVE  n \in D
    <2>1. CASE First(n)
      BY <1>1, <2>1
    <2>2. CASE ~First(n)
      <3>1. PICK m \in 1 .. n - 1 : s[m] = s[n]
        BY <2>2 DEF SameElement
      <3>2. m \in D
        BY <1>2
      <3> QED
        BY <1>1, <3>1, <3>2
    <2> QED
      BY <2>1, <2>2
  <1>3. \A n \in 1 .. Len(s) : n \in D
    <2> HIDE DEF D
    <2> QED
      BY <1>1, <1>2, UpInduction
  <1> HIDE DEF First
  <1>4. \A n \in DOMAIN s : \E i \in DOMAIN s : First(i) /\ s[i] = s[n]
    BY <1>1, <1>3
  <1>5. {s[i] : i \in {n \in DOMAIN s : First(n)}} = ToSet(s)
    BY <1>4 DEF ToSet
  <1> QED
    BY <1>5 DEF First

-----------------------------------------------------------------------------
(* Types, their values, and which values survive                            *)

\* A type, as LexicalCast has one.
IsType(T) == /\ \E S : T \in Seq(S)
             /\ T # <<>> /\ T[Len(T)] \in {"int", "string", "LogDefine"}
             /\ \A k \in 1 .. Len(T) - 1 : T[k] \in {"list", "set", "map"}

\* A type is that of no container, or has the type of its elements after it.
LEMMA TypeFacts ==
  ASSUME NEW T, IsType(T)
  PROVE  /\ Len(T) \in Nat \ {0}
         /\ T[1] \in {"int", "string", "LogDefine"} => Len(T) = 1
         /\ T[1] \notin {"int", "string", "LogDefine"} =>
              T[1] \in {"list", "set", "map"} /\ ElementType(T, Tail(T)) /\ IsType(Tail(T))
  <1> DEFINE N == Len(T)
             U == Tail(T)
  <1>1. PICK S : T \in Seq(S)
    BY DEF IsType
  <1>2. N \in Nat \ {0}
    <2>1. T # <<>>
      BY DEF IsType
    <2>2. \A t \in Seq(S) : t # <<>> => Len(t) \in Nat \ {0}
      BY EmptySeq
    <2> QED
      BY <1>1, <2>1, <2>2
  <1>3. N # 1 => 1 \in 1 .. N - 1
    <2> HIDE DEF N
    <2>1. N # 1 => 1 <= N - 1 /\ N - 1 \in Nat
      BY <1>2
    <2> QED
      BY <2>1
  <1>4. T[1] \in {"int", "string", "LogDefine"} => N = 1
    BY <1>3 DEF IsType
  <1>5. ASSUME T[1] \notin {"int", "string", "LogDefine"}
        PROVE  T[1] \in {"list", "set", "map"} /\ ElementType(T, U) /\ IsType(U)
    <2>1. N # 1
      BY <1>5 DEF IsType
    <2>2. T[1] \in {"list", "set", "map"}
      BY <1>3, <2>1 DEF IsType
    <2>3. U \in Seq(S) /\ Len(U) = N - 1 /\ \A k \in 1 .. N - 1 : U[k] = T[k + 1]
      BY <1>1, <1>2
    <2> HIDE DEF U
    <2>4. Len(U) \in Nat \ {0} /\ \A k \in 1 .. Len(U) : T[k + 1] = U[k]
      BY <1>2, <2>1, <2>3
    <2>5. U # <<>>
      BY <2>4
    <2>6. U[Len(U)] = T[N]
      BY <1>2, <2>3, <2>4
    <2>7. \A k \in 1 .. Len(U) - 1 : U[k] \in {"list", "set", "map"}
      <3> SUFFICES ASSUME NEW k \in 1 .. Len(U) - 1
                   PROVE  U[k] \in {"list", "set", "map"}
        OBVIOUS
      <3>1. k + 1 \in 1 .. N - 1 /\ U[k] = T[k + 1]
        BY <1>2, <2>3, <2>4
      <3> QED
        BY <3>1 DEF IsType
    <2>8. Len(T) = Len(U) + 1
      BY <1>2, <2>3
    <2> QED
      BY <2>2, <2>3, <2>4, <2>5, <2>6, <2>7, <2>8 DEF IsType, ElementType
  <1> QED
    BY <1>2, <1>4, <1>5

\* The definitions of loggers, with texts of W, that there are.
LogDefinesOf(W) ==
  [name : W, level : Levels \cup {"UNKNOW"}, formatter : W,
   appenders : Seq([type : 0 .. 2, level : Levels \cup {"UNKNOW"}, formatter : W, file : W])]

\* The values of a kind.
IsOfKind(W, kind, x) ==
  CASE kind = "int"       -> x \in Ints
    [] kind = "string"    -> x \in W
    [] kind = "LogDefine" -> x \in LogDefinesOf(W)
    [] kind = "list"      -> \E S : x \in Seq(S)
    [] kind = "set"       -> IsFiniteSet(x)
    [] kind = "map"       -> \E D, S : x \in [D -> S]

IsOfType(W, T, v) == \A k \in 1 .. Len(T) : \A x \in Parts("text", T, v)[k] : IsOfKind(W, T[k], x)

\* The elements of a value of a type are values of the type of its elements.
LEMMA ElementsOfType ==
  ASSUME NEW W, NEW T, NEW U, NEW v, ElementType(T, U), IsOfType(W, T, v)
  PROVE  IsOfKind(W, T[1], v) /\ \A y \in Inside("text", T[1], v) : IsOfType(W, U, y)
  <1>1. /\ Len(T) \in Nat \ {0} /\ 1 \in 1 .. Len(T)
        /\ \A k \in 1 .. Len(U) : k + 1 \in 1 .. Len(T) /\ T[k + 1] = U[k]
    BY DEF ElementType
  <1>2. v \in Parts("text", T, v)[1]
    BY <1>1, PartsNext
  <1>3. ASSUME NEW y \in Inside("text", T[1], v), NEW k \in 1 .. Len(U), NEW x \in Parts("text", U, y)[k]
        PROVE  IsOfKind(W, U[k], x)
    <2>1. x \in Parts("text", T, v)[k + 1]
      BY PartsOfElements
    <2>2. IsOfKind(W, T[k + 1], x)
      BY <1>1, <2>1 DEF IsOfType
    <2> QED
      BY <1>1, <2>2
  <1>4. IsOfKind(W, T[1], v)
    BY <1>1, <1>2 DEF IsOfType
  <1> QED
    BY <1>3, <1>4 DEF IsOfType

LEMMA SingleOfType ==
  ASSUME NEW W, NEW T, NEW v, Len(T) = 1, IsOfType(W, T, v)
  PROVE  IsOfKind(W, T[1], v)
  <1>1. Len(T) \in Nat \ {0} /\ 1 \in 1 .. Len(T)
    OBVIOUS
  <1>2. v \in Parts("text", T, v)[1]
    BY <1>1, PartsNext
  <1> QED
    BY <1>1, <1>2 DEF IsOfType

-----------------------------------------------------------------------------
(* What comes back                                                          *)

\* The containers whose text is "~".
IsEmpty(kind, v) == (kind = "set" /\ v = {}) \/ (kind \in {"list", "map"} /\ DOMAIN v = {})

\* Strings in a list must not be rewritten by a load and a dump.  The text of an
\* element of a set is put in quotes when it is not a plain scalar, and then is not
\* the element any more.  A map gives every key itself for its value.  The level
\* of an appender is written and not read.
Kept(T, k, v) ==
  CASE T[k] \in {"int", "list"} -> TRUE
    [] T[k] = "string" -> k > 1 => v[1] # "loose"
    [] T[k] = "set" -> \A x \in v :
         T[k + 1] = "int" \/ (T[k + 1] = "string" /\ x[1] = "plain") \/ IsEmpty(T[k + 1], x)
    [] T[k] = "map" -> \A i \in DOMAIN v :
         \/ T[k + 1] = "int" /\ i = Key(ToString(v[i]))
         \/ T[k + 1] = "string" /\ v[i] = Scalar(i)
         \/ IsEmpty(T[k + 1], v[i])
    [] T[k] = "LogDefine" -> \A i \in DOMAIN v.appenders : LET a == v.appenders[i] IN
         a.level = "UNKNOW" /\ (a.type = 1 \/ (a.type = 2 /\ a.file = EmptyText))

\* Which values come back from their text: those of which all is kept down to the
\* first set or map.
Survives(T, v) ==
  \A k \in 1 .. Len(T) : (\A j \in 1 .. k - 1 : T[j] = "list") =>
    \A x \in Parts("text", T, v)[k] : Kept(T, k, x)

\* A value comes back from its text exactly when it Survives.
ComesBack(T, v) == (Read(T, Write(T, v)) = Cast(v)) <=> Survives(T, v)

\* What has no list around it survives if it is kept.
LEMMA SurvivesHere ==
  ASSUME NEW T, NEW v, Len(T) \in Nat \ {0}, Len(T) = 1 \/ T[1] # "list"
  PROVE  Survives(T, v) <=> Kept(T, 1, v)
  <1>1. Parts("text", T, v)[1] = {v}
    BY PartsNext
  <1>2. 1 \in 1 .. Len(T) /\ \A j \in 1 .. 1 - 1 : T[j] = "list"
    OBVIOUS
  <1>3. ASSUME NEW k \in 1 .. Len(T), \A j \in 1 .. k - 1 : T[j] = "list"
        PROVE  k = 1
    <2>1. k # 1 => 1 \in 1 .. k - 1
      OBVIOUS
    <2>2. Len(T) = 1 => k = 1
      OBVIOUS
    <2> QED
      BY <1>3, <2>1, <2>2
  <1> QED
    BY <1>1, <1>2, <1>3 DEF Survives

\* A list does if its elements do, and strings also are not loose.
LEMMA KeptInList ==
  ASSUME NEW T, NEW U, NEW x, ElementType(T, U), IsType(U), NEW k \in 1 .. Len(U)
  PROVE  Kept(T, k + 1, x) <=> Kept(U, k, x) /\ (k = 1 /\ U[1] = "string" => x[1] # "loose")
  <1>1. T[k + 1] = U[k] /\ Len(U) \in Nat /\ k + 1 > 1 /\ (k > 1 <=> k # 1)
    BY DEF ElementType
  <1>2. CASE U[k] = "string"
    BY <1>1, <1>2 DEF Kept
  <1>3. CASE U[k] \in {"int", "list", "LogDefine"}
    BY <1>1, <1>3 DEF Kept
  <1>4. CASE U[k] \in {"set", "map"}
    <2>1. k # Len(U)
      BY <1>4 DEF IsType
    <2>2. k + 1 \in 1 .. Len(U)
      BY <1>1, <2>1
    <2>3. T[k + 1 + 1] = U[k + 1]
      BY <2>2 DEF ElementType
    <2>4. CASE U[k] = "set"
      BY <1>1, <2>3, <2>4 DEF Kept
    <2>5. CASE U[k] = "map"
      BY <1>1, <2>3, <2>5 DEF Kept
    <2> QED
      BY <1>4, <2>4, <2>5
  <1>5. U[k] \in {"int", "string", "LogDefine", "list", "set", "map"}
    <2>1. k = Len(U) \/ k \in 1 .. Len(U) - 1
      BY <1>1
    <2> QED
      BY <2>1 DEF IsType
  <1> QED
    BY <1>2, <1>3, <1>4, <1>5

LEMMA SurvivesInList ==
  ASSUME NEW T, NEW U, NEW v, ElementType(T, U), IsType(U), T[1] = "list"
  PROVE  Survives(T, v) <=>
           \A i \in DOMAIN v : Survives(U, v[i]) /\ (U[1] = "string" => v[i][1] # "loose")
  <1> DEFINE AllLists(k) == \A j \in 1 .. k - 1 : T[j] = "list"
             AllListsIn(k) == \A j \in 1 .. k - 1 : U[j] = "list"
             KeptAt(k) == AllLists(k) => \A x \in Parts("text", T, v)[k] : Kept(T, k, x)
             KeptInside(k) == AllListsIn(k) => \A i \in DOMAIN v : \A x \in Parts("text", U, v[i])[k] :
                           Kept(U, k, x) /\ (k = 1 /\ U[1] = "string" => x[1] # "loose")
  <1>1. /\ Len(T) \in Nat \ {0} /\ Len(U) \in Nat \ {0} /\ Len(T) = Len(U) + 1
        /\ \A k \in 1 .. Len(U) : k + 1 \in 1 .. Len(T) /\ T[k + 1] = U[k]
    BY DEF ElementType
  <1>2. KeptAt(1)
    <2>1. Kept(T, 1, v) /\ Parts("text", T, v)[1] = {v}
      BY <1>1, PartsNext DEF Kept
    <2> QED
      BY <2>1
  <1>3. ASSUME NEW k \in 1 .. Len(U)
        PROVE  KeptAt(k + 1) <=> KeptInside(k)
    <2>1. AllLists(k + 1) <=> AllListsIn(k)
      <3>1. ASSUME AllLists(k + 1), NEW j \in 1 .. k - 1 PROVE U[j] = "list"
        <4>1. j + 1 \in 1 .. k /\ j \in 1 .. Len(U)
          BY <1>1
        <4>2. k + 1 - 1 = k
          OBVIOUS
        <4> QED
          BY <1>1, <3>1, <4>1, <4>2
      <3>2. ASSUME AllListsIn(k), NEW j \in 1 .. k + 1 - 1 PROVE T[j] = "list"
        <4>1. CASE j = 1
          BY <4>1
        <4>2. CASE j # 1
          <5>1. j - 1 \in 1 .. k - 1 /\ j - 1 \in 1 .. Len(U) /\ j - 1 + 1 = j
            BY <1>1, <4>2
          <5> QED
            BY <1>1, <3>2, <5>1
        <4> QED
          BY <4>1, <4>2
      <3> QED
        BY <3>1, <3>2
    <2>2. \A x : x \in Parts("text", T, v)[k + 1] <=> \E i \in DOMAIN v : x \in Parts("text", U, v[i])[k]
      <3>1. \A x : x \in Parts("text", T, v)[k + 1] <=>
                     \E y \in Inside("text", T[1], v) : x \in Parts("text", U, y)[k]
        BY PartsOfElements
      <3> QED
        BY <3>1 DEF Inside
    <2>3. \A x : Kept(T, k + 1, x) <=> Kept(U, k, x) /\ (k = 1 /\ U[1] = "string" => x[1] # "loose")
      BY KeptInList
    <2> HIDE DEF AllLists, AllListsIn
    <2> QED
      BY <2>1, <2>2, <2>3
  <1>4. Survives(T, v) <=> \A k \in 1 .. Len(U) : KeptInside(k)
    <2> HIDE DEF KeptInside
    <2>1. Survives(T, v) <=> \A k \in 1 .. Len(T) : KeptAt(k)
      BY DEF Survives
    <2> HIDE DEF KeptAt
    <2>2. \A k \in 1 .. Len(T) : k = 1 \/ \E j \in 1 .. Len(U) : k = j + 1
      <3>1. \A k \in 1 .. Len(T) : k = 1 \/ (k - 1 \in 1 .. Len(U) /\ k = (k - 1) + 1)
        BY <1>1
      <3> QED
        BY <3>1
    <2> QED
      BY <1>1, <1>2, <1>3, <2>1, <2>2
  <1>5. (\A i \in DOMAIN v : Survives(U, v[i])) <=>
          \A k \in 1 .. Len(U) : AllListsIn(k) => \A i \in DOMAIN v : \A x \in Parts("text", U, v[i])[k] : Kept(U, k, x)
    BY DEF Survives
  <1>6. AllListsIn(1) /\ 1 \in 1 .. Len(U) /\ \A i \in DOMAIN v : Parts("text", U, v[i])[1] = {v[i]}
    BY <1>1, PartsNext
  <1> HIDE DEF AllListsIn
  <1> QED
    BY <1>4, <1>5, <1>6

-----------------------------------------------------------------------------
(* Scalars, nodes and what is cast                                          *)

\* A scalar has nothing in it.
LEMMA ScalarIsLoaded ==
  ASSUME NEW t
  PROVE  /\ LoadText(Scalar(t)) = Scalar(t) /\ Elements(Scalar(t)) = <<>> /\ Entries(Scalar(t)) = <<>>
         /\ ~Has(Scalar(t), "name")
  <1>1. Scalar(t)[1] \in {"plain", "quoted"}
    BY DEF Scalar
  <1>2. DOMAIN <<>> = {}
    OBVIOUS
  <1> QED
    BY <1>1, <1>2 DEF LoadText, Elements, Entries, Has

\* A node has in it what it was made of.
LEMMA NodeIsLoaded ==
  ASSUME NEW of
  PROVE  /\ \A kind \in {"seq", "map"} : /\ LoadText(NodeOf(kind, of)) = NodeOf(kind, of)
                                        /\ NodeOf(kind, of)[1] # "loose"
         /\ Elements(NodeOf("seq", of)) = of /\ Entries(NodeOf("map", of)) = of
  <1>1. CASE of = <<>>
    BY <1>1 DEF NodeOf, Null, LoadText, Elements, Entries
  <1>2. CASE of # <<>>
    BY <1>2 DEF NodeOf, LoadText, Elements, Entries
  <1> QED
    BY <1>1, <1>2

\* r is what a conversion gives.
IsCast(r) == r = Thrown \/ \E v : r = Cast(v)

LEMMA CastsDiffer ==
  /\ \A u, v : Cast(u) = Cast(v) => u = v
  /\ \A v : Cast(v).ok /\ Cast(v).val = v /\ Cast(v) # Thrown
  /\ ~Thrown.ok
  BY DEF Cast, Thrown

LEMMA AllIsCast ==
  ASSUME NEW f
  PROVE  IsCast(All(f))
  BY DEF IsCast, All

\* All gives v exactly if every part gives its part of v.
LEMMA AllIs ==
  ASSUME NEW f, NEW v, \A k \in DOMAIN f : IsCast(f[k]), v = [k \in DOMAIN f |-> v[k]]
  PROVE  All(f) = Cast(v) <=> \A k \in DOMAIN f : f[k] = Cast(v[k])
  <1>1. ASSUME All(f) = Cast(v), NEW k \in DOMAIN f
        PROVE  f[k] = Cast(v[k])
    <2>1. AllCast(f) /\ All(f) = Cast(Values(f))
      BY <1>1, CastsDiffer DEF All
    <2>2. Values(f) = v
      BY <1>1, <2>1, CastsDiffer
    <2>3. f[k].val = v[k] /\ f[k].ok
      BY <2>1, <2>2 DEF Values, AllCast
    <2>4. f[k] # Thrown
      BY <2>3, CastsDiffer
    <2>5. PICK u : f[k] = Cast(u)
      BY <2>4 DEF IsCast
    <2>6. u = v[k]
      BY <2>3, <2>5, CastsDiffer
    <2> QED
      BY <2>5, <2>6
  <1>2. ASSUME \A k \in DOMAIN f : f[k] = Cast(v[k])
        PROVE  All(f) = Cast(v)
    <2>1. AllCast(f)
      BY <1>2, CastsDiffer DEF AllCast
    <2>2. \A k \in DOMAIN f : f[k].val = v[k]
      BY <1>2, CastsDiffer
    <2>3. Values(f) = v
      BY <2>2 DEF Values
    <2> QED
      BY <2>1, <2>3 DEF All
  <1> QED
    BY <1>1, <1>2

LEMMA ReadIsCast ==
  ASSUME NEW T, IsType(T), NEW t
  PROVE  IsCast(Read(T, t))
  <1>1. CASE T[1] \in {"int", "string", "LogDefine"}
    <2>1. Read(T, t) = ReadSingle(T[1], t)
      BY <1>1, TypeFacts, SingleBecomes DEF Read, Becomes, Single
    <2>2. T[1] = "int" => IsCast(ReadSingle(T[1], t))
      BY DEF ReadSingle, IsCast
    <2>3. T[1] = "string" => IsCast(ReadSingle(T[1], t))
      BY DEF ReadSingle, IsCast
    <2>4. T[1] = "LogDefine" => IsCast(ReadSingle(T[1], t))
      BY DEF ReadSingle, IsCast, ReadDefine
    <2> QED
      BY <1>1, <2>1, <2>2, <2>3, <2>4
  <1>2. CASE T[1] \notin {"int", "string", "LogDefine"}
    <2> DEFINE U == Tail(T)
               e == [y \in Inside("value", T[1], t) |-> Becomes("value", U, y)]
    <2>1. T[1] \in {"list", "set", "map"} /\ ElementType(T, U)
      BY <1>2, TypeFacts
    <2> HIDE DEF U
    <2>2. CASE T[1] = "list"
      BY <2>1, <2>2, ReadIsContainer, AllIsCast DEF ElementsRead
    <2>3. CASE T[1] = "set"
      <3>1. Read(T, t) = ReadSet(U[1], e, t)
        BY <2>1, <2>3, ReadIsContainer
      <3> HIDE DEF e
      <3> QED
        BY <3>1 DEF ReadSet, IsCast
    <2>4. CASE T[1] = "map"
      BY <2>1, <2>4, ReadMapIs, AllIsCast
    <2> QED
      BY <2>1, <2>2, <2>3, <2>4
  <1> QED
    BY <1>1, <1>2

-----------------------------------------------------------------------------

\* What a container of a kind is that has nothing in it.
EmptyOf(kind) == IF kind = "set" THEN {} ELSE <<>>

LEMMA AllOfNothing ==
  ASSUME NEW f, DOMAIN f = {}, f = [k \in DOMAIN f |-> f[k]]
  PROVE  All(f) = Cast(<<>>)
  <1>1. AllCast(f)
    BY DEF AllCast
  <1>2. Values(f) = [k \in {} |-> f[k].val]
    BY DEF Values
  <1>3. Values(f) = <<>>
    BY <1>2
  <1> QED
    BY <1>1, <1>3 DEF All

\* Every container can be read from a scalar, as an empty one; a LogDefine cannot.
LEMMA ScalarIsRead ==
  ASSUME NEW T, IsType(T), NEW t
  PROVE  /\ T[1] \in {"list", "set", "map"} => Read(T, Scalar(t)) = Cast(EmptyOf(T[1]))
         /\ T[1] = "LogDefine" => Read(T, Scalar(t)) = Thrown
         /\ T[1] = "string" => Read(T, Scalar(t)) = Cast(Scalar(t))
  <1> DEFINE s == Scalar(t)
  <1>1. LoadText(s) = s /\ Elements(s) = <<>> /\ Entries(s) = <<>> /\ ~Has(s, "name")
    BY ScalarIsLoaded
  <1> HIDE DEF s
  <1>2. ASSUME T[1] \in {"int", "string", "LogDefine"}
        PROVE  Read(T, s) = ReadSingle(T[1], s)
    BY <1>2, TypeFacts, SingleBecomes DEF Read, Becomes, Single
  <1>3. T[1] = "LogDefine" => Read(T, s) = Thrown
    BY <1>1, <1>2 DEF ReadSingle, ReadDefine
  <1>4. T[1] = "string" => Read(T, s) = Cast(s)
    BY <1>2 DEF ReadSingle
  <1>5. ASSUME T[1] \in {"list", "set", "map"}
        PROVE  Read(T, s) = Cast(EmptyOf(T[1]))
    <2> DEFINE U == Tail(T)
               e == [y \in Inside("value", T[1], s) |-> Becomes("value", U, y)]
    <2>1. ElementType(T, U)
      BY <1>5, TypeFacts
    <2> HIDE DEF U
    <2>2. ElementsRead(U, s) = Cast(<<>>)
      <3> DEFINE f == [i \in DOMAIN Elements(LoadText(s)) |-> Read(U, Elements(LoadText(s))[i])]
      <3>1. DOMAIN f = {} /\ f = [k \in DOMAIN f |-> f[k]]
        BY <1>1
      <3>2. ElementsRead(U, s) = All(f)
        BY DEF ElementsRead
      <3> HIDE DEF f
      <3> QED
        BY <3>1, <3>2, AllOfNothing
    <2>3. CASE T[1] = "list"
      BY <2>1, <2>2, <2>3, ReadIsContainer DEF EmptyOf
    <2>4. CASE T[1] = "set"
      <3>1. Read(T, s) = ReadSet(U[1], e, s) /\ ReadList(e, s) = Cast(<<>>)
        BY <2>1, <2>2, <2>4, ReadIsContainer
      <3> HIDE DEF e
      <3>2. Read(T, s) = Cast({})
        BY <3>1, CastsDiffer DEF ReadSet
      <3> QED
        BY <2>4, <3>2 DEF EmptyOf
    <2>5. CASE T[1] = "map"
      <3>1. KeysIn(s) = {}
        BY <1>1 DEF KeysIn
      <3>2. Read(T, s) = Cast(<<>>)
        BY <2>1, <2>5, <3>1, ReadMapIs, AllOfNothing
      <3> QED
        BY <2>5, <3>2 DEF EmptyOf
    <2> QED
      BY <1>5, <2>3, <2>4, <2>5
  <1> QED
    BY <1>3, <1>4, <1>5 DEF s

\* Only one value of a kind is empty.
LEMMA EmptyIs ==
  ASSUME NEW W, NEW kind \in {"list", "set", "map"}, NEW x, IsOfKind(W, kind, x)
  PROVE  IsEmpty(kind, x) <=> x = EmptyOf(kind)
  <1>1. CASE kind = "list"
    <2>1. PICK S : x \in Seq(S)
      BY <1>1 DEF IsOfKind
    <2>2. DOMAIN x = {} <=> x = <<>>
      BY <2>1
    <2> QED
      BY <1>1, <2>2 DEF IsEmpty, EmptyOf
  <1>2. CASE kind = "set"
    BY <1>2 DEF IsEmpty, EmptyOf
  <1>3. CASE kind = "map"
    <2>1. PICK D, S : x \in [D -> S]
      BY <1>3 DEF IsOfKind
    <2>2. DOMAIN x = {} <=> x = <<>>
      BY <2>1
    <2> QED
      BY <1>3, <2>2 DEF IsEmpty, EmptyOf
  <1> QED
    BY <1>1, <1>2, <1>3

-----------------------------------------------------------------------------
(* Numbers, LogDefines, and the elements of sets                            *)

\* The texts W: what is loaded from a text is a node, and no text is in quotes for
\* ever.
AreTexts(W) == /\ \A t \in W : t[1] = "loose" => t[2][1] # "loose"
               /\ \A P \in SUBSET W : P # {} => \E t \in P : t[1] = "quoted" => t[2] \notin P

\* Numbers come back, since their texts differ.
LEMMA IntIsRead ==
  ASSUME NEW v \in Ints
  PROVE  /\ ReadSingle("int", Key(ToString(v))) = Cast(v)
         /\ Scalar(Key(ToString(v))) = Key(ToString(v)) /\ LoadText(Key(ToString(v))) = Key(ToString(v))
  <1> DEFINE t == Key(ToString(v))
             i == CHOOSE j \in Ints : Key(ToString(j)) = t
  <1>1. i \in Ints /\ Key(ToString(i)) = t
    OBVIOUS
  <1>2. ToString(i) = ToString(v)
    BY <1>1 DEF Key
  <1>3. i = v
    BY <1>1, <1>2, IntsAssumption
  <1>4. ReadSingle("int", t) = Cast(i)
    BY DEF ReadSingle
  <1>5. Scalar(t) = t /\ LoadText(t) = t
    BY DEF Scalar, LoadText, Key
  <1> QED
    BY <1>3, <1>4, <1>5

\* A LogDefine comes back if its appenders can be made, and is one that can be
\* made if it does.
LEMMA DefineSurvives ==
  ASSUME NEW W, NEW d \in LogDefinesOf(W)
  PROVE  (ReadDefine(WriteDefine(d)) = Cast(d)) <=> Kept(<<"LogDefine">>, 1, d)
  <1> DEFINE s == d.appenders
             Fit(a) == a.level = "UNKNOW" /\ (a.type = 1 \/ (a.type = 2 /\ a.file = EmptyText))
             AllFit == \A i \in DOMAIN s : Fit(s[i])
             A == [type : 0 .. 2, level : Levels \cup {"UNKNOW"}, formatter : W, file : W]
  <1>1. Kept(<<"LogDefine">>, 1, d) <=> AllFit
    BY DEF Kept
  <1>2. /\ s \in Seq(A)
        /\ d = [name |-> d.name, level |-> d.level, formatter |-> d.formatter, appenders |-> s]
        /\ d.level \in Levels \cup {"UNKNOW"}
    BY DEF LogDefinesOf
  <1>3. ASSUME AllFit
        PROVE  ReadDefine(WriteDefine(d)) = Cast(d)
    <2>1. \A i \in DOMAIN s : s[i] \in Made(W)
      <3> SUFFICES ASSUME NEW i \in DOMAIN s
                   PROVE  s[i] \in Made(W)
        OBVIOUS
      <3>1. s[i] \in A
        <4> HIDE DEF A, s
        <4> QED
          BY <1>2
      <3>2. Fit(s[i])
        BY <1>3
      <3> HIDE DEF s
      <3> QED
        BY <3>1, <3>2 DEF Made
    <2>2. s \in Seq(Made(W))
      BY <1>2, <2>1
    <2> HIDE DEF s
    <2>3. ReadAs(W, d.name, d.formatter, d.level, s)
      BY <1>2, <2>2 DEF ReadAs
    <2> QED
      BY <1>2, <2>3, DefineComesBack
  <1>4. ASSUME ReadDefine(WriteDefine(d)) = Cast(d)
        PROVE  AllFit
    <2> DEFINE n == WriteDefine(d)
               nodes == [i \in DOMAIN d.appenders |-> WriteAppender(d.appenders[i])]
               f == [name |-> Scalar(d.name), level |-> Key(d.level), formatter |-> Scalar(d.formatter),
                     appenders |-> <<"seq", nodes>>]
               keys == {"name"} \cup (IF d.level = "UNKNOW" THEN {} ELSE {"level"})
                       \cup (IF d.formatter = EmptyText THEN {} ELSE {"formatter"})
                       \cup (IF d.appenders = <<>> THEN {} ELSE {"appenders"})
    <2>1. n = Written(f, keys) /\ keys # {} /\ f["appenders"] = <<"seq", nodes>>
      BY DEF WriteDefine
    <2>2. nodes \in Seq({nodes[i] : i \in DOMAIN nodes})
      BY <1>2
    <2> HIDE DEF n, f, keys
    <2>3. /\ LoadText(n) = n /\ \A k : Has(n, k) <=> k \in keys
          /\ \A k \in keys : Entries(n)[Key(k)] = f[k]
      BY <2>1, WrittenEntries
    <2>4. AppendersOf(n) = <<>> \/ AppendersOf(n) = nodes
      <3> HIDE DEF nodes
      <3>1. CASE Has(n, "appenders")
        <4>1. AppendersOf(n) = Elements(<<"seq", nodes>>)
          BY <2>1, <2>3, <3>1 DEF AppendersOf
        <4> QED
          BY <4>1 DEF Elements
      <3>2. CASE ~Has(n, "appenders")
        BY <2>3, <3>2 DEF AppendersOf, Elements, Null
      <3> QED
        BY <3>1, <3>2
    <2> HIDE DEF nodes
    <2>5. PICK S : AppendersOf(n) \in Seq(S)
      <3> DEFINE Z == {nodes[i] : i \in DOMAIN nodes}
      <3>1. <<>> \in Seq(Z)
        OBVIOUS
      <3>2. AppendersOf(n) \in Seq(Z)
        BY <2>2, <2>4, <3>1
      <3> QED
        BY <3>2
    <2>6. PICK V : ReadAppenders(AppendersOf(n)) \in Seq(Made(V))
      BY <2>5, AppendersAreMade
    <2>7. ReadDefine(n) = Cast(d)
      BY <1>4 DEF n
    <2>8. ReadDefine(n) = Cast([name |-> As(n, "name"), level |-> FromString(As(n, "level")),
                                formatter |-> As(n, "formatter"),
                                appenders |-> ReadAppenders(AppendersOf(n))])
      <3>1. ReadDefine(n) # Thrown
        BY <2>7, CastsDiffer
      <3> QED
        BY <2>3, <3>1, ReadDefineDef
    <2>9. d = [name |-> As(n, "name"), level |-> FromString(As(n, "level")),
               formatter |-> As(n, "formatter"), appenders |-> ReadAppenders(AppendersOf(n))]
      BY <2>7, <2>8, CastsDiffer
    <2>10. s = ReadAppenders(AppendersOf(n))
      BY <2>9
    <2> HIDE DEF s
    <2>11. \A i \in DOMAIN s : s[i] \in Made(V)
      BY <2>6, <2>10
    <2> QED
      BY <2>11 DEF Made
  <1> QED
    BY <1>1, <1>3, <1>4

-----------------------------------------------------------------------------

\* A set is read from its text as the set of what its elements are read as.
LEMMA SetIsRead ==
  ASSUME NEW T, NEW U, NEW v, ElementType(T, U), T[1] = "set", IsFiniteSet(v),
         U[1] # "LogDefine", NEW h,
         \A x \in v : Read(U, Scalar(LoadText(Write(U, x)))) = Cast(h[x])
  PROVE  Read(T, Write(T, v)) = Cast({h[x] : x \in v})
  <1> DEFINE s == SetToSeq(v)
             w == [i \in DOMAIN s |-> Scalar(LoadText(Write(U, s[i])))]
             t == Write(T, v)
             e == [y \in Inside("value", T[1], t) |-> Becomes("value", U, y)]
             r == [i \in DOMAIN s |-> h[s[i]]]
             g == [i \in DOMAIN w |-> Read(U, w[i])]
  <1>1. s \in Seq(v) /\ ToSet(s) = v
    BY SetToSeqIs
  <1>2. t = NodeOf("seq", w)
    BY WriteSetIs
  <1>3. LoadText(t) = t /\ Elements(t) = w
    <2> HIDE DEF w, t
    <2> QED
      BY <1>2, NodeIsLoaded
  <1>4. Read(T, t) = ReadSet(U[1], e, t) /\ ReadList(e, t) = ElementsRead(U, t)
    BY ReadIsContainer
  <1>5. \A i \in DOMAIN s : s[i] \in v
    BY <1>1
  <1>6. \A i \in DOMAIN s : g[i] = Cast(r[i])
    BY <1>5
  <1>7. All(g) = Cast(r)
    <2>1. DOMAIN g = DOMAIN s /\ r = [k \in DOMAIN s |-> r[k]]
      OBVIOUS
    <2> HIDE DEF g, r
    <2>2. \A k \in DOMAIN g : IsCast(g[k])
      BY <1>6, <2>1 DEF IsCast
    <2> QED
      BY <1>6, <2>1, <2>2, AllIs
  <1>8. ElementsRead(U, t) = All(g)
    BY <1>3 DEF ElementsRead
  <1>9. r \in Seq({h[x] : x \in v}) /\ ToSet(r) = {h[x] : x \in v}
    <2>1. DOMAIN s = 1 .. Len(s) /\ Len(s) \in Nat
      BY <1>1
    <2>2. \A x \in v : \E i \in DOMAIN s : s[i] = x
      BY <1>1 DEF ToSet
    <2>3. r \in Seq({h[x] : x \in v})
      BY <1>5, <2>1
    <2>4. ToSet(r) = {h[x] : x \in v}
      BY <1>5, <2>2 DEF ToSet
    <2> QED
      BY <2>3, <2>4
  <1> HIDE DEF e, g, r, s, w, t
  <1>10. ReadSet(U[1], e, t)
           = Cast({r[i] : i \in {n \in DOMAIN r : \A m \in 1 .. n - 1 : ~SameElement(U[1], r[m], r[n])}})
    <2>1. ReadList(e, t) = Cast(r)
      BY <1>4, <1>7, <1>8
    <2>2. ReadList(e, t).ok /\ ReadList(e, t).val = r
      BY <2>1, CastsDiffer
    <2> QED
      BY <2>2 DEF ReadSet
  <1>11. ReadSet(U[1], e, t) = Cast(ToSet(r))
    BY <1>9, <1>10, AllElements
  <1> QED
    BY <1>4, <1>9, <1>11 DEF t

\* The strings in a set all stay themselves exactly if all are plain.
LEMMA StringsInSet ==
  ASSUME NEW W, AreTexts(W), NEW v \in SUBSET W
  PROVE  {Scalar(LoadText(x)) : x \in v} = v <=> \A x \in v : x[1] = "plain"
  <1> DEFINE m(x) == Scalar(LoadText(x))
             P == {x \in v : x[1] # "plain"}
  <1>1. \A x : x[1] = "plain" => m(x) = x
    BY DEF LoadText, Scalar
  <1>2. \A x : m(x)[1] \in {"plain", "quoted"}
    BY DEF Scalar
  <1>3. ASSUME \A x \in v : x[1] = "plain"
        PROVE  {m(x) : x \in v} = v
    <2>1. \A x \in v : m(x) = x
      BY <1>1, <1>3
    <2> HIDE DEF m
    <2> QED
      BY <2>1
  <1>4. ASSUME {m(x) : x \in v} = v
        PROVE  P = {}
    <2>1. SUFFICES ASSUME P # {}
                   PROVE  FALSE
      OBVIOUS
    <2>2. PICK x \in P : x[1] = "quoted" => x[2] \notin P
      <3>1. P \in SUBSET W
        OBVIOUS
      <3> HIDE DEF P
      <3> QED
        BY <2>1, <3>1 DEF AreTexts
    <2>3. PICK y \in v : x = m(y)
      BY <1>4
    <2>4. y[1] # "plain"
      BY <1>1, <2>3
    <2>5. y[1] # "loose"
      <3>1. \E z \in v : y = m(z)
        BY <1>4
      <3> QED
        BY <1>2, <3>1
    <2>6. x = <<"quoted", y>>
      BY <2>3, <2>4, <2>5 DEF LoadText, Scalar
    <2> QED
      BY <2>2, <2>4, <2>6
  <1> QED
    BY <1>3, <1>4

-----------------------------------------------------------------------------
(* Sets, maps and lists                                                     *)

\* v is a value of the type T, whose elements have the type U.
IsContainer(W, T, U, v) == /\ AreTexts(W) /\ IsType(T) /\ IsType(U) /\ ElementType(T, U)
                           /\ IsOfType(W, T, v)

LEMMA ContainerFacts ==
  ASSUME NEW W, NEW T, NEW U, NEW v, IsContainer(W, T, U, v)
  PROVE  /\ IsOfKind(W, T[1], v) /\ T[2] = U[1] /\ Len(T) \in Nat \ {0}
         /\ \A y \in Inside("text", T[1], v) : IsOfType(W, U, y) /\ IsOfKind(W, U[1], y)
         /\ U[1] \in {"int", "string", "LogDefine", "list", "set", "map"}
  <1>1. IsOfKind(W, T[1], v) /\ \A y \in Inside("text", T[1], v) : IsOfType(W, U, y)
    BY ElementsOfType DEF IsContainer
  <1>2. \A y : IsOfType(W, U, y) => IsOfKind(W, U[1], y)
    <2> SUFFICES ASSUME NEW y, IsOfType(W, U, y)
                 PROVE  IsOfKind(W, U[1], y)
      OBVIOUS
    <2>1. IsType(U)
      BY DEF IsContainer
    <2>2. CASE U[1] \in {"int", "string", "LogDefine"}
      BY <2>1, <2>2, TypeFacts, SingleOfType
    <2>3. CASE U[1] \notin {"int", "string", "LogDefine"}
      BY <2>1, <2>3, TypeFacts, ElementsOfType
    <2> QED
      BY <2>2, <2>3
  <1>3. T[2] = U[1] /\ Len(T) \in Nat \ {0}
    BY ElementKind, TypeFacts DEF IsContainer
  <1>4. U[1] \in {"int", "string", "LogDefine", "list", "set", "map"}
    BY TypeFacts DEF IsContainer
  <1> QED
    BY <1>1, <1>2, <1>3, <1>4

\* What is not a container becomes, and what is read from it.
LEMMA SingleIs ==
  ASSUME NEW T, IsType(T), T[1] \in {"int", "string", "LogDefine"}
  PROVE  /\ \A v : Write(T, v) = WriteSingle(T[1], v)
         /\ \A t : Read(T, t) = ReadSingle(T[1], t)
  BY TypeFacts, SingleBecomes DEF Read, Write, Becomes, Single

\* Sets.
LEMMA SetComesBack ==
  ASSUME NEW W, NEW T, NEW U, NEW v, IsContainer(W, T, U, v), T[1] = "set"
  PROVE  ComesBack(T, v)
  <1> DEFINE kind == U[1]
             Nothing == EmptyOf(kind)
  <1>1. /\ AreTexts(W) /\ IsType(T) /\ IsType(U) /\ ElementType(T, U) /\ T[2] = kind
        /\ Len(T) \in Nat \ {0} /\ IsFiniteSet(v) /\ \A x \in v : IsOfKind(W, kind, x)
    BY ContainerFacts DEF IsContainer, Inside, IsOfKind
  <1>2. Survives(T, v) <=> \A x \in v :
          kind = "int" \/ (kind = "string" /\ x[1] = "plain") \/ IsEmpty(kind, x)
    <2>1. Survives(T, v) <=> Kept(T, 1, v)
      BY <1>1, SurvivesHere
    <2>2. T[1 + 1] = kind
      BY <1>1
    <2> HIDE DEF kind
    <2> QED
      BY <2>1, <2>2 DEF Kept
  <1> SUFFICES (Read(T, Write(T, v)) = Cast(v)) <=> \A x \in v :
                 kind = "int" \/ (kind = "string" /\ x[1] = "plain") \/ IsEmpty(kind, x)
    BY <1>2 DEF ComesBack
  <1>3. CASE kind = "int"
    <2> DEFINE h == [x \in v |-> x]
    <2>1. \A x \in v : x \in Ints
      BY <1>1, <1>3 DEF IsOfKind
    <2>2. \A x \in v : Read(U, Scalar(LoadText(Write(U, x)))) = Cast(h[x])
      BY <1>1, <1>3, <2>1, SingleIs, IntIsRead DEF WriteSingle
    <2>3. {h[x] : x \in v} = v
      OBVIOUS
    <2> HIDE DEF h
    <2>4. Read(T, Write(T, v)) = Cast(v)
      BY <1>1, <1>3, <2>2, <2>3, SetIsRead
    <2> QED
      BY <1>3, <2>4
  <1>4. CASE kind = "string"
    <2> DEFINE h == [x \in v |-> Scalar(LoadText(x))]
    <2>1. v \in SUBSET W
      BY <1>1, <1>4 DEF IsOfKind
    <2>2. ASSUME NEW x \in v
          PROVE  Read(U, Scalar(LoadText(Write(U, x)))) = Cast(h[x])
      <3>1. Write(U, x) = x
        BY <1>1, <1>4, SingleIs DEF WriteSingle
      <3> QED
        BY <1>1, <1>4, <3>1, ScalarIsRead
    <2>3. {h[x] : x \in v} = {Scalar(LoadText(x)) : x \in v}
      OBVIOUS
    <2> HIDE DEF h
    <2>4. Read(T, Write(T, v)) = Cast({h[x] : x \in v})
      BY <1>1, <1>4, <2>2, SetIsRead
    <2>5. (Read(T, Write(T, v)) = Cast(v)) <=> {Scalar(LoadText(x)) : x \in v} = v
      BY <2>3, <2>4, CastsDiffer
    <2>6. \A x : ~IsEmpty(kind, x)
      BY <1>4 DEF IsEmpty
    <2> QED
      BY <1>1, <1>4, <2>1, <2>5, <2>6, StringsInSet
  <1>5. CASE kind \in {"list", "set", "map"}
    <2> DEFINE h == [x \in v |-> Nothing]
    <2>1. \A x \in v : Read(U, Scalar(LoadText(Write(U, x)))) = Cast(h[x])
      BY <1>1, <1>5, ScalarIsRead
    <2>2. {h[x] : x \in v} = {Nothing : x \in v}
      OBVIOUS
    <2> HIDE DEF h
    <2>3. Read(T, Write(T, v)) = Cast({h[x] : x \in v})
      BY <1>1, <1>5, <2>1, SetIsRead
    <2>4. (Read(T, Write(T, v)) = Cast(v)) <=> {Nothing : x \in v} = v
      BY <2>2, <2>3, CastsDiffer
    <2>5. {Nothing : x \in v} = v <=> \A x \in v : x = Nothing
      <3> HIDE DEF Nothing
      <3> QED
        OBVIOUS
    <2>6. \A x \in v : IsEmpty(kind, x) <=> x = Nothing
      BY <1>1, <1>5, EmptyIs
    <2> QED
      BY <1>5, <2>4, <2>5, <2>6
  <1>6. CASE kind = "LogDefine"
    <2> DEFINE s == SetToSeq(v)
               w == [i \in DOMAIN s |-> Scalar(LoadText(Write(U, s[i])))]
               t == Write(T, v)
               e == [y \in Inside("value", T[1], t) |-> Becomes("value", U, y)]
               g == [i \in DOMAIN w |-> Read(U, w[i])]
    <2>1. s \in Seq(v) /\ ToSet(s) = v
      BY <1>1, SetToSeqIs
    <2>2. t = NodeOf("seq", w)
      BY <1>1, WriteSetIs
    <2>3. LoadText(t) = t /\ Elements(t) = w
      <3> HIDE DEF w, t
      <3> QED
        BY <2>2, NodeIsLoaded
    <2>4. Read(T, t) = ReadSet(kind, e, t) /\ ReadList(e, t) = ElementsRead(U, t)
      <3>1. ElementType(T, U)
        BY <1>1
      <3> HIDE DEF t, w, s, g
      <3> QED
        BY <3>1, ReadIsContainer
    <2>5. \A i \in DOMAIN w : g[i] = Thrown
      BY <1>1, <1>6, ScalarIsRead
    <2>6. ElementsRead(U, t) = All(g)
      BY <2>3 DEF ElementsRead
    <2>7. \A x : ~IsEmpty(kind, x)
      BY <1>6 DEF IsEmpty
    <2>8. CASE v = {}
      <3>1. DOMAIN s = {}
        BY <2>1, <2>8
      <3>2. DOMAIN g = {} /\ g = [k \in DOMAIN g |-> g[k]]
        BY <3>1
      <3> HIDE DEF e, g, t
      <3>3. All(g) = Cast(<<>>)
        BY <3>2, AllOfNothing
      <3>4. ReadList(e, t).ok /\ ReadList(e, t).val = <<>>
        BY <2>4, <2>6, <3>3, CastsDiffer
      <3>5. ReadSet(kind, e, t) = Cast({})
        BY <3>4 DEF ReadSet
      <3> QED
        BY <2>4, <2>8, <3>5 DEF t
    <2>9. CASE v # {}
      <3>1. PICK i \in DOMAIN s : TRUE
        BY <2>1, <2>9 DEF ToSet
      <3>2. ~AllCast(g)
        <4>1. i \in DOMAIN g /\ g[i] = Thrown
          BY <2>5
        <4> HIDE DEF g
        <4> QED
          BY <4>1, CastsDiffer DEF AllCast
      <3> HIDE DEF e, g, t
      <3>3. ReadList(e, t) = Thrown
        BY <2>4, <2>6, <3>2 DEF All
      <3>4. ReadSet(kind, e, t) = Thrown
        BY <3>3, CastsDiffer DEF ReadSet
      <3>5. Read(T, Write(T, v)) # Cast(v)
        BY <2>4, <3>4, CastsDiffer DEF t
      <3> QED
        BY <1>6, <2>7, <2>9, <3>5
    <2> QED
      BY <2>8, <2>9
  <1> QED
    BY <1>3, <1>4, <1>5, <1>6, ContainerFacts

-----------------------------------------------------------------------------

\* Maps.
LEMMA MapComesBack ==
  ASSUME NEW W, NEW T, NEW U, NEW v, IsContainer(W, T, U, v), T[1] = "map"
  PROVE  ComesBack(T, v)
  <1> DEFINE kind == U[1]
             f == [k \in {Scalar(t) : t \in DOMAIN v} |-> LoadText(Write(U, v[Content(k)]))]
             g == [k \in DOMAIN v |-> Read(U, Scalar(k))]
             t == Write(T, v)
             Stays(k) == \/ kind = "int" /\ k = Key(ToString(v[k]))
                         \/ kind = "string" /\ v[k] = Scalar(k)
                         \/ IsEmpty(kind, v[k])
  <1>1. /\ AreTexts(W) /\ IsType(T) /\ IsType(U) /\ ElementType(T, U) /\ T[2] = kind
        /\ Len(T) \in Nat \ {0} /\ IsOfKind(W, "map", v)
    BY ContainerFacts DEF IsContainer
  <1>2. \A k \in DOMAIN v : IsOfKind(W, kind, v[k])
    <2>1. \A k \in DOMAIN v : v[k] \in Inside("text", T[1], v)
      BY DEF Inside
    <2> QED
      BY <2>1, ContainerFacts
  <1>3. v = [k \in DOMAIN v |-> v[k]]
    BY <1>1 DEF IsOfKind
  <1>4. Survives(T, v) <=> \A k \in DOMAIN v : Stays(k)
    <2>1. Survives(T, v) <=> Kept(T, 1, v)
      BY <1>1, SurvivesHere
    <2>2. T[1 + 1] = kind
      BY <1>1
    <2> HIDE DEF kind
    <2> QED
      BY <2>1, <2>2 DEF Kept
  <1>5. t = NodeOf("map", f)
    BY <1>1, WriteMapIs
  <1>6. LoadText(t) = t /\ Entries(t) = f
    <2> HIDE DEF f, t
    <2> QED
      BY <1>5, NodeIsLoaded
  <1>7. KeysIn(t) = DOMAIN v
    <2>1. KeysIn(t) = {Content(x) : x \in DOMAIN f}
      <3> HIDE DEF f, t
      <3> QED
        BY <1>6 DEF KeysIn
    <2>2. DOMAIN f = {Scalar(k) : k \in DOMAIN v}
      OBVIOUS
    <2> HIDE DEF f
    <2> QED
      BY <2>1, <2>2, ContentOfScalar
  <1>8. Read(T, t) = All(g)
    <2> HIDE DEF t
    <2> QED
      BY <1>1, <1>7, ReadMapIs
  <1>9. (Read(T, t) = Cast(v)) <=> \A k \in DOMAIN v : Read(U, Scalar(k)) = Cast(v[k])
    <2>1. \A k \in DOMAIN g : IsCast(g[k])
      BY <1>1, ReadIsCast
    <2>2. DOMAIN g = DOMAIN v /\ \A k \in DOMAIN v : g[k] = Read(U, Scalar(k))
      OBVIOUS
    <2> HIDE DEF g, t
    <2>3. All(g) = Cast(v) <=> \A k \in DOMAIN g : g[k] = Cast(v[k])
      BY <1>3, <2>1, <2>2, AllIs
    <2> QED
      BY <1>8, <2>2, <2>3
  <1>10. ASSUME NEW k \in DOMAIN v
         PROVE  (Read(U, Scalar(k)) = Cast(v[k])) <=> Stays(k)
    <2> DEFINE x == v[k]
    <2>1. IsOfKind(W, kind, x)
      BY <1>2
    <2> HIDE DEF x
    <2>2. CASE kind = "int"
      <3>1. x \in Ints
        BY <2>1, <2>2 DEF IsOfKind
      <3>2. Read(U, Scalar(k)) = ReadSingle("int", Scalar(k))
        BY <1>1, <2>2, SingleIs
      <3>3. ASSUME Read(U, Scalar(k)) = Cast(x)
            PROVE  k = Key(ToString(x))
        <4>1. Scalar(k) \in {Key(ToString(i)) : i \in Ints}
          BY <3>2, <3>3, CastsDiffer DEF ReadSingle
        <4>2. PICK i \in Ints : Scalar(k) = Key(ToString(i))
          BY <4>1
        <4>3. Cast(i) = Cast(x)
          BY <3>2, <3>3, <4>2, IntIsRead
        <4>4. Scalar(k) = Key(ToString(x))
          BY <4>2, <4>3, CastsDiffer
        <4> QED
          BY <4>4 DEF Scalar, Key
      <3>4. ASSUME k = Key(ToString(x))
            PROVE  Read(U, Scalar(k)) = Cast(x)
        BY <3>1, <3>2, <3>4, IntIsRead
      <3>5. ~IsEmpty(kind, x)
        BY <2>2 DEF IsEmpty
      <3> QED
        BY <2>2, <3>3, <3>4, <3>5 DEF x
    <2>3. CASE kind = "string"
      <3>1. Read(U, Scalar(k)) = Cast(Scalar(k))
        BY <1>1, <2>3, ScalarIsRead
      <3>2. ~IsEmpty(kind, x)
        BY <2>3 DEF IsEmpty
      <3> QED
        BY <2>3, <3>1, <3>2, CastsDiffer DEF x
    <2>4. CASE kind \in {"list", "set", "map"}
      <3>1. Read(U, Scalar(k)) = Cast(EmptyOf(kind))
        BY <1>1, <2>4, ScalarIsRead
      <3>2. IsEmpty(kind, x) <=> x = EmptyOf(kind)
        BY <2>1, <2>4, EmptyIs
      <3> QED
        BY <2>4, <3>1, <3>2, CastsDiffer DEF x
    <2>5. CASE kind = "LogDefine"
      <3>1. Read(U, Scalar(k)) = Thrown
        BY <1>1, <2>5, ScalarIsRead
      <3>2. ~IsEmpty(kind, x)
        BY <2>5 DEF IsEmpty
      <3> QED
        BY <2>5, <3>1, <3>2, CastsDiffer DEF x
    <2> QED
      BY <2>2, <2>3, <2>4, <2>5, ContainerFacts
  <1> HIDE DEF Stays
  <1> QED
    BY <1>4, <1>9, <1>10 DEF ComesBack, t

-----------------------------------------------------------------------------

\* Only a string can be a text that is not the dump of what it loads as.
LEMMA WriteIsDump ==
  ASSUME NEW W, NEW T, NEW v, IsType(T), IsOfType(W, T, v), T[1] # "string"
  PROVE  LoadText(Write(T, v)) = Write(T, v)
  <1> DEFINE U == Tail(T)
  <1>1. CASE T[1] \notin {"int", "string", "LogDefine"}
    <2>1. T[1] \in {"list", "set", "map"} /\ ElementType(T, U)
      BY <1>1, TypeFacts
    <2>2. IsOfKind(W, T[1], v)
      BY <2>1, ElementsOfType
    <2> HIDE DEF U
    <2>3. \E of : Write(T, v) = NodeOf("seq", of) \/ Write(T, v) = NodeOf("map", of)
      <3>1. CASE T[1] = "list"
        BY <2>1, <3>1, WriteListIs
      <3>2. CASE T[1] = "set"
        BY <2>1, <2>2, <3>2, WriteSetIs DEF IsOfKind
      <3>3. CASE T[1] = "map"
        BY <2>1, <3>3, WriteMapIs
      <3> QED
        BY <2>1, <3>1, <3>2, <3>3
    <2> QED
      BY <2>3, NodeIsLoaded
  <1>2. CASE T[1] = "int"
    <2>1. v \in Ints
      BY <1>2, TypeFacts, SingleOfType DEF IsOfKind
    <2> QED
      BY <1>2, <2>1, SingleIs, IntIsRead DEF WriteSingle
  <1>3. CASE T[1] = "LogDefine"
    <2>1. Write(T, v) = WriteDefine(v)
      BY <1>3, SingleIs DEF WriteSingle
    <2>2. \E of : WriteDefine(v) = NodeOf("map", of)
      BY DEF WriteDefine, Written
    <2> QED
      BY <2>1, <2>2, NodeIsLoaded
  <1> QED
    BY <1>1, <1>2, <1>3

\* A list comes back if its elements do.
LEMMA ListComesBack ==
  ASSUME NEW W, NEW T, NEW U, NEW v, IsContainer(W, T, U, v), T[1] = "list",
         \A i \in DOMAIN v : ComesBack(U, v[i])
  PROVE  ComesBack(T, v)
  <1> DEFINE w == [i \in DOMAIN v |-> LoadText(Write(U, v[i]))]
             g == [i \in DOMAIN w |-> Read(U, w[i])]
             t == Write(T, v)
  <1>1. /\ AreTexts(W) /\ IsType(T) /\ IsType(U) /\ ElementType(T, U)
        /\ IsOfKind(W, "list", v)
    BY ContainerFacts DEF IsContainer
  <1>2. \A i \in DOMAIN v : IsOfType(W, U, v[i]) /\ IsOfKind(W, U[1], v[i])
    BY ContainerFacts DEF Inside
  <1>3. v = [k \in DOMAIN v |-> v[k]]
    <2>1. PICK S : v \in Seq(S)
      BY <1>1 DEF IsOfKind
    <2> QED
      BY <2>1
  <1>4. t = NodeOf("seq", w)
    BY <1>1, WriteListIs
  <1>5. LoadText(t) = t /\ Elements(t) = w
    <2> HIDE DEF w, t
    <2> QED
      BY <1>4, NodeIsLoaded
  <1>6. Read(T, t) = All(g)
    <2>1. Read(T, t) = ElementsRead(U, t)
      <3> HIDE DEF t
      <3> QED
        BY <1>1, ReadIsContainer
    <2> QED
      BY <1>5, <2>1 DEF ElementsRead
  <1>7. (Read(T, t) = Cast(v)) <=> \A i \in DOMAIN v : Read(U, LoadText(Write(U, v[i]))) = Cast(v[i])
    <2>1. \A k \in DOMAIN g : IsCast(g[k])
      BY <1>1, ReadIsCast
    <2>2. DOMAIN g = DOMAIN v /\ \A k \in DOMAIN v : g[k] = Read(U, LoadText(Write(U, v[k])))
      OBVIOUS
    <2> HIDE DEF g, t
    <2>3. All(g) = Cast(v) <=> \A k \in DOMAIN g : g[k] = Cast(v[k])
      BY <1>3, <2>1, <2>2, AllIs
    <2> QED
      BY <1>6, <2>2, <2>3
  <1>8. Survives(T, v) <=>
          \A i \in DOMAIN v : Survives(U, v[i]) /\ (U[1] = "string" => v[i][1] # "loose")
    BY <1>1, SurvivesInList
  <1>9. ASSUME NEW i \in DOMAIN v
        PROVE  (Read(U, LoadText(Write(U, v[i]))) = Cast(v[i])) <=>
                 Survives(U, v[i]) /\ (U[1] = "string" => v[i][1] # "loose")
    <2> DEFINE x == v[i]
    <2>1. IsOfType(W, U, x) /\ IsOfKind(W, U[1], x) /\ ComesBack(U, x)
      BY <1>2
    <2> HIDE DEF x
    <2>2. CASE U[1] = "string"
      <3>1. x \in W
        BY <2>1, <2>2 DEF IsOfKind
      <3>2. Write(U, x) = x /\ Read(U, x) = Cast(x) /\ Read(U, LoadText(x)) = Cast(LoadText(x))
        BY <1>1, <2>2, SingleIs DEF WriteSingle, ReadSingle
      <3>3. Survives(U, x)
        BY <2>1, <3>2 DEF ComesBack
      <3>4. LoadText(x) = x <=> x[1] # "loose"
        BY <1>1, <3>1 DEF AreTexts, LoadText
      <3> QED
        BY <2>2, <3>2, <3>3, <3>4, CastsDiffer DEF x
    <2>3. CASE U[1] # "string"
      <3>1. LoadText(Write(U, x)) = Write(U, x)
        BY <1>1, <2>1, <2>3, WriteIsDump
      <3> QED
        BY <2>1, <2>3, <3>1 DEF ComesBack, x
    <2> QED
      BY <2>2, <2>3
  <1> HIDE DEF t
  <1> QED
    BY <1>7, <1>8, <1>9 DEF ComesBack, t

\* Values of every type come back from their text exactly if they survive it.
LEMMA ValuesComeBack ==
  ASSUME NEW W, AreTexts(W), NEW T, IsType(T), NEW v, IsOfType(W, T, v)
  PROVE  ComesBack(T, v)
  <1> DEFINE J == {n \in Nat : \A S : IsType(S) /\ Len(S) = n =>
                                 \A x : IsOfType(W, S, x) => ComesBack(S, x)}
  <1>1. ASSUME NEW S, IsType(S), S[1] \in {"int", "string", "LogDefine"}, NEW x, IsOfType(W, S, x)
        PROVE  ComesBack(S, x)
    <2>1. Read(S, Write(S, x)) = ReadSingle(S[1], WriteSingle(S[1], x))
      BY <1>1, SingleIs
    <2>2. Len(S) = 1 /\ Len(S) \in Nat \ {0}
      BY <1>1, TypeFacts
    <2>3. IsOfKind(W, S[1], x) /\ (Survives(S, x) <=> Kept(S, 1, x))
      BY <1>1, <2>2, SingleOfType, SurvivesHere
    <2>4. CASE S[1] = "int"
      <3>1. x \in Ints /\ Kept(S, 1, x)
        BY <2>3, <2>4 DEF IsOfKind, Kept
      <3>2. ReadSingle("int", WriteSingle("int", x)) = Cast(x)
        BY <3>1, IntIsRead DEF WriteSingle
      <3> QED
        BY <2>1, <2>3, <2>4, <3>1, <3>2 DEF ComesBack
    <2>5. CASE S[1] = "string"
      <3>1. Kept(S, 1, x) /\ ReadSingle("string", WriteSingle("string", x)) = Cast(x)
        BY <2>5 DEF Kept, ReadSingle, WriteSingle
      <3> QED
        BY <2>1, <2>3, <2>5, <3>1 DEF ComesBack
    <2>6. CASE S[1] = "LogDefine"
      <3>1. x \in LogDefinesOf(W)
        BY <2>3, <2>6 DEF IsOfKind
      <3>2. Kept(S, 1, x) <=> Kept(<<"LogDefine">>, 1, x)
        BY <2>6 DEF Kept
      <3>3. ReadSingle("LogDefine", WriteSingle("LogDefine", x)) = ReadDefine(WriteDefine(x))
        BY DEF ReadSingle, WriteSingle
      <3> QED
        BY <2>1, <2>3, <2>6, <3>1, <3>2, <3>3, DefineSurvives DEF ComesBack
    <2> QED
      BY <1>1, <2>4, <2>5, <2>6
  <1>2. ASSUME NEW S, IsType(S), S[1] \notin {"int", "string", "LogDefine"}, NEW x, IsOfType(W, S, x),
               \A y : IsOfType(W, Tail(S), y) => ComesBack(Tail(S), y)
        PROVE  ComesBack(S, x)
    <2> DEFINE U == Tail(S)
    <2>1. S[1] \in {"list", "set", "map"} /\ ElementType(S, U) /\ IsType(U)
      BY <1>2, TypeFacts
    <2>2. IsContainer(W, S, U, x)
      BY <1>2, <2>1 DEF IsContainer
    <2> HIDE DEF U
    <2>3. CASE S[1] = "list"
      <3>1. \A i \in DOMAIN x : IsOfType(W, U, x[i])
        BY <2>2, <2>3, ContainerFacts DEF Inside
      <3>2. \A i \in DOMAIN x : ComesBack(U, x[i])
        BY <1>2, <3>1 DEF U
      <3> QED
        BY <2>2, <2>3, <3>2, ListComesBack
    <2>4. CASE S[1] = "set"
      BY <2>2, <2>4, SetComesBack
    <2>5. CASE S[1] = "map"
      BY <2>2, <2>5, MapComesBack
    <2> QED
      BY <2>1, <2>3, <2>4, <2>5
  <1>3. 0 \in J
    BY TypeFacts
  <1>4. ASSUME NEW n \in J PROVE n + 1 \in J
    <2> SUFFICES ASSUME NEW S, IsType(S), Len(S) = n + 1, NEW x, IsOfType(W, S, x)
                 PROVE  ComesBack(S, x)
      OBVIOUS
    <2>1. CASE S[1] \in {"int", "string", "LogDefine"}
      BY <1>1, <2>1
    <2>2. CASE S[1] \notin {"int", "string", "LogDefine"}
      <3>1. IsType(Tail(S)) /\ ElementType(S, Tail(S))
        BY <2>2, TypeFacts
      <3>2. Len(Tail(S)) = n
        BY <3>1 DEF ElementType
      <3>3. \A y : IsOfType(W, Tail(S), y) => ComesBack(Tail(S), y)
        BY <3>1, <3>2
      <3> QED
        BY <1>2, <2>2, <3>3
    <2> QED
      BY <2>1, <2>2
  <1>5. J = Nat
    <2>1. J \in SUBSET Nat
      OBVIOUS
    <2> HIDE DEF J
    <2> QED
      BY <1>3, <1>4, <2>1, Induction
  <1>6. Len(T) \in J
    BY <1>5, TypeFacts
  <1> QED
    BY <1>6

-----------------------------------------------------------------------------
(* The description of the loggers                                           *)

\* The appenders of loggers and the loggers that there are, with texts of W.
AppendersWith(W) ==
  {a \in [type : {1, 2}, level : Levels \cup {"UNKNOW"}, file : W, has : BOOLEAN, formatter : W] :
     a.type = 2 => a.file = EmptyText}

LoggersWith(W) == [name : W, level : Levels \cup {"UNKNOW"}, formatter : W,
                   appenders : Seq(AppendersWith(W))]

\* What defines an appender, but for its level.
AppenderOf(a) == [type |-> a.type, level |-> "UNKNOW", file |-> a.file,
                  formatter |-> IF a.has THEN a.formatter ELSE EmptyText]

\* Appenders and loggers are read from their descriptions.
LEMMA AppenderIsRead ==
  ASSUME NEW W, NEW a \in AppendersWith(W)
  PROVE  ReadAppender(YamlOfAppender(a)) = <<AppenderOf(a)>>
  <1> DEFINE f == [type |-> Types[a.type], file |-> Scalar(a.file), level |-> Key(a.level),
                   formatter |-> Scalar(a.formatter)]
             keys == {"type"} \cup (IF a.type = 1 THEN {"file"} ELSE {})
                     \cup (IF a.level = "UNKNOW" THEN {} ELSE {"level"})
                     \cup (IF a.has THEN {"formatter"} ELSE {})
             n == YamlOfAppender(a)
  <1>1. a.type \in {1, 2} /\ a.has \in BOOLEAN /\ (a.type = 2 => a.file = EmptyText)
    BY DEF AppendersWith
  <1>2. "type" \in keys /\ ("file" \in keys <=> a.type = 1) /\ ("formatter" \in keys <=> a.has)
    BY <1>1
  <1>3. f["type"] = Types[a.type] /\ f["file"] = Scalar(a.file) /\ f["formatter"] = Scalar(a.formatter)
    OBVIOUS
  <1>4. n = Written(f, keys)
    BY DEF YamlOfAppender
  <1> HIDE DEF f, keys, n
  <1>5. /\ \A k : Has(n, k) <=> k \in keys
        /\ \A k \in keys : Entries(n)[Key(k)] = f[k]
    BY <1>2, <1>4, WrittenEntries
  <1>6. Has(n, "type") /\ As(n, "type") = Types[a.type]
    BY <1>1, <1>2, <1>3, <1>5, TypeNumbers, ContentOfKey DEF As
  <1>7. (Has(n, "file") <=> a.type = 1) /\ (a.type = 1 => As(n, "file") = a.file)
    BY <1>2, <1>3, <1>5, ContentOfScalar DEF As
  <1>8. As(n, "formatter") = IF a.has THEN a.formatter ELSE EmptyText
    BY <1>2, <1>3, <1>5, ContentOfScalar DEF As
  <1>9. TypeNumber(As(n, "type")) = a.type /\ As(n, "type") \in ToSet(Types)
    BY <1>1, <1>6, TypeNumbers
  <1>10. ReadAppender(n) = <<[type |-> a.type, level |-> "UNKNOW", formatter |-> As(n, "formatter"),
                              file |-> IF a.type = 1 THEN a.file ELSE EmptyText]>>
    BY <1>1, <1>6, <1>7, <1>9 DEF ReadAppender
  <1>11. (IF a.type = 1 THEN a.file ELSE EmptyText) = a.file
    BY <1>1
  <1> QED
    BY <1>8, <1>10, <1>11 DEF n, AppenderOf

LEMMA AppendersAreRead ==
  ASSUME NEW W, NEW b \in Seq(AppendersWith(W))
  PROVE  ReadAppenders([i \in DOMAIN b |-> YamlOfAppender(b[i])]) = [i \in DOMAIN b |-> AppenderOf(b[i])]
  <1> DEFINE w == [i \in DOMAIN b |-> YamlOfAppender(b[i])]
             s == [i \in DOMAIN b |-> AppenderOf(b[i])]
  <1>1. \A i \in DOMAIN b : ReadAppender(YamlOfAppender(b[i])) = <<AppenderOf(b[i])>>
    <2>1. \A i \in DOMAIN b : b[i] \in AppendersWith(W)
      OBVIOUS
    <2> QED
      BY <2>1, AppenderIsRead
  <1>2. [i \in DOMAIN w |-> ReadAppender(w[i])] = [i \in DOMAIN s |-> <<s[i]>>]
    BY <1>1
  <1>3. s \in Seq({s[i] : i \in DOMAIN s})
    OBVIOUS
  <1> HIDE DEF w, s
  <1>4. ReadAppenders(w) = s
    BY <1>2, <1>3, FlattenSingles DEF ReadAppenders
  <1> QED
    BY <1>4 DEF w, s

LEMMA LoggerIsRead ==
  ASSUME NEW W, NEW l \in LoggersWith(W)
  PROVE  ReadDefine(YamlOfLogger(l)) = Cast(DefinitionOf(l))
  <1> DEFINE b == l.appenders
             nodes == [i \in DOMAIN b |-> YamlOfAppender(b[i])]
             f == [name |-> Scalar(l.name), level |-> Key(l.level), formatter |-> Scalar(l.formatter),
                   appenders |-> <<"seq", nodes>>]
             keys == {"name", "formatter"} \cup (IF l.level = "UNKNOW" THEN {} ELSE {"level"})
                     \cup (IF b = <<>> THEN {} ELSE {"appenders"})
             n == YamlOfLogger(l)
  <1>1. b \in Seq(AppendersWith(W)) /\ l.level \in Levels \cup {"UNKNOW"}
    BY DEF LoggersWith
  <1>2. n = Written(f, keys)
    BY DEF YamlOfLogger
  <1>3. /\ "name" \in keys /\ ("level" \in keys <=> l.level # "UNKNOW")
        /\ "formatter" \in keys /\ ("appenders" \in keys <=> b # <<>>)
    OBVIOUS
  <1>4. /\ f["name"] = Scalar(l.name) /\ f["level"] = Key(l.level) /\ f["formatter"] = Scalar(l.formatter)
        /\ f["appenders"] = <<"seq", nodes>>
    OBVIOUS
  <1>5. DefinitionOf(l) = [name |-> l.name, level |-> l.level, formatter |-> l.formatter,
                           appenders |-> [i \in DOMAIN b |-> AppenderOf(b[i])]]
    BY DEF DefinitionOf, AppenderOf
  <1> HIDE DEF f, keys, n, b
  <1>6. /\ LoadText(n) = n /\ \A k : Has(n, k) <=> k \in keys
        /\ \A k \in keys : Entries(n)[Key(k)] = f[k]
    BY <1>2, <1>3, WrittenEntries
  <1>7. As(n, "name") = l.name /\ As(n, "formatter") = l.formatter /\ Has(n, "name")
    BY <1>3, <1>4, <1>6, ContentOfScalar DEF As
  <1>8. FromString(As(n, "level")) = l.level
    <2>1. As(n, "level") = IF l.level = "UNKNOW" THEN EmptyText ELSE Key(l.level)
      BY <1>3, <1>4, <1>6, ContentOfKey DEF As
    <2> QED
      BY <1>1, <2>1, LevelComesBack
  <1>9. AppendersOf(n) = nodes
    <2>1. CASE b = <<>>
      <3>1. AppendersOf(n) = <<>>
        BY <1>3, <1>6, <2>1 DEF AppendersOf, Elements, Null
      <3>2. nodes = <<>>
        BY <2>1
      <3> QED
        BY <3>1, <3>2
    <2>2. CASE b # <<>>
      <3> HIDE DEF nodes
      <3>1. AppendersOf(n) = Elements(<<"seq", nodes>>)
        BY <1>3, <1>4, <1>6, <2>2 DEF AppendersOf
      <3> QED
        BY <3>1 DEF Elements
    <2> QED
      BY <2>1, <2>2
  <1>10. ReadAppenders(nodes) = [i \in DOMAIN b |-> AppenderOf(b[i])]
    BY <1>1, AppendersAreRead
  <1> HIDE DEF nodes
  <1>11. ReadDefine(n) = Cast([name |-> As(n, "name"), level |-> FromString(As(n, "level")),
                               formatter |-> As(n, "formatter"),
                               appenders |-> ReadAppenders(AppendersOf(n))])
    BY <1>6, <1>7, ReadDefineDef
  <1> QED
    BY <1>5, <1>7, <1>8, <1>9, <1>10, <1>11 DEF n

\* The loggers of a LogManager, which have different names.
AreManaged(W, loggers) ==
  /\ loggers \in Seq(LoggersWith(W))
  /\ \A i, j \in DOMAIN loggers : loggers[i].name = loggers[j].name => i = j

\* And so are all the loggers of a LogManager.
LEMMA ManagerIsRead ==
  ASSUME NEW W, NEW loggers, AreManaged(W, loggers)
  PROVE  DescriptionIsRead(loggers)
  <1> DEFINE T == <<"set", "LogDefine">>
             U == Tail(T)
             w == [i \in DOMAIN loggers |-> YamlOfLogger(loggers[i])]
             t == YamlOfManager(loggers)
             e == [y \in Inside("value", T[1], t) |-> Becomes("value", U, y)]
             r == [i \in DOMAIN loggers |-> DefinitionOf(loggers[i])]
             g == [i \in DOMAIN w |-> Read(U, w[i])]
             First(n) == \A m \in 1 .. n - 1 : ~SameElement("LogDefine", r[m], r[n])
  <1>1. IsType(T) /\ T[1] = "set" /\ T[2] = "LogDefine"
    <2>1. T \in Seq({"set", "LogDefine"}) /\ Len(T) = 2 /\ T[1] = "set" /\ T[2] = "LogDefine"
      OBVIOUS
    <2> HIDE DEF T
    <2>2. T # <<>>
      BY <2>1, EmptySeq
    <2>3. Len(T) - 1 = 1 /\ \A k \in 1 .. 1 : k = 1
      BY <2>1
    <2> QED
      BY <2>1, <2>2, <2>3 DEF IsType
  <1> HIDE DEF T
  <1>2. ElementType(T, U) /\ IsType(U)
    BY <1>1, TypeFacts
  <1> HIDE DEF U
  <1>3. U[1] = "LogDefine"
    BY <1>1, <1>2, ElementKind
  <1>4. t = NodeOf("seq", w)
    BY DEF YamlOfManager
  <1>5. LoadText(t) = t /\ Elements(t) = w
    <2> HIDE DEF w, t
    <2> QED
      BY <1>4, NodeIsLoaded
  <1>6. Read(T, t) = ReadSet("LogDefine", e, t) /\ ReadList(e, t) = ElementsRead(U, t)
    <2> HIDE DEF t
    <2> QED
      BY <1>1, <1>2, <1>3, ReadIsContainer
  <1>7. ElementsRead(U, t) = All(g)
    BY <1>5 DEF ElementsRead
  <1>8. \A i \in DOMAIN loggers : loggers[i] \in LoggersWith(W)
    BY DEF AreManaged
  <1>9. \A i \in DOMAIN loggers : g[i] = Cast(r[i])
    <2> SUFFICES ASSUME NEW i \in DOMAIN loggers
                 PROVE  g[i] = Cast(r[i])
      OBVIOUS
    <2>1. ReadDefine(YamlOfLogger(loggers[i])) = Cast(DefinitionOf(loggers[i]))
      BY <1>8, LoggerIsRead
    <2>2. Read(U, w[i]) = ReadDefine(w[i])
      BY <1>2, <1>3, SingleIs DEF ReadSingle
    <2> QED
      BY <2>1, <2>2
  <1>10. All(g) = Cast(r)
    <2>1. DOMAIN g = DOMAIN loggers /\ r = [k \in DOMAIN loggers |-> r[k]]
      OBVIOUS
    <2> HIDE DEF g, r
    <2>2. \A k \in DOMAIN g : IsCast(g[k])
      BY <1>9, <2>1 DEF IsCast
    <2> QED
      BY <1>9, <2>1, <2>2, AllIs
  <1>11. DOMAIN r = DOMAIN loggers /\ \A i \in DOMAIN loggers : r[i].name = loggers[i].name
    BY DEF DefinitionOf
  <1>12. \A n \in DOMAIN r : First(n)
    <2> SUFFICES ASSUME NEW n \in DOMAIN r, NEW m \in 1 .. n - 1
                 PROVE  r[m].name # r[n].name
      BY DEF SameElement
    <2>1. DOMAIN loggers = 1 .. Len(loggers) /\ Len(loggers) \in Nat
      BY DEF AreManaged
    <2>2. m \in DOMAIN loggers /\ n \in DOMAIN loggers /\ m # n
      BY <1>11, <2>1
    <2> HIDE DEF r
    <2> QED
      BY <1>11, <2>2 DEF AreManaged
  <1>13. {r[i] : i \in {n \in DOMAIN r : First(n)}} = {DefinitionOf(loggers[i]) : i \in DOMAIN loggers}
    <2>1. {n \in DOMAIN r : First(n)} = DOMAIN loggers
      BY <1>11, <1>12
    <2> HIDE DEF First
    <2> QED
      BY <2>1
  <1> HIDE DEF e, g, t, r
  <1>14. ReadList(e, t).ok /\ ReadList(e, t).val = r
    BY <1>6, <1>7, <1>10, CastsDiffer
  <1>15. ReadSet("LogDefine", e, t) = Cast({r[i] : i \in {n \in DOMAIN r : First(n)}})
    BY <1>14 DEF ReadSet
  <1> QED
    BY <1>6, <1>13, <1>15 DEF DescriptionIsRead, t, T

\* Of any type, at any depth, exactly the values that Survive it come back from
\* their text: in a set, ints, plain strings and empty containers; in a map, what
\* its key reads as, for ReadMap gives every key for its value (LexicalCast,
\* config.h 35-281).
THEOREM ValuesSurvive ==
  ASSUME NEW W, AreTexts(W), NEW T, IsType(T), NEW v, IsOfType(W, T, v)
  PROVE  Read(T, Write(T, v)) = Cast(v) <=> Survives(T, v)
  BY ValuesComeBack DEF ComesBack

\* Where nothing is lost, all that is kept is kept.
LEMMA LosslessSurvives ==
  ASSUME NEW T, IsType(T), NEW v, Lossless(T, v)
  PROVE  Survives(T, v)
  <1>1. /\ Len(T) \in Nat \ {0} /\ T[Len(T)] \in {"int", "string"}
        /\ \A k \in 1 .. Len(T) - 1 : T[k] = "list" \/ (T[k] = "set" /\ T[k + 1] = "int")
    BY DEF IsType, Lossless
  <1>2. ASSUME NEW k \in 1 .. Len(T), NEW x \in Parts("text", T, v)[k]
        PROVE  Kept(T, k, x)
    <2>1. CASE k = Len(T) /\ T[k] = "int"
      BY <2>1 DEF Kept
    <2>2. CASE k = Len(T) /\ T[k] = "string"
      BY <1>2, <2>2 DEF Kept, Lossless
    <2>3. CASE k # Len(T)
      <3>1. T[k] = "list" \/ (T[k] = "set" /\ T[k + 1] = "int")
        BY <1>1, <2>3
      <3> QED
        BY <3>1 DEF Kept
    <2> QED
      BY <1>1, <2>1, <2>2, <2>3
  <1> QED
    BY <1>2 DEF Survives

\* Ints and strings, in lists to any depth, and sets of ints there come back from
\* their text (LexicalCast, config.h 35-136, 211-282); and the description of the
\* loggers of a LogManager, whatever they are, is read as all that defines them
\* but the levels of their appenders (toYamlString, logger.cpp 872-989).
THEOREM NothingIsLost ==
  ASSUME NEW W, AreTexts(W),
         \/ IsType(value[1]) /\ IsOfType(W, value[1], value[2])
         \/ value[1] = <<"loggers">> /\ AreManaged(W, value[2])
  PROVE  RoundTrips
  <1>1. CASE IsType(value[1]) /\ IsOfType(W, value[1], value[2])
    <2>1. value[1] # <<"loggers">>
      BY <1>1 DEF IsType
    <2>2. ComesBack(value[1], value[2])
      BY <1>1, ValuesComeBack
    <2>3. Lossless(value[1], value[2]) => Survives(value[1], value[2])
      BY <1>1, LosslessSurvives
    <2> QED
      BY <2>1, <2>2, <2>3 DEF RoundTrips, ComesBack
  <1>2. CASE value[1] = <<"loggers">> /\ AreManaged(W, value[2])
    <2>1. DescriptionIsRead(value[2])
      BY <1>2, ManagerIsRead
    <2> QED
      BY <1>2, <2>1 DEF RoundTrips
  <1> QED
    BY <1>1, <1>2
=============================================================================
