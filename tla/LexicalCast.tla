----------------------------- MODULE LexicalCast -----------------------------
(***************************************************************************)
(* LexicalCast between texts and values (src/src/include/config/config.h   *)
(* 35-282).  A type is the sequence of its kinds: any number of "list"     *)
(* (vector and list), "set" (set and unordered_set) and "map" (map and     *)
(* unordered_map, whose keys are strings), and last "int", "string" or     *)
(* "LogDefine".                                                            *)
(***************************************************************************)
EXTENDS LogDefineText, TLC

CONSTANT Ints   \* the values of type int

\* std::to_string tells the ints apart.
ASSUME IntsAssumption == \A i, j \in Ints : ToString(i) = ToString(j) => i = j

-----------------------------------------------------------------------------
(* Types that are no containers                                             *)

WriteSingle(kind, v) ==
  CASE kind = "int"       -> Key(ToString(v))
    [] kind = "string"    -> v
    [] kind = "LogDefine" -> WriteDefine(v)

ReadSingle(kind, t) ==
  CASE kind = "int"       -> IF t \in {Key(ToString(i)) : i \in Ints}
                             THEN Cast(CHOOSE i \in Ints : Key(ToString(i)) = t) ELSE Thrown
    [] kind = "string"    -> Cast(t)
    [] kind = "LogDefine" -> ReadDefine(t)

-----------------------------------------------------------------------------
(* Containers: e is what becomes of everything that is inside               *)

\* Mutant of WriteList: the elements are dumped, as those of a set are.
WriteListDumped(e, v) == NodeOf("seq", [i \in DOMAIN v |-> Scalar(LoadText(e[v[i]]))])

WriteList(e, v) == NodeOf("seq", [i \in DOMAIN v |-> LoadText(e[v[i]])])

\* In the order of the set, which no conversion depends on.
WriteSet(e, v) == LET s == SetToSeq(v) IN NodeOf("seq", [i \in DOMAIN s |-> Scalar(LoadText(e[s[i]]))])

WriteMap(e, v) ==
  NodeOf("map", [k \in {Scalar(t) : t \in DOMAIN v} |-> LoadText(e[v[Content(k)]])])

\* The values in f, or the first that is thrown.
All(f) == IF AllCast(f) THEN Cast(Values(f)) ELSE Thrown

ReadList(e, t) == LET n == Elements(LoadText(t)) IN All([i \in DOMAIN n |-> e[n[i]]])

\* LogDefines are compared by name; an insert of what is there does nothing.
SameElement(kind, x, y) == IF kind = "LogDefine" THEN x.name = y.name ELSE x = y

ReadSet(kind, e, t) == LET r == ReadList(e, t) IN
  IF ~r.ok THEN Thrown
  ELSE Cast({r.val[i] : i \in {n \in DOMAIN r.val :
                                 \A m \in 1 .. n - 1 : ~SameElement(kind, r.val[m], r.val[n])}})

\* Both parts of an entry are read from it->first.
ReadMap(e, t) == LET n == Entries(LoadText(t)) IN
  All([k \in {Content(x) : x \in DOMAIN n} |-> e[Scalar(k)]])

-----------------------------------------------------------------------------
(* A conversion to "text" or to a "value"                                   *)

\* What is inside a container, or inside the node of its text.
Inside(to, kind, x) ==
  IF to = "text" THEN IF kind = "set" THEN x ELSE {x[k] : k \in DOMAIN x}
  ELSE LET n == LoadText(x) IN
       ToSet(Elements(n)) \cup {Scalar(Content(k)) : k \in DOMAIN Entries(n)} \cup ToSet(Entries(n))

\* The same at every depth of the type: x itself at 1.
Parts(to, T, x) ==
  LET parts[k \in 1 .. Len(T)] ==
        IF k = 1 THEN {x} ELSE UNION {Inside(to, T[k - 1], y) : y \in parts[k - 1]}
  IN  parts

Single(to, kind, x) == IF to = "text" THEN WriteSingle(kind, x) ELSE ReadSingle(kind, x)

Container(to, kind, element, e, x) ==
  CASE kind = "list" -> IF to = "text" THEN WriteList(e, x) ELSE ReadList(e, x)
    [] kind = "set"  -> IF to = "text" THEN WriteSet(e, x) ELSE ReadSet(element, e, x)
    [] kind = "map"  -> IF to = "text" THEN WriteMap(e, x) ELSE ReadMap(e, x)

\* What becomes of the parts at every depth.
Casts(to, T, x) ==
  LET casts[k \in 1 .. Len(T)] ==
        [y \in Parts(to, T, x)[k] |->
           IF k = Len(T) THEN Single(to, T[k], y)
           ELSE Container(to, T[k], T[k + 1], [z \in Inside(to, T[k], y) |-> casts[k + 1][z]], y)]
  IN  casts

\* The text of the value v of type T.
Write(T, v) == Casts("text", T, v)[1][v]

\* The value of type T in the text t.
Read(T, t) == Casts("value", T, t)[1][t]

-----------------------------------------------------------------------------
\* Values of which the conversions lose nothing: ints and strings in lists to any
\* depth, and ints in sets there.  Strings in a list are texts that a load and a
\* dump do not rewrite.
Lossless(T, v) ==
  /\ T[Len(T)] # "LogDefine"
  /\ \A k \in 1 .. Len(T) - 1 : T[k] = "list" \/ (T[k] = "set" /\ T[k + 1] = "int")
  /\ Len(T) > 1 /\ T[Len(T)] = "string" => \A x \in Parts("text", T, v)[Len(T)] : x[1] # "loose"

\* What defines the logger l, but for the levels of its appenders.
DefinitionOf(l) ==
  [name |-> l.name, level |-> l.level, formatter |-> l.formatter,
   appenders |-> [i \in DOMAIN l.appenders |-> LET a == l.appenders[i] IN
     [type |-> a.type, level |-> "UNKNOW", file |-> a.file,
      formatter |-> IF a.has THEN a.formatter ELSE EmptyText]]]

\* The description that the LogManager gives of its loggers is a configuration:
\* read as the value of "logs" it gives their definitions.
DescriptionIsRead(loggers) ==
  Read(<<"set", "LogDefine">>, YamlOfManager(loggers))
    = Cast({DefinitionOf(loggers[i]) : i \in DOMAIN loggers})
=============================================================================
