--------------------------- MODULE LogDefineText ---------------------------
(***************************************************************************)
(* Texts of a configuration, and the conversions between them and the      *)
(* definitions of loggers (src/src/src/logger/logger.cpp 318-350, 870-990) *)
(* and from loggers (toYamlString).                                        *)
(*                                                                         *)
(* A YAML node is                                                          *)
(*   <<"null">>, <<"plain", scalar>>, <<"quoted", text>> (a scalar that is *)
(*   written in quotes), <<"seq", nodes>> or <<"map", [texts -> nodes]>>.  *)
(* A text is the node it is the dump of, or <<"loose", n>>: a text that    *)
(* loads as n and is not its dump, like the empty one, or a comment.       *)
(***************************************************************************)
EXTENDS Naturals, Sequences, SequencesExt

Null == <<"null">>

EmptyText == <<"loose", Null>>

\* YAML::Load.
LoadText(t) == IF t[1] = "loose" THEN t[2] ELSE t

\* The node of a string: yaml-cpp quotes it where it would read as something else.
Scalar(t) == IF t[1] = "plain" THEN t ELSE <<"quoted", t>>

\* The string in a scalar node.
Content(n) == IF n[1] = "quoted" THEN n[2] ELSE n

\* size and operator[]: nothing but a sequence has elements.
Elements(n) == IF n[1] = "seq" THEN n[2] ELSE <<>>

Entries(n) == IF n[1] = "map" THEN n[2] ELSE <<>>

\* What push_back or assignment by key makes of an empty node: a null.
NodeOf(kind, of) == IF of = <<>> THEN Null ELSE <<kind, of>>

\* A conversion throws or has a value.
Thrown == [ok |-> FALSE]

Cast(v) == [ok |-> TRUE, val |-> v]

AllCast(f) == \A k \in DOMAIN f : f[k].ok

Values(f) == [k \in DOMAIN f |-> f[k].val]

-----------------------------------------------------------------------------
(* LogDefine                                                                *)

Levels == {"DEBUG", "INFO", "WARN", "ERROR", "FATAL"}

\* LogLevel::FromString of the text of a node that need not be there.
FromString(t) == IF t \in {<<"plain", l>> : l \in Levels} THEN t[2] ELSE "UNKNOW"

Key(k) == <<"plain", k>>

Has(n, k) == Key(k) \in DOMAIN Entries(n)

As(n, k) == IF Has(n, k) THEN Content(Entries(n)[Key(k)]) ELSE EmptyText

Types == <<Key("FileLogAppender"), Key("StdoutLogAppender")>>

TypeNumber(t) == CHOOSE i \in DOMAIN Types : Types[i] = t

\* The entries of f that are written at all.
Written(f, keys) == NodeOf("map", [k \in {Key(x) : x \in keys} |-> f[k[2]]])

WriteAppender(a) ==
  Written([type |-> IF a.type = 0 THEN Null ELSE Types[a.type], file |-> Scalar(a.file),
           level |-> Key(a.level), formatter |-> Scalar(a.formatter)],
          (IF a.type = 0 THEN {} ELSE {"type"}) \cup (IF a.type = 1 THEN {"file"} ELSE {})
          \cup (IF a.level = "UNKNOW" THEN {} ELSE {"level"})
          \cup (IF a.formatter = EmptyText THEN {} ELSE {"formatter"}))

WriteDefine(d) ==
  Written([name |-> Scalar(d.name), level |-> Key(d.level), formatter |-> Scalar(d.formatter),
           appenders |-> <<"seq", [i \in DOMAIN d.appenders |-> WriteAppender(d.appenders[i])]>>],
          {"name"} \cup (IF d.level = "UNKNOW" THEN {} ELSE {"level"})
          \cup (IF d.formatter = EmptyText THEN {} ELSE {"formatter"})
          \cup (IF d.appenders = <<>> THEN {} ELSE {"appenders"}))

\* Mutant of ReadAppender: one of an unknown type is kept, with the type 0.
ReadAppenderOfAnyType(n) ==
  IF ~Has(n, "type") THEN <<>>
  ELSE LET type == IF As(n, "type") \in ToSet(Types) THEN TypeNumber(As(n, "type")) ELSE 0 IN
    IF type = 1 /\ ~Has(n, "file") THEN <<>>
    ELSE <<[type |-> type, level |-> "UNKNOW", formatter |-> As(n, "formatter"),
            file |-> IF type = 1 THEN As(n, "file") ELSE EmptyText]>>

\* An appender without a type that is known, or a file that has no name, is
\* left out; the level is not read.
ReadAppender(n) ==
  IF ~Has(n, "type") \/ As(n, "type") \notin ToSet(Types) THEN <<>>
  ELSE LET type == TypeNumber(As(n, "type")) IN
    IF type = 1 /\ ~Has(n, "file") THEN <<>>
    ELSE <<[type |-> type, level |-> "UNKNOW", formatter |-> As(n, "formatter"),
            file |-> IF type = 1 THEN As(n, "file") ELSE EmptyText]>>

ReadDefine(t) == LET n == LoadText(t) IN
  IF ~Has(n, "name") THEN Thrown
  ELSE Cast([name |-> As(n, "name"), level |-> FromString(As(n, "level")),
             formatter |-> As(n, "formatter"),
             appenders |-> LET a == Elements(IF Has(n, "appenders")
                                             THEN Entries(n)[Key("appenders")] ELSE Null)
                           IN  FlattenSeq([i \in DOMAIN a |-> ReadAppender(a[i])])])

-----------------------------------------------------------------------------
(* toYamlString                                                             *)

\* A FileLogAppender or StdoutLogAppender; has is m_hasFormatter.
YamlOfAppender(a) ==
  Written([type |-> Types[a.type], file |-> Scalar(a.file), level |-> Key(a.level),
           formatter |-> Scalar(a.formatter)],
          {"type"} \cup (IF a.type = 1 THEN {"file"} ELSE {})
          \cup (IF a.level = "UNKNOW" THEN {} ELSE {"level"})
          \cup (IF a.has THEN {"formatter"} ELSE {}))

YamlOfLogger(l) ==
  Written([name |-> Scalar(l.name), level |-> Key(l.level), formatter |-> Scalar(l.formatter),
           appenders |-> <<"seq", [i \in DOMAIN l.appenders |-> YamlOfAppender(l.appenders[i])]>>],
          {"name", "formatter"} \cup (IF l.level = "UNKNOW" THEN {} ELSE {"level"})
          \cup (IF l.appenders = <<>> THEN {} ELSE {"appenders"}))

\* LogManager: the loggers of m_loggers in the order of their names.
YamlOfManager(loggers) == NodeOf("seq", [i \in DOMAIN loggers |-> YamlOfLogger(loggers[i])])

-----------------------------------------------------------------------------
\* A definition that is read from a configuration has appenders that can be made,
\* and its text says the same: ReadDefine never gives what WriteDefine loses.
IsMakeable(t) == LET r == ReadDefine(t) IN
  r.ok => /\ \A i \in DOMAIN r.val.appenders : r.val.appenders[i].type \in {1, 2}
          /\ ReadDefine(WriteDefine(r.val)) = r
=============================================================================
