------------------------------- MODULE MCText -------------------------------
(* Everything that is parsed or written: the documents of MCYamlMembers, all *)
(* patterns up to a length, values of every type with their texts, loggers   *)
(* with their descriptions, and the nodes a logger may be defined by.        *)
EXTENDS MCYamlMembers, MCPattern, MCDefine, LexicalCast

VARIABLE value

-----------------------------------------------------------------------------
\* A name, a number, an empty text, one that is dumped otherwise, "~" and the
\* texts of a list and of a scalar in quotes.
Texts == {Key("a"), Key("7"), EmptyText, <<"loose", Key("a")>>, Null,
          <<"seq", <<Key("a")>>>>, <<"quoted", EmptyText>>}

Appenders == [type : 1 .. 2, level : {"UNKNOW", "ERROR"}, file : {EmptyText, Key("f")},
              formatter : {EmptyText, Key("p")}]

TwoAppenders == <<[type |-> 1, level |-> "UNKNOW", file |-> Key("f"), formatter |-> Key("p")],
                 [type |-> 2, level |-> "UNKNOW", file |-> EmptyText, formatter |-> EmptyText]>>

LogDefines == [name : {EmptyText, Key("a")}, level : {"UNKNOW", "INFO"},
               formatter : {Key("p")},
               appenders : {<<>>} \cup {<<a>> : a \in Appenders} \cup {TwoAppenders}]

\* Up to two loggers, with one appender, two or none.
LoggerAppenders == {<<>>} \cup
  {<<[type |-> 1, level |-> l, file |-> f, has |-> h, formatter |-> Key("p")]>> :
     l \in {"UNKNOW", "DEBUG"}, f \in {EmptyText, Key("f")}, h \in BOOLEAN} \cup
  {<<[type |-> 2, level |-> "DEBUG", file |-> EmptyText, has |-> h, formatter |-> p],
     [type |-> 1, level |-> "DEBUG", file |-> Key("f"), has |-> TRUE, formatter |-> Key("q")]>> :
     h \in BOOLEAN, p \in {EmptyText, Null}}

Loggers(name) == [name : {name}, level : {"UNKNOW", "WARN"}, formatter : {EmptyText, Key("p")},
                  appenders : LoggerAppenders]

Managed == {<<>>} \cup {<<l>> : l \in Loggers(Null)} \cup (Loggers(EmptyText) \X Loggers(Key("a")))

Singles == {<<"int">>, <<"string">>, <<"LogDefine">>}

Containers(types) == {<<c>> \o T : c \in {"list", "set", "map"}, T \in types}

CastTypes == Singles \cup Containers(Singles)
             \cup Containers(Containers(Singles \ {<<"LogDefine">>}))

ValuesOf(T) ==
  LET values[k \in 1 .. Len(T)] ==
        CASE T[k] = "int"       -> Ints
          [] T[k] = "string"    -> Texts
          [] T[k] = "LogDefine" -> LogDefines
          [] T[k] = "list"      -> UpToTwo(values[k + 1])
          [] T[k] = "set"       -> {ToSet(s) : s \in UpToTwo(values[k + 1])}
          [] T[k] = "map"       -> UNION {[D -> values[k + 1]] :
                                     D \in {ToSet(s) : s \in UpToTwo({Key("a"), Key("7"), EmptyText})}}
  IN  values[1]

-----------------------------------------------------------------------------
NoDocument == [parent |-> <<0>>, key |-> << <<"">> >>]

NoValue == << <<"int">>, 0>>

TextInit ==
  \/ /\ doc \in {d \in Documents : d.key[1] = <<"">>}
     /\ pattern = <<>> /\ value = NoValue /\ define = Null
  \/ /\ pattern \in Patterns
     /\ doc = NoDocument /\ value = NoValue /\ define = Null
  \/ /\ \E T \in CastTypes : \E v \in ValuesOf(T) : value = <<T, v>>
     /\ doc = NoDocument /\ pattern = <<>> /\ define = Null
  \/ /\ \E loggers \in Managed : value = << <<"loggers">>, loggers>>
     /\ doc = NoDocument /\ pattern = <<>> /\ define = Null
  \/ /\ define \in DefineNodes
     /\ doc = NoDocument /\ pattern = <<>> /\ value = NoValue

TextNext == UNCHANGED <<doc, pattern, value, define>>

TextSpec == TextInit /\ [][TextNext]_<<doc, pattern, value, define>>

\* LexicalCast gives back, from the text of a value of which it loses nothing, the
\* value; and from the description of the loggers, all that defines them but the
\* levels of their appenders.
RoundTrips == LET T == value[1]  v == value[2] IN
  IF T = <<"loggers">> THEN DescriptionIsRead(v)
  ELSE Lossless(T, v) => Read(T, Write(T, v)) = Cast(v)

\* What "conversion between std::string and the stl containers" and "between
\* string and T in both directions" promise, of containers of ints alone.
ConvertsBothWays == LET T == value[1]  v == value[2] IN
  T[Len(T)] = "int" => Read(T, Write(T, v)) = Cast(v)
=============================================================================
