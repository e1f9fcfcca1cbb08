------------------------------ MODULE MCDefine ------------------------------
(* The nodes a logger may be defined by.                                    *)
EXTENDS LogDefineText

UpToTwo(S) == {<<>>} \cup {<<x>> : x \in S} \cup (S \X S)

AppenderNodes ==
  {Written([type |-> t, file |-> Key("f"), level |-> Key("INFO"),
               formatter |-> Key("p")], D) :
     t \in {Types[1], Types[2], Key("Other")},
     D \in SUBSET {"type", "file", "level", "formatter"}}

DefineNodes ==
  {Written([name |-> Key("a"), level |-> l, formatter |-> f,
               appenders |-> NodeOf("seq", s)], D) :
     l \in {Key("INFO"), Key("verbose")}, f \in {Scalar(EmptyText), Key("p")},
     s \in UpToTwo(AppenderNodes), D \in SUBSET {"name", "level", "formatter", "appenders"}}

VARIABLE define

\* Every definition of a logger that is read from a configuration has appenders
\* the listener of LogIniter can make, and is what its text says.
DefinesMakeable == IsMakeable(define)
=============================================================================
