----------------------------- MODULE MCLogReload -----------------------------
(* Instances of LogReload for TLC.                                          *)
EXTENDS LogReload, TLC

CONSTANTS logs, start, l1, l2, t, f0, f1, f2

LogDefine(name, level, formatter, appenders) ==
  [name |-> name, level |-> level, formatter |-> formatter, appenders |-> appenders]

MCNames == {1, 2}

\* Two appenders, one with a formatter of its own; the same logger with other
\* appenders only; a logger called "root" whose pattern is wrong.
Two   == LogDefine(1, 2, f1, <<NoPattern, f2>>)
Other == LogDefine(1, 2, f1, <<BadPattern>>)
Root  == LogDefine(2, 0, BadPattern, <<f1>>)
Quiet == LogDefine(1, 5, NoPattern, <<>>)

MCValues == {{}, {Two}, {Other, Root}, {Quiet}}

MCDefault == logs :> {}

MCParent == [c \in {start, l1, l2} |-> NoFrame]
=============================================================================
