---------------------------- MODULE MCConfigVar ----------------------------
(* Instances of ConfigVar for TLC.                                          *)
EXTENDS ConfigVarTable, TLC

CONSTANTS x, y, a, b, a1, u, w

OneDefault == x :> u
TwoDefaults == x :> u @@ y :> u

\* Two threads, each calling from outside.
TwoThreads == a :> NoFrame @@ b :> NoFrame
\* Two threads and a call made by a's listener.
Nested == TwoThreads @@ a1 :> a
=============================================================================
