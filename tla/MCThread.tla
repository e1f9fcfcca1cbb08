------------------------------ MODULE MCThread ------------------------------
(* Instances of Thread for TLC.                                             *)
EXTENDS Thread

CONSTANTS m, o1, o2

\* main uses both objects, the thread of o1 both, that of o2 its own: no circle of
\* threads that join each other.
Downwards == {<<m, o1>>, <<m, o2>>, <<o1, o2>>, <<o1, o1>>, <<o2, o2>>}
=============================================================================
