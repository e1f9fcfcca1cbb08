--------------------------- MODULE MCFileAppender ---------------------------
(* Three threads log to one appender for a few seconds.                     *)
EXTENDS FileAppender, TLC

CONSTANTS a, b, c

ThreeThreads == {a, b, c}

Renamings == Permutations(ThreeThreads)
=============================================================================
