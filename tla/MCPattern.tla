----------------------------- MODULE MCPattern -----------------------------
(* All patterns up to a length.                                             *)
EXTENDS LogPattern

CONSTANTS Characters, PatternLength

MCEvent == [part \in {"content", "level", "elapse", "logger", "threadId", "time", "file",
                      "line", "fiberId", "threadName"} |-> <<part>>]

Patterns == UNION {[1 .. k -> Characters] : k \in 1 .. PatternLength}

VARIABLE pattern

\* LogFormatter::init reads every pattern as what it is a writing of, up to a
\* brace that is left open, and an item takes all it can.
ScanReads == IsReading(pattern) /\ IsGreedy(pattern)

\* A text with its '%' doubled is printed as it is, whatever is in it.
EscapesPrint == PrintsItself(pattern)
=============================================================================
