-------------------------- MODULE MCConfigRegistry --------------------------
(* Instances of ConfigRegistry for TLC.                                     *)
EXTENDS ConfigRegistry

CONSTANTS t1, t2, v1, v2, v3, int, set_log

MCTokens == {"", "log", "level", "Log"}

MCValidTokens == {"", "log", "level"}

MCLowerCase == [k \in MCTokens |-> IF k = "Log" THEN "log" ELSE k]

\* Names that nest, one that is not valid, and the empty one, which is.
MCAsked == {<<"">>, <<"log">>, <<"log", "level">>, <<"Log">>}

\* log: {level: x}; Log: y; log.level: z; "": {log: w}
Nested == [parent |-> <<0, 1, 2, 1, 1, 1, 6>>,
           key |-> <<<<"">>, <<"log">>, <<"level">>, <<"Log">>, <<"log", "level">>, <<"">>, <<"log">>>>]

\* log: y; level: {log: x}: two names that nothing is registered for come first.
Unknown == [parent |-> <<0, 1, 1, 3>>, key |-> <<<<"">>, <<"log">>, <<"level">>, <<"log">>>>]

OnlyUnknown == {Unknown}

Both == {Nested, Unknown}

Symmetry == Permutations({t1, t2}) \cup Permutations({v1, v2, v3})
=============================================================================
