--------------------------- MODULE MCYamlMembers ---------------------------
(* All documents with at most MaxNodes nodes and keys of a few kinds.       *)
EXTENDS YamlMembers

CONSTANTS MaxNodes, KeysTried

MCTokens == {"", "port", "Port", "p9"}

MCValidTokens == {"", "port"}

MCLowerCase == [k \in MCTokens |-> IF k = "Port" THEN "port" ELSE k]

\* A name, one with a capital, the key of a nested map ("") and a dotted one.
MCKeys == {<<"port">>, <<"Port">>, <<"">>, <<"port", "port">>}

\* The same with a digit that regex_str does not have.
KeysWithDigit == MCKeys \cup {<<"p9">>}

Documents == {d \in UNION {[parent : [1 .. k -> 0 .. k - 1], key : [1 .. k -> KeysTried]]
                           : k \in 1 .. MaxNodes} : IsDocument(d)}

VARIABLE doc

Init == doc \in {d \in Documents : d.key[1] = <<"">>}

Next == UNCHANGED doc

Spec == Init /\ [][Next]_doc

\* For every document, ListAllMember lists exactly the nodes with a valid name,
\* each once, the last one first, and so inner parts before outer ones.
Lists == ListsValidNames(doc) /\ ListsAll(doc) /\ InnerFirst(doc)

\* For every document, names with capitals are lowered, not dropped.
Capitals == CapitalsAreLowered(doc)
=============================================================================
