----------------------------- MODULE LogPattern -----------------------------
(***************************************************************************)
(* LogFormatter (src/src/src/logger/logger.cpp 106-314, 354-492): init     *)
(* turns a pattern into items, format prints an event with them.  A        *)
(* pattern is a sequence of characters; the scan is a function of the      *)
(* position at which it stands.                                            *)
(***************************************************************************)
EXTENDS Naturals, Sequences, SequencesExt, TLC

CONSTANTS
  Letters,   \* the characters for which isalpha holds
  event      \* the event to print: a record of texts

OpenBrace == "{"
CloseBrace == "}"

Text(str) == [item |-> FALSE, str |-> str, fmt |-> <<>>, error |-> FALSE]
Item(str, fmt) == [item |-> TRUE, str |-> str, fmt |-> fmt, error |-> FALSE]
Unclosed == [item |-> TRUE, str |-> <<"<<error>>">>, fmt |-> <<>>, error |-> TRUE]

\* The first position from i on whose character is in S, or the one after the end.
Find(p, i, S) == LET at == {n \in i .. Len(p) : p[n] \in S} IN
  IF at = {} THEN Len(p) + 1 ELSE CHOOSE n \in at : \A m \in at : n <= m

\* Mutant of NameEnd: '}' ends a name.
NameEndAtBrace(p, i) == Find(p, i, ToSet(p) \ Letters)

\* Where the name of an item that begins at i ends: at the first character that
\* is neither a letter nor '}'.
NameEnd(p, i) == Find(p, i, ToSet(p) \ (Letters \cup {CloseBrace}))

\* The item whose '%' is before position i, and the position after it.
ItemAt(p, i) ==
  LET n == NameEnd(p, i)
      close == Find(p, n, {CloseBrace}) IN
  IF n > Len(p) \/ p[n] # OpenBrace THEN <<Item(SubSeq(p, i, n - 1), <<>>), n>>
  ELSE IF close > Len(p) THEN <<Unclosed, close>>
  ELSE <<Item(SubSeq(p, i, n - 1), SubSeq(p, n + 1, close - 1)), close + 1>>

\* Plain text collects in nstr until the next item.
Literal(c, rest) == IF rest # <<>> /\ ~rest[1].item
                    THEN <<Text(<<c>> \o rest[1].str)>> \o Tail(rest)
                    ELSE <<Text(<<c>>)>> \o rest

\* Mutant of Scan: the second '%' of an escaped one is not skipped.
ScanPercent(p) ==
  LET from[i \in 1 .. Len(p) + 1] ==
        IF i = Len(p) + 1 THEN <<>>
        ELSE IF p[i] # "%" THEN Literal(p[i], from[i + 1])
        ELSE IF i < Len(p) /\ p[i + 1] = "%" THEN Literal("%", from[i + 1])
        ELSE LET found == ItemAt(p, i + 1) IN <<found[1]>> \o from[found[2]]
  IN from[1]

\* init: the items of the pattern p, in order.
Scan(p) ==
  LET from[i \in 1 .. Len(p) + 1] ==
        IF i = Len(p) + 1 THEN <<>>
        ELSE IF p[i] # "%" THEN Literal(p[i], from[i + 1])
        ELSE IF i < Len(p) /\ p[i + 1] = "%" THEN Literal("%", from[i + 2])
        ELSE LET found == ItemAt(p, i + 1) IN <<found[1]>> \o from[found[2]]
  IN from[1]

\* m_error
IsError(p) == \E k \in DOMAIN Scan(p) : Scan(p)[k].error

\* What the items print of the event that says what happened and who logged it.
MessageFields ==
  [m |-> event.content, p |-> event.level, r |-> event.elapse, c |-> event.logger,
   t |-> event.threadId, F |-> event.fiberId, N |-> event.threadName]

\* Where it happened, and the two items that print no field.
PlaceFields == [f |-> event.file, l |-> event.line, n |-> <<"\n">>, T |-> <<" ">>]

\* s_format_items
Fields == MessageFields @@ PlaceFields @@ [d |-> event.time]

\* The build is C++17: the time is printed in the format given, or in this one.
DefaultDate == <<"%Y-%m-%d %H:%M:%S">>

\* What an item prints: text as it is, an unknown name as a message that says
\* so, the time in the format given, anything else a field of the event.
Output(x) ==
  IF ~x.item THEN x.str
  ELSE IF x.str \notin {<<c>> : c \in DOMAIN Fields}
    THEN <<"<<error_format %">> \o x.str \o <<">>">>
  ELSE Fields[x.str[1]] \o
    (IF x.str # <<"d">> THEN <<>> ELSE IF x.fmt = <<>> THEN DefaultDate ELSE x.fmt)

\* LogFormatter::format, for a formatter that was made from the pattern p.
Format(p) == FlattenSeq([k \in DOMAIN Scan(p) |-> Output(Scan(p)[k])])

-----------------------------------------------------------------------------
Doubled(t) == FlattenSeq([i \in DOMAIN t |-> IF t[i] = "%" THEN <<"%", "%">> ELSE <<t[i]>>])

\* How an item is written, with braces or without.
Spelling(x, braces) ==
  IF ~x.item THEN Doubled(x.str)
  ELSE <<"%">> \o x.str \o (IF braces THEN <<OpenBrace>> \o x.fmt \o <<CloseBrace>> ELSE <<>>)

\* p is a writing of the items: those in B have braces, and what has a format is in
\* B; an empty format looks like none.
IsWriting(p, items) == \E B \in SUBSET DOMAIN items :
  /\ \A k \in DOMAIN items \ B : items[k].fmt = <<>>
  /\ p = FlattenSeq([k \in DOMAIN items |-> Spelling(items[k], k \in B)])

\* A pattern without an error is one of the writings of its items, so that no
\* character is lost, doubled or taken for another; and an error is a brace that
\* is never closed, and only that: closing it repairs the last item, and the
\* others are what they were.
IsReading(p) ==
  IF ~IsError(p) THEN IsWriting(p, Scan(p))
  ELSE LET closed == Scan(Append(p, CloseBrace)) IN
         /\ ~IsError(Append(p, CloseBrace))
         /\ Len(closed) = Len(Scan(p))
         /\ Front(closed) = Front(Scan(p))

\* An item without braces takes every letter and closing brace that follows, and
\* a brace that opens: a pattern may be cut behind it, and each part read for
\* itself, exactly where none of these comes next.  "%d%T" is a date and a
\* space, "%dT" neither.
IsGreedy(p) ==
  \A k \in 1 .. Len(p) - 1 :
    LET a == SubSeq(p, 1, k)
        b == SubSeq(p, k + 1, Len(p)) IN
    Last(Scan(a)).item /\ ~IsError(a) /\ p[k] \notin {"%", CloseBrace}
    => ((Scan(p) = Scan(a) \o Scan(b)) <=> b[1] \notin Letters \cup {OpenBrace, CloseBrace})

\* A text with every '%' doubled is printed as it was, whatever is in it.
PrintsItself(t) == Format(Doubled(t)) = t /\ ~IsError(Doubled(t))
=============================================================================
