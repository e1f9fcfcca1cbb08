---------------------------- MODULE ListenerTable ----------------------------
(***************************************************************************)
(* What a configuration variable that is the only one of its type promises *)
(* (ConfigVar<T>, src/src/include/config/config.h), without locks, frames  *)
(* or a counter that is loaded and stored: a value, and a table of         *)
(* listeners whose keys are 1, 2, 3, ... in the order of registration.     *)
(* Nothing changes while somebody goes through the table, and everybody    *)
(* who does visits each key that was there at the start once, in ascending *)
(* order.                                                                  *)
(***************************************************************************)
EXTENDS Naturals, Functions

CONSTANTS Callers, Values, Default

VARIABLES
  val,    \* the value
  table,  \* key -> the caller who registered the listener
  last,   \* the number of registrations so far, and the last key
  visit   \* who goes through the table: the keys still to visit, and why

vars == <<val, table, last, visit>>

\* One who is not going through the table.
Absent == [on |-> FALSE, todo |-> {}, new |-> Default]

Visitors == {c \in Callers : visit[c].on}

Init == /\ val = Default
        /\ table = <<>>
        /\ last = 0
        /\ visit = [c \in Callers |-> Absent]

\* addListener
Add(c) == /\ Visitors = {}
          /\ last' = last + 1
          /\ table' = [k \in DOMAIN table \cup {last + 1} |-> IF k = last + 1 THEN c ELSE table[k]]
          /\ UNCHANGED <<val, visit>>

\* delListener, clearListeners
Remove == /\ Visitors = {}
          /\ \/ table' = <<>>
             \/ \E k \in DOMAIN table : table' = Restrict(table, DOMAIN table \ {k})
          /\ UNCHANGED <<val, last, visit>>

\* setValue(x) with another value begins to notify.
Begin(c) == \E x \in Values \ {val} :
  /\ ~visit[c].on
  /\ visit' = [visit EXCEPT ![c] = [on |-> TRUE, todo |-> DOMAIN table, new |-> x]]
  /\ UNCHANGED <<val, table, last>>

Visit(c) == \E k \in visit[c].todo :
  /\ \A j \in visit[c].todo : k <= j
  /\ visit' = [visit EXCEPT ![c] = [on |-> TRUE, todo |-> @.todo \ {k}, new |-> @.new]]
  /\ UNCHANGED <<val, table, last>>

\* A listener threw: the others are not visited, the value stays.
Abandon(c) == /\ visit[c].on
              /\ visit' = [visit EXCEPT ![c] = Absent]
              /\ UNCHANGED <<val, table, last>>

Next == Remove \/ \E c \in Callers : Add(c) \/ Begin(c) \/ Visit(c) \/ Abandon(c)

Spec == Init /\ [][Next]_vars
=============================================================================
