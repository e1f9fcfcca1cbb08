--------------------------- MODULE ConfigVarTable ---------------------------
(* A ConfigVar that is the only variable of its type implements ListenerTable. *)
EXTENDS ConfigVar

TheVar == CHOOSE v \in Vars : TRUE

\* From BeginNotify until its guards unlock a setValue goes through m_cbs; the
\* one that waits for the write lock has gone through.
Visiting(c) == Notifying(c) \/ (pc[c] = "wrlock" /\ frame[c].op = "setValue")

VisitOf(c) == IF Visiting(c) THEN [on |-> TRUE, todo |-> frame[c].todo, new |-> frame[c].new]
              ELSE [on |-> FALSE, todo |-> {}, new |-> Default[TheVar]]

VisitMap == [c \in Frames |-> VisitOf(c)]

\* s_fun_id, without the increment of an addListener that has not inserted yet.
LastKey == IF \E c \in Frames : pc[c] = "insert" THEN funId - 1 ELSE funId

Table == INSTANCE ListenerTable
           WITH Callers <- Frames, Values <- Values, Default <- Default[TheVar],
                val <- val[TheVar], table <- cbs[TheVar], last <- LastKey,
                visit <- VisitMap

\* With locks, a counter of two steps and calls made by listeners, the variable
\* is the table of listeners that its interface promises: keys are handed out
\* in order and not used twice, removals take out what they name, and a
\* setValue visits in order a table that does not change under it.  (There is
\* no action that sets the value: see ValueFrozen.)
RefinesTable == Table!Spec
=============================================================================
