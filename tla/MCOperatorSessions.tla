------------------------ MODULE MCOperatorSessions ------------------------
(* Constants for model-checking OperatorSessions. *)
EXTENDS OperatorSessions, TLC

CONSTANTS draft, check, done    \* the states of the brief

MCStates == {draft, check, done}

Joins(from, to, evidence, conscious) ==
    [from |-> from, to |-> to, evidence |-> evidence, conscious |-> conscious]

\* A move with evidence, one that sends the work back, and a CONSCIOUS one
\* that completes it.  The second entry joins the same states as the first.
MCTransitions == <<Joins(draft, check, TRUE, FALSE),
                   Joins(draft, check, FALSE, FALSE),
                   Joins(check, draft, FALSE, FALSE),
                   Joins(check, done, TRUE, TRUE)>>

\* The same work without the way back, for two terminals.
MCShortTransitions == <<Joins(draft, check, TRUE, FALSE),
                        Joins(check, done, FALSE, TRUE)>>

Terminals == Permutations(Sessions)
=============================================================================
