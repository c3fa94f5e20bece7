--------------------------- MODULE MCGraphRunner ---------------------------
(* Constants for model-checking GraphRunner. *)
EXTENDS GraphRunner

CONSTANTS draft, check, done    \* the states of the brief

MCStates == {draft, check, done}

Joins(from, to, evidence, conscious) ==
    [from |-> from, to |-> to, evidence |-> evidence, conscious |-> conscious]

\* A move with evidence, the way back, and the last one with evidence too.
MCTransitions == <<Joins(draft, check, TRUE, FALSE),
                   Joins(check, draft, FALSE, FALSE),
                   Joins(check, done, TRUE, TRUE)>>

Work(to, silent, attempts, next) ==
    [kind |-> "work", to |-> to, silent |-> silent, max_attempts |-> attempts,
     next |-> next]

Gate(to, next) ==
    [kind |-> "human_gate", to |-> to, silent |-> FALSE, max_attempts |-> 1,
     next |-> next]

\* Work that moves, work that does not, and a gate that completes the brief.
Whole == <<Work(check, TRUE, 2, 2), Work(None, TRUE, 1, 3), Gate(done, 0)>>

\* A gate first, then the way back: the graph ends before the brief does.
Partial == <<Gate(check, 2), Work(draft, FALSE, 2, 0)>>

\* Work goes on after the brief is done.
Late == <<Work(check, FALSE, 1, 2), Gate(done, 3), Work(None, FALSE, 1, 0)>>

\* The brief has no move from draft to done, for nobody.
UnfitWork == <<Work(done, FALSE, 1, 0)>>

UnfitGate == <<Gate(done, 0)>>

MCGraphs == {Whole, Partial, Late, UnfitWork, UnfitGate}

\* What the theorems about the cursor ask of graphs.
ASSUME GraphsAreStraight == \A nodes \in MCGraphs : Straight(nodes) /\ GatesMove(nodes)
=============================================================================
