----------------------------- MODULE GraphWalk -----------------------------
(***************************************************************************)
(* What src/kernel/kernel.py promises about the checkpoint of a graph run, *)
(* with nothing said about capsules, runs, adapters or deaths: the cursor  *)
(* starts at the first node and only ever follows `next`, a gate is passed *)
(* only out of a pause, work is blocked and unblocked in place, and a      *)
(* graph run that is complete or failed stays as it is.                    *)
(***************************************************************************)
EXTENDS Naturals

CONSTANTS
    None,
    Graphs,     \* the graphs there are
    GateOf,     \* for each graph, the nodes where a person decides
    Successor   \* for each graph, the node after each node, 0 at its end

VARIABLE walk   \* None, or the status, the node and the graph of the checkpoint

Init == walk = None

Begin == /\ walk = None
         /\ \E g \in Graphs : walk' = [status |-> "running", node |-> 1, graph |-> g]

At(status, n) == [walk EXCEPT !.status = status, !.node = n]

AtGate == walk.node \in GateOf[walk.graph]

Following == Successor[walk.graph][walk.node]

Standing(status) == walk # None /\ walk.status = status

\* Work that is running, or a gate that is paused: it may be passed.
Passable == \/ Standing("running") /\ ~AtGate
            \/ Standing("paused_human") /\ AtGate

Pass == /\ Passable
        /\ Following # 0
        /\ walk' = At("running", Following)

Finish == /\ Passable
          /\ Following = 0
          /\ walk' = At("complete", walk.node)

Break == /\ Passable
         /\ walk' = At("failed", walk.node)

Pause == /\ Standing("running")
         /\ AtGate
         /\ walk' = At("paused_human", walk.node)

Block == /\ Standing("running")
         /\ ~AtGate
         /\ walk' = At("blocked", walk.node)

Unblock == /\ Standing("blocked")
           /\ walk' = At("running", walk.node)

Next == Begin \/ Pass \/ Finish \/ Break \/ Pause \/ Block \/ Unblock

Spec == Init /\ [][Next]_walk
=============================================================================
