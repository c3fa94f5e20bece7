---------------------------- MODULE GraphRunner ----------------------------
(***************************************************************************)
(* `graph run` and `graph resume`: the kernel of src/kernel/kernel.py that *)
(* drives a capsule through the nodes of a graph, and the loop of          *)
(* src/cli.py that asks a person at every gate.                            *)
(*                                                                         *)
(* A process holds the checkpoint in memory, executes the node under its   *)
(* cursor, lets the state machine move the capsule, and saves the          *)
(* checkpoint after that.  Capsule, run and checkpoint are rows of their   *)
(* own, each saved by a transaction of its own, so a process that dies in  *)
(* between leaves them at different points of the walk.                    *)
(*                                                                         *)
(* The module follows one graph run.  Trust, variables, the history and    *)
(* the handoff files are left out, and an adapter is whether it succeeded  *)
(* and whether it left evidence.  An exception nobody catches (a template  *)
(* that names an unknown output) ends the process: it is a Die.            *)
(***************************************************************************)
EXTENDS WorkflowRuntime

CONSTANTS
    Graphs,     \* the GraphSpecs people have, each the sequence of its nodes
    Runners,    \* the processes
    MaxEvents   \* bound: nobody starts, resumes or decides beyond it

\* What GraphSpec validates.  `to` is the state of produces_transition;
\* `silent` marks a node whose evidence may come out blank; `next` is the
\* position of the next node, 0 when there is none.
GraphNode == [kind: {"work", "human_gate"}, to: States \cup {None},
              silent: BOOLEAN, max_attempts: 1 .. 10, next: Nat]

ASSUME GraphsAssumption ==
    /\ \A nodes \in Graphs :
           /\ nodes \in Seq(GraphNode) /\ nodes # <<>>
           /\ \A n \in DOMAIN nodes : nodes[n].next \in (0 .. Len(nodes)) \ {n}
    /\ Runners # {}
    /\ MaxEvents \in Nat

GraphStatus == {"running", "paused_human", "blocked", "complete", "failed"}

\* graph_hash is a digest of the spec: the spec stands for it.
GraphRunState ==
    {g \in [status: GraphStatus, graph_hash: Graphs, node: Nat \ {0}, attempts: 0 .. 10] :
        g.node \in DOMAIN g.graph_hash}

\* No row is told from every row, whole or as GraphWalk sees it.
ASSUME GraphNoneAssumption ==
    /\ None \notin GraphRunState
    /\ None \notin [status: GraphStatus, node: Nat \ {0}, graph: Graphs]

VARIABLES
    capsule, run, events, records,  \* the rows, as in OperatorSessions
    graph,      \* the row of graph_runs, or None
    runner,     \* what each process holds in memory
    lost        \* history: a process died away from its checkpoint

rows == <<capsule, run, events, records, graph>>
vars == <<capsule, run, events, records, graph, runner, lost>>

\* Where a process can stand.  "stepping" is the head of the loop of
\* _drive_graph; "advancing" and "loaded" are the two reads of _advance;
\* "passing" is about to move the cursor; "prompt" waits for a person, and
\* "judging" has loaded the run and not yet the capsule.
Places == {"idle", "stepping", "advancing", "loaded", "passing", "prompt", "judging"}

SaveGraphRun(g) == [table |-> "graph_runs", value |-> g]

GraphWrite == Write \cup [table: {"graph_runs"}, value: GraphRunState]

Decision == {"APPROVE", "REJECT", "FLAG"}

\* nodes: the graph file the command was given.
Runner == [at: Places, nodes: Graphs \cup {None}, graph: GraphRunState \cup {None},
           capsule: ProcessCapsule \cup {None}, run: RuntimeState \cup {None},
           shown: BOOLEAN, decision: Decision \cup {None}, todo: Seq(GraphWrite)]

Idle == [at |-> "idle", nodes |-> None, graph |-> None, capsule |-> None, run |-> None,
         shown |-> FALSE, decision |-> None, todo |-> <<>>]

Init ==
    /\ capsule = None
    /\ run = None
    /\ events = <<>>
    /\ records = {}
    /\ graph = None
    /\ runner = [p \in Runners |-> Idle]
    /\ lost = FALSE

-----------------------------------------------------------------------------
(* The walk that validate_against_brief() makes *)

\* The node the walk is at after k - 1 steps, 0 beyond the end.
Walk(nodes) ==
    LET at[k \in DOMAIN nodes] ==
            IF k = 1 THEN 1
            ELSE IF at[k - 1] = 0 THEN 0 ELSE nodes[at[k - 1]].next
    IN  at

\* The walk stops at the first node it has seen before.
Visited(nodes) ==
    {k \in DOMAIN nodes :
        /\ Walk(nodes)[k] # 0
        /\ \A i, j \in 1 .. k : Walk(nodes)[i] = Walk(nodes)[j] => i = j}

\* Where a node leaves the capsule.
Leaves(node, state) == IF node.to = None THEN state ELSE node.to

\* The state of the capsule when the walk arrives at its k-th node.
Expected(nodes) ==
    LET state[k \in DOMAIN nodes] ==
            IF k = 1 THEN Initial
            ELSE IF Walk(nodes)[k - 1] = 0 THEN state[k - 1]
            ELSE Leaves(nodes[Walk(nodes)[k - 1]], state[k - 1])
    IN  state

\* Mutant: a graph is not compared with its brief.
FitsAnyBrief(nodes) == TRUE

FitsBrief(nodes) ==
    \A k \in Visited(nodes) :
        LET node == nodes[Walk(nodes)[k]]
        IN  node.to # None => Matching(Expected(nodes)[k], node.to) # {}

-----------------------------------------------------------------------------
(* Helpers *)

Ready(p, place) == runner[p].at = place /\ runner[p].todo = <<>>

\* The node under the cursor of p.
Node(p) == runner[p].nodes[runner[p].graph.node]

Become(p, m) == runner' = [runner EXCEPT ![p] = m]

\* Memory m of a process with its checkpoint g, saved last.
Checkpoint(m, g, before) ==
    [m EXCEPT !.at = "stepping", !.graph = g, !.capsule = None, !.run = None,
              !.shown = FALSE, !.decision = None,
              !.todo = before \o <<SaveGraphRun(g)>>]

Status(g, status) == [g EXCEPT !.status = status]

Bounded == Len(events) < MaxEvents

-----------------------------------------------------------------------------
(* Commits: the first write of a process reaches the ledger *)

Committing(p, table) ==
    /\ runner[p].todo # <<>>
    /\ Head(runner[p].todo).table = table
    /\ Become(p, [runner[p] EXCEPT !.todo = Tail(runner[p].todo)])
    /\ UNCHANGED lost

CommitCapsule(p) ==
    /\ Committing(p, "capsules")
    /\ capsule' = Head(runner[p].todo).value
    /\ UNCHANGED <<run, events, records, graph>>

CommitRun(p) ==
    /\ Committing(p, "runs")
    /\ run' = Head(runner[p].todo).value
    /\ UNCHANGED <<capsule, events, records, graph>>

CommitEvent(p) ==
    /\ Committing(p, "ledger")
    /\ events' = Append(events, Head(runner[p].todo).value)
    /\ UNCHANGED <<capsule, run, records, graph>>

CommitRecord(p) ==
    /\ Committing(p, "non_conformance_records")
    /\ records' = records \cup {Head(runner[p].todo).value}
    /\ UNCHANGED <<capsule, run, events, graph>>

CommitGraph(p) ==
    /\ Committing(p, "graph_runs")
    /\ graph' = Head(runner[p].todo).value
    /\ UNCHANGED <<capsule, run, events, records>>

Commit(p) == \/ CommitCapsule(p) \/ CommitRun(p) \/ CommitEvent(p)
             \/ CommitRecord(p) \/ CommitGraph(p)

-----------------------------------------------------------------------------
(* Starting and resuming *)

\* A start that dies before its checkpoint is saved leaves rows nobody can
\* resume; the next start makes rows of its own.
Start(p) ==
    /\ graph = None
    /\ \A q \in Runners : runner[q] = Idle
    /\ Bounded
    /\ \E nodes \in Graphs :
           /\ FitsBrief(nodes)
           /\ Become(p, Checkpoint([Idle EXCEPT !.nodes = nodes],
                                   [status |-> "running", graph_hash |-> nodes,
                                    node |-> 1, attempts |-> 0],
                                   StartWrites))
    /\ UNCHANGED <<rows, lost>>

\* Mutant: any graph may continue the run, if it has the node.
AcceptedUnpinned(g) == {nodes \in Graphs : g.node \in DOMAIN nodes}

\* The graph files that may continue the run: the one it was started with.
Accepted(g) == {nodes \in Graphs : nodes = g.graph_hash}

\* A blocked run is unblocked, and its node retried from a clean count.
ResumeBlocked(p) ==
    /\ runner[p] = Idle
    /\ graph # None /\ graph.status = "blocked"
    /\ Bounded
    /\ \E nodes \in Accepted(graph) :
           Become(p, Checkpoint([Idle EXCEPT !.nodes = nodes],
                                [Status(graph, "running") EXCEPT !.attempts = 0],
                                IF run.status = "blocked"
                                THEN <<SaveRun(ResumeRun(run))>> ELSE <<>>))
    /\ UNCHANGED <<rows, lost>>

\* Any other checkpoint is taken up as it was saved.
Resume(p) ==
    /\ runner[p] = Idle
    /\ graph # None /\ graph.status # "blocked"
    /\ Bounded
    /\ \E nodes \in Accepted(graph) :
           Become(p, [Idle EXCEPT !.at = "stepping", !.nodes = nodes, !.graph = graph])
    /\ UNCHANGED <<rows, lost>>

-----------------------------------------------------------------------------
(* Stepping *)

\* Process p is at the head of the loop with a node of this kind to execute.
Stepping(p, kind) ==
    /\ Ready(p, "stepping")
    /\ runner[p].graph.status = "running"
    /\ Node(p).kind = kind

PauseAtGate(p) ==
    /\ Stepping(p, "human_gate")
    /\ Become(p, Checkpoint(runner[p], Status(runner[p].graph, "paused_human"),
                            <<SaveRun(EnterHumanReview(run))>>))
    /\ UNCHANGED <<rows, lost>>

\* Mutant: a failed attempt is not counted.
RetryUncounted(p) ==
    /\ Stepping(p, "work")
    /\ LET g == runner[p].graph
       IN  /\ g.attempts + 1 < Node(p).max_attempts
           /\ Become(p, Checkpoint(runner[p], g, <<>>))
    /\ UNCHANGED <<rows, lost>>

\* A failed attempt with attempts left: the same node once more.
Retry(p) ==
    /\ Stepping(p, "work")
    /\ LET g == runner[p].graph
       IN  /\ g.attempts + 1 < Node(p).max_attempts
           /\ Become(p, Checkpoint(runner[p], [g EXCEPT !.attempts = g.attempts + 1], <<>>))
    /\ UNCHANGED <<rows, lost>>

\* Mutant: the checkpoint is blocked and the run is not.
ExhaustQuietly(p) ==
    /\ Stepping(p, "work")
    /\ LET g == runner[p].graph
       IN  /\ g.attempts + 1 >= Node(p).max_attempts
           /\ Become(p, Checkpoint(runner[p],
                                   [Status(g, "blocked") EXCEPT !.attempts = g.attempts + 1],
                                   <<>>))
    /\ UNCHANGED <<rows, lost>>

\* The last attempt failed: the run is blocked.
Exhaust(p) ==
    /\ Stepping(p, "work")
    /\ LET g == runner[p].graph
       IN  /\ g.attempts + 1 >= Node(p).max_attempts
           /\ Become(p, Checkpoint(runner[p],
                                   [Status(g, "blocked") EXCEPT !.attempts = g.attempts + 1],
                                   <<SaveRun(BlockRun(run))>>))
    /\ UNCHANGED <<rows, lost>>

\* Mutant: a gate is passed without its transition.
AfterSuccessOfWork(node) ==
    IF node.to = None \/ node.kind = "human_gate" THEN "passing" ELSE "advancing"

\* Where a node that succeeded goes on.
AfterSuccess(node) == IF node.to = None THEN "passing" ELSE "advancing"

Succeed(p) ==
    /\ Stepping(p, "work")
    /\ \E shown \in {TRUE, ~Node(p).silent} :
           Become(p, [runner[p] EXCEPT
                          !.at = AfterSuccess(Node(p)), !.shown = shown,
                          !.graph.attempts = 0])
    /\ UNCHANGED <<rows, lost>>

\* _advance() loads the capsule, then the run ...
LoadCapsule(p) ==
    /\ Ready(p, "advancing")
    /\ Become(p, [runner[p] EXCEPT !.at = "loaded", !.capsule = capsule])
    /\ UNCHANGED <<rows, lost>>

\* ... and lets the state machine move them.  When it refuses, the graph
\* fails; nothing is saved of the graph between the move and the next node.
AdvanceNode(p) ==
    /\ Ready(p, "loaded")
    /\ LET m   == runner[p]
           to  == Node(p).to
           ev  == IF m.shown /\ Matching(m.capsule.state, to) # {}
                  THEN Governing(m.capsule.state, to) ELSE 0
           out == Advance(m.capsule, run, to, ev)
       IN  Become(p, IF out.raised
                     THEN Checkpoint(m, Status(m.graph, "failed"), out.writes)
                     ELSE [m EXCEPT !.at = "passing", !.todo = out.writes])
    /\ UNCHANGED <<rows, lost>>

\* The cursor moves, or the graph ends: complete unless the capsule froze.
MoveToNext(p) ==
    /\ Ready(p, "passing")
    /\ LET g == runner[p].graph
       IN  Become(p, Checkpoint(runner[p],
               IF Node(p).next # 0
               THEN [Status(g, "running") EXCEPT !.node = Node(p).next]
               ELSE Status(g, IF Frozen(capsule) THEN "failed" ELSE "complete"),
               <<>>))
    /\ UNCHANGED <<rows, lost>>

-----------------------------------------------------------------------------
(* Gates *)

AtPausedGate(p) ==
    Ready(p, "stepping") /\ runner[p].graph.status = "paused_human"

\* The transition the person is asked about, if there is one.
GateMoves(p) ==
    IF Node(p).to = None THEN {} ELSE Matching(capsule.state, Node(p).to)

\* The gate opens when the brief has the transition the node names.  Evidence
\* is asked for when the transition needs some, and may be left blank.
AskHuman(p) ==
    /\ AtPausedGate(p)
    /\ GateMoves(p) # {}
    /\ Become(p, [runner[p] EXCEPT !.at = "prompt", !.capsule = capsule])
    /\ UNCHANGED <<rows, lost>>

\* "Gate has no valid transition": the command exits.
RefuseGate(p) ==
    /\ AtPausedGate(p)
    /\ GateMoves(p) = {}
    /\ Become(p, Idle)
    /\ UNCHANGED <<rows, lost>>

\* decide() loads the run ...
Decide(p) ==
    /\ Ready(p, "prompt")
    /\ Bounded
    /\ LET m     == runner[p]
           asked == Transitions[Governing(m.capsule.state, Node(p).to)].evidence
       IN  \E decision \in Decision, shown \in {FALSE, asked} :
               Become(p, [m EXCEPT !.at = "judging", !.capsule = None, !.run = run,
                                   !.decision = decision, !.shown = shown])
    /\ UNCHANGED <<rows, lost>>

\* ... then the capsule.  A rejection freezes it and fails the graph.
Reject(p) ==
    /\ Ready(p, "judging")
    /\ LET m        == runner[p]
           resolved == ResolveGate(m.run, FALSE)
       IN  /\ m.decision = "REJECT"
           /\ Become(p, Checkpoint(m, Status(m.graph, "failed"),
                                   <<SaveRun(resolved)>>
                                   \o MarkNonConformance(capsule, resolved).writes))
    /\ UNCHANGED <<rows, lost>>

\* Mutant: the approval is not saved.
ApproveUnsaved(p) ==
    /\ Ready(p, "judging")
    /\ LET m       == runner[p]
           flagged == IF m.decision = "FLAG" THEN <<Flag(capsule)>> ELSE <<>>
       IN  /\ m.decision # "REJECT"
           /\ Become(p, [m EXCEPT !.at = AfterSuccess(Node(p)), !.run = None,
                                  !.graph = Status(m.graph, "running"),
                                  !.todo = flagged])
    /\ UNCHANGED <<rows, lost>>

\* An approval, or a flag recorded first, resolves the gate and goes on; the
\* checkpoint still says paused.
Approve(p) ==
    /\ Ready(p, "judging")
    /\ LET m       == runner[p]
           flagged == IF m.decision = "FLAG" THEN <<Flag(capsule)>> ELSE <<>>
       IN  /\ m.decision # "REJECT"
           /\ Become(p, [m EXCEPT !.at = AfterSuccess(Node(p)), !.run = None,
                                  !.graph = Status(m.graph, "running"),
                                  !.todo = flagged \o <<SaveRun(ResolveGate(m.run, TRUE))>>])
    /\ UNCHANGED <<rows, lost>>

-----------------------------------------------------------------------------
(* The end of a process *)

Leave(p) ==
    /\ Ready(p, "stepping")
    /\ runner[p].graph.status \in {"blocked", "complete", "failed"}
    /\ Become(p, Idle)
    /\ UNCHANGED <<rows, lost>>

\* Work done since the last checkpoint is not in the checkpoint.
Die(p) ==
    /\ runner[p] # Idle
    /\ lost' = (\/ lost
                \/ runner[p].todo # <<>>
                \/ runner[p].at \in {"advancing", "loaded", "passing"})
    /\ Become(p, Idle)
    /\ UNCHANGED rows

\* What a process does on its own, without a person and without dying.
RunnerStep(p) ==
    \/ Commit(p)
    \/ PauseAtGate(p) \/ Retry(p) \/ Exhaust(p) \/ Succeed(p)
    \/ LoadCapsule(p) \/ AdvanceNode(p) \/ MoveToNext(p)
    \/ AskHuman(p) \/ RefuseGate(p) \/ Reject(p) \/ Approve(p) \/ Leave(p)

Next ==
    \E p \in Runners :
        \/ RunnerStep(p)
        \/ Start(p) \/ ResumeBlocked(p) \/ Resume(p) \/ Decide(p) \/ Die(p)

Spec == Init /\ [][Next]_vars

\* A process that is not waiting for a person is scheduled by its machine.
FairSpec == Spec /\ \A p \in Runners : WF_vars(RunnerStep(p))

-----------------------------------------------------------------------------
(* Properties *)

TypeOK ==
    /\ capsule \in ProcessCapsule \cup {None}
    /\ run \in RuntimeState \cup {None}
    /\ events \in Seq(Event)
    /\ records \subseteq NonConformanceRecord
    /\ graph \in GraphRunState \cup {None}
    /\ runner \in [Runners -> Runner]
    /\ lost \in BOOLEAN

\* A checkpoint exists, no process is away from it, and none died so.
AtRest ==
    /\ graph # None /\ ~lost
    /\ \A p \in Runners :
           runner[p].todo = <<>> /\ runner[p].at \notin {"advancing", "loaded", "passing"}

\* The position of the cursor on the walk.
Position == CHOOSE k \in Visited(graph.graph_hash) :
                Walk(graph.graph_hash)[k] = graph.node

\* A graph without cycles: no step of the walk leads back to a node it has
\* passed.
Straight(nodes) ==
    \A k \in Visited(nodes) : \A i \in 1 .. k : nodes[Walk(nodes)[k]].next # Walk(nodes)[i]

\* The gates of the graph name the transition that a person decides about.
GatesMove(nodes) ==
    \A n \in DOMAIN nodes : nodes[n].kind = "human_gate" => nodes[n].to # None

\* The checkpoint and the capsule tell the same story: the capsule is where
\* the validated walk has it when the cursor arrives, or where the last node
\* leaves it when the graph is complete.  Graphs without cycles.
CursorFollowsCapsule ==
    AtRest =>
        LET arrived == Expected(graph.graph_hash)[Position]
        IN  capsule.state = IF graph.status = "complete"
                            THEN Leaves(graph.graph_hash[graph.node], arrived)
                            ELSE arrived

\* What the checkpoint says of the run is what the run says of itself, and
\* only a breach fails a graph.  One process.  Work after the last move may
\* have been blocked and resumed since: the run is then left running, over a
\* capsule and a graph that are complete.
StatusesFollowGraph ==
    AtRest =>
        /\ graph.status = "paused_human" =>
               run.status = "human_review" /\ run.gate = "pending"
        /\ graph.status = "blocked" => run.status = "blocked"
        /\ graph.status = "complete" =>
               /\ run.status = "complete" => Terminal(capsule.state)
               /\ Terminal(capsule.state) =>
                      run.status = "complete" \/ graph.graph_hash[graph.node].to = None
        /\ graph.status = "failed" <=> records # {}
        /\ Frozen(capsule) => graph.status = "failed"

\* kernel.py, start(): a graph that was compared with its brief is never
\* stopped by a move the brief does not have.  One process, no cycles, and no
\* death away from the checkpoint.
ValidatedMovesExist ==
    ~lost => \A n \in records : n.kind # "NO_VALID_PATH"

\* kernel.py: "a graph run survives process death and resumes exactly where
\* it stopped", so a death makes no move impossible either.
ResumesWhereItStopped ==
    \A n \in records : n.kind # "NO_VALID_PATH"

\* kernel.py, decide(): "APPROVE advances through the gate's transition (if
\* any)": a person is asked at every gate the graph pauses at.
GatesCanBeDecided ==
    ~lost => \A p \in Runners : AtPausedGate(p) => GateMoves(p) # {}

\* A move out of a gate reaches the trail only while the checkpoint shows the
\* pause and the run shows the approval, also after a death and a resume.
\* One process.
GateMovesAreApproved ==
    [][(events' # events /\ events'[Len(events')].kind = "moved"
            /\ graph.graph_hash[graph.node].kind = "human_gate") =>
           graph.status = "paused_human" /\ run.gate = "approved"]_events

\* Whatever dies and resumes, a process that drives a graph comes to an end
\* or to a question for a person: retries run out, and the cursor gets to the
\* end.  Graphs without cycles.
DrivenGraphRests ==
    \A p \in Runners :
        runner[p].at # "idle" ~> runner[p].at \in {"idle", "prompt"}

\* The checkpoint as the abstract specification sees it.
Checkpointed ==
    IF graph = None THEN None
    ELSE [status |-> graph.status, node |-> graph.node, graph |-> graph.graph_hash]

Abstract == INSTANCE GraphWalk WITH
                GateOf <- [nodes \in Graphs |->
                    {n \in DOMAIN nodes : nodes[n].kind = "human_gate"}],
                Successor <- [nodes \in Graphs |->
                    [n \in DOMAIN nodes |-> nodes[n].next]],
                walk <- Checkpointed

\* One process: the row of the checkpoint walks the graph it was started
\* with, through deaths and resumes under whatever graph file people supply.
ImplementsGraphWalk == Abstract!Spec
=============================================================================
