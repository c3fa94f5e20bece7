------------------------- MODULE GraphRunner_proofs -------------------------
(***************************************************************************)
(* What holds of graph runs for every brief, every set of graphs and every *)
(* bound: types for any number of processes, and for one process that the  *)
(* checkpoint walks its graph, that gates are passed by approval, that     *)
(* checkpoint, capsule and run agree when nothing is pending, and, on a    *)
(* graph without cycles, that the capsule keeps up with the cursor.        *)
(***************************************************************************)
EXTENDS GraphRunner, WorkflowRuntime_proofs

-----------------------------------------------------------------------------
(* Nodes and checkpoints *)

LEMMA NodeFields ==
    ASSUME NEW g \in GraphRunState
    PROVE  /\ g.graph_hash \in Graphs /\ g.graph_hash \in Seq(GraphNode)
           /\ g.node \in DOMAIN g.graph_hash
           /\ g.graph_hash[g.node] \in GraphNode
           /\ g.graph_hash[g.node].next \in 0 .. Len(g.graph_hash)
           /\ g.attempts \in 0 .. 10
<1>1. g.graph_hash \in Graphs /\ g.node \in DOMAIN g.graph_hash /\ g.attempts \in 0 .. 10
  BY DEF GraphRunState
<1>2. g.graph_hash \in Seq(GraphNode)
      /\ g.graph_hash[g.node].next \in 0 .. Len(g.graph_hash)
  BY <1>1, GraphsAssumption
<1>3. g.graph_hash[g.node] \in GraphNode
  <2> HIDE DEF GraphNode
  <2> QED BY <1>1, <1>2, ElementOfSeq, LenProperties
<1> QED BY <1>1, <1>2, <1>3

\* A checkpoint that is not blocked has an attempt left to count.
Countable(g) == g \in GraphRunState /\ (g.status # "blocked" => g.attempts < 10)

LEMMA Started ==
    ASSUME NEW nodes \in Graphs
    PROVE  Countable([status |-> "running", graph_hash |-> nodes,
                      node |-> 1, attempts |-> 0])
<1>1. nodes \in Seq(GraphNode) /\ nodes # <<>>
  BY GraphsAssumption
<1>2. 1 \in DOMAIN nodes
  BY <1>1, EmptySeq, LenProperties
<1> QED BY <1>2 DEF Countable, GraphRunState, GraphStatus

LEMMA StatusCountable ==
    ASSUME NEW g, Countable(g), g.status # "blocked",
           NEW status \in {"running", "paused_human", "blocked", "complete", "failed"}
    PROVE  /\ Countable(Status(g, status))
           /\ Status(g, status).status = status
           /\ Status(g, status).node = g.node
           /\ Status(g, status).attempts = g.attempts
           /\ Status(g, status).graph_hash = g.graph_hash
BY DEF Countable, GraphRunState, Status, GraphStatus

LEMMA AttemptsCountable ==
    ASSUME NEW g, g \in GraphRunState, NEW n \in 0 .. 10, n = 10 => g.status = "blocked"
    PROVE  /\ Countable([g EXCEPT !.attempts = n])
           /\ [g EXCEPT !.attempts = n].status = g.status
           /\ [g EXCEPT !.attempts = n].node = g.node
           /\ [g EXCEPT !.attempts = n].graph_hash = g.graph_hash
BY DEF Countable, GraphRunState

\* A blocked checkpoint is unblocked with a clean count.
LEMMA Unblocked ==
    ASSUME NEW g \in GraphRunState
    PROVE  LET h == [Status(g, "running") EXCEPT !.attempts = 0]
           IN  /\ Countable(h) /\ h.status = "running" /\ h.node = g.node
               /\ h.graph_hash = g.graph_hash
<1> DEFINE h == Status(g, "running")
<1>1. /\ h \in GraphRunState /\ h.status = "running" /\ h.node = g.node
      /\ h.graph_hash = g.graph_hash
  BY DEF GraphRunState, Status, GraphStatus
<1>2. PICK k : k = h
  OBVIOUS
<1>3. /\ Countable([k EXCEPT !.attempts = 0])
      /\ [k EXCEPT !.attempts = 0].status = "running"
      /\ [k EXCEPT !.attempts = 0].node = g.node
      /\ [k EXCEPT !.attempts = 0].graph_hash = g.graph_hash
  <2>1. k \in GraphRunState /\ 0 \in 0 .. 10 /\ 0 # 10
    BY <1>1, <1>2
  <2> HIDE DEF h
  <2>2. PICK j : j = [k EXCEPT !.attempts = 0]
    OBVIOUS
  <2>3. Countable(j) /\ j.status = k.status /\ j.node = k.node
        /\ j.graph_hash = k.graph_hash
    BY <2>1, <2>2, AttemptsCountable
  <2> QED BY <1>1, <1>2, <2>2, <2>3
<1> QED BY <1>2, <1>3

LEMMA MovedCountable ==
    ASSUME NEW g, Countable(g), g.status # "blocked", NEW n \in DOMAIN g.graph_hash
    PROVE  /\ Countable([g EXCEPT !.node = n])
           /\ [g EXCEPT !.node = n].status = g.status
           /\ [g EXCEPT !.node = n].node = n
           /\ [g EXCEPT !.node = n].graph_hash = g.graph_hash
<1>1. n \in Nat \ {0}
  BY NodeFields, LenProperties DEF Countable
<1> QED BY <1>1 DEF Countable, GraphRunState

-----------------------------------------------------------------------------
(* Series that end with a checkpoint *)

\* What is left of the series ws that saves the checkpoint g last.
EndsWith(ws, g) == \E before \in Seq(Write) : ws = before \o <<SaveGraphRun(g)>>

LEMMA GraphWriteTypes ==
    /\ \A ws \in Seq(Write) : ws \in Seq(GraphWrite)
    /\ \A g \in GraphRunState : SaveGraphRun(g) \in GraphWrite
    /\ \A g \in GraphRunState : \A ws : EndsWith(ws, g) => ws \in Seq(GraphWrite)
<1>1. \A ws \in Seq(Write) : ws \in Seq(GraphWrite)
  <2>1. Write \subseteq GraphWrite
    BY DEF GraphWrite
  <2> HIDE DEF GraphWrite
  <2> QED BY <2>1, SeqDef
<1>2. \A g \in GraphRunState : SaveGraphRun(g) \in GraphWrite
  BY DEF GraphWrite, SaveGraphRun
<1>3. ASSUME NEW g \in GraphRunState, NEW ws, EndsWith(ws, g)
      PROVE  ws \in Seq(GraphWrite)
  <2>1. PICK before \in Seq(Write) : ws = before \o <<SaveGraphRun(g)>>
    BY <1>3 DEF EndsWith
  <2>2. before \in Seq(GraphWrite) /\ <<SaveGraphRun(g)>> \in Seq(GraphWrite)
    BY <1>1, <1>2, SeriesTypes
  <2> QED BY <2>1, <2>2, ConcatProperties
<1> QED BY <1>1, <1>2, <1>3

\* Three writes and a checkpoint are a series of four.
LEMMA ThreeAndOne ==
    ASSUME NEW a, NEW b, NEW c, NEW d
    PROVE  <<a, b, c>> \o <<d>> = <<a, b, c, d>>
<1> DEFINE S == {a, b, c, d}
           x == <<a, b, c>>
           y == <<d>>
           z == <<a, b, c, d>>
<1>1. x \in Seq(S) /\ y \in Seq(S) /\ z \in Seq(S)
  OBVIOUS
<1>2. /\ Len(x) = 3 /\ Len(y) = 1 /\ Len(z) = 4
      /\ x[1] = a /\ x[2] = b /\ x[3] = c /\ y[1] = d
      /\ z[1] = a /\ z[2] = b /\ z[3] = c /\ z[4] = d
  OBVIOUS
<1> HIDE DEF S, x, y, z
<1>3. /\ x \o y \in Seq(S) /\ Len(x \o y) = 4
      /\ \A i \in 1 .. 4 : (x \o y)[i] = IF i <= 3 THEN x[i] ELSE y[i - 3]
  <2>1. /\ x \o y \in Seq(S) /\ Len(x \o y) = Len(x) + Len(y)
        /\ \A i \in 1 .. Len(x) + Len(y) :
               (x \o y)[i] = IF i <= Len(x) THEN x[i] ELSE y[i - Len(x)]
    BY <1>1, ConcatProperties
  <2> QED BY <1>2, <2>1
<1>4. \A i \in 1 .. 4 : (x \o y)[i] = z[i]
  BY <1>2, <1>3
<1>5. x \o y = z
  BY <1>1, <1>2, <1>3, <1>4, SeqEqual
<1> QED BY <1>5 DEF x, y, z

\* The first write of a series of operations is one of theirs.
LEMMA FirstOfWrites ==
    ASSUME NEW ws \in Seq(Write), ws # <<>>
    PROVE  Head(ws) \in Write /\ Tail(ws) \in Seq(Write)
<1> QED BY HeadTailProperties, EmptySeq, LenProperties, ElementOfSeq

\* The first write of a series that ends with a checkpoint is the checkpoint
\* and the last, or it is not and the rest still ends with it.
LEMMA FirstBeforeCheckpoint ==
    ASSUME NEW g, NEW ws, EndsWith(ws, g)
    PROVE  /\ ws # <<>>
           /\ \/ Head(ws) = SaveGraphRun(g) /\ Tail(ws) = <<>>
              \/ Head(ws) \in Write /\ EndsWith(Tail(ws), g)
<1>1. PICK before \in Seq(Write) : ws = before \o <<SaveGraphRun(g)>>
  BY DEF EndsWith
<1> DEFINE S == {SaveGraphRun(g)} \cup Write
           last == <<SaveGraphRun(g)>>
<1>2. before \in Seq(S) /\ last \in Seq(S)
  <2>1. Write \subseteq S /\ SaveGraphRun(g) \in S
    OBVIOUS
  <2> HIDE DEF S
  <2> QED BY <2>1, SeqDef, SeriesTypes
<1>3. CASE before = <<>>
  BY <1>1, <1>3
<1>4. CASE before # <<>>
  <2>1. Head(before) \in Write /\ Tail(before) \in Seq(Write)
    BY <1>4, FirstOfWrites
  <2>2. Head(before \o last) = Head(before) /\ Tail(before \o last) = Tail(before) \o last
        /\ before \o last # <<>>
    <3> HIDE DEF S, last
    <3> QED BY <1>2, <1>4
  <2> QED BY <1>1, <2>1, <2>2 DEF EndsWith
<1> QED BY <1>3, <1>4

-----------------------------------------------------------------------------
(* Type correctness *)

\* The node under the cursor of memory m.
NodeOf(m) == m.nodes[m.graph.node]

\* What a process holds at each place.
Holding(m) ==
    /\ m \in Runner
    /\ m.at = "idle" => m = Idle
    /\ m.at # "idle" =>
           /\ m.nodes \in Graphs /\ m.graph.graph_hash = m.nodes
           /\ Countable(m.graph)
    /\ m.at \in {"loaded", "prompt"} => m.capsule \in ProcessCapsule
    /\ m.at = "judging" => m.run \in RuntimeState
    /\ m.at \in {"advancing", "loaded", "prompt"} => NodeOf(m).to \in States
    /\ m.at = "prompt" => Matching(m.capsule.state, NodeOf(m).to) # {}
    /\ m.at \in {"advancing", "loaded", "passing", "prompt", "judging"} =>
           m.graph.status # "blocked"
    /\ IF m.at = "stepping" THEN m.todo = <<>> \/ EndsWith(m.todo, m.graph)
       ELSE m.todo \in Seq(Write)

\* The rows of a start, as far as they have not been saved.
Begun(m) ==
    LET c == SaveCapsule(NewCapsule)
        r == SaveRun(NewRun)
        e == RecordEvent(Entry("created", None, Initial, 0))
        g == SaveGraphRun(m.graph)
    IN  /\ m.at = "stepping"
        /\ \/ m.todo = <<c, r, e, g>>
           \/ m.todo = <<r, e, g>> /\ capsule # None
           \/ m.todo \in {<<e, g>>, <<g>>} /\ capsule # None /\ run # None

\* A process that drives a graph finds a capsule and a run.
Grounded ==
    /\ graph # None => capsule # None /\ run # None /\ Countable(graph)
    /\ \A p \in Runners : runner[p].at # "idle" => graph # None \/ Begun(runner[p])

TypeInv ==
    /\ TypeOK
    /\ Grounded
    /\ \A p \in Runners : Holding(runner[p])

LEMMA IdleHolds == Holding(Idle) /\ Idle \in Runner /\ Idle.at = "idle"
BY DEF Holding, Idle, Runner, Places

\* A process that has just been given a graph file.
LEMMA FreshHolds ==
    ASSUME NEW nodes \in Graphs
    PROVE  /\ [Idle EXCEPT !.nodes = nodes] \in Runner
           /\ [Idle EXCEPT !.nodes = nodes].nodes = nodes
BY IdleHolds DEF Runner

\* A process that is driving a graph, with nothing left to write, finds rows.
LEMMA ReadyFinds ==
    ASSUME TypeInv, NEW p \in Runners, runner[p].at # "idle", runner[p].todo = <<>>
    PROVE  /\ graph \in GraphRunState /\ Countable(graph)
           /\ capsule \in ProcessCapsule /\ run \in RuntimeState
           /\ runner[p].nodes \in Graphs
           /\ runner[p].graph \in GraphRunState /\ Countable(runner[p].graph)
           /\ runner[p].graph.graph_hash = runner[p].nodes
           /\ Node(p) = NodeOf(runner[p]) /\ Node(p) \in GraphNode
           /\ Node(p).next \in 0 .. Len(runner[p].nodes)
<1>1. ~Begun(runner[p])
  BY DEF Begun
<1>2. graph # None
  BY <1>1 DEF TypeInv, Grounded
<1> QED BY <1>2, NodeFields DEF TypeInv, TypeOK, Grounded, Holding, NodeOf, Node,
           Countable

\* The frame of every step that only changes what a process holds.
LEMMA MemoryStep ==
    ASSUME TypeInv, NEW p \in Runners, NEW m, Holding(m), Become(p, m),
           UNCHANGED rows, lost' \in BOOLEAN,
           m.at # "idle" => graph # None \/ Begun(m)
    PROVE  TypeInv'
<1>1. /\ \A q \in Runners : runner'[q] = IF q = p THEN m ELSE runner[q]
      /\ runner' \in [Runners -> Runner]
  BY DEF Become, TypeInv, TypeOK, Holding
<1>2. TypeOK'
  BY <1>1 DEF TypeInv, TypeOK, rows
<1>3. Grounded'
  <2>1. \A q \in Runners : runner'[q].at # "idle" => graph # None \/ Begun(runner'[q])
    BY <1>1 DEF TypeInv, Grounded
  <2>2. \A x : Begun(x) => Begun(x)'
    BY DEF Begun, rows
  <2>3. \A q \in Runners : runner'[q].at # "idle" => graph' # None \/ Begun(runner[q])'
    <3> SUFFICES ASSUME NEW q \in Runners, runner'[q].at # "idle"
                 PROVE  graph' # None \/ Begun(runner[q])'
      OBVIOUS
    <3>1. PICK x : x = runner'[q]
      OBVIOUS
    <3>2. graph # None \/ Begun(x)
      BY <2>1, <3>1
    <3>3. graph' # None \/ Begun(x)'
      BY <2>2, <3>2 DEF rows
    <3> QED BY <3>1, <3>3 DEF Begun
  <2> QED BY <2>3 DEF TypeInv, Grounded, rows
<1>4. \A q \in Runners : Holding(runner'[q])
  BY <1>1 DEF TypeInv
<1> QED BY <1>2, <1>3, <1>4 DEF TypeInv, Holding

\* A process saves a checkpoint and returns to the head of the loop.
LEMMA CheckpointHolds ==
    ASSUME NEW m \in Runner, m.nodes \in Graphs, NEW g, Countable(g),
           g.graph_hash = m.nodes, NEW before \in Seq(Write)
    PROVE  /\ Holding(Checkpoint(m, g, before))
           /\ Checkpoint(m, g, before).at = "stepping"
           /\ Checkpoint(m, g, before).nodes = m.nodes
           /\ Checkpoint(m, g, before).graph = g
           /\ Checkpoint(m, g, before).todo = before \o <<SaveGraphRun(g)>>
<1> DEFINE ws == before \o <<SaveGraphRun(g)>>
           n  == Checkpoint(m, g, before)
<1>1. EndsWith(ws, g) /\ ws \in Seq(GraphWrite)
  BY GraphWriteTypes DEF EndsWith, Countable
<1> HIDE DEF ws
<1>2. n = [m EXCEPT !.at = "stepping", !.graph = g, !.capsule = None, !.run = None,
                    !.shown = FALSE, !.decision = None, !.todo = ws]
  BY DEF Checkpoint, ws
<1>3. /\ n \in Runner /\ n.at = "stepping" /\ n.nodes = m.nodes /\ n.graph = g
      /\ n.todo = ws
  BY <1>1, <1>2 DEF Runner, Places, Countable
<1> QED BY <1>1, <1>3 DEF Holding, ws

-----------------------------------------------------------------------------
(* Every step keeps the types *)

\* The same process saves a checkpoint while its graph has a row.
LEMMA CheckpointStep ==
    ASSUME TypeInv, NEW p \in Runners, graph # None,
           NEW m \in Runner, m.nodes \in Graphs,
           NEW g, Countable(g), g.graph_hash = m.nodes,
           NEW before \in Seq(Write), Become(p, Checkpoint(m, g, before)),
           UNCHANGED <<rows, lost>>
    PROVE  TypeInv'
<1>1. Holding(Checkpoint(m, g, before))
  BY CheckpointHolds
<1> QED BY <1>1, MemoryStep DEF TypeInv, TypeOK

LEMMA StartStep ==
    ASSUME TypeInv, NEW p \in Runners, Start(p)
    PROVE  TypeInv'
<1> DEFINE First(nodes) == [status |-> "running", graph_hash |-> nodes,
                            node |-> 1, attempts |-> 0]
<1>1. PICK nodes \in Graphs :
          Become(p, Checkpoint([Idle EXCEPT !.nodes = nodes], First(nodes), StartWrites))
  BY DEF Start
<1>2. PICK g : g = First(nodes)
  OBVIOUS
<1>0. PICK f : f = [Idle EXCEPT !.nodes = nodes]
  OBVIOUS
<1> DEFINE n == Checkpoint(f, g, StartWrites)
           c == SaveCapsule(NewCapsule)
           r == SaveRun(NewRun)
           e == RecordEvent(Entry("created", None, Initial, 0))
           w == SaveGraphRun(g)
<1>3. Countable(g) /\ g.graph_hash = nodes
  BY <1>2, Started
<1>4. /\ Holding(n) /\ n.at = "stepping" /\ n.graph = g
      /\ n.todo = StartWrites \o <<w>>
  <2>1. f \in Runner /\ f.nodes = nodes
    BY <1>0, FreshHolds
  <2> QED BY <1>3, <2>1, CheckpointHolds, StartTypes
<1>5. <<c, r, e>> \o <<w>> = <<c, r, e, w>>
  BY ThreeAndOne
<1>6. n.todo = <<c, r, e, w>>
  BY <1>4, <1>5 DEF StartWrites
<1>7. Become(p, n)
  BY <1>1, <1>2, <1>0
<1> HIDE DEF n
<1>8. Begun(n)
  BY <1>4, <1>6 DEF Begun
<1> QED BY <1>4, <1>7, <1>8, MemoryStep DEF Start, TypeInv, TypeOK

LEMMA ResumeBlockedStep ==
    ASSUME TypeInv, NEW p \in Runners, ResumeBlocked(p)
    PROVE  TypeInv'
<1> DEFINE before == IF run.status = "blocked" THEN <<SaveRun(ResumeRun(run))>> ELSE <<>>
           g == [Status(graph, "running") EXCEPT !.attempts = 0]
<1>1. graph # None /\ graph \in GraphRunState /\ run \in RuntimeState
  BY DEF ResumeBlocked, TypeInv, TypeOK, Grounded
<1>2. PICK nodes \in Graphs : /\ nodes = graph.graph_hash
                              /\ Become(p, Checkpoint([Idle EXCEPT !.nodes = nodes], g, before))
  BY DEF ResumeBlocked, Accepted
<1>3. before \in Seq(Write)
  <2>1. <<SaveRun(ResumeRun(run))>> \in Seq(Write)
    BY <1>1, RunTypes, WriteTypes, SeriesTypes
  <2> QED BY <2>1
<1>4. Countable(g) /\ g.graph_hash = nodes
  BY <1>1, <1>2, Unblocked
<1> HIDE DEF g, before
<1> QED BY <1>1, <1>2, <1>3, <1>4, FreshHolds, CheckpointStep DEF ResumeBlocked

LEMMA ResumeStep ==
    ASSUME TypeInv, NEW p \in Runners, Resume(p)
    PROVE  TypeInv'
<1> DEFINE n(nodes) == [Idle EXCEPT !.at = "stepping", !.nodes = nodes, !.graph = graph]
<1>1. PICK nodes \in Graphs : nodes = graph.graph_hash /\ Become(p, n(nodes))
  BY DEF Resume, Accepted
<1>2. graph # None /\ Countable(graph)
  BY DEF Resume, TypeInv, Grounded
<1>3. /\ n(nodes) \in Runner /\ n(nodes).at = "stepping" /\ n(nodes).nodes = nodes
      /\ n(nodes).graph = graph /\ n(nodes).todo = <<>>
  BY <1>2, IdleHolds DEF Runner, Places, Countable, Idle
<1>4. Holding(n(nodes))
  <2> HIDE DEF n
  <2> QED BY <1>1, <1>2, <1>3 DEF Holding
<1> HIDE DEF n
<1> QED BY <1>1, <1>2, <1>4, MemoryStep DEF Resume, TypeInv, TypeOK

\* The steps of the head of the loop that save a checkpoint.
LEMMA HeadOfLoopStep ==
    ASSUME TypeInv, NEW p \in Runners,
           PauseAtGate(p) \/ Retry(p) \/ Exhaust(p) \/ MoveToNext(p)
    PROVE  TypeInv'
<1> DEFINE m == runner[p]
           g == runner[p].graph
<1>1. /\ m.todo = <<>> /\ m.at \in {"stepping", "passing"} /\ Holding(m)
      /\ m.at = "stepping" => g.status = "running"
  BY DEF PauseAtGate, Retry, Exhaust, MoveToNext, Stepping, Ready, TypeInv
<1>2. /\ graph # None /\ run \in RuntimeState /\ m \in Runner /\ m.nodes \in Graphs
      /\ Countable(g) /\ g \in GraphRunState
      /\ g.graph_hash = m.nodes /\ Node(p) \in GraphNode
      /\ Node(p).next \in 0 .. Len(m.nodes)
  <2>1. m \in Runner
    BY <1>1 DEF Holding
  <2> QED BY <1>1, <2>1, ReadyFinds, GraphNoneAssumption
<1>3. g.status # "blocked"
  BY <1>1 DEF Holding
<1>4. CASE PauseAtGate(p)
  <2>1. <<SaveRun(EnterHumanReview(run))>> \in Seq(Write)
    BY <1>2, RunTypes, WriteTypes, SeriesTypes
  <2>2. Countable(Status(g, "paused_human"))
        /\ Status(g, "paused_human").graph_hash = m.nodes
    BY <1>2, <1>3, StatusCountable
  <2> QED BY <1>1, <1>2, <1>4, <2>1, <2>2, CheckpointStep DEF PauseAtGate
<1>5. CASE Retry(p)
  <2>1. g.attempts + 1 \in 0 .. 9
    <3>1. Node(p).max_attempts \in 1 .. 10 /\ g.attempts \in 0 .. 10
      BY <1>2, NodeFields DEF GraphNode
    <3>2. g.attempts + 1 < Node(p).max_attempts
      BY <1>5 DEF Retry
    <3> QED BY <3>1, <3>2
  <2>2. PICK h : h = [g EXCEPT !.attempts = g.attempts + 1]
    OBVIOUS
  <2>3. Countable(h) /\ h.graph_hash = m.nodes
    <3>1. g.attempts + 1 \in 0 .. 10 /\ g.attempts + 1 # 10
      BY <2>1
    <3> HIDE DEF g
    <3> QED BY <1>2, <2>2, <3>1, AttemptsCountable
  <2>4. Become(p, Checkpoint(m, h, <<>>)) /\ UNCHANGED <<rows, lost>>
    BY <1>5, <2>2 DEF Retry
  <2>5. <<>> \in Seq(Write)
    OBVIOUS
  <2> HIDE DEF m
  <2> QED BY <1>2, <2>3, <2>4, <2>5, CheckpointStep
<1>6. CASE Exhaust(p)
  <2>1. g.attempts + 1 \in 0 .. 10
    <3>1. g.attempts \in 0 .. 10 /\ g.attempts < 10
      BY <1>2, <1>3, NodeFields DEF Countable
    <3> HIDE DEF g
    <3> QED BY <3>1
  <2>2. /\ Status(g, "blocked").status = "blocked"
        /\ Status(g, "blocked") \in GraphRunState
        /\ Status(g, "blocked").graph_hash = m.nodes
    BY <1>2, <1>3, StatusCountable DEF Countable
  <2>3. Countable([Status(g, "blocked") EXCEPT !.attempts = g.attempts + 1])
        /\ [Status(g, "blocked") EXCEPT !.attempts = g.attempts + 1].graph_hash = m.nodes
    BY <2>1, <2>2, AttemptsCountable
  <2>4. <<SaveRun(BlockRun(run))>> \in Seq(Write)
    BY <1>2, RunTypes, WriteTypes, SeriesTypes
  <2> QED BY <1>1, <1>2, <1>6, <2>3, <2>4, CheckpointStep DEF Exhaust
<1>7. CASE MoveToNext(p)
  <2>1. ASSUME NEW status \in {"running", "failed", "complete"}
        PROVE  /\ Countable(Status(g, status))
               /\ Status(g, status).graph_hash = m.nodes
               /\ Status(g, status).status # "blocked"
    BY <1>2, <1>3, StatusCountable
  <2>2. CASE Node(p).next # 0
    <3>1. Node(p).next \in DOMAIN Status(g, "running").graph_hash
      BY <1>2, <2>1, <2>2, GraphsAssumption, LenProperties
    <3>2. PICK h : h = [Status(g, "running") EXCEPT !.node = Node(p).next]
      OBVIOUS
    <3>3. Countable(h) /\ h.graph_hash = m.nodes
      BY <2>1, <3>1, <3>2, MovedCountable
    <3>4. Become(p, Checkpoint(m, h, <<>>)) /\ UNCHANGED <<rows, lost>>
      BY <1>7, <2>2, <3>2 DEF MoveToNext
    <3>5. <<>> \in Seq(Write)
      OBVIOUS
    <3> HIDE DEF m
    <3> QED BY <1>2, <3>3, <3>4, <3>5, CheckpointStep
  <2>3. CASE Node(p).next = 0
    <3> DEFINE status == IF Frozen(capsule) THEN "failed" ELSE "complete"
    <3>1. PICK h : h = Status(g, status)
      OBVIOUS
    <3>2. Countable(h) /\ h.graph_hash = m.nodes
      BY <2>1, <3>1
    <3>3. Become(p, Checkpoint(m, h, <<>>)) /\ UNCHANGED <<rows, lost>>
      BY <1>7, <2>3, <3>1 DEF MoveToNext
    <3>4. <<>> \in Seq(Write)
      OBVIOUS
    <3> HIDE DEF m
    <3> QED BY <1>2, <3>2, <3>3, <3>4, CheckpointStep
  <2> QED BY <2>2, <2>3
<1> QED BY <1>4, <1>5, <1>6, <1>7

\* A step that keeps the checkpoint in memory and goes somewhere else.
LEMMA GoesOn ==
    ASSUME TypeInv, NEW p \in Runners, runner[p].at # "idle", runner[p].todo = <<>>,
           NEW m, Become(p, m), UNCHANGED <<rows, lost>>, Holding(m)
    PROVE  TypeInv'
<1>1. graph # None
  BY ReadyFinds, GraphNoneAssumption
<1> QED BY <1>1, MemoryStep DEF TypeInv, TypeOK

LEMMA SucceedStep ==
    ASSUME TypeInv, NEW p \in Runners, Succeed(p)
    PROVE  TypeInv'
<1>1. /\ runner[p].at = "stepping" /\ runner[p].todo = <<>>
      /\ runner[p].graph.status = "running"
      /\ Holding(runner[p])
  BY DEF Succeed, Stepping, Ready, TypeInv
<1>2. PICK shown \in {TRUE, ~Node(p).silent} :
          Become(p, [runner[p] EXCEPT !.at = AfterSuccess(Node(p)), !.shown = shown,
                                      !.graph.attempts = 0])
  BY DEF Succeed
<1>3. PICK m : m = runner[p]
  OBVIOUS
<1> DEFINE n == [m EXCEPT !.at = AfterSuccess(Node(p)), !.shown = shown,
                          !.graph.attempts = 0]
<1>4. /\ Node(p) \in GraphNode /\ Node(p) = NodeOf(m) /\ m.nodes \in Graphs
      /\ m.graph \in GraphRunState /\ m.graph.graph_hash = m.nodes
  BY <1>1, <1>3, ReadyFinds
<1>5. /\ shown \in BOOLEAN /\ AfterSuccess(Node(p)) \in {"advancing", "passing"}
      /\ AfterSuccess(Node(p)) = "advancing" => Node(p).to \in States
  BY <1>4 DEF GraphNode, AfterSuccess
<1>6. PICK h : h = [m.graph EXCEPT !.attempts = 0]
  OBVIOUS
<1>7. /\ Countable(h) /\ h.status = "running" /\ h.node = m.graph.node
      /\ h.graph_hash = m.nodes
  <2>1. 0 \in 0 .. 10 /\ 0 # 10
    OBVIOUS
  <2> QED BY <1>1, <1>3, <1>4, <1>6, <2>1, AttemptsCountable
<1>8. /\ n \in Runner /\ n.at = AfterSuccess(Node(p)) /\ n.graph = h
      /\ n.nodes = m.nodes /\ n.todo = <<>>
  <2>1. m \in Runner
    BY <1>1, <1>3 DEF Holding
  <2> QED BY <1>1, <1>3, <1>5, <1>6, <1>7, <2>1 DEF Runner, Places, Countable
<1>9. NodeOf(n) = Node(p)
  BY <1>4, <1>7, <1>8 DEF NodeOf
<1>10. Holding(n)
  <2> HIDE DEF n
  <2> QED BY <1>4, <1>5, <1>7, <1>8, <1>9 DEF Holding
<1>11. Become(p, n) /\ UNCHANGED <<rows, lost>>
  BY <1>2, <1>3 DEF Succeed
<1> HIDE DEF n
<1> QED BY <1>1, <1>10, <1>11, GoesOn

LEMMA LoadCapsuleStep ==
    ASSUME TypeInv, NEW p \in Runners, LoadCapsule(p)
    PROVE  TypeInv'
<1>1. PICK m : m = runner[p]
  OBVIOUS
<1>2. /\ m.at = "advancing" /\ m.todo = <<>> /\ Holding(m) /\ m \in Runner
      /\ capsule \in ProcessCapsule
  BY <1>1, ReadyFinds DEF LoadCapsule, Ready, TypeInv, Holding
<1> DEFINE n == [m EXCEPT !.at = "loaded", !.capsule = capsule]
<1>3. /\ n \in Runner /\ n.at = "loaded" /\ n.capsule = capsule /\ n.nodes = m.nodes
      /\ n.graph = m.graph /\ n.todo = <<>>
  BY <1>2 DEF Runner, Places
<1>4. Holding(n)
  <2> HIDE DEF n
  <2> QED BY <1>2, <1>3 DEF Holding, NodeOf
<1>5. Become(p, n) /\ UNCHANGED <<rows, lost>>
  BY <1>1 DEF LoadCapsule
<1> HIDE DEF n
<1> QED BY <1>1, <1>2, <1>4, <1>5, GoesOn

\* The evidence AdvanceNode hands on.
Given(m) ==
    IF m.shown /\ Matching(m.capsule.state, NodeOf(m).to) # {}
    THEN Governing(m.capsule.state, NodeOf(m).to) ELSE 0

\* What AdvanceNode is, with everything it reads named.
LEMMA AdvanceNodeReads ==
    ASSUME TypeInv, NEW p \in Runners, AdvanceNode(p), NEW m, m = runner[p],
           NEW out, out = Advance(m.capsule, run, NodeOf(m).to, Given(m))
    PROVE  /\ m.at = "loaded" /\ m.todo = <<>> /\ Holding(m) /\ m \in Runner
           /\ m.nodes \in Graphs /\ Countable(m.graph) /\ m.graph.status # "blocked"
           /\ m.graph.graph_hash = m.nodes
           /\ m.capsule \in ProcessCapsule /\ run \in RuntimeState
           /\ NodeOf(m).to \in States /\ Given(m) \in Evidence
           /\ out \in Outcome
           /\ Become(p, IF out.raised
                        THEN Checkpoint(m, Status(m.graph, "failed"), out.writes)
                        ELSE [m EXCEPT !.at = "passing", !.todo = out.writes])
           /\ UNCHANGED <<rows, lost>>
<1>1. m.at = "loaded" /\ m.todo = <<>> /\ Holding(m) /\ m \in Runner
  BY DEF AdvanceNode, Ready, TypeInv, Holding
<1>2. /\ m.nodes \in Graphs /\ Countable(m.graph) /\ m.graph.status # "blocked"
      /\ m.graph.graph_hash = m.nodes /\ m.capsule \in ProcessCapsule
      /\ NodeOf(m).to \in States /\ run \in RuntimeState /\ Node(p) = NodeOf(m)
  BY <1>1, ReadyFinds DEF Holding
<1>3. Given(m) \in Evidence
  BY GoverningMatches DEF Given, Evidence
<1>4. out \in Outcome
  BY <1>2, <1>3, AdvanceType
<1> QED BY <1>1, <1>2, <1>3, <1>4 DEF AdvanceNode, Given

LEMMA AdvanceNodeStep ==
    ASSUME TypeInv, NEW p \in Runners, AdvanceNode(p)
    PROVE  TypeInv'
<1>1. PICK m : m = runner[p]
  OBVIOUS
<1>2. PICK out : out = Advance(m.capsule, run, NodeOf(m).to, Given(m))
  OBVIOUS
<1>3. /\ m.at = "loaded" /\ m.todo = <<>> /\ Holding(m) /\ m \in Runner
      /\ m.nodes \in Graphs /\ Countable(m.graph) /\ m.graph.status # "blocked"
      /\ m.graph.graph_hash = m.nodes
      /\ out \in Outcome
      /\ Become(p, IF out.raised
                   THEN Checkpoint(m, Status(m.graph, "failed"), out.writes)
                   ELSE [m EXCEPT !.at = "passing", !.todo = out.writes])
      /\ UNCHANGED <<rows, lost>>
  BY <1>1, <1>2, AdvanceNodeReads
<1>4. out.writes \in Seq(Write)
  BY <1>3 DEF Outcome
<1>5. graph # None
  BY <1>1, <1>3, ReadyFinds, GraphNoneAssumption
<1>6. CASE out.raised
  <2>1. Countable(Status(m.graph, "failed"))
        /\ Status(m.graph, "failed").graph_hash = m.nodes
    BY <1>3, StatusCountable
  <2> QED BY <1>3, <1>4, <1>5, <1>6, <2>1, CheckpointStep
<1>7. CASE ~out.raised
  <2> DEFINE n == [m EXCEPT !.at = "passing", !.todo = out.writes]
  <2>1. out.writes \in Seq(GraphWrite)
    BY <1>4, GraphWriteTypes
  <2>2. /\ n \in Runner /\ n.at = "passing" /\ n.nodes = m.nodes /\ n.graph = m.graph
        /\ n.todo = out.writes
    BY <1>3, <2>1 DEF Runner, Places
  <2>3. Holding(n)
    <3> HIDE DEF n
    <3> QED BY <1>3, <1>4, <2>2 DEF Holding
  <2> HIDE DEF n
  <2> QED BY <1>1, <1>3, <1>7, <2>3, GoesOn DEF n
<1> QED BY <1>6, <1>7

LEMMA AskHumanStep ==
    ASSUME TypeInv, NEW p \in Runners, AskHuman(p)
    PROVE  TypeInv'
<1>1. PICK m : m = runner[p]
  OBVIOUS
<1>2. /\ m.at = "stepping" /\ m.todo = <<>> /\ m.graph.status = "paused_human"
      /\ Holding(m) /\ m \in Runner
  BY <1>1 DEF AskHuman, AtPausedGate, Ready, TypeInv, Holding
<1>3. /\ capsule \in ProcessCapsule /\ Node(p) = NodeOf(m) /\ Node(p) \in GraphNode
      /\ m.nodes \in Graphs /\ Countable(m.graph) /\ m.graph.graph_hash = m.nodes
  BY <1>1, <1>2, ReadyFinds
<1>4. NodeOf(m).to \in States /\ Matching(capsule.state, NodeOf(m).to) # {}
  <2>1. Node(p).to \in States \cup {None}
    BY <1>3 DEF GraphNode
  <2> QED BY <1>3, <2>1 DEF AskHuman, GateMoves
<1> DEFINE n == [m EXCEPT !.at = "prompt", !.capsule = capsule]
<1>5. /\ n \in Runner /\ n.at = "prompt" /\ n.capsule = capsule /\ n.nodes = m.nodes
      /\ n.graph = m.graph /\ n.todo = <<>>
  BY <1>2, <1>3 DEF Runner, Places
<1>6. Holding(n)
  <2>1. NodeOf(n) = NodeOf(m)
    BY <1>5 DEF NodeOf
  <2> HIDE DEF n
  <2> QED BY <1>2, <1>3, <1>4, <1>5, <2>1 DEF Holding
<1>7. Become(p, n) /\ UNCHANGED <<rows, lost>>
  BY <1>1 DEF AskHuman
<1> HIDE DEF n
<1> QED BY <1>1, <1>2, <1>6, <1>7, GoesOn

LEMMA DecideStep ==
    ASSUME TypeInv, NEW p \in Runners, Decide(p)
    PROVE  TypeInv'
<1>1. PICK m : m = runner[p]
  OBVIOUS
<1>2. /\ m.at = "prompt" /\ m.todo = <<>> /\ Holding(m) /\ m \in Runner
  BY <1>1 DEF Decide, Ready, TypeInv, Holding
<1>3. run \in RuntimeState /\ Node(p) = NodeOf(m)
  BY <1>1, <1>2, ReadyFinds
<1>4. Transitions[Governing(m.capsule.state, Node(p).to)].evidence \in BOOLEAN
  <2> DEFINE T == [from: States, to: States, evidence: BOOLEAN, conscious: BOOLEAN]
  <2>1. PICK i \in DOMAIN Transitions : i = Governing(m.capsule.state, Node(p).to)
    BY <1>2, <1>3, GoverningMatches DEF Holding
  <2>2. Transitions[i] \in T
    <3> HIDE DEF T
    <3>1. Transitions \in Seq(T)
      BY BriefAssumption DEF T
    <3> QED BY <3>1, ElementOfSeq, LenProperties
  <2> QED BY <2>1, <2>2
<1>5. PICK decision \in Decision, shown \in BOOLEAN :
          Become(p, [m EXCEPT !.at = "judging", !.capsule = None, !.run = run,
                              !.decision = decision, !.shown = shown])
  BY <1>1, <1>4 DEF Decide
<1> DEFINE n == [m EXCEPT !.at = "judging", !.capsule = None, !.run = run,
                          !.decision = decision, !.shown = shown]
<1>6. /\ n \in Runner /\ n.at = "judging" /\ n.run = run /\ n.nodes = m.nodes
      /\ n.graph = m.graph /\ n.todo = <<>>
  BY <1>2, <1>3 DEF Runner, Places
<1>7. Holding(n)
  <2>1. NodeOf(n) = NodeOf(m)
    BY <1>6 DEF NodeOf
  <2> HIDE DEF n
  <2> QED BY <1>2, <1>3, <1>6, <2>1 DEF Holding
<1>8. Become(p, n) /\ UNCHANGED <<rows, lost>>
  BY <1>5 DEF Decide
<1> HIDE DEF n
<1> QED BY <1>1, <1>2, <1>7, <1>8, GoesOn

\* What a process that judges holds and finds.
LEMMA JudgingFinds ==
    ASSUME TypeInv, NEW p \in Runners, Ready(p, "judging"), NEW m, m = runner[p]
    PROVE  /\ m.at = "judging" /\ m.todo = <<>> /\ Holding(m) /\ m \in Runner
           /\ m.nodes \in Graphs /\ Countable(m.graph) /\ m.graph.status # "blocked"
           /\ m.graph.graph_hash = m.nodes
           /\ Node(p) = NodeOf(m) /\ Node(p) \in GraphNode
           /\ m.run \in RuntimeState /\ capsule \in ProcessCapsule /\ graph # None
<1>1. m.at = "judging" /\ m.todo = <<>> /\ Holding(m)
  BY DEF Ready, TypeInv
<1> QED BY <1>1, ReadyFinds, GraphNoneAssumption DEF Holding

LEMMA RejectStep ==
    ASSUME TypeInv, NEW p \in Runners, Reject(p)
    PROVE  TypeInv'
<1>1. PICK m : m = runner[p]
  OBVIOUS
<1> DEFINE resolved == ResolveGate(m.run, FALSE)
           before   == <<SaveRun(resolved)>> \o MarkNonConformance(capsule, resolved).writes
<1>2. /\ m \in Runner /\ m.nodes \in Graphs /\ Countable(m.graph)
      /\ m.graph.status # "blocked" /\ m.graph.graph_hash = m.nodes
      /\ m.run \in RuntimeState /\ capsule \in ProcessCapsule /\ graph # None
  BY <1>1, JudgingFinds DEF Reject
<1>3. before \in Seq(Write)
  <2>1. resolved \in RuntimeState
    BY <1>2, RunTypes
  <2> HIDE DEF resolved
  <2>2. /\ <<SaveRun(resolved)>> \in Seq(Write)
        /\ MarkNonConformance(capsule, resolved).writes \in Seq(Write)
    BY <1>2, <2>1, WriteTypes, SeriesTypes, MarkNonConformanceType DEF Outcome
  <2> QED BY <2>2, ConcatProperties
<1>4. Countable(Status(m.graph, "failed"))
      /\ Status(m.graph, "failed").graph_hash = m.nodes
  BY <1>2, StatusCountable
<1>5. Become(p, Checkpoint(m, Status(m.graph, "failed"), before))
      /\ UNCHANGED <<rows, lost>>
  BY <1>1 DEF Reject
<1> HIDE DEF before
<1> QED BY <1>2, <1>3, <1>4, <1>5, CheckpointStep

\* What an approval writes before the graph goes on.
Approval(m) == (IF m.decision = "FLAG" THEN <<Flag(capsule)>> ELSE <<>>)
                   \o <<SaveRun(ResolveGate(m.run, TRUE))>>

LEMMA ApprovalTypes ==
    ASSUME NEW m, m.run \in RuntimeState, capsule \in ProcessCapsule
    PROVE  Approval(m) \in Seq(Write)
<1> DEFINE flagged == IF m.decision = "FLAG" THEN <<Flag(capsule)>> ELSE <<>>
<1>1. <<SaveRun(ResolveGate(m.run, TRUE))>> \in Seq(Write)
  BY RunTypes, WriteTypes, SeriesTypes
<1>2. flagged \in Seq(Write)
  BY FlagType, SeriesTypes
<1> HIDE DEF flagged
<1> QED BY <1>1, <1>2, ConcatProperties DEF Approval, flagged

LEMMA ApproveStep ==
    ASSUME TypeInv, NEW p \in Runners, Approve(p)
    PROVE  TypeInv'
<1>1. PICK m : m = runner[p]
  OBVIOUS
<1>2. /\ m.at = "judging" /\ m.todo = <<>> /\ Holding(m) /\ m \in Runner
      /\ m.nodes \in Graphs /\ Countable(m.graph) /\ m.graph.status # "blocked"
      /\ m.graph.graph_hash = m.nodes
      /\ Node(p) = NodeOf(m) /\ Node(p) \in GraphNode
      /\ m.run \in RuntimeState /\ capsule \in ProcessCapsule
  BY <1>1, JudgingFinds DEF Approve
<1>3. PICK h : h = Status(m.graph, "running")
  OBVIOUS
<1>4. /\ Countable(h) /\ h.status = "running" /\ h.node = m.graph.node
      /\ h.graph_hash = m.nodes
  BY <1>2, <1>3, StatusCountable
<1>5. PICK ws : ws = Approval(m)
  OBVIOUS
<1>6. ws \in Seq(Write) /\ ws \in Seq(GraphWrite)
  BY <1>2, <1>5, ApprovalTypes, GraphWriteTypes
<1> DEFINE n == [m EXCEPT !.at = AfterSuccess(Node(p)), !.run = None,
                          !.graph = h, !.todo = ws]
<1>7. /\ AfterSuccess(Node(p)) \in {"advancing", "passing"}
      /\ AfterSuccess(Node(p)) = "advancing" => Node(p).to \in States
  BY <1>2 DEF GraphNode, AfterSuccess
<1>8. /\ n \in Runner /\ n.at = AfterSuccess(Node(p)) /\ n.nodes = m.nodes
      /\ n.graph = h /\ n.todo = ws
  BY <1>2, <1>4, <1>6, <1>7 DEF Runner, Places, Countable
<1>9. Holding(n)
  <2>1. NodeOf(n) = Node(p)
    BY <1>2, <1>4, <1>8 DEF NodeOf
  <2> HIDE DEF n
  <2> QED BY <1>2, <1>4, <1>6, <1>7, <1>8, <2>1 DEF Holding
<1>10. Become(p, n) /\ UNCHANGED <<rows, lost>>
  BY <1>1, <1>3, <1>5 DEF Approve, Approval
<1> HIDE DEF n
<1> QED BY <1>1, <1>2, <1>9, <1>10, GoesOn

LEMMA EndStep ==
    ASSUME TypeInv, NEW p \in Runners, RefuseGate(p) \/ Leave(p) \/ Die(p)
    PROVE  TypeInv'
<1>1. Become(p, Idle) /\ UNCHANGED rows
  BY DEF RefuseGate, Leave, Die
<1>2. lost' \in BOOLEAN
  BY DEF RefuseGate, Leave, Die, TypeInv, TypeOK
<1> QED BY <1>1, <1>2, IdleHolds, MemoryStep

-----------------------------------------------------------------------------
(* Every commit keeps the types *)

\* What a process that has something to write holds.
LEMMA FirstWrite ==
    ASSUME TypeInv, NEW p \in Runners, NEW m, m = runner[p], m.todo # <<>>,
           NEW n, n = [m EXCEPT !.todo = Tail(m.todo)], NEW w, w = Head(m.todo)
    PROVE  /\ m \in Runner /\ m.at # "idle" /\ Holding(m)
           /\ Holding(n) /\ n.at = m.at /\ n.nodes = m.nodes
           /\ n.graph = m.graph /\ n.todo = Tail(m.todo)
           /\ \/ w \in Write
              \/ w = SaveGraphRun(m.graph) /\ m.at = "stepping" /\ n.todo = <<>>
<1>1. m \in Runner /\ m.at # "idle" /\ Holding(m) /\ m.todo \in Seq(GraphWrite)
  BY DEF TypeInv, Holding, Idle, Runner
<1>2. PICK t : t = Tail(m.todo)
  OBVIOUS
<1>3. n = [m EXCEPT !.todo = t]
  BY <1>2
<1>4. CASE m.at = "stepping"
  <2>1. EndsWith(m.todo, m.graph)
    BY <1>1, <1>4 DEF Holding
  <2>2. \/ w = SaveGraphRun(m.graph) /\ t = <<>>
        \/ w \in Write /\ EndsWith(t, m.graph)
    BY <1>2, <2>1, FirstBeforeCheckpoint
  <2>3. t \in Seq(GraphWrite)
    BY <1>1, <1>4, <1>2, HeadTailProperties
  <2>4. /\ n \in Runner /\ n.at = m.at /\ n.nodes = m.nodes /\ n.graph = m.graph
        /\ n.todo = t
    BY <1>1, <1>3, <2>3 DEF Runner
  <2>5. Holding(n)
    BY <1>1, <1>4, <2>2, <2>4 DEF Holding
  <2> QED BY <1>1, <1>4, <1>2, <1>3, <2>2, <2>4, <2>5
<1>5. CASE m.at # "stepping"
  <2>1. w \in Write /\ t \in Seq(Write) /\ t \in Seq(GraphWrite)
    BY <1>1, <1>5, <1>2, FirstOfWrites, GraphWriteTypes DEF Holding
  <2>2. /\ n \in Runner /\ n.at = m.at /\ n.nodes = m.nodes /\ n.graph = m.graph
        /\ n.todo = t /\ n.capsule = m.capsule /\ n.run = m.run
    BY <1>1, <1>3, <2>1 DEF Runner
  <2>3. Holding(n)
    BY <1>1, <1>5, <2>1, <2>2 DEF Holding, NodeOf
  <2> QED BY <1>1, <1>2, <1>3, <2>1, <2>2, <2>3
<1> QED BY <1>4, <1>5

\* The tables tell the writes apart.
LEMMA GraphTables ==
    /\ \A w \in Write : w.table # "graph_runs"
    /\ \A g : SaveGraphRun(g).table = "graph_runs" /\ SaveGraphRun(g).value = g
    /\ \A c : SaveCapsule(c).table = "capsules" /\ SaveCapsule(c).value = c
    /\ \A r : SaveRun(r).table = "runs" /\ SaveRun(r).value = r
    /\ \A e : RecordEvent(e).table = "ledger" /\ RecordEvent(e).value = e
    /\ \A n : SaveRecord(n).table = "non_conformance_records"
              /\ SaveRecord(n).value = n
BY WriteTables DEF SaveGraphRun, SaveCapsule, SaveRun, RecordEvent, SaveRecord

LEMMA TailsOfFour ==
    ASSUME NEW a, NEW b, NEW c, NEW d
    PROVE  /\ Head(<<a, b, c, d>>) = a /\ Tail(<<a, b, c, d>>) = <<b, c, d>>
           /\ Head(<<b, c, d>>) = b /\ Tail(<<b, c, d>>) = <<c, d>>
           /\ Head(<<c, d>>) = c /\ Tail(<<c, d>>) = <<d>>
           /\ Head(<<d>>) = d /\ Tail(<<d>>) = <<>>
OBVIOUS

\* The frame of a commit: the process has a write less, the rows keep what was
\* there, and a start is as far as the rows are.
LEMMA CommitFrame ==
    ASSUME TypeInv, NEW p \in Runners, NEW m, m = runner[p], m.todo # <<>>,
           NEW n, n = [m EXCEPT !.todo = Tail(m.todo)], Become(p, n), UNCHANGED lost,
           capsule' \in ProcessCapsule \cup {None}, run' \in RuntimeState \cup {None},
           events' \in Seq(Event), records' \subseteq NonConformanceRecord,
           graph' \in GraphRunState \cup {None},
           capsule # None => capsule' # None, run # None => run' # None,
           graph # None => graph' # None,
           graph' # None => capsule' # None /\ run' # None /\ Countable(graph'),
           graph' # None \/ (LET c == SaveCapsule(NewCapsule)
                                 r == SaveRun(NewRun)
                                 e == RecordEvent(Entry("created", None, Initial, 0))
                                 g == SaveGraphRun(m.graph)
                             IN  /\ m.at = "stepping"
                                 /\ \/ n.todo = <<c, r, e, g>>
                                    \/ n.todo = <<r, e, g>> /\ capsule' # None
                                    \/ n.todo \in {<<e, g>>, <<g>>}
                                       /\ capsule' # None /\ run' # None)
    PROVE  TypeInv'
<1>1. /\ m \in Runner /\ m.at # "idle" /\ Holding(n) /\ n.at = m.at
      /\ n.nodes = m.nodes /\ n.graph = m.graph
  <2>1. PICK w : w = Head(m.todo)
    OBVIOUS
  <2> QED BY <2>1, FirstWrite
<1>2. /\ \A q \in Runners : runner'[q] = IF q = p THEN n ELSE runner[q]
      /\ runner' \in [Runners -> Runner]
  BY <1>1 DEF Become, TypeInv, TypeOK, Holding
<1>3. TypeOK'
  BY <1>2 DEF TypeInv, TypeOK
<1>4. \A q \in Runners : Holding(runner'[q])
  BY <1>1, <1>2 DEF TypeInv
<1>5. \A x : Begun(x) => Begun(x)'
  BY DEF Begun
<1>6. graph' # None \/ Begun(n)'
  BY <1>1 DEF Begun
<1>7. ASSUME NEW q \in Runners, runner'[q].at # "idle"
      PROVE  graph' # None \/ Begun(runner[q])'
  <2>1. PICK x : x = runner'[q]
    OBVIOUS
  <2>2. CASE q = p
    BY <1>2, <1>6, <2>1, <2>2 DEF Begun
  <2>3. CASE q # p
    <3>1. x = runner[q] /\ x.at # "idle"
      BY <1>2, <1>7, <2>1, <2>3
    <3>2. graph # None \/ Begun(x)
      BY <3>1 DEF TypeInv, Grounded
    <3>3. graph' # None \/ Begun(x)'
      BY <1>5, <3>2
    <3> QED BY <2>1, <3>3 DEF Begun
  <2> QED BY <2>2, <2>3
<1>8. Grounded'
  BY <1>7 DEF Grounded
<1> QED BY <1>3, <1>4, <1>8 DEF TypeInv, Holding

LEMMA CommitStep ==
    ASSUME TypeInv, NEW p \in Runners, Commit(p)
    PROVE  TypeInv'
<1>1. PICK m : m = runner[p]
  OBVIOUS
<1>2. PICK w : w = Head(m.todo)
  OBVIOUS
<1>3. PICK n : n = [m EXCEPT !.todo = Tail(m.todo)]
  OBVIOUS
<1>4. m.todo # <<>> /\ Become(p, n) /\ UNCHANGED lost
  BY <1>1, <1>3 DEF Commit, CommitCapsule, CommitRun, CommitEvent, CommitRecord,
                   CommitGraph, Committing
<1>5. /\ m \in Runner /\ m.at # "idle" /\ Holding(m) /\ Holding(n)
      /\ n.at = m.at /\ n.nodes = m.nodes /\ n.graph = m.graph /\ n.todo = Tail(m.todo)
      /\ w \in Write \/ (w = SaveGraphRun(m.graph) /\ m.at = "stepping")
  <2>1. m = runner[p] /\ m.todo # <<>> /\ w = Head(m.todo)
        /\ n = [m EXCEPT !.todo = Tail(m.todo)]
    BY <1>1, <1>2, <1>3, <1>4
  <2>2. /\ m \in Runner /\ m.at # "idle" /\ Holding(m)
        /\ Holding(n) /\ n.at = m.at /\ n.nodes = m.nodes
        /\ n.graph = m.graph /\ n.todo = Tail(m.todo)
        /\ \/ w \in Write
           \/ w = SaveGraphRun(m.graph) /\ m.at = "stepping" /\ n.todo = <<>>
    BY <1>1, <1>2, <1>3, <1>4, FirstWrite, ZenonT(60)
  <2> QED BY <2>2
<1>6. Countable(m.graph) /\ m.graph # None
  BY <1>5, GraphNoneAssumption DEF Holding, Countable
<1> DEFINE c == SaveCapsule(NewCapsule)
           r == SaveRun(NewRun)
           e == RecordEvent(Entry("created", None, Initial, 0))
           g == SaveGraphRun(m.graph)
<1>7. graph # None \/ Begun(m)
  BY <1>1, <1>5 DEF TypeInv, Grounded
<1>8. graph # None => capsule # None /\ run # None /\ Countable(graph)
  BY DEF TypeInv, Grounded
<1>9. Begun(m) => \/ m.at = "stepping" /\ w = c /\ n.todo = <<r, e, g>>
                  \/ m.at = "stepping" /\ w = r /\ n.todo = <<e, g>> /\ capsule # None
                  \/ m.at = "stepping" /\ w = e /\ n.todo = <<g>>
                     /\ capsule # None /\ run # None
                  \/ w = g /\ capsule # None /\ run # None
  <2>1. CASE m.todo = <<c, r, e, g>>
    <3> HIDE DEF c, r, e, g
    <3>1. w = c /\ n.todo = <<r, e, g>>
      BY <1>2, <1>5, <2>1, TailsOfFour
    <3> QED BY <3>1 DEF Begun
  <2>2. CASE m.todo = <<r, e, g>>
    <3> HIDE DEF c, r, e, g
    <3>1. w = r /\ n.todo = <<e, g>>
      BY <1>2, <1>5, <2>2, TailsOfFour
    <3>2. m.todo # <<c, r, e, g>> /\ m.todo # <<e, g>> /\ m.todo # <<g>>
      BY <2>2
    <3> QED BY <3>1, <3>2 DEF Begun, c, r, e, g
  <2>3. CASE m.todo = <<e, g>>
    <3> HIDE DEF c, r, e, g
    <3>1. w = e /\ n.todo = <<g>>
      BY <1>2, <1>5, <2>3, TailsOfFour
    <3>2. m.todo # <<c, r, e, g>> /\ m.todo # <<r, e, g>> /\ m.todo # <<g>>
      BY <2>3
    <3> QED BY <3>1, <3>2 DEF Begun, c, r, e, g
  <2>4. CASE m.todo = <<g>>
    <3> HIDE DEF c, r, e, g
    <3>1. w = g
      BY <1>2, <1>5, <2>4, TailsOfFour
    <3>2. m.todo # <<c, r, e, g>> /\ m.todo # <<r, e, g>> /\ m.todo # <<e, g>>
      BY <2>4
    <3> QED BY <3>1, <3>2 DEF Begun, c, r, e, g
  <2> QED BY <2>1, <2>2, <2>3, <2>4 DEF Begun
<1>10. CASE CommitCapsule(p)
  <2>1. w.table = "capsules" /\ capsule' = w.value
        /\ UNCHANGED <<run, events, records, graph>>
    BY <1>1, <1>2, <1>10 DEF CommitCapsule, Committing
  <2>2. w.value \in ProcessCapsule /\ w.value # None
    BY <1>5, <2>1, WriteTables, GraphTables, NoneAssumption
  <2>3. graph # None \/ (m.at = "stepping" /\ n.todo = <<r, e, g>>)
    BY <1>7, <1>9, <2>1, GraphTables
  <2> QED BY <1>1, <1>3, <1>4, <1>8, <2>1, <2>2, <2>3, CommitFrame DEF TypeInv, TypeOK
<1>11. CASE CommitRun(p)
  <2>1. w.table = "runs" /\ run' = w.value
        /\ UNCHANGED <<capsule, events, records, graph>>
    BY <1>1, <1>2, <1>11 DEF CommitRun, Committing
  <2>2. w.value \in RuntimeState /\ w.value # None
    BY <1>5, <2>1, WriteTables, GraphTables, NoneAssumption
  <2>3. graph # None \/ (m.at = "stepping" /\ n.todo = <<e, g>> /\ capsule # None)
    BY <1>7, <1>9, <2>1, GraphTables
  <2> QED BY <1>1, <1>3, <1>4, <1>8, <2>1, <2>2, <2>3, CommitFrame DEF TypeInv, TypeOK
<1>12. CASE CommitEvent(p)
  <2>1. w.table = "ledger" /\ events' = Append(events, w.value)
        /\ UNCHANGED <<capsule, run, records, graph>>
    BY <1>1, <1>2, <1>12 DEF CommitEvent, Committing
  <2>2. events' \in Seq(Event)
    <3>1. w.value \in Event /\ events \in Seq(Event)
      BY <1>5, <2>1, WriteTables, GraphTables DEF TypeInv, TypeOK
    <3> QED BY <2>1, <3>1, AppendProperties
  <2>3. graph # None \/ (m.at = "stepping" /\ n.todo = <<g>>
                         /\ capsule # None /\ run # None)
    BY <1>7, <1>9, <2>1, GraphTables
  <2> QED BY <1>1, <1>3, <1>4, <1>8, <2>1, <2>2, <2>3, CommitFrame DEF TypeInv, TypeOK
<1>13. CASE CommitRecord(p)
  <2>1. w.table = "non_conformance_records" /\ records' = records \cup {w.value}
        /\ UNCHANGED <<capsule, run, events, graph>>
    BY <1>1, <1>2, <1>13 DEF CommitRecord, Committing
  <2>2. records' \subseteq NonConformanceRecord
    <3>1. w.value \in NonConformanceRecord /\ records \subseteq NonConformanceRecord
      BY <1>5, <2>1, WriteTables, GraphTables DEF TypeInv, TypeOK
    <3> QED BY <2>1, <3>1
  <2>3. graph # None
    BY <1>7, <1>9, <2>1, GraphTables
  <2> QED BY <1>1, <1>3, <1>4, <1>8, <2>1, <2>2, <2>3, CommitFrame DEF TypeInv, TypeOK
<1>14. CASE CommitGraph(p)
  <2>1. w.table = "graph_runs" /\ graph' = w.value
        /\ UNCHANGED <<capsule, run, events, records>>
    BY <1>1, <1>2, <1>14 DEF CommitGraph, Committing
  <2>2. graph' = m.graph
    BY <1>5, <2>1, GraphTables
  <2>3. capsule # None /\ run # None
    BY <1>7, <1>8, <1>9, <2>1, GraphTables
  <2>4. graph' \in GraphRunState /\ graph' # None /\ Countable(graph')
    BY <1>6, <2>2 DEF Countable
  <2> QED BY <1>1, <1>3, <1>4, <2>1, <2>3, <2>4, CommitFrame DEF TypeInv, TypeOK
<1> QED BY <1>10, <1>11, <1>12, <1>13, <1>14 DEF Commit

\* Every step keeps the types.
LEMMA NextTypes ==
    ASSUME TypeInv, [Next]_vars
    PROVE  TypeInv'
<1>1. CASE UNCHANGED vars
  BY <1>1 DEF vars, TypeInv, TypeOK, Grounded, Begun, Holding
<1>2. CASE Next
  <2>1. PICK p \in Runners :
            \/ RunnerStep(p)
            \/ Start(p) \/ ResumeBlocked(p) \/ Resume(p) \/ Decide(p) \/ Die(p)
    BY <1>2 DEF Next
  <2> QED BY <2>1, CommitStep, HeadOfLoopStep, SucceedStep, LoadCapsuleStep,
             AdvanceNodeStep, AskHumanStep, RejectStep, ApproveStep, EndStep,
             StartStep, ResumeBlockedStep, ResumeStep, DecideStep DEF RunnerStep
<1> QED BY <1>1, <1>2

LEMMA InitTypes == Init => TypeInv
<1> SUFFICES ASSUME Init PROVE TypeInv
  OBVIOUS
<1>1. \A p \in Runners : runner[p] = Idle
  BY DEF Init
<1>2. TypeOK
  <2>1. runner \in [Runners -> Runner]
    BY IdleHolds DEF Init
  <2>2. events \in Seq(Event) /\ records \subseteq NonConformanceRecord /\ lost \in BOOLEAN
    <3>1. events = <<>> /\ records = {} /\ lost = FALSE
      BY DEF Init
    <3>2. \A S : <<>> \in Seq(S)
      OBVIOUS
    <3> QED BY <3>1, <3>2
  <2>3. capsule = None /\ run = None /\ graph = None
    BY DEF Init
  <2> QED BY <2>1, <2>2, <2>3 DEF TypeOK
<1> QED BY <1>1, <1>2, IdleHolds DEF TypeInv, Grounded, Init

LEMMA TypesHold == Spec => []TypeInv
<1>1. TypeInv /\ [Next]_vars => TypeInv'
  BY NextTypes
<1> QED BY <1>1, InitTypes, PTL DEF Spec

\* Rows and the memory of any number of processes keep their types: a process
\* never reaches for a capsule, a run or a node that is not there.
THEOREM TypeCorrect == Spec => []TypeOK
<1>1. TypeInv => TypeOK
  BY DEF TypeInv
<1> QED BY <1>1, TypesHold, PTL

-----------------------------------------------------------------------------
(* One process: the checkpoint in memory and the checkpoint in the ledger *)

AtGate(g) == g.graph_hash[g.node].kind = "human_gate"

After(g) == g.graph_hash[g.node].next

SamePlace(g, h) == h.graph_hash = g.graph_hash /\ h.node = g.node

\* Work that is running, or a gate that is paused.
MayPass(g) == \/ g.status = "running" /\ ~AtGate(g)
              \/ g.status = "paused_human" /\ AtGate(g)

\* The row g may be overwritten with the checkpoint h.
Walks(g, h) ==
    IF g = None THEN h.status = "running" /\ h.node = 1
    ELSE \/ /\ SamePlace(g, h)
            /\ \/ h.status = g.status
               \/ g.status = "blocked" /\ h.status = "running"
               \/ g.status = "running" /\ AtGate(g) /\ h.status = "paused_human"
               \/ g.status = "running" /\ ~AtGate(g) /\ h.status = "blocked"
               \/ MayPass(g) /\ h.status = "failed"
               \/ MayPass(g) /\ h.status = "complete" /\ After(g) = 0
         \/ /\ MayPass(g) /\ After(g) # 0
            /\ h.graph_hash = g.graph_hash /\ h.status = "running" /\ h.node = After(g)

\* How the memory m of the process is related to the row g.
Follows(m, g) ==
    /\ (m.at \in {"prompt", "judging"} \/ (m.at = "stepping" /\ m.todo = <<>>)) =>
           m.graph = g
    /\ m.at \in {"prompt", "judging"} => m.graph.status = "paused_human"
    /\ m.at = "stepping" /\ m.todo # <<>> => Walks(g, m.graph)
    /\ m.at \in {"advancing", "loaded", "passing"} =>
           SamePlace(g, m.graph) /\ MayPass(g) /\ m.graph.status = "running"

FollowInv(p) ==
    /\ TypeInv
    /\ Follows(runner[p], graph)
    /\ graph # None /\ graph.status = "paused_human" => AtGate(graph)

LEMMA IdleFollows == \A g : Follows(Idle, g)
BY DEF Follows, Idle

\* The frame of a step that leaves the row alone.
LEMMA FollowFrame ==
    ASSUME NEW p \in Runners, FollowInv(p), TypeInv', graph' = graph,
           NEW n, Become(p, n), Follows(n, graph)
    PROVE  FollowInv(p)'
<1>1. runner'[p] = n
  BY DEF Become, FollowInv, TypeInv, TypeOK
<1>2. Follows(n, graph')
  OBVIOUS
<1>3. Follows(runner'[p], graph')
  BY <1>1, <1>2
<1> QED BY <1>3 DEF FollowInv, Follows

\* A checkpoint that is about to be saved follows the row.
LEMMA CheckpointFollows ==
    ASSUME NEW m \in Runner, m.nodes \in Graphs, NEW g, Countable(g),
           g.graph_hash = m.nodes, NEW before \in Seq(Write), NEW row, Walks(row, g)
    PROVE  Follows(Checkpoint(m, g, before), row)
<1>1. /\ Checkpoint(m, g, before).at = "stepping"
      /\ Checkpoint(m, g, before).graph = g
      /\ Checkpoint(m, g, before).todo = before \o <<SaveGraphRun(g)>>
  BY CheckpointHolds
<1>2. before \o <<SaveGraphRun(g)>> # <<>>
  BY FirstBeforeCheckpoint DEF EndsWith
<1> QED BY <1>1, <1>2 DEF Follows

\* What a process that is about to execute or to pass a node holds.
LEMMA DrivingFinds ==
    ASSUME NEW p \in Runners, FollowInv(p), NEW m, m = runner[p],
           m.at # "idle", m.todo = <<>>
    PROVE  /\ m \in Runner /\ m.nodes \in Graphs /\ Holding(m)
           /\ graph # None /\ graph \in GraphRunState /\ graph.graph_hash = m.nodes
           /\ m.graph \in GraphRunState /\ Countable(m.graph)
           /\ m.graph.graph_hash = m.nodes /\ SamePlace(graph, m.graph)
           /\ m.at \in {"stepping", "prompt", "judging"} => m.graph = graph
           /\ Node(p) = graph.graph_hash[graph.node]
           /\ Node(p) \in GraphNode /\ Node(p).next \in 0 .. Len(m.nodes)
           /\ capsule \in ProcessCapsule /\ run \in RuntimeState
<1>1. /\ m \in Runner /\ m.nodes \in Graphs /\ Holding(m)
      /\ graph # None /\ graph \in GraphRunState
      /\ m.graph \in GraphRunState /\ Countable(m.graph)
      /\ m.graph.graph_hash = m.nodes
      /\ Node(p) = NodeOf(m) /\ Node(p) \in GraphNode
      /\ Node(p).next \in 0 .. Len(m.nodes)
      /\ capsule \in ProcessCapsule /\ run \in RuntimeState
  BY ReadyFinds, GraphNoneAssumption DEF FollowInv, TypeInv, Holding
<1>2. m.at \in {"stepping", "prompt", "judging", "advancing", "loaded", "passing"}
  BY <1>1 DEF Runner, Places
<1>3. /\ m.at \in {"stepping", "prompt", "judging"} => m.graph = graph
      /\ SamePlace(graph, m.graph)
  BY <1>2 DEF FollowInv, Follows, SamePlace
<1> QED BY <1>1, <1>3 DEF SamePlace, NodeOf

LEMMA StartFollows ==
    ASSUME NEW p \in Runners, FollowInv(p), Start(p)
    PROVE  FollowInv(p)'
<1> DEFINE First(nodes) == [status |-> "running", graph_hash |-> nodes,
                            node |-> 1, attempts |-> 0]
<1>1. PICK nodes \in Graphs :
          Become(p, Checkpoint([Idle EXCEPT !.nodes = nodes], First(nodes), StartWrites))
  BY DEF Start
<1>2. PICK g : g = First(nodes)
  OBVIOUS
<1>3. PICK f : f = [Idle EXCEPT !.nodes = nodes]
  OBVIOUS
<1>4. Countable(g) /\ g.graph_hash = nodes /\ f \in Runner /\ f.nodes = nodes
  BY <1>2, <1>3, Started, FreshHolds
<1>5. Walks(graph, g)
  BY <1>2 DEF Start, Walks
<1>6. Follows(Checkpoint(f, g, StartWrites), graph)
  BY <1>4, <1>5, StartTypes, CheckpointFollows
<1>7. Become(p, Checkpoint(f, g, StartWrites))
  BY <1>1, <1>2, <1>3
<1> QED BY <1>6, <1>7, StartStep, FollowFrame DEF FollowInv, Start, rows

LEMMA ResumeBlockedFollows ==
    ASSUME NEW p \in Runners, FollowInv(p), ResumeBlocked(p)
    PROVE  FollowInv(p)'
<1> DEFINE before == IF run.status = "blocked" THEN <<SaveRun(ResumeRun(run))>> ELSE <<>>
<1>1. PICK g : g = [Status(graph, "running") EXCEPT !.attempts = 0]
  OBVIOUS
<1>2. graph # None /\ graph \in GraphRunState /\ run \in RuntimeState
  BY DEF ResumeBlocked, FollowInv, TypeInv, TypeOK, Grounded
<1>3. PICK nodes \in Graphs : /\ nodes = graph.graph_hash
                              /\ Become(p, Checkpoint([Idle EXCEPT !.nodes = nodes], g, before))
  BY <1>1 DEF ResumeBlocked, Accepted
<1>4. before \in Seq(Write)
  <2>1. <<SaveRun(ResumeRun(run))>> \in Seq(Write)
    BY <1>2, RunTypes, WriteTypes, SeriesTypes
  <2> QED BY <2>1
<1>5. Countable(g) /\ g.status = "running" /\ g.node = graph.node
      /\ g.graph_hash = graph.graph_hash
  BY <1>1, <1>2, Unblocked
<1>6. Walks(graph, g)
  BY <1>2, <1>5 DEF ResumeBlocked, Walks, SamePlace
<1>7. PICK f : f = [Idle EXCEPT !.nodes = nodes]
  OBVIOUS
<1>8. f \in Runner /\ f.nodes = nodes
  BY <1>7, FreshHolds
<1> HIDE DEF before
<1>9. Follows(Checkpoint(f, g, before), graph)
  BY <1>3, <1>4, <1>5, <1>6, <1>8, CheckpointFollows
<1>10. Become(p, Checkpoint(f, g, before))
  BY <1>3, <1>7
<1> QED BY <1>9, <1>10, ResumeBlockedStep, FollowFrame DEF FollowInv, ResumeBlocked, rows

LEMMA ResumeFollows ==
    ASSUME NEW p \in Runners, FollowInv(p), Resume(p)
    PROVE  FollowInv(p)'
<1> DEFINE n(nodes) == [Idle EXCEPT !.at = "stepping", !.nodes = nodes, !.graph = graph]
<1>1. PICK nodes \in Graphs : Become(p, n(nodes))
  BY DEF Resume, Accepted
<1>2. n(nodes).at = "stepping" /\ n(nodes).graph = graph /\ n(nodes).todo = <<>>
  BY DEF Idle
<1> HIDE DEF n
<1>3. Follows(n(nodes), graph)
  BY <1>2 DEF Follows
<1> QED BY <1>1, <1>3, ResumeStep, FollowFrame DEF FollowInv, Resume, rows

\* The frame of a step that saves a checkpoint which may overwrite the row.
LEMMA SaveFollows ==
    ASSUME NEW p \in Runners, FollowInv(p), TypeInv', UNCHANGED rows,
           NEW m \in Runner, m.nodes \in Graphs, NEW g, Countable(g),
           g.graph_hash = m.nodes, NEW before \in Seq(Write), Walks(graph, g),
           Become(p, Checkpoint(m, g, before))
    PROVE  FollowInv(p)'
<1>1. Follows(Checkpoint(m, g, before), graph)
  BY CheckpointFollows
<1> QED BY <1>1, FollowFrame DEF rows

LEMMA PauseAtGateFollows ==
    ASSUME NEW p \in Runners, FollowInv(p), PauseAtGate(p)
    PROVE  FollowInv(p)'
<1>1. PICK m : m = runner[p]
  OBVIOUS
<1>2. m.at = "stepping" /\ m.todo = <<>> /\ m.graph.status = "running"
      /\ Node(p).kind = "human_gate"
  BY <1>1 DEF PauseAtGate, Stepping, Ready
<1>3. /\ m \in Runner /\ m.nodes \in Graphs /\ graph # None /\ Countable(m.graph)
      /\ m.graph.graph_hash = m.nodes /\ m.graph = graph
      /\ Node(p) = graph.graph_hash[graph.node] /\ run \in RuntimeState
  BY <1>1, <1>2, DrivingFinds
<1>4. PICK g : g = Status(m.graph, "paused_human")
  OBVIOUS
<1>5. /\ Countable(g) /\ g.status = "paused_human" /\ g.graph_hash = m.nodes
      /\ SamePlace(graph, g)
  BY <1>2, <1>3, <1>4, StatusCountable DEF SamePlace
<1>6. Walks(graph, g)
  BY <1>2, <1>3, <1>5 DEF Walks, AtGate
<1>7. <<SaveRun(EnterHumanReview(run))>> \in Seq(Write)
  BY <1>3, RunTypes, WriteTypes, SeriesTypes
<1>8. Become(p, Checkpoint(m, g, <<SaveRun(EnterHumanReview(run))>>)) /\ UNCHANGED rows
  BY <1>1, <1>4 DEF PauseAtGate
<1>9. TypeInv'
  BY HeadOfLoopStep DEF FollowInv
<1> QED BY <1>3, <1>5, <1>6, <1>7, <1>8, <1>9, SaveFollows

LEMMA RetryFollows ==
    ASSUME NEW p \in Runners, FollowInv(p), Retry(p)
    PROVE  FollowInv(p)'
<1>1. PICK m : m = runner[p]
  OBVIOUS
<1>2. m.at = "stepping" /\ m.todo = <<>> /\ m.graph.status = "running"
  BY <1>1 DEF Retry, Stepping, Ready
<1>3. /\ m \in Runner /\ m.nodes \in Graphs /\ graph # None /\ Countable(m.graph)
      /\ m.graph \in GraphRunState /\ m.graph.graph_hash = m.nodes /\ m.graph = graph
      /\ Node(p) \in GraphNode
  BY <1>1, <1>2, DrivingFinds
<1>4. PICK k : k = m.graph.attempts + 1
  OBVIOUS
<1>5. PICK g : g = [m.graph EXCEPT !.attempts = k]
  OBVIOUS
<1>6. k \in 0 .. 10 /\ k # 10
  <2>1. Node(p).max_attempts \in 1 .. 10 /\ m.graph.attempts \in 0 .. 10
    BY <1>3, NodeFields DEF GraphNode
  <2>2. k < Node(p).max_attempts
    BY <1>1, <1>4 DEF Retry
  <2> QED BY <1>4, <2>1, <2>2
<1>7. /\ Countable(g) /\ g.status = "running" /\ g.graph_hash = m.nodes
      /\ SamePlace(graph, g)
  BY <1>2, <1>3, <1>5, <1>6, AttemptsCountable DEF SamePlace
<1>8. Walks(graph, g)
  BY <1>2, <1>3, <1>7 DEF Walks
<1>9. Become(p, Checkpoint(m, g, <<>>)) /\ UNCHANGED rows
  BY <1>1, <1>4, <1>5 DEF Retry
<1>10. TypeInv' /\ <<>> \in Seq(Write)
  BY HeadOfLoopStep DEF FollowInv
<1> QED BY <1>3, <1>7, <1>8, <1>9, <1>10, SaveFollows

LEMMA ExhaustFollows ==
    ASSUME NEW p \in Runners, FollowInv(p), Exhaust(p)
    PROVE  FollowInv(p)'
<1>1. PICK m : m = runner[p]
  OBVIOUS
<1>2. /\ m.at = "stepping" /\ m.todo = <<>> /\ m.graph.status = "running"
      /\ Node(p).kind = "work"
  BY <1>1 DEF Exhaust, Stepping, Ready
<1>3. /\ m \in Runner /\ m.nodes \in Graphs /\ graph # None /\ Countable(m.graph)
      /\ m.graph \in GraphRunState /\ m.graph.graph_hash = m.nodes /\ m.graph = graph
      /\ Node(p) = graph.graph_hash[graph.node] /\ run \in RuntimeState
  BY <1>1, <1>2, DrivingFinds
<1>4. PICK k : k = m.graph.attempts + 1
  OBVIOUS
<1>5. k \in 0 .. 10
  <2>1. m.graph.attempts \in 0 .. 10 /\ m.graph.attempts < 10
    BY <1>2, <1>3, NodeFields DEF Countable
  <2> QED BY <1>4, <2>1
<1>6. PICK h : h = Status(m.graph, "blocked")
  OBVIOUS
<1>7. h \in GraphRunState /\ h.status = "blocked" /\ h.graph_hash = m.nodes
      /\ h.node = graph.node
  BY <1>2, <1>3, <1>6, StatusCountable DEF Countable
<1>8. PICK g : g = [h EXCEPT !.attempts = k]
  OBVIOUS
<1>9. /\ Countable(g) /\ g.status = "blocked" /\ g.graph_hash = m.nodes
      /\ SamePlace(graph, g)
  BY <1>3, <1>5, <1>7, <1>8, AttemptsCountable DEF SamePlace
<1>10. Walks(graph, g)
  BY <1>2, <1>3, <1>9 DEF Walks, AtGate
<1>11. <<SaveRun(BlockRun(run))>> \in Seq(Write)
  BY <1>3, RunTypes, WriteTypes, SeriesTypes
<1>12. Become(p, Checkpoint(m, g, <<SaveRun(BlockRun(run))>>)) /\ UNCHANGED rows
  BY <1>1, <1>4, <1>6, <1>8 DEF Exhaust
<1>13. TypeInv'
  BY HeadOfLoopStep DEF FollowInv
<1> QED BY <1>3, <1>9, <1>10, <1>11, <1>12, <1>13, SaveFollows

LEMMA MoveToNextFollows ==
    ASSUME NEW p \in Runners, FollowInv(p), MoveToNext(p)
    PROVE  FollowInv(p)'
<1>1. PICK m : m = runner[p]
  OBVIOUS
<1>2. m.at = "passing" /\ m.todo = <<>>
  BY <1>1 DEF MoveToNext, Ready
<1>3. /\ m \in Runner /\ m.nodes \in Graphs /\ graph # None /\ Countable(m.graph)
      /\ m.graph \in GraphRunState /\ m.graph.graph_hash = m.nodes
      /\ SamePlace(graph, m.graph) /\ Node(p) = graph.graph_hash[graph.node]
      /\ Node(p).next \in 0 .. Len(m.nodes)
  BY <1>1, <1>2, DrivingFinds
<1>4. MayPass(graph) /\ m.graph.status = "running"
  BY <1>1, <1>2 DEF FollowInv, Follows
<1>5. After(graph) = Node(p).next
  BY <1>3 DEF After
<1>6. TypeInv' /\ <<>> \in Seq(Write) /\ UNCHANGED rows
  BY HeadOfLoopStep DEF FollowInv, MoveToNext
<1>7. CASE Node(p).next # 0
  <2>1. PICK h : h = Status(m.graph, "running")
    OBVIOUS
  <2>2. Countable(h) /\ h.status = "running" /\ h.graph_hash = m.nodes
    BY <1>3, <1>4, <2>1, StatusCountable
  <2>3. PICK g : g = [h EXCEPT !.node = Node(p).next]
    OBVIOUS
  <2>4. Node(p).next \in DOMAIN h.graph_hash
    BY <1>3, <1>7, <2>2, GraphsAssumption, LenProperties
  <2>5. /\ Countable(g) /\ g.status = "running" /\ g.node = Node(p).next
        /\ g.graph_hash = m.nodes
    BY <2>2, <2>3, <2>4, MovedCountable
  <2>6. Walks(graph, g)
    BY <1>3, <1>4, <1>5, <1>7, <2>5 DEF Walks, SamePlace
  <2>7. Become(p, Checkpoint(m, g, <<>>))
    BY <1>1, <1>7, <2>1, <2>3 DEF MoveToNext
  <2> QED BY <1>3, <1>6, <2>5, <2>6, <2>7, SaveFollows
<1>8. CASE Node(p).next = 0
  <2>1. PICK status \in {"failed", "complete"} :
            status = IF Frozen(capsule) THEN "failed" ELSE "complete"
    OBVIOUS
  <2>2. PICK g : g = Status(m.graph, status)
    OBVIOUS
  <2>3. Countable(g) /\ g.status = status /\ g.graph_hash = m.nodes
        /\ g.node = m.graph.node
    BY <1>3, <1>4, <2>2, StatusCountable
  <2>4. Walks(graph, g)
    BY <1>3, <1>4, <1>5, <1>8, <2>3 DEF Walks, SamePlace
  <2>5. Become(p, Checkpoint(m, g, <<>>))
    BY <1>1, <1>8, <2>1, <2>2 DEF MoveToNext
  <2> QED BY <1>3, <1>6, <2>3, <2>4, <2>5, SaveFollows
<1> QED BY <1>7, <1>8

\* Succeed and LoadCapsule go on from the row; AskHuman and Decide stay on it.
LEMMA StayFollows ==
    ASSUME NEW p \in Runners, FollowInv(p),
           Succeed(p) \/ LoadCapsule(p) \/ AskHuman(p) \/ Decide(p)
    PROVE  FollowInv(p)'
<1>1. PICK m : m = runner[p]
  OBVIOUS
<1>2. m.todo = <<>> /\ m.at \in {"stepping", "advancing", "prompt"} /\ m.at # "idle"
      /\ UNCHANGED rows
  BY <1>1 DEF Succeed, LoadCapsule, AskHuman, Decide, Stepping, AtPausedGate, Ready
<1>3. /\ m \in Runner /\ graph # None /\ SamePlace(graph, m.graph)
      /\ m.graph \in GraphRunState
      /\ m.at \in {"stepping", "prompt"} => m.graph = graph
      /\ Node(p) = graph.graph_hash[graph.node] /\ Node(p) \in GraphNode
  BY <1>1, <1>2, DrivingFinds
<1>4. TypeInv'
  BY SucceedStep, LoadCapsuleStep, AskHumanStep, DecideStep DEF FollowInv
<1>5. CASE Succeed(p)
  <2>1. PICK shown : Become(p, [m EXCEPT !.at = AfterSuccess(Node(p)), !.shown = shown,
                                          !.graph.attempts = 0])
    BY <1>1, <1>5 DEF Succeed
  <2>2. PICK n : n = [m EXCEPT !.at = AfterSuccess(Node(p)), !.shown = shown,
                                !.graph.attempts = 0]
    OBVIOUS
  <2>3. /\ n.at \in {"advancing", "passing"}
        /\ n.graph = [m.graph EXCEPT !.attempts = 0]
    BY <1>3, <2>2 DEF Runner, AfterSuccess
  <2>4. /\ n.graph.status = m.graph.status /\ n.graph.node = m.graph.node
        /\ n.graph.graph_hash = m.graph.graph_hash
    BY <1>3, <2>3 DEF GraphRunState
  <2>5. m.graph.status = "running" /\ Node(p).kind = "work" /\ m.at = "stepping"
    BY <1>1, <1>5 DEF Succeed, Stepping, Ready
  <2>6. Follows(n, graph)
    BY <1>3, <2>3, <2>4, <2>5 DEF Follows, SamePlace, MayPass, AtGate
  <2> QED BY <1>2, <1>4, <2>1, <2>2, <2>6, FollowFrame DEF rows
<1>6. CASE LoadCapsule(p)
  <2>1. PICK n : n = [m EXCEPT !.at = "loaded", !.capsule = capsule]
    OBVIOUS
  <2>2. Become(p, n) /\ n.at = "loaded" /\ n.graph = m.graph /\ m.at = "advancing"
    BY <1>1, <1>3, <1>6, <2>1 DEF LoadCapsule, Ready, Runner
  <2>3. Follows(n, graph)
    BY <1>1, <2>2 DEF Follows, FollowInv
  <2> QED BY <1>2, <1>4, <2>2, <2>3, FollowFrame DEF rows
<1>7. CASE AskHuman(p)
  <2>1. PICK n : n = [m EXCEPT !.at = "prompt", !.capsule = capsule]
    OBVIOUS
  <2>2. /\ Become(p, n) /\ n.at = "prompt" /\ n.graph = m.graph /\ m.at = "stepping"
        /\ m.graph.status = "paused_human"
    BY <1>1, <1>3, <1>7, <2>1 DEF AskHuman, AtPausedGate, Ready, Runner
  <2>3. Follows(n, graph)
    BY <1>3, <2>2 DEF Follows
  <2> QED BY <1>2, <1>4, <2>2, <2>3, FollowFrame DEF rows
<1>8. CASE Decide(p)
  <2>1. PICK decision, shown :
            Become(p, [m EXCEPT !.at = "judging", !.capsule = None, !.run = run,
                                !.decision = decision, !.shown = shown])
    BY <1>1, <1>8 DEF Decide
  <2>2. PICK n : n = [m EXCEPT !.at = "judging", !.capsule = None, !.run = run,
                                !.decision = decision, !.shown = shown]
    OBVIOUS
  <2>3. n.at = "judging" /\ n.graph = m.graph /\ m.at = "prompt"
    BY <1>1, <1>3, <1>8, <2>2 DEF Decide, Ready, Runner
  <2>4. m.graph.status = "paused_human"
    BY <1>1, <2>3 DEF FollowInv, Follows
  <2>5. Follows(n, graph)
    BY <1>3, <2>3, <2>4 DEF Follows
  <2> QED BY <1>2, <1>4, <2>1, <2>2, <2>5, FollowFrame DEF rows
<1> QED BY <1>5, <1>6, <1>7, <1>8

LEMMA AdvanceNodeFollows ==
    ASSUME NEW p \in Runners, FollowInv(p), AdvanceNode(p)
    PROVE  FollowInv(p)'
<1>1. PICK m : m = runner[p]
  OBVIOUS
<1>2. PICK out : out = Advance(m.capsule, run, NodeOf(m).to, Given(m))
  OBVIOUS
<1>3. /\ m.at = "loaded" /\ m \in Runner
      /\ m.nodes \in Graphs /\ Countable(m.graph) /\ m.graph.status # "blocked"
      /\ m.graph.graph_hash = m.nodes /\ out \in Outcome
      /\ Become(p, IF out.raised
                   THEN Checkpoint(m, Status(m.graph, "failed"), out.writes)
                   ELSE [m EXCEPT !.at = "passing", !.todo = out.writes])
      /\ UNCHANGED <<rows, lost>>
  BY <1>1, <1>2, AdvanceNodeReads DEF FollowInv
<1>4. SamePlace(graph, m.graph) /\ MayPass(graph) /\ m.graph.status = "running"
  BY <1>1, <1>3 DEF FollowInv, Follows
<1>5. graph # None
  BY <1>1, <1>3 DEF FollowInv, TypeInv, Grounded, Begun
<1>6. TypeInv' /\ out.writes \in Seq(Write)
  BY <1>3, AdvanceNodeStep DEF FollowInv, Outcome
<1>7. CASE out.raised
  <2>1. PICK g : g = Status(m.graph, "failed")
    OBVIOUS
  <2>2. Countable(g) /\ g.status = "failed" /\ g.graph_hash = m.nodes
        /\ g.node = m.graph.node
    BY <1>3, <2>1, StatusCountable
  <2>3. Walks(graph, g)
    BY <1>3, <1>4, <1>5, <2>2 DEF Walks, SamePlace
  <2>4. Become(p, Checkpoint(m, g, out.writes)) /\ UNCHANGED rows
    BY <1>3, <1>7, <2>1
  <2> QED BY <1>3, <1>6, <2>2, <2>3, <2>4, SaveFollows
<1>8. CASE ~out.raised
  <2>1. PICK n : n = [m EXCEPT !.at = "passing", !.todo = out.writes]
    OBVIOUS
  <2>2. Become(p, n) /\ n.at = "passing" /\ n.graph = m.graph
    BY <1>3, <1>8, <2>1 DEF Runner
  <2>3. Follows(n, graph)
    BY <1>4, <2>2 DEF Follows
  <2> QED BY <1>3, <1>6, <2>2, <2>3, FollowFrame DEF rows
<1> QED BY <1>7, <1>8

LEMMA RejectFollows ==
    ASSUME NEW p \in Runners, FollowInv(p), Reject(p)
    PROVE  FollowInv(p)'
<1>1. PICK m : m = runner[p]
  OBVIOUS
<1>2. m.at = "judging" /\ m.todo = <<>>
  BY <1>1 DEF Reject, Ready
<1>3. /\ m \in Runner /\ m.nodes \in Graphs /\ graph # None /\ Countable(m.graph)
      /\ m.graph.graph_hash = m.nodes /\ m.graph = graph
      /\ m.run \in RuntimeState /\ capsule \in ProcessCapsule
  BY <1>1, <1>2, DrivingFinds DEF Holding
<1>4. graph.status = "paused_human" /\ AtGate(graph)
  BY <1>1, <1>2, <1>3 DEF FollowInv, Follows
<1>5. PICK resolved : resolved = ResolveGate(m.run, FALSE)
  OBVIOUS
<1>6. PICK before : before = <<SaveRun(resolved)>>
                             \o MarkNonConformance(capsule, resolved).writes
  OBVIOUS
<1>7. before \in Seq(Write)
  <2>1. resolved \in RuntimeState
    BY <1>3, <1>5, RunTypes
  <2>2. /\ <<SaveRun(resolved)>> \in Seq(Write)
        /\ MarkNonConformance(capsule, resolved).writes \in Seq(Write)
    BY <1>3, <2>1, WriteTypes, SeriesTypes, MarkNonConformanceType DEF Outcome
  <2> QED BY <1>6, <2>2, ConcatProperties
<1>8. PICK g : g = Status(m.graph, "failed")
  OBVIOUS
<1>9. Countable(g) /\ g.status = "failed" /\ g.graph_hash = m.nodes /\ SamePlace(graph, g)
  BY <1>3, <1>4, <1>8, StatusCountable DEF SamePlace
<1>10. Walks(graph, g)
  BY <1>3, <1>4, <1>9 DEF Walks, MayPass
<1>11. Become(p, Checkpoint(m, g, before)) /\ UNCHANGED rows /\ TypeInv'
  BY <1>1, <1>5, <1>6, <1>8, RejectStep DEF Reject, FollowInv
<1> QED BY <1>3, <1>7, <1>9, <1>10, <1>11, SaveFollows

LEMMA ApproveFollows ==
    ASSUME NEW p \in Runners, FollowInv(p), Approve(p)
    PROVE  FollowInv(p)'
<1>1. PICK m : m = runner[p]
  OBVIOUS
<1>2. m.at = "judging" /\ m.todo = <<>>
  BY <1>1 DEF Approve, Ready
<1>3. /\ m \in Runner /\ m.graph = graph /\ Countable(m.graph)
      /\ graph.status = "paused_human" /\ AtGate(graph)
  BY <1>1, <1>2, DrivingFinds DEF FollowInv, Follows
<1>4. PICK h : h = Status(m.graph, "running")
  OBVIOUS
<1>5. h.status = "running" /\ SamePlace(graph, h)
  BY <1>3, <1>4, StatusCountable DEF SamePlace
<1>6. PICK ws : ws = Approval(m)
  OBVIOUS
<1>7. PICK n : n = [m EXCEPT !.at = AfterSuccess(Node(p)), !.run = None,
                              !.graph = h, !.todo = ws]
  OBVIOUS
<1>8. n.at \in {"advancing", "passing"} /\ n.graph = h
  BY <1>3, <1>7 DEF Runner, AfterSuccess
<1>9. Follows(n, graph)
  BY <1>3, <1>5, <1>8 DEF Follows, MayPass
<1>10. Become(p, n) /\ UNCHANGED rows /\ TypeInv'
  BY <1>1, <1>4, <1>6, <1>7, ApproveStep DEF Approve, Approval, FollowInv
<1> QED BY <1>9, <1>10, FollowFrame DEF rows

LEMMA EndFollows ==
    ASSUME NEW p \in Runners, FollowInv(p), RefuseGate(p) \/ Leave(p) \/ Die(p)
    PROVE  FollowInv(p)'
<1>1. Become(p, Idle) /\ UNCHANGED rows /\ TypeInv'
  BY EndStep DEF RefuseGate, Leave, Die, FollowInv
<1> QED BY <1>1, IdleFollows, FollowFrame DEF rows

\* A commit of the write w, with everything it reads and changes named: it
\* leaves the row of the checkpoint alone, or saves the one in memory.
Commits(p, m, w, n) ==
    /\ m = runner[p] /\ w = Head(m.todo) /\ n = [m EXCEPT !.todo = Tail(m.todo)]
    /\ m \in Runner /\ m.todo # <<>> /\ m.at # "idle" /\ Holding(m)
    /\ Holding(n) /\ n.at = m.at /\ n.nodes = m.nodes /\ n.graph = m.graph
    /\ n.todo = Tail(m.todo) /\ runner'[p] = n /\ lost' = lost
    /\ m.graph \in GraphRunState
    /\ \/ /\ w \in Write /\ graph' = graph
          /\ m.at = "stepping" => n.todo # <<>>
       \/ /\ w = SaveGraphRun(m.graph) /\ m.at = "stepping" /\ n.todo = <<>>
          /\ graph' = m.graph
          /\ UNCHANGED <<capsule, run, events, records>>

LEMMA CommitReads ==
    ASSUME NEW p \in Runners, FollowInv(p), Commit(p)
    PROVE  \E m, w, n : Commits(p, m, w, n)
<1> PICK m : m = runner[p]
  OBVIOUS
<1> PICK w : w = Head(m.todo)
  OBVIOUS
<1> PICK n : n = [m EXCEPT !.todo = Tail(m.todo)]
  OBVIOUS
<1>1. m.todo # <<>> /\ Become(p, n) /\ UNCHANGED lost
  BY DEF Commit, CommitCapsule, CommitRun, CommitEvent, CommitRecord, CommitGraph,
         Committing
<1>2. /\ m \in Runner /\ m.at # "idle" /\ Holding(m) /\ Holding(n)
      /\ n.at = m.at /\ n.nodes = m.nodes /\ n.graph = m.graph /\ n.todo = Tail(m.todo)
      /\ \/ w \in Write
         \/ w = SaveGraphRun(m.graph) /\ m.at = "stepping" /\ n.todo = <<>>
  BY <1>1, FirstWrite, ZenonT(60) DEF FollowInv
<1>3. runner'[p] = n /\ m.graph \in GraphRunState
  BY <1>1, <1>2 DEF Become, FollowInv, TypeInv, TypeOK, Holding, Countable
<1>4. CASE w \in Write
  <2>1. w.table # "graph_runs" /\ graph' = graph
    BY <1>4, GraphTables DEF Commit, CommitCapsule, CommitRun, CommitEvent,
       CommitRecord, CommitGraph, Committing
  <2>2. m.at = "stepping" => n.todo # <<>>
    <3> SUFFICES ASSUME m.at = "stepping" PROVE n.todo # <<>>
      OBVIOUS
    <3>1. EndsWith(m.todo, m.graph)
      BY <1>1, <1>2 DEF Holding
    <3>2. w # SaveGraphRun(m.graph)
      BY <2>1, GraphTables
    <3> QED BY <1>2, <3>1, <3>2, FirstBeforeCheckpoint
  <2>3. Commits(p, m, w, n)
    BY <1>1, <1>2, <1>3, <1>4, <2>1, <2>2, ZenonT(30) DEF Commits
  <2> QED BY <2>3
<1>5. CASE w = SaveGraphRun(m.graph) /\ m.at = "stepping" /\ n.todo = <<>>
  <2>1. w.table = "graph_runs" /\ w.value = m.graph
    BY <1>5, GraphTables
  <2>2. graph' = m.graph /\ UNCHANGED <<capsule, run, events, records>>
    BY <2>1 DEF Commit, CommitCapsule, CommitRun, CommitEvent, CommitRecord,
       CommitGraph, Committing
  <2>3. Commits(p, m, w, n)
    BY <1>1, <1>2, <1>3, <1>5, <2>2, ZenonT(30) DEF Commits
  <2> QED BY <2>3
<1> QED BY <1>2, <1>4, <1>5

\* The row of a pause is at a gate, whatever legally overwrites it.
LEMMA PausesAtGates ==
    ASSUME NEW g, g # None => (g.status = "paused_human" => AtGate(g)),
           NEW h, Walks(g, h), h.status = "paused_human"
    PROVE  AtGate(h)
BY DEF Walks, AtGate, SamePlace

LEMMA CommitFollows ==
    ASSUME NEW p \in Runners, FollowInv(p), Commit(p)
    PROVE  FollowInv(p)'
<1>1. PICK m, w, n : Commits(p, m, w, n)
  BY CommitReads
<1>4. /\ m = runner[p] /\ m.todo # <<>> /\ n.at = m.at /\ n.graph = m.graph
      /\ runner'[p] = n
      /\ \/ /\ graph' = graph
            /\ m.at = "stepping" => n.todo # <<>>
         \/ /\ m.at = "stepping" /\ n.todo = <<>>
            /\ graph' = m.graph
  BY <1>1 DEF Commits
<1>5. TypeInv' /\ Follows(m, graph)
      /\ (graph # None => (graph.status = "paused_human" => AtGate(graph)))
  BY <1>4, CommitStep DEF FollowInv
<1>6. PICK g : g = graph'
  OBVIOUS
<1>7. Follows(n, g) /\ (g # None => (g.status = "paused_human" => AtGate(g)))
  <2>1. CASE g = graph /\ (m.at = "stepping" => n.todo # <<>>)
    <3>1. m.at = "stepping" => n.todo # <<>>
      BY <2>1
    <3>2. m.at \notin {"prompt", "judging"} \/ Follows(m, graph)
      BY <1>5
    <3> QED BY <1>4, <1>5, <2>1, <3>1 DEF Follows
  <2>2. CASE m.at = "stepping" /\ n.todo = <<>> /\ g = m.graph
    <3>1. Walks(graph, g)
      BY <1>4, <1>5, <2>2 DEF Follows
    <3>2. g.status = "paused_human" => AtGate(g)
      BY <1>5, <3>1, PausesAtGates
    <3> QED BY <1>4, <2>2, <3>2 DEF Follows
  <2> QED BY <1>4, <1>6, <2>1, <2>2
<1>8. Follows(runner'[p], graph')
      /\ (graph' # None => (graph'.status = "paused_human" => graph'.graph_hash[graph'.node].kind = "human_gate"))
  BY <1>4, <1>6, <1>7 DEF AtGate
<1> QED BY <1>5, <1>8 DEF FollowInv, Follows, AtGate

\* A process that is alone keeps its memory and the row together.
LEMMA NextFollows ==
    ASSUME NEW p, Runners = {p}, FollowInv(p), [Next]_vars
    PROVE  FollowInv(p)'
<1>1. CASE UNCHANGED vars
  <2>1. TypeInv'
    BY NextTypes DEF FollowInv
  <2> QED BY <1>1, <2>1 DEF FollowInv, Follows, vars
<1>2. CASE Next
  <2>1. \/ RunnerStep(p)
        \/ Start(p) \/ ResumeBlocked(p) \/ Resume(p) \/ Decide(p) \/ Die(p)
    BY <1>2 DEF Next
  <2> QED BY <2>1, CommitFollows, PauseAtGateFollows, RetryFollows, ExhaustFollows,
             MoveToNextFollows, StayFollows, AdvanceNodeFollows, RejectFollows,
             ApproveFollows, EndFollows, StartFollows, ResumeBlockedFollows,
             ResumeFollows DEF RunnerStep
<1> QED BY <1>1, <1>2

LEMMA InitFollows ==
    ASSUME NEW p \in Runners, Init
    PROVE  FollowInv(p)
<1>1. runner[p] = Idle /\ graph = None
  BY DEF Init
<1> QED BY <1>1, IdleFollows, InitTypes DEF FollowInv

-----------------------------------------------------------------------------
(* One process: the ledger's checkpoint implements GraphWalk *)

\* The checkpoint as GraphWalk sees it.
View(g) == IF g = None THEN None
           ELSE [status |-> g.status, node |-> g.node, graph |-> g.graph_hash]

\* What GraphWalk is told of the graphs.
LEMMA GraphsAsTold ==
    ASSUME NEW g \in GraphRunState
    PROVE  LET gates == [nodes \in Graphs |->
                            {n \in DOMAIN nodes : nodes[n].kind = "human_gate"}]
               next  == [nodes \in Graphs |->
                            [n \in DOMAIN nodes |-> nodes[n].next]]
           IN  /\ g.node \in gates[g.graph_hash] <=> AtGate(g)
               /\ next[g.graph_hash][g.node] = After(g)
BY NodeFields DEF AtGate, After

LEMMA ViewFields ==
    ASSUME NEW g \in GraphRunState
    PROVE  /\ View(g) = [status |-> g.status, node |-> g.node, graph |-> g.graph_hash]
           /\ View(g).status = g.status /\ View(g).node = g.node
           /\ View(g).graph = g.graph_hash
           /\ View(g) # None
<1>1. g # None /\ g.status \in GraphStatus /\ g.node \in Nat \ {0} /\ g.graph_hash \in Graphs
  BY GraphNoneAssumption DEF GraphRunState
<1>2. View(g) = [status |-> g.status, node |-> g.node, graph |-> g.graph_hash]
  BY <1>1 DEF View
<1>3. PICK v : v = [status |-> g.status, node |-> g.node, graph |-> g.graph_hash]
  OBVIOUS
<1>4. v \in [status: GraphStatus, node: Nat \ {0}, graph: Graphs]
  BY <1>1, <1>3
<1> QED BY <1>2, <1>3, <1>4, GraphNoneAssumption

\* A row that walks is a step of GraphWalk, or looks the same.
LEMMA WalksImplements ==
    ASSUME graph \in GraphRunState \cup {None}, graph' \in GraphRunState,
           Walks(graph, graph')
    PROVE  [Abstract!Next]_Checkpointed
<1>1. PICK g : g = graph
  OBVIOUS
<1>2. PICK h : h = graph'
  OBVIOUS
<1>3. PICK v : v = View(g)
  OBVIOUS
<1>4. Checkpointed = v /\ Checkpointed' = View(h)
  BY <1>1, <1>2, <1>3 DEF Checkpointed, View
<1>5. h \in GraphRunState /\ Walks(g, h)
  BY <1>1, <1>2
<1>6. View(h) = [status |-> h.status, node |-> h.node, graph |-> h.graph_hash]
  BY <1>5, ViewFields
<1>7. CASE g = None
  <2>1. Checkpointed = None
    BY <1>3, <1>4, <1>7 DEF View
  <2>2. Checkpointed' = [status |-> "running", node |-> 1, graph |-> h.graph_hash]
    BY <1>4, <1>5, <1>6, <1>7 DEF Walks
  <2>3. h.graph_hash \in Graphs
    BY <1>5, NodeFields
  <2> QED BY <2>1, <2>2, <2>3 DEF Abstract!Next, Abstract!Begin
<1>8. CASE g # None
  <2>1. g \in GraphRunState
    BY <1>1, <1>8
  <2>2. v.status = g.status /\ v.node = g.node /\ v.graph = g.graph_hash /\ v # None
    BY <1>3, <2>1, ViewFields
  <2>3. \A s, n : Abstract!At(s, n) = [status |-> s, node |-> n, graph |-> g.graph_hash]
    <3> SUFFICES ASSUME NEW s, NEW n
                 PROVE  Abstract!At(s, n) = [status |-> s, node |-> n, graph |-> g.graph_hash]
      OBVIOUS
    <3>1. PICK x : x = Abstract!At(s, n)
      OBVIOUS
    <3>2. x = [v EXCEPT !.status = s, !.node = n]
      BY <1>4, <3>1 DEF Abstract!At
    <3> DEFINE S == [status: {g.status, s}, node: {g.node, n}, graph: {g.graph_hash}]
    <3>3. v \in S /\ [status |-> s, node |-> n, graph |-> g.graph_hash] \in S
      BY <1>3, <2>1, ViewFields
    <3>4. x \in S /\ x.status = s /\ x.node = n /\ x.graph = g.graph_hash
      BY <2>2, <3>2, <3>3
    <3> QED BY <3>1, <3>3, <3>4
  <2>4. Abstract!AtGate <=> AtGate(g)
    BY <1>4, <2>1, <2>2, GraphsAsTold DEF Abstract!AtGate
  <2>5. Abstract!Following = After(g)
    BY <1>4, <2>1, <2>2, GraphsAsTold DEF Abstract!Following
  <2>6. \A s : Abstract!Standing(s) <=> g.status = s
    BY <1>4, <2>2 DEF Abstract!Standing
  <2>7. MayPass(g) => Abstract!Passable
    BY <2>4, <2>6 DEF Abstract!Passable, MayPass
  <2>8. CASE MayPass(g) /\ After(g) # 0 /\ h.graph_hash = g.graph_hash
             /\ h.status = "running" /\ h.node = After(g)
    BY <1>4, <1>6, <2>3, <2>5, <2>7, <2>8 DEF Abstract!Next, Abstract!Pass
  <2>9. CASE SamePlace(g, h)
    <3>1. Checkpointed' = Abstract!At(h.status, v.node)
      BY <1>4, <1>6, <2>2, <2>3, <2>9 DEF SamePlace
    <3>2. CASE h.status = g.status
      BY <1>3, <1>4, <1>6, <2>1, <2>9, <3>2, ViewFields DEF SamePlace
    <3>3. CASE g.status = "blocked" /\ h.status = "running"
      BY <1>4, <2>6, <3>1, <3>3 DEF Abstract!Next, Abstract!Unblock
    <3>4. CASE g.status = "running" /\ AtGate(g) /\ h.status = "paused_human"
      BY <1>4, <2>4, <2>6, <3>1, <3>4 DEF Abstract!Next, Abstract!Pause
    <3>5. CASE g.status = "running" /\ ~AtGate(g) /\ h.status = "blocked"
      BY <1>4, <2>4, <2>6, <3>1, <3>5 DEF Abstract!Next, Abstract!Block
    <3>6. CASE MayPass(g) /\ h.status = "failed"
      BY <1>4, <2>7, <3>1, <3>6 DEF Abstract!Next, Abstract!Break
    <3>7. CASE MayPass(g) /\ h.status = "complete" /\ After(g) = 0
      BY <1>4, <2>5, <2>7, <3>1, <3>7 DEF Abstract!Next, Abstract!Finish
    <3>8. \/ h.status = g.status
          \/ g.status = "blocked" /\ h.status = "running"
          \/ g.status = "running" /\ AtGate(g) /\ h.status = "paused_human"
          \/ g.status = "running" /\ ~AtGate(g) /\ h.status = "blocked"
          \/ MayPass(g) /\ h.status = "failed"
          \/ MayPass(g) /\ h.status = "complete" /\ After(g) = 0
          \/ /\ MayPass(g) /\ After(g) # 0 /\ h.graph_hash = g.graph_hash
             /\ h.status = "running" /\ h.node = After(g)
      BY <1>5, <1>8 DEF Walks
    <3> QED BY <2>8, <3>2, <3>3, <3>4, <3>5, <3>6, <3>7, <3>8
  <2> QED BY <1>5, <1>8, <2>8, <2>9 DEF Walks
<1> QED BY <1>7, <1>8

\* A step changes the row only by saving a checkpoint that follows it.
LEMMA RowsWalk ==
    ASSUME NEW p, Runners = {p}, FollowInv(p), [Next]_vars
    PROVE  graph' = graph \/ (graph' \in GraphRunState /\ Walks(graph, graph'))
<1>1. CASE UNCHANGED vars
  BY <1>1 DEF vars
<1>2. CASE Commit(p)
  <2>1. PICK m, w, n : Commits(p, m, w, n)
    BY <1>2, CommitReads
  <2>4. /\ m = runner[p] /\ m.todo # <<>> /\ m.graph \in GraphRunState
        /\ graph' = graph \/ (m.at = "stepping" /\ graph' = m.graph)
    BY <2>1 DEF Commits
  <2>5. Follows(m, graph)
    BY <2>4 DEF FollowInv
  <2> QED BY <2>4, <2>5 DEF Follows
<1>3. CASE Next /\ ~Commit(p)
  <2>1. \/ Start(p) \/ ResumeBlocked(p) \/ Resume(p) \/ Decide(p) \/ Die(p)
        \/ PauseAtGate(p) \/ Retry(p) \/ Exhaust(p) \/ Succeed(p)
        \/ LoadCapsule(p) \/ AdvanceNode(p) \/ MoveToNext(p)
        \/ AskHuman(p) \/ RefuseGate(p) \/ Reject(p) \/ Approve(p) \/ Leave(p)
    BY <1>3 DEF Next, RunnerStep
  <2> QED BY <2>1 DEF rows, Start, ResumeBlocked, Resume, Decide, Die, PauseAtGate,
             Retry, Exhaust, Succeed, LoadCapsule, AdvanceNode, MoveToNext, AskHuman,
             RefuseGate, Reject, Approve, Leave
<1> QED BY <1>1, <1>2, <1>3

LEMMA FollowsHolds ==
    ASSUME NEW p, Runners = {p}
    PROVE  Spec => []FollowInv(p)
<1>1. Init => FollowInv(p)
  BY InitFollows
<1>2. FollowInv(p) /\ [Next]_vars => FollowInv(p)'
  BY NextFollows
<1> QED BY <1>1, <1>2, PTL DEF Spec

\* kernel.py: a graph run "resumes exactly where it stopped".  With one
\* process at a time the row of the checkpoint only ever walks the graph it
\* was started with, a gate is passed only out of a pause and work never out
\* of one, and a run that is complete or failed stays so, whatever dies and
\* whichever graph file is supplied on the way.
THEOREM CheckpointsWalkTheGraph ==
    ASSUME NEW p, Runners = {p}
    PROVE  Spec => ImplementsGraphWalk
<1>1. Init => Abstract!Init
  BY DEF Init, Abstract!Init, Checkpointed
<1>2. FollowInv(p) /\ [Next]_vars => [Abstract!Next]_Checkpointed
  <2> SUFFICES ASSUME FollowInv(p), [Next]_vars
               PROVE  [Abstract!Next]_Checkpointed
    OBVIOUS
  <2>1. graph \in GraphRunState \cup {None}
    BY DEF FollowInv, TypeInv, TypeOK
  <2>2. CASE graph' = graph
    BY <2>2 DEF Checkpointed
  <2>3. CASE graph' \in GraphRunState /\ Walks(graph, graph')
    BY <2>1, <2>3, WalksImplements
  <2> QED BY <2>2, <2>3, RowsWalk
<1> QED BY <1>1, <1>2, FollowsHolds, PTL DEF Spec, ImplementsGraphWalk, Abstract!Spec

-----------------------------------------------------------------------------
(* One process: a gate is passed with its approval on the run *)

\* Writes that record no move.
Quiet == {w \in GraphWrite : ~(w.table = "ledger" /\ w.value.kind = "moved")}

\* Writes that leave an approval on the run, if they touch the run at all.
Approving == {w \in Write : w.table = "runs" => w.value.gate = "approved"}

RunFree == {w \in Write : w.table # "runs"}

\* Past a gate, the run is approved, or it will be before a move is recorded.
Approved(m, r) ==
    /\ m.at # "passing" => m.todo \in Seq(Quiet)
    /\ m.at \in {"advancing", "loaded", "passing"} /\ AtGate(m.graph) =>
           /\ m.todo \in Seq(Approving)
           /\ \/ r.gate = "approved"
              \/ m.todo \in Seq(Quiet) /\ m.todo \notin Seq(RunFree)

LEMMA EmptySeries == \A S : <<>> \in Seq(S)
OBVIOUS

\* A series is its first element and the rest.
LEMMA FirstAndRest ==
    ASSUME NEW S, NEW T, NEW ws \in Seq(T), ws # <<>>
    PROVE  ws \in Seq(S) <=> Head(ws) \in S /\ Tail(ws) \in Seq(S)
<1>1. ws \in Seq(S) => Head(ws) \in S /\ Tail(ws) \in Seq(S)
  BY HeadTailProperties, EmptySeq, LenProperties, ElementOfSeq
<1>2. ASSUME Head(ws) \in S, Tail(ws) \in Seq(S)
      PROVE  ws \in Seq(S)
  <2>1. /\ Len(ws) \in Nat \ {0} /\ Len(Tail(ws)) = Len(ws) - 1
        /\ DOMAIN ws = 1 .. Len(ws)
        /\ Head(ws) = ws[1]
        /\ \A k \in 1 .. Len(ws) - 1 : Tail(ws)[k] = ws[k + 1]
    BY HeadTailProperties, EmptySeq, LenProperties
  <2>2. \A k \in 1 .. Len(ws) : ws[k] \in S
    <3> SUFFICES ASSUME NEW k \in 1 .. Len(ws)
                 PROVE  ws[k] \in S
      OBVIOUS
    <3>1. CASE k = 1
      BY <1>2, <2>1, <3>1
    <3>2. CASE k # 1
      <4>1. k - 1 \in 1 .. Len(Tail(ws)) /\ ws[k] = Tail(ws)[k - 1]
        BY <2>1, <3>2
      <4> QED BY <1>2, <4>1, ElementOfSeq
    <3> QED BY <3>1, <3>2
  <2>3. ws \in [1 .. Len(ws) -> S]
    BY <2>1, <2>2, LenProperties
  <2> QED BY <2>1, <2>3, SeqDef
<1> QED BY <1>1, <1>2

LEMMA QuietTypes ==
    /\ \A c \in ProcessCapsule : SaveCapsule(c) \in Quiet
    /\ \A r \in RuntimeState : SaveRun(r) \in Quiet
    /\ \A e \in Event : e.kind # "moved" => RecordEvent(e) \in Quiet
    /\ \A n \in NonConformanceRecord : SaveRecord(n) \in Quiet
    /\ \A g \in GraphRunState : SaveGraphRun(g) \in Quiet
<1>1. Write \subseteq GraphWrite
  BY DEF GraphWrite
<1> QED BY <1>1, WriteTypes, GraphWriteTypes, GraphTables DEF Quiet

\* A start, a refused move and a rejection record no move.
LEMMA QuietSeries ==
    /\ StartWrites \in Seq(Quiet)
    /\ \A c \in ProcessCapsule, r \in RuntimeState, to \in States, ev \in Evidence :
           Advance(c, r, to, ev).raised => Advance(c, r, to, ev).writes \in Seq(Quiet)
    /\ \A c \in ProcessCapsule, r \in RuntimeState :
           MarkNonConformance(c, r).writes \in Seq(Quiet)
<1>1. StartWrites \in Seq(Quiet)
  <2>1. Entry("created", None, Initial, 0) \in Event
        /\ Entry("created", None, Initial, 0).kind # "moved"
    BY BriefAssumption DEF Entry, Event, Evidence
  <2> QED BY <2>1, StartTypes, QuietTypes, SeriesTypes DEF StartWrites
<1>2. ASSUME NEW c \in ProcessCapsule, NEW r \in RuntimeState, NEW to \in States,
             NEW ev \in Evidence
      PROVE  /\ RefuseInvalidTransition(c, r, to, ev).writes \in Seq(Quiet)
             /\ RefuseMissingEvidence(c, r, to).writes \in Seq(Quiet)
             /\ ~PerformTransition(c, r, to, ev).raised
             /\ MarkNonConformance(c, r).writes \in Seq(Quiet)
  <2>1. /\ Entry("refused", c.state, to, ev) \in Event
        /\ Entry("refused", c.state, to, 0) \in Event
        /\ Entry("rejected", c.state, c.state, c.evidence) \in Event
    BY CapsuleTypes, EntryTypes DEF Evidence
  <2>2. /\ Entry("refused", c.state, to, ev).kind # "moved"
        /\ Entry("refused", c.state, to, 0).kind # "moved"
        /\ Entry("rejected", c.state, c.state, c.evidence).kind # "moved"
    BY DEF Entry
  <2>3. /\ Breach("NO_VALID_PATH", c.state, to) \in NonConformanceRecord
        /\ Breach("MISSING_EVIDENCE", c.state, to) \in NonConformanceRecord
        /\ Breach("REVIEW_REJECTED", c.state, None) \in NonConformanceRecord
    BY CapsuleTypes, BreachTypes
  <2>4. RefuseInvalidTransition(c, r, to, ev).writes \in Seq(Quiet)
    BY <2>1, <2>2, <2>3, CapsuleTypes, RunTypes, QuietTypes, SeriesTypes
    DEF RefuseInvalidTransition
  <2>5. RefuseMissingEvidence(c, r, to).writes \in Seq(Quiet)
    BY <2>1, <2>2, <2>3, QuietTypes, SeriesTypes DEF RefuseMissingEvidence
  <2>6. MarkNonConformance(c, r).writes \in Seq(Quiet)
    BY <2>1, <2>2, <2>3, CapsuleTypes, RunTypes, QuietTypes, SeriesTypes
    DEF MarkNonConformance, Rejection, RejectionRecord
  <2> QED BY <2>4, <2>5, <2>6 DEF PerformTransition
<1>3. ASSUME NEW c \in ProcessCapsule, NEW r \in RuntimeState, NEW to \in States,
             NEW ev \in Evidence, Advance(c, r, to, ev).raised
      PROVE  Advance(c, r, to, ev).writes \in Seq(Quiet)
  <2>1. \/ Advance(c, r, to, ev) = RefuseInvalidTransition(c, r, to, ev)
        \/ Advance(c, r, to, ev) = RefuseMissingEvidence(c, r, to)
        \/ Advance(c, r, to, ev) = PerformTransition(c, r, to, ev)
    BY DEF Advance
  <2> QED BY <1>2, <1>3, <2>1
<1>4. \A c \in ProcessCapsule, r \in RuntimeState :
          MarkNonConformance(c, r).writes \in Seq(Quiet)
  <2>1. Initial \in States /\ 0 \in Evidence
    BY BriefAssumption DEF Evidence
  <2> QED BY <1>2, <2>1
<1>5. \A c \in ProcessCapsule, r \in RuntimeState, to \in States, ev \in Evidence :
          Advance(c, r, to, ev).raised => Advance(c, r, to, ev).writes \in Seq(Quiet)
  BY <1>3
<1> QED BY <1>1, <1>4, <1>5

\* The writes of a move keep the approval that is on the run.
LEMMA MoveKeepsApproval ==
    ASSUME NEW c \in ProcessCapsule, NEW r \in RuntimeState, NEW to \in States,
           NEW ev \in Evidence, r.gate = "approved", ~Advance(c, r, to, ev).raised
    PROVE  Advance(c, r, to, ev).writes \in Seq(Approving)
<1>1. Advance(c, r, to, ev) = PerformTransition(c, r, to, ev)
  BY DEF Advance, RefuseInvalidTransition, RefuseMissingEvidence
<1>2. Tracked(r, to) \in RuntimeState /\ Tracked(r, to).gate = "approved"
  BY RunTypes DEF Tracked, RuntimeState
<1>3. /\ SaveCapsule(Moved(to, ev)) \in Approving
      /\ RecordEvent(Entry("moved", c.state, to, ev)) \in Approving
      /\ SaveRun(Tracked(r, to)) \in Approving
  BY <1>2, CapsuleTypes, MovedTypes, EntryTypes, WriteTypes, GraphTables DEF Approving
<1> QED BY <1>1, <1>3, SeriesTypes DEF PerformTransition

\* The writes of an approval put it on the run.
LEMMA ApprovalApproves ==
    ASSUME NEW m, m.run \in RuntimeState, capsule \in ProcessCapsule
    PROVE  /\ Approval(m) \in Seq(Quiet)
           /\ Approval(m) \in Seq(Approving)
           /\ Approval(m) \notin Seq(RunFree)
<1> DEFINE flag == Flag(capsule)
           save == SaveRun(ResolveGate(m.run, TRUE))
<1>1. /\ ResolveGate(m.run, TRUE) \in RuntimeState
      /\ ResolveGate(m.run, TRUE).gate = "approved"
  BY RunTypes DEF ResolveGate, RuntimeState
<1>2. save \in Quiet /\ save \in Approving /\ save \notin RunFree
  BY <1>1, QuietTypes, WriteTypes, GraphTables DEF Approving, RunFree
<1>3. flag \in Quiet /\ flag \in Approving
  <2>1. /\ Entry("flagged", capsule.state, capsule.state, capsule.evidence) \in Event
        /\ Entry("flagged", capsule.state, capsule.state, capsule.evidence).kind # "moved"
    BY CapsuleTypes, EntryTypes DEF Entry
  <2> QED BY <2>1, QuietTypes, WriteTypes, GraphTables DEF Approving, Flag
<1> DEFINE flagged == IF m.decision = "FLAG" THEN <<flag>> ELSE <<>>
<1>4. Approval(m) = flagged \o <<save>>
  BY DEF Approval
<1> HIDE DEF flag, save
<1>5. /\ flagged \in Seq(Quiet) /\ flagged \in Seq(Approving)
      /\ <<save>> \in Seq(Quiet) /\ <<save>> \in Seq(Approving)
  BY <1>2, <1>3, SeriesTypes, EmptySeries
<1>6. PICK f : f = flagged
  OBVIOUS
<1>7. PICK ws : ws = f \o <<save>>
  OBVIOUS
<1>8. ws \in Seq(Quiet) /\ ws \in Seq(Approving)
  BY <1>5, <1>6, <1>7, ConcatProperties
<1>9. ws \notin Seq(RunFree)
  <2>1. /\ f \in Seq(Quiet) /\ <<save>> \in Seq(Quiet)
        /\ Len(f) \in Nat /\ Len(<<save>>) = 1 /\ <<save>>[1] = save
    BY <1>5, <1>6, LenProperties
  <2>2. Len(ws) = Len(f) + 1 /\ ws[Len(f) + 1] = save
    BY <1>7, <2>1, ConcatProperties
  <2>3. Len(f) + 1 \in 1 .. Len(ws)
    BY <2>1, <2>2
  <2>4. ASSUME ws \in Seq(RunFree) PROVE FALSE
    BY <1>2, <2>2, <2>3, <2>4, ElementOfSeq
  <2> QED BY <2>4
<1> QED BY <1>4, <1>6, <1>7, <1>8, <1>9

ApproveInv(p) == FollowInv(p) /\ Approved(runner[p], run)

LEMMA IdleApproved == \A r : Approved(Idle, r)
BY EmptySeries DEF Approved, Idle

\* A step that sets the memory of the process and leaves the rows.
LEMMA ApprovedFrame ==
    ASSUME NEW p \in Runners, TypeInv, NEW n, Become(p, n), UNCHANGED rows,
           Approved(n, run)
    PROVE  Approved(runner[p], run)'
<1>1. runner'[p] = n /\ run' = run
  BY DEF Become, TypeInv, TypeOK, rows
<1> QED BY <1>1 DEF Approved, AtGate

\* What is saved before and with a checkpoint records no move.
LEMMA CheckpointApproved ==
    ASSUME NEW p \in Runners, TypeInv, TypeInv', NEW m \in Runner, NEW g,
           NEW before \in Seq(Quiet), Become(p, Checkpoint(m, g, before)),
           UNCHANGED rows
    PROVE  Approved(runner[p], run)'
<1>1. PICK n : n = Checkpoint(m, g, before)
  OBVIOUS
<1>2. n.at = "stepping" /\ n.graph = g /\ n.todo = before \o <<SaveGraphRun(g)>>
  BY <1>1 DEF Checkpoint, Runner
<1>3. runner'[p] = n
  BY <1>1 DEF Become, TypeInv, TypeOK
<1>4. g \in GraphRunState
  BY <1>2, <1>3 DEF TypeInv, Holding, Countable
<1>5. n.todo \in Seq(Quiet)
  BY <1>2, <1>4, QuietTypes, SeriesTypes, ConcatProperties
<1> QED BY <1>1, <1>2, <1>5, ApprovedFrame DEF Approved

LEMMA CommitApproved ==
    ASSUME NEW p \in Runners, ApproveInv(p), Commit(p)
    PROVE  Approved(runner[p], run)'
<1>1. PICK m, w, n : Commits(p, m, w, n)
  BY CommitReads DEF ApproveInv
<1>2. /\ m = runner[p] /\ w = Head(m.todo) /\ n.todo = Tail(m.todo) /\ m.todo # <<>>
      /\ n.at = m.at /\ n.graph = m.graph /\ runner'[p] = n /\ m \in Runner
  BY <1>1 DEF Commits
<1>3. m.todo \in Seq(GraphWrite)
  BY <1>2 DEF Runner
<1>4. PICK ws : ws = m.todo
  OBVIOUS
<1>5. PICK t : t = Tail(ws)
  OBVIOUS
<1>6. /\ ws \in Seq(Quiet) <=> w \in Quiet /\ t \in Seq(Quiet)
      /\ ws \in Seq(Approving) <=> w \in Approving /\ t \in Seq(Approving)
      /\ ws \in Seq(RunFree) <=> w \in RunFree /\ t \in Seq(RunFree)
  BY <1>2, <1>3, <1>4, <1>5, FirstAndRest
<1>7. \/ w.table = "runs" /\ run' = w.value
      \/ w.table # "runs" /\ run' = run
  BY <1>2 DEF Commit, CommitCapsule, CommitRun, CommitEvent, CommitRecord,
     CommitGraph, Committing
<1>8. Approved(m, run)
  BY <1>2 DEF ApproveInv
<1>9. PICK r : r = run'
  OBVIOUS
<1>10. Approved(n, r)
  <2>1. n.at # "passing" => t \in Seq(Quiet)
    BY <1>2, <1>4, <1>6, <1>8 DEF Approved
  <2>2. ASSUME n.at \in {"advancing", "loaded", "passing"}, AtGate(n.graph)
        PROVE  /\ t \in Seq(Approving)
               /\ \/ r.gate = "approved"
                  \/ t \in Seq(Quiet) /\ t \notin Seq(RunFree)
    <3>1. /\ ws \in Seq(Approving)
          /\ \/ run.gate = "approved"
             \/ ws \in Seq(Quiet) /\ ws \notin Seq(RunFree)
      BY <1>2, <1>4, <1>8, <2>2 DEF Approved
    <3>2. CASE w.table = "runs"
      BY <1>6, <1>7, <1>9, <3>1, <3>2 DEF Approving
    <3>3. CASE w.table # "runs"
      BY <1>6, <1>7, <1>9, <3>1, <3>3 DEF Approving, RunFree
    <3> QED BY <3>2, <3>3
  <2> QED BY <1>2, <1>4, <1>5, <2>1, <2>2 DEF Approved
<1> QED BY <1>2, <1>9, <1>10 DEF Approved, AtGate

\* The steps that save a checkpoint.
LEMMA SaveApproved ==
    ASSUME NEW p \in Runners, ApproveInv(p), TypeInv',
           \/ PauseAtGate(p) \/ Retry(p) \/ Exhaust(p) \/ MoveToNext(p) \/ Reject(p)
           \/ Start(p) \/ ResumeBlocked(p)
    PROVE  Approved(runner[p], run)'
<1>1. TypeInv
  BY DEF ApproveInv, FollowInv
<1>2. PICK m : m = runner[p]
  OBVIOUS
<1>3. m \in Runner
  BY <1>1, <1>2 DEF TypeInv, TypeOK
<1>4. CASE PauseAtGate(p) \/ Exhaust(p)
  <2>1. /\ m.todo = <<>> /\ m.at = "stepping"
        /\ \E g : \/ Become(p, Checkpoint(m, g, <<SaveRun(EnterHumanReview(run))>>))
                  \/ Become(p, Checkpoint(m, g, <<SaveRun(BlockRun(run))>>))
        /\ UNCHANGED rows
    BY <1>2, <1>4 DEF PauseAtGate, Exhaust, Stepping, Ready
  <2>2. run \in RuntimeState
    BY <1>1, <1>2, <2>1, ReadyFinds
  <2>3. /\ <<SaveRun(EnterHumanReview(run))>> \in Seq(Quiet)
        /\ <<SaveRun(BlockRun(run))>> \in Seq(Quiet)
    BY <2>2, RunTypes, QuietTypes, SeriesTypes
  <2> QED BY <1>1, <1>3, <2>1, <2>3, CheckpointApproved
<1>5. CASE Retry(p) \/ MoveToNext(p)
  <2>1. \E g : Become(p, Checkpoint(m, g, <<>>))
    BY <1>2, <1>5 DEF Retry, MoveToNext
  <2>2. UNCHANGED rows
    BY <1>5 DEF Retry, MoveToNext
  <2> QED BY <1>1, <1>3, <2>1, <2>2, EmptySeries, CheckpointApproved
<1>6. CASE Reject(p)
  <2>1. PICK resolved : resolved = ResolveGate(m.run, FALSE)
    OBVIOUS
  <2>2. /\ m.at = "judging" /\ m.todo = <<>>
        /\ \E g : Become(p, Checkpoint(m, g, <<SaveRun(resolved)>>
                                       \o MarkNonConformance(capsule, resolved).writes))
        /\ UNCHANGED rows
    BY <1>2, <1>6, <2>1 DEF Reject, Ready
  <2>3. capsule \in ProcessCapsule /\ m.run \in RuntimeState
    BY <1>1, <1>2, <2>2, ReadyFinds DEF TypeInv, Holding
  <2>4. resolved \in RuntimeState
    BY <2>1, <2>3, RunTypes
  <2>5. /\ <<SaveRun(resolved)>> \in Seq(Quiet)
        /\ MarkNonConformance(capsule, resolved).writes \in Seq(Quiet)
    BY <2>3, <2>4, QuietTypes, QuietSeries, SeriesTypes
  <2>6. <<SaveRun(resolved)>> \o MarkNonConformance(capsule, resolved).writes
        \in Seq(Quiet)
    BY <2>5, ConcatProperties
  <2> QED BY <1>1, <1>3, <2>2, <2>6, CheckpointApproved
<1>7. CASE Start(p)
  <2>1. \E nodes \in Graphs : \E g : Become(p, Checkpoint([Idle EXCEPT !.nodes = nodes],
                                                      g, StartWrites))
    BY <1>7 DEF Start
  <2>2. UNCHANGED rows
    BY <1>7 DEF Start
  <2> QED BY <1>1, <2>1, <2>2, FreshHolds, QuietSeries, CheckpointApproved
<1>8. CASE ResumeBlocked(p)
  <2>1. PICK before : before = IF run.status = "blocked"
                               THEN <<SaveRun(ResumeRun(run))>> ELSE <<>>
    OBVIOUS
  <2>2. /\ graph # None
        /\ \E nodes \in Accepted(graph) : \E g :
               Become(p, Checkpoint([Idle EXCEPT !.nodes = nodes], g, before))
        /\ UNCHANGED rows
    BY <1>8, <2>1 DEF ResumeBlocked
  <2>3. run \in RuntimeState /\ \A nodes \in Accepted(graph) : nodes \in Graphs
    BY <1>1, <2>2, NodeFields DEF TypeInv, TypeOK, Grounded, Accepted
  <2>4. before \in Seq(Quiet)
    BY <2>1, <2>3, RunTypes, QuietTypes, SeriesTypes, EmptySeries
  <2> QED BY <1>1, <2>2, <2>3, <2>4, FreshHolds, CheckpointApproved
<1> QED BY <1>4, <1>5, <1>6, <1>7, <1>8

\* The steps between a checkpoint and the next.
LEMMA StepApproved ==
    ASSUME NEW p \in Runners, ApproveInv(p), TypeInv',
           \/ Resume(p) \/ Succeed(p) \/ LoadCapsule(p) \/ AskHuman(p) \/ Decide(p)
           \/ RefuseGate(p) \/ Leave(p) \/ Die(p)
    PROVE  Approved(runner[p], run)'
<1>1. TypeInv /\ Approved(runner[p], run)
  BY DEF ApproveInv, FollowInv
<1>2. PICK m : m = runner[p]
  OBVIOUS
<1>3. m \in Runner /\ UNCHANGED rows
  BY <1>1, <1>2 DEF TypeInv, TypeOK, Resume, Succeed, LoadCapsule, AskHuman, Decide,
     RefuseGate, Leave, Die
<1>4. CASE RefuseGate(p) \/ Leave(p) \/ Die(p)
  <2>1. Become(p, Idle)
    BY <1>4 DEF RefuseGate, Leave, Die
  <2> QED BY <1>1, <1>3, <2>1, IdleApproved, ApprovedFrame
<1>5. CASE Resume(p)
  <2>1. PICK nodes \in Accepted(graph) :
            Become(p, [Idle EXCEPT !.at = "stepping", !.nodes = nodes, !.graph = graph])
    BY <1>5 DEF Resume
  <2>2. PICK n : n = [Idle EXCEPT !.at = "stepping", !.nodes = nodes, !.graph = graph]
    OBVIOUS
  <2>3. n.at = "stepping" /\ n.todo = <<>>
    BY <2>2 DEF Idle
  <2>4. Approved(n, run)
    BY <2>3, EmptySeries DEF Approved
  <2> QED BY <1>1, <1>3, <2>1, <2>2, <2>4, ApprovedFrame
<1>6. CASE Succeed(p)
  <2>1. PICK shown : Become(p, [m EXCEPT !.at = AfterSuccess(Node(p)), !.shown = shown,
                                          !.graph.attempts = 0])
    BY <1>2, <1>6 DEF Succeed
  <2>2. PICK n : n = [m EXCEPT !.at = AfterSuccess(Node(p)), !.shown = shown,
                                !.graph.attempts = 0]
    OBVIOUS
  <2>3. /\ m.at = "stepping" /\ m.todo = <<>> /\ Node(p).kind = "work"
    BY <1>2, <1>6 DEF Succeed, Stepping, Ready
  <2>4. /\ m.graph \in GraphRunState /\ m.graph.graph_hash = m.nodes
        /\ Node(p) = m.graph.graph_hash[m.graph.node]
    BY <1>1, <1>2, <2>3, ReadyFinds DEF NodeOf
  <2>5. /\ n.todo = <<>> /\ n.graph = [m.graph EXCEPT !.attempts = 0]
    BY <1>3, <2>2, <2>3 DEF Runner
  <2>6. n.graph.graph_hash = m.graph.graph_hash /\ n.graph.node = m.graph.node
    BY <2>4, <2>5 DEF GraphRunState
  <2>7. ~AtGate(n.graph)
    BY <2>3, <2>4, <2>6 DEF AtGate
  <2>8. Approved(n, run)
    BY <2>5, <2>7, EmptySeries DEF Approved
  <2> QED BY <1>1, <1>3, <2>1, <2>2, <2>8, ApprovedFrame
<1>7. CASE LoadCapsule(p)
  <2>1. PICK n : n = [m EXCEPT !.at = "loaded", !.capsule = capsule]
    OBVIOUS
  <2>2. /\ Become(p, n) /\ m.at = "advancing" /\ m.todo = <<>>
        /\ n.at = "loaded" /\ n.todo = <<>> /\ n.graph = m.graph
    BY <1>2, <1>3, <1>7, <2>1 DEF LoadCapsule, Ready, Runner
  <2>3. Approved(n, run)
    BY <1>1, <1>2, <2>2, EmptySeries DEF Approved
  <2> QED BY <1>1, <1>3, <2>2, <2>3, ApprovedFrame
<1>8. CASE AskHuman(p) \/ Decide(p)
  <2>1. PICK decision, shown :
            \/ Become(p, [m EXCEPT !.at = "prompt", !.capsule = capsule])
            \/ Become(p, [m EXCEPT !.at = "judging", !.capsule = None, !.run = run,
                                   !.decision = decision, !.shown = shown])
    BY <1>2, <1>8 DEF AskHuman, Decide
  <2>2. m.todo = <<>>
    BY <1>2, <1>8 DEF AskHuman, Decide, AtPausedGate, Ready
  <2>3. PICK n : /\ Become(p, n)
                 /\ \/ n = [m EXCEPT !.at = "prompt", !.capsule = capsule]
                    \/ n = [m EXCEPT !.at = "judging", !.capsule = None, !.run = run,
                                     !.decision = decision, !.shown = shown]
    BY <2>1
  <2>4. n.at \in {"prompt", "judging"} /\ n.todo = <<>>
    BY <1>3, <2>2, <2>3 DEF Runner
  <2>5. Approved(n, run)
    BY <2>4, EmptySeries DEF Approved
  <2> QED BY <1>1, <1>3, <2>3, <2>5, ApprovedFrame
<1> QED BY <1>4, <1>5, <1>6, <1>7, <1>8

LEMMA AdvanceNodeApproved ==
    ASSUME NEW p \in Runners, ApproveInv(p), TypeInv', AdvanceNode(p)
    PROVE  Approved(runner[p], run)'
<1>1. PICK m : m = runner[p]
  OBVIOUS
<1>2. PICK out : out = Advance(m.capsule, run, NodeOf(m).to, Given(m))
  OBVIOUS
<1>3. TypeInv /\ Approved(m, run)
  BY <1>1 DEF ApproveInv, FollowInv
<1>4. /\ m.at = "loaded" /\ m.todo = <<>> /\ m \in Runner
      /\ m.capsule \in ProcessCapsule /\ run \in RuntimeState
      /\ NodeOf(m).to \in States /\ Given(m) \in Evidence
      /\ Become(p, IF out.raised
                   THEN Checkpoint(m, Status(m.graph, "failed"), out.writes)
                   ELSE [m EXCEPT !.at = "passing", !.todo = out.writes])
      /\ UNCHANGED rows /\ out \in Outcome
  BY <1>1, <1>2, <1>3, AdvanceNodeReads
<1>5. CASE out.raised
  <2>1. out.writes \in Seq(Quiet)
    BY <1>2, <1>4, <1>5, QuietSeries
  <2> QED BY <1>3, <1>4, <1>5, <2>1, CheckpointApproved
<1>6. CASE ~out.raised
  <2>1. PICK n : n = [m EXCEPT !.at = "passing", !.todo = out.writes]
    OBVIOUS
  <2>2. Become(p, n) /\ n.at = "passing" /\ n.graph = m.graph /\ n.todo = out.writes
    BY <1>4, <1>6, <2>1 DEF Runner
  <2>3. AtGate(m.graph) => run.gate = "approved"
    BY <1>3, <1>4, EmptySeries DEF Approved
  <2>4. AtGate(m.graph) => out.writes \in Seq(Approving)
    BY <1>2, <1>4, <1>6, <2>3, MoveKeepsApproval
  <2>5. Approved(n, run)
    BY <2>2, <2>3, <2>4 DEF Approved
  <2> QED BY <1>3, <1>4, <2>2, <2>5, ApprovedFrame
<1> QED BY <1>5, <1>6

LEMMA ApproveApproved ==
    ASSUME NEW p \in Runners, ApproveInv(p), TypeInv', Approve(p)
    PROVE  Approved(runner[p], run)'
<1>1. PICK m : m = runner[p]
  OBVIOUS
<1>2. TypeInv
  BY DEF ApproveInv, FollowInv
<1>3. m.at = "judging" /\ m.todo = <<>> /\ m \in Runner
  BY <1>1, <1>2 DEF Approve, Ready, TypeInv, TypeOK
<1>4. m.run \in RuntimeState /\ capsule \in ProcessCapsule
  BY <1>1, <1>2, <1>3, ReadyFinds DEF TypeInv, Holding
<1>5. PICK ws : ws = Approval(m)
  OBVIOUS
<1>6. ws \in Seq(Quiet) /\ ws \in Seq(Approving) /\ ws \notin Seq(RunFree)
  BY <1>4, <1>5, ApprovalApproves
<1>7. PICK n : n = [m EXCEPT !.at = AfterSuccess(Node(p)), !.run = None,
                              !.graph = Status(m.graph, "running"), !.todo = ws]
  OBVIOUS
<1>8. n.todo = ws
  BY <1>3, <1>7 DEF Runner
<1>9. Become(p, n) /\ UNCHANGED rows
  BY <1>1, <1>5, <1>7 DEF Approve, Approval
<1>10. Approved(n, run)
  BY <1>6, <1>8 DEF Approved
<1> QED BY <1>2, <1>9, <1>10, ApprovedFrame

LEMMA NextApproved ==
    ASSUME NEW p, Runners = {p}, ApproveInv(p), [Next]_vars
    PROVE  ApproveInv(p)'
<1>1. FollowInv(p)'
  BY NextFollows DEF ApproveInv
<1>2. Approved(runner[p], run)'
  <2>1. CASE UNCHANGED vars
    BY <2>1 DEF vars, ApproveInv, Approved, AtGate
  <2>2. CASE Next
    <3>1. \/ RunnerStep(p)
          \/ Start(p) \/ ResumeBlocked(p) \/ Resume(p) \/ Decide(p) \/ Die(p)
      BY <2>2 DEF Next
    <3>2. TypeInv'
      BY <1>1 DEF FollowInv
    <3> QED BY <3>1, <3>2, CommitApproved, SaveApproved, StepApproved,
               AdvanceNodeApproved, ApproveApproved DEF RunnerStep
  <2> QED BY <2>1, <2>2
<1> QED BY <1>1, <1>2 DEF ApproveInv

\* The event that a step adds is the one it commits.
LEMMA MovesOutOfGates ==
    ASSUME NEW p, Runners = {p}, ApproveInv(p), [Next]_vars, events' # events,
           events'[Len(events')].kind = "moved",
           graph.graph_hash[graph.node].kind = "human_gate"
    PROVE  graph.status = "paused_human" /\ run.gate = "approved"
<1>1. CASE UNCHANGED vars
  BY <1>1 DEF vars
<1>2. CASE Next /\ ~Commit(p)
  <2>1. \/ Start(p) \/ ResumeBlocked(p) \/ Resume(p) \/ Decide(p) \/ Die(p)
        \/ PauseAtGate(p) \/ Retry(p) \/ Exhaust(p) \/ Succeed(p)
        \/ LoadCapsule(p) \/ AdvanceNode(p) \/ MoveToNext(p)
        \/ AskHuman(p) \/ RefuseGate(p) \/ Reject(p) \/ Approve(p) \/ Leave(p)
    BY <1>2 DEF Next, RunnerStep
  <2> QED BY <2>1 DEF rows, Start, ResumeBlocked, Resume, Decide, Die, PauseAtGate,
             Retry, Exhaust, Succeed, LoadCapsule, AdvanceNode, MoveToNext, AskHuman,
             RefuseGate, Reject, Approve, Leave
<1>3. CASE Commit(p)
  <2>1. PICK m, w, n : Commits(p, m, w, n)
    BY <1>3, CommitReads DEF ApproveInv
  <2>2. m = runner[p] /\ w = Head(m.todo) /\ m.todo # <<>> /\ m \in Runner
    BY <2>1 DEF Commits
  <2>3. w.table = "ledger" /\ events' = Append(events, w.value)
    BY <1>3, <2>2 DEF Commit, CommitCapsule, CommitRun, CommitEvent, CommitRecord,
       CommitGraph, Committing
  <2>4. w.value.kind = "moved"
    <3>1. events \in Seq(Event)
      BY DEF ApproveInv, FollowInv, TypeInv, TypeOK
    <3>2. PICK e : e = w.value
      OBVIOUS
    <3>3. events \in Seq(Event \cup {e}) /\ e \in Event \cup {e}
      BY <3>1, SeqDef
    <3>4. Append(events, e)[Len(Append(events, e))] = e
      BY <3>3, AppendProperties, LenProperties
    <3> QED BY <2>3, <3>2, <3>4
  <2>5. w \notin Quiet /\ m.todo \notin Seq(Quiet)
    <3>1. m.todo \in Seq(GraphWrite)
      BY <2>2 DEF Runner
    <3>2. PICK ws : ws = m.todo
      OBVIOUS
    <3>3. w \notin Quiet
      BY <2>3, <2>4 DEF Quiet
    <3> QED BY <2>2, <3>1, <3>2, <3>3, FirstAndRest
  <2>6. Approved(m, run) /\ Follows(m, graph)
    BY <2>2 DEF ApproveInv, FollowInv
  <2>7. m.at = "passing"
    BY <2>5, <2>6 DEF Approved
  <2>8. SamePlace(graph, m.graph) /\ MayPass(graph)
    BY <2>6, <2>7 DEF Follows
  <2>9. AtGate(graph) /\ AtGate(m.graph)
    BY <2>8 DEF AtGate, SamePlace
  <2>10. run.gate = "approved"
    BY <2>5, <2>6, <2>7, <2>9 DEF Approved
  <2> QED BY <2>8, <2>9, <2>10 DEF MayPass
<1> QED BY <1>1, <1>2, <1>3

\* kernel.py, decide() and _advance(): with one process at a time, the trail
\* gets a move out of a gate only while the checkpoint shows the pause and the
\* run shows the approval, whatever died and was resumed before.
THEOREM GatesAreApproved ==
    ASSUME NEW p, Runners = {p}
    PROVE  Spec => GateMovesAreApproved
<1>1. Init => ApproveInv(p)
  <2> SUFFICES ASSUME Init PROVE ApproveInv(p)
    OBVIOUS
  <2>1. runner[p] = Idle
    BY DEF Init
  <2> QED BY <2>1, InitFollows, IdleApproved DEF ApproveInv
<1>2. ApproveInv(p) /\ [Next]_vars => ApproveInv(p)'
  BY NextApproved
<1>3. ApproveInv(p) /\ [Next]_vars =>
          [(events' # events /\ events'[Len(events')].kind = "moved"
               /\ graph.graph_hash[graph.node].kind = "human_gate") =>
              graph.status = "paused_human" /\ run.gate = "approved"]_events
  BY MovesOutOfGates
<1> QED BY <1>1, <1>2, <1>3, PTL DEF Spec, GateMovesAreApproved

-----------------------------------------------------------------------------
(* What a start, a refusal and a move leave in the tables *)

\* What the operations leave in the tables.
LEMMA StartLeads ==
    /\ \A row : LeadsTo(StartWrites, "capsules", row, NewCapsule)
    /\ \A row : LeadsTo(StartWrites, "runs", row, NewRun)
    /\ ~WritesTo(StartWrites, "non_conformance_records")
<1> DEFINE a == SaveCapsule(NewCapsule)
           b == SaveRun(NewRun)
           c == RecordEvent(Entry("created", None, Initial, 0))
<1>1. /\ a.table = "capsules" /\ a.value = NewCapsule
      /\ b.table = "runs" /\ b.value = NewRun /\ c.table = "ledger"
  BY GraphTables
<1>2. StartWrites = <<a, b, c>>
  BY DEF StartWrites
<1> HIDE DEF a, b, c
<1>3. \A row : LeadsTo(<<a, b, c>>, "capsules", row, NewCapsule)
  BY <1>1 DEF LeadsTo
<1>4. \A row : LeadsTo(<<a, b, c>>, "runs", row, NewRun)
  BY <1>1 DEF LeadsTo
<1>5. ~WritesTo(<<a, b, c>>, "non_conformance_records")
  BY <1>1 DEF WritesTo
<1> QED BY <1>2, <1>3, <1>4, <1>5

LEMMA SaveRunLeads ==
    ASSUME NEW r, NEW row
    PROVE  /\ LeadsTo(<<SaveRun(r)>>, "capsules", row, row)
           /\ LeadsTo(<<SaveRun(r)>>, "runs", row, r)
           /\ ~WritesTo(<<SaveRun(r)>>, "non_conformance_records")
BY GraphTables DEF LeadsTo, WritesTo

LEMMA RejectionLeads ==
    ASSUME NEW c, NEW r, NEW ws, ws = MarkNonConformance(c, r).writes
    PROVE  /\ LeadsTo(ws, "capsules", c, Freeze(c))
           /\ \A row : LeadsTo(ws, "runs", row, Fail(r))
           /\ WritesTo(ws, "non_conformance_records")
<1> DEFINE a == SaveCapsule(Freeze(c))
           b == Rejection(c)
           d == RejectionRecord(c)
           e == SaveRun(Fail(r))
<1>1. /\ a.table = "capsules" /\ a.value = Freeze(c) /\ b.table = "ledger"
      /\ d.table = "non_conformance_records"
      /\ e.table = "runs" /\ e.value = Fail(r)
  BY GraphTables DEF Rejection, RejectionRecord
<1>2. ws = <<a, b, d, e>>
  BY DEF MarkNonConformance
<1> HIDE DEF a, b, d, e
<1>3. LeadsTo(<<a, b, d, e>>, "capsules", c, Freeze(c))
  BY <1>1 DEF LeadsTo
<1>4. \A row : LeadsTo(<<a, b, d, e>>, "runs", row, Fail(r))
  BY <1>1 DEF LeadsTo
<1>5. WritesTo(<<a, b, d, e>>, "non_conformance_records")
  BY <1>1 DEF WritesTo
<1> QED BY <1>2, <1>3, <1>4, <1>5

\* A refused move fails the run or leaves it, and keeps the state.
LEMMA RefusedLeads ==
    ASSUME NEW c \in ProcessCapsule, NEW r \in RuntimeState, NEW to \in States,
           NEW ev \in Evidence, NEW out, out = Advance(c, r, to, ev), out.raised
    PROVE  \E d, s : /\ LeadsTo(out.writes, "capsules", c, d) /\ d.state = c.state
                     /\ LeadsTo(out.writes, "runs", r, s) /\ (s = r \/ s.status = "failed")
                     /\ WritesTo(out.writes, "non_conformance_records")
<1>1. \/ out = RefuseInvalidTransition(c, r, to, ev)
      \/ out = RefuseMissingEvidence(c, r, to)
  BY DEF Advance, PerformTransition
<1>2. CASE out = RefuseInvalidTransition(c, r, to, ev)
  <2> DEFINE a == SaveCapsule(Freeze(c))
             b == RecordEvent(Entry("refused", c.state, to, ev))
             d == SaveRecord(Breach("NO_VALID_PATH", c.state, to))
             e == SaveRun(Fail(r))
  <2>1. /\ a.table = "capsules" /\ a.value = Freeze(c) /\ b.table = "ledger"
        /\ d.table = "non_conformance_records"
        /\ e.table = "runs" /\ e.value = Fail(r)
    BY GraphTables
  <2>2. out.writes = <<a, b, d, e>>
    BY <1>2 DEF RefuseInvalidTransition
  <2>3. Freeze(c).state = c.state /\ Fail(r).status = "failed"
    BY DEF Freeze, Fail, ProcessCapsule, RuntimeState
  <2> HIDE DEF a, b, d, e
  <2>4. LeadsTo(<<a, b, d, e>>, "capsules", c, Freeze(c))
    BY <2>1 DEF LeadsTo
  <2>5. LeadsTo(<<a, b, d, e>>, "runs", r, Fail(r))
    BY <2>1 DEF LeadsTo
  <2>6. WritesTo(<<a, b, d, e>>, "non_conformance_records")
    BY <2>1 DEF WritesTo
  <2> QED BY <2>2, <2>3, <2>4, <2>5, <2>6
<1>3. CASE out = RefuseMissingEvidence(c, r, to)
  <2> DEFINE a == RecordEvent(Entry("refused", c.state, to, 0))
             b == SaveRecord(Breach("MISSING_EVIDENCE", c.state, to))
  <2>1. a.table = "ledger" /\ b.table = "non_conformance_records"
    BY GraphTables
  <2>2. out.writes = <<a, b>>
    BY <1>3 DEF RefuseMissingEvidence
  <2> HIDE DEF a, b
  <2>3. LeadsTo(<<a, b>>, "capsules", c, c) /\ LeadsTo(<<a, b>>, "runs", r, r)
    BY <2>1 DEF LeadsTo
  <2>4. WritesTo(<<a, b>>, "non_conformance_records")
    BY <2>1 DEF WritesTo
  <2> QED BY <2>2, <2>3, <2>4
<1> QED BY <1>1, <1>2, <1>3

\* A move completes the run exactly when it completes the capsule.
LEMMA MoveLeads ==
    ASSUME NEW c \in ProcessCapsule, NEW r \in RuntimeState, NEW to \in States,
           NEW ev \in Evidence, NEW out, out = Advance(c, r, to, ev), ~out.raised
    PROVE  \E d, s : /\ LeadsTo(out.writes, "capsules", c, d) /\ ~Frozen(d)
                     /\ d.state = to
                     /\ LeadsTo(out.writes, "runs", r, s)
                     /\ s.status = "complete" <=> Terminal(d.state)
                     /\ ~WritesTo(out.writes, "non_conformance_records")
<1>1. out = PerformTransition(c, r, to, ev)
  BY DEF Advance, RefuseInvalidTransition, RefuseMissingEvidence
<1> DEFINE a == SaveCapsule(Moved(to, ev))
           b == RecordEvent(Entry("moved", c.state, to, ev))
           d == SaveRun(Tracked(r, to))
<1>2. /\ a.table = "capsules" /\ a.value = Moved(to, ev) /\ b.table = "ledger"
      /\ d.table = "runs" /\ d.value = Tracked(r, to)
  BY GraphTables
<1>3. out.writes = <<a, b, d>>
  BY <1>1 DEF PerformTransition
<1> HIDE DEF a, b, d
<1>4. /\ LeadsTo(<<a, b, d>>, "capsules", c, Moved(to, ev))
      /\ LeadsTo(<<a, b, d>>, "runs", r, Tracked(r, to))
  BY <1>2 DEF LeadsTo
<1>5. ~Frozen(Moved(to, ev)) /\ Moved(to, ev).state = to
  BY DEF Frozen, Moved
<1>6. Tracked(r, to).status = "complete" <=> Terminal(to)
  BY DEF Tracked, RuntimeState
<1>7. ~WritesTo(<<a, b, d>>, "non_conformance_records")
  BY <1>2 DEF WritesTo
<1> QED BY <1>3, <1>4, <1>5, <1>6, <1>7

\* An approval leaves the capsule and gets the run going.
LEMMA ApprovalLeads ==
    ASSUME NEW m, m.run \in RuntimeState, NEW ws, ws = Approval(m), NEW row
    PROVE  /\ LeadsTo(ws, "capsules", row, row)
           /\ LeadsTo(ws, "runs", m.run, ResolveGate(m.run, TRUE))
           /\ ~WritesTo(ws, "non_conformance_records")
<1> PICK r : r = ResolveGate(m.run, TRUE)
  OBVIOUS
<1> DEFINE flag    == Flag(capsule)
           save    == SaveRun(r)
           flagged == IF m.decision = "FLAG" THEN <<flag>> ELSE <<>>
<1>1. /\ flag.table = "ledger" /\ save.table = "runs"
      /\ save.value = r
  BY GraphTables DEF Flag
<1>2. ws = flagged \o <<save>>
  BY DEF Approval
<1> HIDE DEF flag, save
<1>3. /\ LeadsTo(flagged, "capsules", row, row) /\ LeadsTo(flagged, "runs", m.run, m.run)
      /\ ~WritesTo(flagged, "non_conformance_records")
  <2>1. /\ LeadsTo(<<flag>>, "capsules", row, row)
        /\ LeadsTo(<<flag>>, "runs", m.run, m.run)
        /\ ~WritesTo(<<flag>>, "non_conformance_records")
    BY <1>1 DEF LeadsTo, WritesTo
  <2> QED BY <2>1, LeadsNowhere
<1>4. /\ LeadsTo(<<save>>, "capsules", row, row)
      /\ LeadsTo(<<save>>, "runs", m.run, r)
      /\ ~WritesTo(<<save>>, "non_conformance_records")
  BY SaveRunLeads DEF save
<1>5. /\ flagged \in Seq({flag, save}) /\ <<save>> \in Seq({flag, save})
  BY SeriesTypes, EmptySeries
<1>6. PICK last : last = <<save>>
  OBVIOUS
<1> HIDE DEF flagged
<1>7. ~WritesTo(flagged \o last, "non_conformance_records")
  BY <1>3, <1>4, <1>5, <1>6, WritesOn
<1>8. LeadsTo(flagged \o last, "capsules", row, row)
  BY <1>3, <1>4, <1>5, <1>6, LeadsOn
<1>9. LeadsTo(flagged \o last, "runs", m.run, r)
  BY <1>3, <1>4, <1>5, <1>6, LeadsOn
<1> QED BY <1>2, <1>6, <1>7, <1>8, <1>9

-----------------------------------------------------------------------------
(* One process: checkpoint, run and capsule agree when nothing is pending *)

\* The checkpoint a process works from, or the row when nobody drives.
Current(m, g) == IF m.at = "idle" THEN g ELSE m.graph

\* The last move of the graph completed the run, if it completed the capsule.
Ended(g, c, r) ==
    Terminal(c.state) => r.status = "complete" \/ g.graph_hash[g.node].to = None

\* The capsule c and the run r are what the checkpoint g says they are.
Tells(g, c, r) ==
    /\ g.status = "paused_human" => r.status = "human_review" /\ r.gate = "pending"
    /\ g.status = "blocked" => r.status = "blocked"
    /\ Frozen(c) => g.status = "failed"
    /\ r.status = "complete" => Terminal(c.state)
    /\ g.status = "complete" => Ended(g, c, r)

\* What memory m will leave in the rows agrees with its checkpoint.
Agrees(m, g, cap, rn, recs) ==
    /\ \E c, r : /\ LeadsTo(m.todo, "capsules", cap, c)
                 /\ LeadsTo(m.todo, "runs", rn, r)
                 /\ Tells(Current(m, g), c, r)
                 /\ m.at = "passing" => Ended(m.graph, c, r)
    /\ Current(m, g).status = "failed" <=>
           recs # {} \/ WritesTo(m.todo, "non_conformance_records")

\* What was read is what is there.
Fresh(m, cap, rn) ==
    /\ m.at \in {"idle", "loaded", "prompt", "judging"} => m.todo = <<>>
    /\ m.at = "loaded" => m.capsule = cap
    /\ m.at = "judging" => m.run = rn

AgreeInv(p) ==
    /\ FollowInv(p)
    /\ Fresh(runner[p], capsule, run)
    /\ ~lost => IF graph # None \/ runner[p].at # "idle"
                THEN Agrees(runner[p], graph, capsule, run, records)
                ELSE records = {}

\* The frame of a step that sets the memory of the process.
LEMMA AgreeFrame ==
    ASSUME NEW p \in Runners, AgreeInv(p), FollowInv(p)', UNCHANGED rows,
           NEW n, Become(p, n), Fresh(n, capsule, run),
           ~lost' => Agrees(n, graph, capsule, run, records) /\ (graph # None \/ n.at # "idle")
    PROVE  AgreeInv(p)'
<1>1. runner'[p] = n
  BY DEF Become, AgreeInv, FollowInv, TypeInv, TypeOK
<1>2. /\ graph' = graph /\ capsule' = capsule /\ run' = run /\ records' = records
  BY DEF rows
<1>3. Fresh(runner[p], capsule, run)'
  BY <1>1, <1>2 DEF Fresh
<1>4. ~lost' => Agrees(runner[p], graph, capsule, run, records)'
  BY <1>1, <1>2 DEF Agrees, LeadsTo, WritesTo, Tells, Ended, Current, Frozen
<1>5. ~lost' => graph' # None \/ runner'[p].at # "idle"
  BY <1>1, <1>2
<1> QED BY <1>3, <1>4, <1>5 DEF AgreeInv

\* With nothing left to write, the rows themselves agree.
LEMMA RestAgrees ==
    ASSUME NEW p \in Runners, AgreeInv(p), ~lost, NEW m, m = runner[p],
           m.todo = <<>>, graph # None \/ m.at # "idle"
    PROVE  /\ Tells(Current(m, graph), capsule, run)
           /\ m.at = "passing" => Ended(m.graph, capsule, run)
           /\ Current(m, graph).status = "failed" <=> records # {}
<1>1. Agrees(m, graph, capsule, run, records)
  BY DEF AgreeInv
<1>2. PICK c, r : /\ LeadsTo(m.todo, "capsules", capsule, c)
                  /\ LeadsTo(m.todo, "runs", run, r)
                  /\ Tells(Current(m, graph), c, r)
                  /\ m.at = "passing" => Ended(m.graph, c, r)
  BY <1>1 DEF Agrees
<1>3. capsule = c /\ run = r
  BY <1>2, LeadsNowhere
<1> QED BY <1>1, <1>2, <1>3, LeadsNowhere DEF Agrees

\* A step that keeps nothing to write agrees if the rows do.
LEMMA QuietAgrees ==
    ASSUME NEW n, n.todo = <<>>, NEW g, NEW cap, NEW rn, NEW recs,
           Tells(Current(n, g), cap, rn),
           n.at = "passing" => Ended(n.graph, cap, rn),
           Current(n, g).status = "failed" <=> recs # {}
    PROVE  Agrees(n, g, cap, rn, recs)
<1>1. LeadsTo(n.todo, "capsules", cap, cap) /\ LeadsTo(n.todo, "runs", rn, rn)
  BY LeadsNowhere
<1>2. ~WritesTo(n.todo, "non_conformance_records")
  BY LeadsNowhere
<1> QED BY <1>1, <1>2 DEF Agrees

\* A step that saves a checkpoint agrees if the writes before it do.
LEMMA CheckpointAgrees ==
    ASSUME NEW p \in Runners, AgreeInv(p), FollowInv(p)', UNCHANGED rows,
           NEW m \in Runner, NEW g, NEW before \in Seq(Write),
           Become(p, Checkpoint(m, g, before)),
           ~lost' => \E c, r : /\ LeadsTo(before, "capsules", capsule, c)
                               /\ LeadsTo(before, "runs", run, r)
                               /\ Tells(g, c, r),
           ~lost' => (g.status = "failed" <=>
                         records # {} \/ WritesTo(before, "non_conformance_records"))
    PROVE  AgreeInv(p)'
<1>1. PICK n : n = Checkpoint(m, g, before)
  OBVIOUS
<1>2. n.at = "stepping" /\ n.graph = g /\ n.todo = before \o <<SaveGraphRun(g)>>
  BY <1>1 DEF Checkpoint, Runner
<1>3. runner'[p] = n
  BY <1>1 DEF Become, AgreeInv, FollowInv, TypeInv, TypeOK
<1>4. g \in GraphRunState
  BY <1>2, <1>3 DEF FollowInv, TypeInv, Holding, Countable
<1>5. before \in Seq(GraphWrite) /\ <<SaveGraphRun(g)>> \in Seq(GraphWrite)
  BY <1>4, GraphWriteTypes, SeriesTypes
<1>6. PICK last : last = <<SaveGraphRun(g)>>
  OBVIOUS
<1>7. \A row : LeadsTo(last, "capsules", row, row) /\ LeadsTo(last, "runs", row, row)
  BY <1>6, GraphTables DEF LeadsTo
<1>8. \A table, row, x : (table \in {"capsules", "runs"} /\ LeadsTo(before, table, row, x))
                         => LeadsTo(before \o last, table, row, x)
  BY <1>5, <1>6, <1>7, LeadsOn
<1>9. WritesTo(before \o last, "non_conformance_records")
      <=> WritesTo(before, "non_conformance_records")
  <2>1. ~WritesTo(last, "non_conformance_records")
    BY <1>6, GraphTables DEF WritesTo
  <2> QED BY <1>5, <1>6, <2>1, WritesOn
<1>10. ~lost' => Agrees(n, graph, capsule, run, records)
  BY <1>2, <1>6, <1>8, <1>9 DEF Agrees, Current
<1>11. Fresh(n, capsule, run)
  BY <1>2 DEF Fresh
<1> QED BY <1>1, <1>2, <1>10, <1>11, AgreeFrame

\* A process that works on a running or a paused graph finds a capsule that is
\* not frozen.
LEMMA DrivingAgrees ==
    ASSUME NEW p \in Runners, AgreeInv(p), ~lost, NEW m, m = runner[p],
           m.todo = <<>>, m.at # "idle"
    PROVE  /\ Tells(m.graph, capsule, run)
           /\ m.graph.status # "failed" => ~Frozen(capsule) /\ records = {}
           /\ m.at = "passing" => Ended(m.graph, capsule, run)
<1>1. Tells(m.graph, capsule, run) /\ (m.graph.status = "failed" <=> records # {})
  BY RestAgrees DEF Current
<1>2. m.at = "passing" => Ended(m.graph, capsule, run)
  BY RestAgrees
<1> QED BY <1>1, <1>2 DEF Tells

LEMMA HeadOfLoopAgrees ==
    ASSUME NEW p \in Runners, AgreeInv(p), FollowInv(p)',
           PauseAtGate(p) \/ Exhaust(p) \/ Retry(p)
    PROVE  AgreeInv(p)'
<1>1. PICK m : m = runner[p]
  OBVIOUS
<1>2. /\ m.at = "stepping" /\ m.todo = <<>> /\ m.graph.status = "running"
      /\ UNCHANGED rows /\ lost' = lost
  BY <1>1 DEF PauseAtGate, Exhaust, Retry, Stepping, Ready
<1>3. TypeInv
  BY DEF AgreeInv, FollowInv
<1>4. /\ m \in Runner /\ run \in RuntimeState
      /\ m.graph \in GraphRunState /\ Countable(m.graph)
  BY <1>1, <1>2, <1>3, ReadyFinds DEF TypeInv, Holding
<1>5. ~lost => /\ ~Frozen(capsule) /\ records = {}
               /\ run.status = "complete" => Terminal(capsule.state)
  BY <1>1, <1>2, DrivingAgrees DEF Tells
<1>6. CASE PauseAtGate(p)
  <2>1. PICK g : g = Status(m.graph, "paused_human")
    OBVIOUS
  <2>2. PICK r : r = EnterHumanReview(run)
    OBVIOUS
  <2>3. g.status = "paused_human"
    BY <1>4, <2>1 DEF GraphRunState, Status
  <2>4. r \in RuntimeState /\ r.status = "human_review" /\ r.gate = "pending"
    BY <1>4, <2>2, RunTypes DEF RuntimeState, EnterHumanReview
  <2>5. Become(p, Checkpoint(m, g, <<SaveRun(r)>>))
    BY <1>1, <1>6, <2>1, <2>2 DEF PauseAtGate
  <2>6. /\ LeadsTo(<<SaveRun(r)>>, "capsules", capsule, capsule)
        /\ LeadsTo(<<SaveRun(r)>>, "runs", run, r)
        /\ ~WritesTo(<<SaveRun(r)>>, "non_conformance_records")
    BY SaveRunLeads
  <2>7. <<SaveRun(r)>> \in Seq(Write)
    BY <2>4, WriteTypes, SeriesTypes
  <2>8. ~lost => Tells(g, capsule, r)
    BY <1>5, <2>3, <2>4 DEF Tells
  <2> QED BY <1>2, <1>4, <2>3, <2>5, <2>6, <2>7, <1>5, <2>8, CheckpointAgrees
<1>7. CASE Exhaust(p)
  <2>1. PICK n : n = m.graph.attempts + 1
    OBVIOUS
  <2>2. PICK g : g = [Status(m.graph, "blocked") EXCEPT !.attempts = n]
    OBVIOUS
  <2>3. PICK r : r = BlockRun(run)
    OBVIOUS
  <2>4. g.status = "blocked"
    <3>1. PICK h : h = Status(m.graph, "blocked")
      OBVIOUS
    <3>2. h \in GraphRunState /\ h.status = "blocked"
      BY <1>2, <1>4, <3>1, StatusCountable DEF Countable
    <3> QED BY <2>2, <3>1, <3>2 DEF GraphRunState
  <2>5. r \in RuntimeState /\ r.status = "blocked"
    BY <1>4, <2>3, RunTypes DEF RuntimeState, BlockRun
  <2>6. Become(p, Checkpoint(m, g, <<SaveRun(r)>>))
    BY <1>1, <1>7, <2>1, <2>2, <2>3 DEF Exhaust
  <2>7. /\ LeadsTo(<<SaveRun(r)>>, "capsules", capsule, capsule)
        /\ LeadsTo(<<SaveRun(r)>>, "runs", run, r)
        /\ ~WritesTo(<<SaveRun(r)>>, "non_conformance_records")
    BY SaveRunLeads
  <2>8. <<SaveRun(r)>> \in Seq(Write)
    BY <2>5, WriteTypes, SeriesTypes
  <2>9. ~lost => Tells(g, capsule, r)
    BY <1>5, <2>4, <2>5 DEF Tells
  <2> QED BY <1>2, <1>4, <2>4, <2>6, <2>7, <2>8, <1>5, <2>9, CheckpointAgrees
<1>8. CASE Retry(p)
  <2>1. PICK n : n = m.graph.attempts + 1
    OBVIOUS
  <2>2. PICK g : g = [m.graph EXCEPT !.attempts = n]
    OBVIOUS
  <2>3. g.status = "running"
    BY <1>2, <1>4, <2>2 DEF GraphRunState
  <2>4. Become(p, Checkpoint(m, g, <<>>))
    BY <1>1, <1>8, <2>1, <2>2 DEF Retry
  <2>5. ~lost => Tells(g, capsule, run)
    BY <1>5, <2>3 DEF Tells
  <2> QED BY <1>2, <1>4, <1>5, <2>3, <2>4, <2>5, LeadsNowhere, EmptySeries, CheckpointAgrees
<1> QED BY <1>6, <1>7, <1>8

LEMMA MoveToNextAgrees ==
    ASSUME NEW p \in Runners, AgreeInv(p), FollowInv(p)', MoveToNext(p)
    PROVE  AgreeInv(p)'
<1>1. PICK m : m = runner[p]
  OBVIOUS
<1>2. m.at = "passing" /\ m.todo = <<>> /\ UNCHANGED rows /\ lost' = lost
  BY <1>1 DEF MoveToNext, Ready
<1>3. TypeInv /\ Follows(m, graph)
  BY <1>1 DEF AgreeInv, FollowInv
<1>4. /\ m \in Runner /\ m.graph \in GraphRunState /\ m.graph.status = "running"
  BY <1>1, <1>2, <1>3, ReadyFinds DEF TypeInv, Holding, Follows
<1>5. ~lost => /\ ~Frozen(capsule) /\ records = {}
               /\ run.status = "complete" => Terminal(capsule.state)
               /\ Ended(m.graph, capsule, run)
  BY <1>1, <1>2, <1>4, DrivingAgrees DEF Tells
<1>6. CASE Node(p).next # 0
  <2>1. PICK g : g = [Status(m.graph, "running") EXCEPT !.node = Node(p).next]
    OBVIOUS
  <2>2. g.status = "running"
    BY <1>4, <2>1 DEF GraphRunState, Status
  <2>3. Become(p, Checkpoint(m, g, <<>>))
    BY <1>1, <1>6, <2>1 DEF MoveToNext
  <2>4. ~lost => Tells(g, capsule, run)
    BY <1>5, <2>2 DEF Tells
  <2> QED BY <1>2, <1>4, <1>5, <2>2, <2>3, <2>4, LeadsNowhere, EmptySeries, CheckpointAgrees
<1>7. CASE Node(p).next = 0
  <2>1. PICK status : status = IF Frozen(capsule) THEN "failed" ELSE "complete"
    OBVIOUS
  <2>2. PICK g : g = Status(m.graph, status)
    OBVIOUS
  <2>3. /\ g.status = status /\ g.graph_hash = m.graph.graph_hash
        /\ g.node = m.graph.node
    BY <1>4, <2>2 DEF GraphRunState, Status
  <2>4. Become(p, Checkpoint(m, g, <<>>))
    BY <1>1, <1>7, <2>1, <2>2 DEF MoveToNext
  <2>5. ~lost => Tells(g, capsule, run) /\ g.status = "complete" /\ records = {}
    BY <1>5, <2>1, <2>3 DEF Tells, Ended
  <2> QED BY <1>2, <1>4, <1>5, <2>1, <2>3, <2>4, <2>5, LeadsNowhere, EmptySeries, CheckpointAgrees
<1> QED BY <1>6, <1>7

LEMMA RejectAgrees ==
    ASSUME NEW p \in Runners, AgreeInv(p), FollowInv(p)', Reject(p)
    PROVE  AgreeInv(p)'
<1>1. PICK m : m = runner[p]
  OBVIOUS
<1>2. PICK resolved : resolved = ResolveGate(m.run, FALSE)
  OBVIOUS
<1>3. PICK g : g = Status(m.graph, "failed")
  OBVIOUS
<1>4. PICK rest : rest = MarkNonConformance(capsule, resolved).writes
  OBVIOUS
<1>5. PICK before : before = <<SaveRun(resolved)>> \o rest
  OBVIOUS
<1>6. /\ m.at = "judging" /\ m.todo = <<>> /\ UNCHANGED rows /\ lost' = lost
      /\ Become(p, Checkpoint(m, g, before))
  BY <1>1, <1>2, <1>3, <1>4, <1>5 DEF Reject, Ready
<1>7. TypeInv
  BY DEF AgreeInv, FollowInv
<1>8. /\ m \in Runner /\ m.run \in RuntimeState /\ capsule \in ProcessCapsule
      /\ m.graph \in GraphRunState
  BY <1>1, <1>6, <1>7, ReadyFinds DEF TypeInv, Holding
<1>9. resolved \in RuntimeState
  BY <1>2, <1>8, RunTypes
<1>10. <<SaveRun(resolved)>> \in Seq(Write) /\ rest \in Seq(Write)
  BY <1>4, <1>8, <1>9, WriteTypes, SeriesTypes, MarkNonConformanceType DEF Outcome
<1>11. before \in Seq(Write)
  BY <1>5, <1>10, ConcatProperties
<1>12. /\ LeadsTo(<<SaveRun(resolved)>>, "capsules", capsule, capsule)
       /\ LeadsTo(<<SaveRun(resolved)>>, "runs", run, resolved)
  BY SaveRunLeads
<1>13. /\ LeadsTo(rest, "capsules", capsule, Freeze(capsule))
       /\ LeadsTo(rest, "runs", resolved, Fail(resolved))
       /\ WritesTo(rest, "non_conformance_records")
  BY <1>4, RejectionLeads
<1>14. /\ LeadsTo(before, "capsules", capsule, Freeze(capsule))
       /\ LeadsTo(before, "runs", run, Fail(resolved))
  BY <1>5, <1>10, <1>12, <1>13, LeadsOn
<1>15. WritesTo(before, "non_conformance_records")
  BY <1>5, <1>10, <1>13, WritesOn
<1>16. g.status = "failed"
  BY <1>3, <1>8 DEF GraphRunState, Status
<1>17. Fail(resolved).status = "failed"
  BY <1>9 DEF RuntimeState, Fail
<1>18. Tells(g, Freeze(capsule), Fail(resolved))
  BY <1>16, <1>17 DEF Tells
<1> QED BY <1>6, <1>8, <1>11, <1>14, <1>15, <1>16, <1>18, CheckpointAgrees

LEMMA StartAgrees ==
    ASSUME NEW p \in Runners, AgreeInv(p), FollowInv(p)', Start(p) \/ ResumeBlocked(p)
    PROVE  AgreeInv(p)'
<1>1. TypeInv
  BY DEF AgreeInv, FollowInv
<1>2. CASE Start(p)
  <2>1. PICK nodes \in Graphs :
            Become(p, Checkpoint([Idle EXCEPT !.nodes = nodes],
                                 [status |-> "running", graph_hash |-> nodes,
                                  node |-> 1, attempts |-> 0],
                                 StartWrites))
    BY <1>2 DEF Start
  <2>2. PICK g : g = [status |-> "running", graph_hash |-> nodes,
                      node |-> 1, attempts |-> 0]
    OBVIOUS
  <2>3. PICK m : m = [Idle EXCEPT !.nodes = nodes]
    OBVIOUS
  <2>4. m \in Runner /\ g.status = "running" /\ Become(p, Checkpoint(m, g, StartWrites))
    BY <2>1, <2>2, <2>3, FreshHolds
  <2>5. UNCHANGED rows /\ graph = None /\ runner[p] = Idle /\ lost' = lost
    BY <1>2 DEF Start
  <2>7. ~lost => records = {}
    BY <2>5 DEF AgreeInv, Idle
  <2>6. Tells(g, NewCapsule, NewRun)
    BY <2>4 DEF Tells, Frozen, NewCapsule, NewRun
  <2> QED BY <2>4, <2>5, <2>6, <2>7, StartTypes, StartLeads, CheckpointAgrees
<1>3. CASE ResumeBlocked(p)
  <2>1. PICK nodes \in Accepted(graph) :
            Become(p, Checkpoint([Idle EXCEPT !.nodes = nodes],
                                 [Status(graph, "running") EXCEPT !.attempts = 0],
                                 IF run.status = "blocked"
                                 THEN <<SaveRun(ResumeRun(run))>> ELSE <<>>))
    BY <1>3 DEF ResumeBlocked
  <2>2. PICK g : g = [Status(graph, "running") EXCEPT !.attempts = 0]
    OBVIOUS
  <2>3. PICK m : m = [Idle EXCEPT !.nodes = nodes]
    OBVIOUS
  <2>4. PICK before : before = IF run.status = "blocked"
                               THEN <<SaveRun(ResumeRun(run))>> ELSE <<>>
    OBVIOUS
  <2>5. /\ graph # None /\ graph.status = "blocked" /\ UNCHANGED rows
        /\ runner[p] = Idle /\ lost' = lost
    BY <1>3 DEF ResumeBlocked
  <2>6. /\ graph \in GraphRunState /\ run \in RuntimeState /\ nodes \in Graphs
    BY <1>1, <2>5, NodeFields DEF TypeInv, TypeOK, Grounded, Accepted
  <2>7. m \in Runner /\ Become(p, Checkpoint(m, g, before))
    BY <2>1, <2>2, <2>3, <2>4, <2>6, FreshHolds
  <2>8. g.status = "running"
    <3>1. PICK h : h = Status(graph, "running")
      OBVIOUS
    <3>2. h.status = "running" /\ h \in GraphRunState
      BY <2>6, <3>1 DEF GraphRunState, Status, GraphStatus
    <3> QED BY <2>2, <3>1, <3>2 DEF GraphRunState
  <2>9. PICK r : r = IF run.status = "blocked" THEN ResumeRun(run) ELSE run
    OBVIOUS
  <2>10. /\ r \in RuntimeState /\ ResumeRun(run) \in RuntimeState
         /\ r = run \/ r.status = "running"
    BY <2>6, <2>9, RunTypes DEF RuntimeState, ResumeRun
  <2>11. before \in Seq(Write)
    BY <2>4, <2>10, WriteTypes, SeriesTypes, EmptySeries
  <2>12. /\ LeadsTo(before, "capsules", capsule, capsule)
         /\ LeadsTo(before, "runs", run, r)
         /\ ~WritesTo(before, "non_conformance_records")
    <3>1. CASE run.status = "blocked"
      <4>1. before = <<SaveRun(r)>>
        BY <2>4, <2>9, <3>1
      <4>2. /\ LeadsTo(<<SaveRun(r)>>, "capsules", capsule, capsule)
            /\ LeadsTo(<<SaveRun(r)>>, "runs", run, r)
            /\ ~WritesTo(<<SaveRun(r)>>, "non_conformance_records")
        BY SaveRunLeads
      <4> QED BY <4>1, <4>2
    <3>2. CASE run.status # "blocked"
      BY <2>4, <2>9, <3>2, LeadsNowhere
    <3> QED BY <3>1, <3>2
  <2>13. ~lost => Tells(graph, capsule, run) /\ records = {}
    <3>1. Idle.todo = <<>> /\ Idle.at = "idle"
      BY DEF Idle
    <3> QED BY <2>5, <3>1, RestAgrees DEF Current
  <2>14. ~lost => Tells(g, capsule, r)
    BY <2>5, <2>8, <2>10, <2>13 DEF Tells
  <2> QED BY <2>5, <2>7, <2>8, <2>11, <2>12, <2>13, <2>14, CheckpointAgrees
<1> QED BY <1>2, <1>3

LEMMA AdvanceNodeAgrees ==
    ASSUME NEW p \in Runners, AgreeInv(p), FollowInv(p)', AdvanceNode(p)
    PROVE  AgreeInv(p)'
<1>1. PICK m : m = runner[p]
  OBVIOUS
<1>2. PICK out : out = Advance(m.capsule, run, NodeOf(m).to, Given(m))
  OBVIOUS
<1>3. TypeInv /\ Follows(m, graph) /\ Fresh(m, capsule, run)
  BY <1>1 DEF AgreeInv, FollowInv
<1>4. /\ m.at = "loaded" /\ m.todo = <<>> /\ m \in Runner /\ Countable(m.graph)
      /\ m.capsule \in ProcessCapsule /\ run \in RuntimeState
      /\ NodeOf(m).to \in States /\ Given(m) \in Evidence /\ out \in Outcome
      /\ Become(p, IF out.raised
                   THEN Checkpoint(m, Status(m.graph, "failed"), out.writes)
                   ELSE [m EXCEPT !.at = "passing", !.todo = out.writes])
      /\ UNCHANGED rows /\ lost' = lost
  BY <1>1, <1>2, <1>3, AdvanceNodeReads
<1>5. m.capsule = capsule /\ m.graph.status = "running"
  BY <1>3, <1>4 DEF Fresh, Follows
<1>6. ~lost => /\ run.status = "complete" => Terminal(capsule.state)
               /\ records = {}
  BY <1>1, <1>4, <1>5, DrivingAgrees DEF Tells
<1>7. out.writes \in Seq(Write)
  BY <1>4 DEF Outcome
<1>8. CASE out.raised
  <2>1. PICK g : g = Status(m.graph, "failed")
    OBVIOUS
  <2>2. g.status = "failed"
    BY <1>4, <2>1 DEF Countable, GraphRunState, Status
  <2>3. PICK d, s : /\ LeadsTo(out.writes, "capsules", capsule, d)
                    /\ d.state = capsule.state
                    /\ LeadsTo(out.writes, "runs", run, s)
                    /\ s = run \/ s.status = "failed"
                    /\ WritesTo(out.writes, "non_conformance_records")
    BY <1>2, <1>4, <1>5, <1>8, RefusedLeads
  <2>4. ~lost => Tells(g, d, s)
    BY <1>6, <2>2, <2>3 DEF Tells
  <2>5. Become(p, Checkpoint(m, g, out.writes))
    BY <1>4, <1>8, <2>1
  <2> QED BY <1>4, <1>7, <2>2, <2>3, <2>4, <2>5, CheckpointAgrees
<1>9. CASE ~out.raised
  <2>1. PICK n : n = [m EXCEPT !.at = "passing", !.todo = out.writes]
    OBVIOUS
  <2>2. Become(p, n) /\ n.at = "passing" /\ n.graph = m.graph /\ n.todo = out.writes
    BY <1>4, <1>9, <2>1 DEF Runner
  <2>3. PICK d, s : /\ LeadsTo(out.writes, "capsules", capsule, d) /\ ~Frozen(d)
                    /\ LeadsTo(out.writes, "runs", run, s)
                    /\ s.status = "complete" <=> Terminal(d.state)
                    /\ ~WritesTo(out.writes, "non_conformance_records")
    BY <1>2, <1>4, <1>5, <1>9, MoveLeads
  <2>4. Tells(m.graph, d, s) /\ Ended(m.graph, d, s)
    BY <1>5, <2>3 DEF Tells, Ended
  <2>5. ~lost => Agrees(n, graph, capsule, run, records)
    BY <1>5, <1>6, <2>2, <2>3, <2>4 DEF Agrees, Current
  <2>6. Fresh(n, capsule, run)
    BY <2>2 DEF Fresh
  <2> QED BY <1>4, <2>2, <2>5, <2>6, AgreeFrame
<1> QED BY <1>8, <1>9

LEMMA ApproveAgrees ==
    ASSUME NEW p \in Runners, AgreeInv(p), FollowInv(p)', Approve(p)
    PROVE  AgreeInv(p)'
<1>1. PICK m : m = runner[p]
  OBVIOUS
<1>2. TypeInv /\ Follows(m, graph) /\ Fresh(m, capsule, run)
  BY <1>1 DEF AgreeInv, FollowInv
<1>3. m.at = "judging" /\ m.todo = <<>> /\ m \in Runner /\ UNCHANGED rows /\ lost' = lost
  BY <1>1, <1>2 DEF Approve, Ready, TypeInv, TypeOK
<1>4. /\ m.run \in RuntimeState /\ m.graph \in GraphRunState
      /\ m.graph.status = "paused_human" /\ m.run = run
      /\ m.graph.graph_hash = m.nodes
      /\ Node(p) = m.graph.graph_hash[m.graph.node]
  BY <1>1, <1>2, <1>3, ReadyFinds DEF TypeInv, Holding, Follows, Fresh, NodeOf
<1>5. ~lost => ~Frozen(capsule) /\ records = {}
  BY <1>1, <1>3, <1>4, DrivingAgrees
<1>6. PICK h : h = Status(m.graph, "running")
  OBVIOUS
<1>7. h.status = "running" /\ h.graph_hash = m.graph.graph_hash /\ h.node = m.graph.node
  BY <1>4, <1>6 DEF GraphRunState, Status
<1>8. PICK ws : ws = Approval(m)
  OBVIOUS
<1>9. PICK r : r = ResolveGate(m.run, TRUE)
  OBVIOUS
<1>10. r.status = "running"
  BY <1>4, <1>9 DEF RuntimeState, ResolveGate
<1>11. /\ LeadsTo(ws, "capsules", capsule, capsule) /\ LeadsTo(ws, "runs", run, r)
       /\ ~WritesTo(ws, "non_conformance_records")
  BY <1>4, <1>8, <1>9, ApprovalLeads
<1>12. PICK n : n = [m EXCEPT !.at = AfterSuccess(Node(p)), !.run = None,
                              !.graph = h, !.todo = ws]
  OBVIOUS
<1>13. n.at = AfterSuccess(Node(p)) /\ n.graph = h /\ n.todo = ws
  BY <1>3, <1>12 DEF Runner
<1>14. Become(p, n)
  BY <1>1, <1>6, <1>8, <1>12 DEF Approve, Approval
<1>15. n.at \in {"advancing", "passing"}
  BY <1>13 DEF AfterSuccess
<1>16. n.at = "passing" => Ended(n.graph, capsule, r)
  BY <1>4, <1>7, <1>13 DEF AfterSuccess, Ended
<1>17. ~lost => Tells(h, capsule, r)
  BY <1>5, <1>7, <1>10 DEF Tells
<1>18. ~lost => Agrees(n, graph, capsule, run, records)
  BY <1>5, <1>7, <1>11, <1>13, <1>15, <1>16, <1>17 DEF Agrees, Current
<1>19. Fresh(n, capsule, run)
  BY <1>15 DEF Fresh
<1> QED BY <1>3, <1>14, <1>15, <1>18, <1>19, AgreeFrame

LEMMA StayAgrees ==
    ASSUME NEW p \in Runners, AgreeInv(p), FollowInv(p)',
           Succeed(p) \/ LoadCapsule(p) \/ AskHuman(p) \/ Decide(p)
    PROVE  AgreeInv(p)'
<1>1. PICK m : m = runner[p]
  OBVIOUS
<1>2. /\ m.todo = <<>> /\ m.at \in {"stepping", "advancing", "prompt"} /\ m.at # "idle"
      /\ UNCHANGED rows /\ lost' = lost
  BY <1>1 DEF Succeed, LoadCapsule, AskHuman, Decide, Stepping, AtPausedGate, Ready
<1>3. TypeInv
  BY DEF AgreeInv, FollowInv
<1>4. /\ m \in Runner /\ m.graph \in GraphRunState
      /\ Node(p) = m.graph.graph_hash[m.graph.node]
  BY <1>1, <1>2, <1>3, ReadyFinds DEF TypeInv, Holding, NodeOf
<1>5. ~lost => /\ Tells(m.graph, capsule, run)
               /\ m.graph.status = "failed" <=> records # {}
  BY <1>1, <1>2, RestAgrees DEF Current
<1>6. CASE Succeed(p)
  <2>1. PICK shown : Become(p, [m EXCEPT !.at = AfterSuccess(Node(p)), !.shown = shown,
                                          !.graph.attempts = 0])
    BY <1>1, <1>6 DEF Succeed
  <2>2. PICK n : n = [m EXCEPT !.at = AfterSuccess(Node(p)), !.shown = shown,
                                !.graph.attempts = 0]
    OBVIOUS
  <2>3. /\ n.todo = <<>> /\ n.at = AfterSuccess(Node(p)) /\ n.at \in {"advancing", "passing"}
        /\ n.graph = [m.graph EXCEPT !.attempts = 0]
    BY <1>2, <1>4, <2>2 DEF Runner, AfterSuccess
  <2>4. /\ n.graph.status = m.graph.status /\ n.graph.node = m.graph.node
        /\ n.graph.graph_hash = m.graph.graph_hash
    BY <1>4, <2>3 DEF GraphRunState
  <2>5. n.at = "passing" => Ended(n.graph, capsule, run)
    BY <1>4, <2>3, <2>4 DEF AfterSuccess, Ended
  <2>6. ~lost => Tells(n.graph, capsule, run)
    BY <1>5, <2>4 DEF Tells, Ended
  <2>7. ~lost => Agrees(n, graph, capsule, run, records)
    BY <1>5, <2>3, <2>4, <2>5, <2>6, QuietAgrees DEF Current
  <2>8. Fresh(n, capsule, run)
    BY <2>3 DEF Fresh
  <2> QED BY <1>2, <2>1, <2>2, <2>3, <2>7, <2>8, AgreeFrame
<1>7. CASE LoadCapsule(p) \/ AskHuman(p) \/ Decide(p)
  <2>1. PICK decision, shown :
            \/ Become(p, [m EXCEPT !.at = "loaded", !.capsule = capsule])
            \/ Become(p, [m EXCEPT !.at = "prompt", !.capsule = capsule])
            \/ Become(p, [m EXCEPT !.at = "judging", !.capsule = None, !.run = run,
                                   !.decision = decision, !.shown = shown])
    BY <1>1, <1>7 DEF LoadCapsule, AskHuman, Decide
  <2>2. PICK n : /\ Become(p, n)
                 /\ \/ n = [m EXCEPT !.at = "loaded", !.capsule = capsule]
                    \/ n = [m EXCEPT !.at = "prompt", !.capsule = capsule]
                    \/ n = [m EXCEPT !.at = "judging", !.capsule = None, !.run = run,
                                     !.decision = decision, !.shown = shown]
    BY <2>1
  <2>3. /\ n.at \in {"loaded", "prompt", "judging"} /\ n.todo = <<>>
        /\ n.graph = m.graph
        /\ n.at = "loaded" => n.capsule = capsule
        /\ n.at = "judging" => n.run = run
    BY <1>2, <1>4, <2>2 DEF Runner
  <2>4. ~lost => Agrees(n, graph, capsule, run, records)
    BY <1>5, <2>3, QuietAgrees DEF Current
  <2>5. Fresh(n, capsule, run)
    BY <2>3 DEF Fresh
  <2> QED BY <1>2, <2>2, <2>3, <2>4, <2>5, AgreeFrame
<1> QED BY <1>6, <1>7

LEMMA EndAgrees ==
    ASSUME NEW p \in Runners, AgreeInv(p), FollowInv(p)',
           RefuseGate(p) \/ Leave(p) \/ Die(p)
    PROVE  AgreeInv(p)'
<1>1. PICK m : m = runner[p]
  OBVIOUS
<1>2. Become(p, Idle) /\ UNCHANGED rows /\ m # Idle
  <2>1. Become(p, Idle) /\ UNCHANGED rows
    BY DEF RefuseGate, Leave, Die
  <2>2. m # Idle
    <3>1. m.at = "stepping" \/ m # Idle
      BY <1>1 DEF RefuseGate, Leave, Die, AtPausedGate, Ready
    <3> QED BY <3>1 DEF Idle
  <2> QED BY <2>1, <2>2
<1>3. /\ Holding(m) /\ Follows(m, graph) /\ Fresh(m, capsule, run)
  BY <1>1 DEF AgreeInv, FollowInv, TypeInv
<1>4. m.at # "idle"
  BY <1>2, <1>3 DEF Holding
<1>5. ~lost' => /\ ~lost /\ m.todo = <<>>
                /\ m.at \in {"stepping", "prompt", "judging"}
  <2>1. m.at \in Places
    BY <1>3 DEF Holding, Runner
  <2>2. CASE RefuseGate(p) \/ Leave(p)
    BY <1>1, <2>2 DEF RefuseGate, Leave, AtPausedGate, Ready
  <2>3. CASE Die(p)
    BY <1>1, <1>4, <2>1, <2>3 DEF Die, Places
  <2> QED BY <2>2, <2>3
<1>6. Idle.at = "idle" /\ Idle.todo = <<>>
  BY DEF Idle
<1>7. ~lost' => Agrees(Idle, graph, capsule, run, records)
  <2> SUFFICES ASSUME ~lost' PROVE Agrees(Idle, graph, capsule, run, records)
    OBVIOUS
  <2>1. m.graph = graph
    BY <1>3, <1>5 DEF Follows
  <2>2. Tells(graph, capsule, run) /\ (graph.status = "failed" <=> records # {})
    BY <1>1, <1>4, <1>5, <2>1, RestAgrees DEF Current
  <2> QED BY <1>6, <2>2, QuietAgrees DEF Current
<1>8. Fresh(Idle, capsule, run)
  BY <1>6 DEF Fresh
<1>9. ~lost' => graph # None
  <2>1. ~lost' => m.graph = graph
    BY <1>3, <1>5 DEF Follows
  <2> QED BY <1>3, <1>4, <2>1, GraphNoneAssumption DEF Holding, Countable
<1> QED BY <1>2, <1>7, <1>8, <1>9, AgreeFrame

LEMMA ResumeAgrees ==
    ASSUME NEW p \in Runners, AgreeInv(p), FollowInv(p)', Resume(p)
    PROVE  AgreeInv(p)'
<1>1. PICK nodes \in Accepted(graph) :
          Become(p, [Idle EXCEPT !.at = "stepping", !.nodes = nodes, !.graph = graph])
  BY DEF Resume
<1>2. PICK n : n = [Idle EXCEPT !.at = "stepping", !.nodes = nodes, !.graph = graph]
  OBVIOUS
<1>3. /\ runner[p] = Idle /\ graph # None /\ UNCHANGED rows /\ lost' = lost
  BY DEF Resume
<1>4. Idle.at = "idle" /\ Idle.todo = <<>>
  BY DEF Idle
<1>5. n.at = "stepping" /\ n.todo = <<>> /\ n.graph = graph
  BY <1>2 DEF Idle
<1>6. ~lost => Tells(graph, capsule, run) /\ (graph.status = "failed" <=> records # {})
  BY <1>3, <1>4, RestAgrees DEF Current
<1>7. ~lost => Agrees(n, graph, capsule, run, records)
  BY <1>5, <1>6, QuietAgrees DEF Current
<1>8. Fresh(n, capsule, run)
  BY <1>5 DEF Fresh
<1> QED BY <1>1, <1>2, <1>3, <1>5, <1>7, <1>8, AgreeFrame

LEMMA CommitAgrees ==
    ASSUME NEW p \in Runners, AgreeInv(p), FollowInv(p)', Commit(p)
    PROVE  AgreeInv(p)'
<1>1. PICK m, w, n : Commits(p, m, w, n)
  BY CommitReads DEF AgreeInv
<1>2. /\ m = runner[p] /\ w = Head(m.todo) /\ n.todo = Tail(m.todo) /\ m.todo # <<>>
      /\ n.at = m.at /\ n.graph = m.graph /\ runner'[p] = n /\ m \in Runner
      /\ m.at # "idle" /\ lost' = lost
  BY <1>1 DEF Commits
<1>3. PICK ws : ws = m.todo
  OBVIOUS
<1>4. PICK vs : vs = Tail(ws)
  OBVIOUS
<1>5. ws \in Seq(GraphWrite)
  BY <1>2, <1>3 DEF Runner
<1>6. /\ \A table, row, last : LeadsTo(ws, table, row, last) =>
             LeadsTo(vs, table, IF w.table = table THEN w.value ELSE row, last)
      /\ \A table : WritesTo(ws, table) <=> w.table = table \/ WritesTo(vs, table)
  <2>1. ws # <<>> /\ w = Head(ws)
    BY <1>2, <1>3
  <2> SUFFICES ASSUME NEW table
               PROVE  /\ \A row, last : LeadsTo(ws, table, row, last) =>
                             LeadsTo(vs, table, IF w.table = table THEN w.value ELSE row,
                                     last)
                      /\ WritesTo(ws, table) <=> w.table = table \/ WritesTo(vs, table)
    OBVIOUS
  <2> QED BY <1>4, <1>5, <2>1, LeadsAfterFirst
<1>7. /\ capsule' = IF w.table = "capsules" THEN w.value ELSE capsule
      /\ run' = IF w.table = "runs" THEN w.value ELSE run
      /\ w.table = "non_conformance_records" => records' # {}
      /\ w.table # "non_conformance_records" => records' = records
  BY <1>2 DEF Commit, CommitCapsule, CommitRun, CommitEvent, CommitRecord,
     CommitGraph, Committing
<1>8. m.at \notin {"loaded", "prompt", "judging"}
  BY <1>2 DEF AgreeInv, Fresh
<1>9. PICK cap : cap = capsule'
  OBVIOUS
<1>10. PICK rn : rn = run'
  OBVIOUS
<1>11. PICK recs : recs = records'
  OBVIOUS
<1>12. PICK g : g = graph'
  OBVIOUS
<1>13. Fresh(n, cap, rn)
  BY <1>2, <1>8 DEF Fresh
<1>14. ASSUME ~lost
       PROVE  Agrees(n, g, cap, rn, recs)
  <2>1. Agrees(m, graph, capsule, run, records)
    BY <1>2, <1>14 DEF AgreeInv
  <2>2. PICK c, r : /\ LeadsTo(ws, "capsules", capsule, c)
                    /\ LeadsTo(ws, "runs", run, r)
                    /\ Tells(m.graph, c, r)
                    /\ m.at = "passing" => Ended(m.graph, c, r)
    BY <1>2, <1>3, <2>1 DEF Agrees, Current
  <2>3. LeadsTo(vs, "capsules", cap, c) /\ LeadsTo(vs, "runs", rn, r)
    BY <1>6, <1>7, <1>9, <1>10, <2>2
  <2>4. m.graph.status = "failed" <=> recs # {} \/ WritesTo(vs, "non_conformance_records")
    BY <1>2, <1>3, <1>6, <1>7, <1>11, <2>1 DEF Agrees, Current
  <2> QED BY <1>2, <1>3, <1>4, <2>2, <2>3, <2>4 DEF Agrees, Current
<1>15. Fresh(runner[p], capsule, run)'
  BY <1>2, <1>9, <1>10, <1>13 DEF Fresh
<1>16. ~lost => Agrees(runner[p], graph, capsule, run, records)'
  <2>1. ~lost => Agrees(runner'[p], graph', capsule', run', records')
    BY <1>2, <1>9, <1>10, <1>11, <1>12, <1>14
  <2> QED BY <2>1 DEF Agrees, LeadsTo, WritesTo, Tells, Ended, Current, Frozen
<1> QED BY <1>2, <1>15, <1>16 DEF AgreeInv

LEMMA NextAgrees ==
    ASSUME NEW p, Runners = {p}, AgreeInv(p), [Next]_vars
    PROVE  AgreeInv(p)'
<1>1. FollowInv(p)'
  BY NextFollows DEF AgreeInv
<1>2. CASE UNCHANGED vars
  BY <1>1, <1>2 DEF vars, AgreeInv, Fresh, Agrees, LeadsTo, WritesTo, Tells, Ended,
     Current, Frozen
<1>3. CASE Next
  <2>1. \/ RunnerStep(p)
        \/ Start(p) \/ ResumeBlocked(p) \/ Resume(p) \/ Decide(p) \/ Die(p)
    BY <1>3 DEF Next
  <2> QED BY <1>1, <2>1, CommitAgrees, HeadOfLoopAgrees, MoveToNextAgrees, RejectAgrees,
             StartAgrees, AdvanceNodeAgrees, ApproveAgrees, StayAgrees, EndAgrees,
             ResumeAgrees DEF RunnerStep
<1> QED BY <1>2, <1>3

LEMMA InitAgrees ==
    ASSUME NEW p \in Runners, Init
    PROVE  AgreeInv(p)
<1>1. /\ runner[p] = Idle /\ graph = None /\ records = {}
      /\ Idle.at = "idle" /\ Idle.todo = <<>>
  BY DEF Init, Idle
<1> QED BY <1>1, InitFollows DEF AgreeInv, Fresh

\* kernel.py, execute_node(), decide() and resume(): with one process at a
\* time that never died away from its checkpoint, a paused or blocked graph
\* has a paused or blocked run, only a breach fails a graph and a frozen
\* capsule always does, and the run of a complete graph is complete just when
\* the last move completed the capsule.
THEOREM StatusesStayTogether ==
    ASSUME NEW p, Runners = {p}
    PROVE  Spec => []StatusesFollowGraph
<1>1. Init => AgreeInv(p)
  BY InitAgrees
<1>2. AgreeInv(p) /\ [Next]_vars => AgreeInv(p)'
  BY NextAgrees
<1>3. AgreeInv(p) => StatusesFollowGraph
  <2> SUFFICES ASSUME AgreeInv(p), AtRest
               PROVE  StatusesFollowGraph
    BY DEF StatusesFollowGraph
  <2>1. PICK m : m = runner[p]
    OBVIOUS
  <2>2. /\ graph # None /\ ~lost /\ m.todo = <<>>
        /\ m.at \notin {"advancing", "loaded", "passing"} /\ m.at \in Places
        /\ Follows(m, graph)
    BY <2>1 DEF AtRest, AgreeInv, FollowInv, TypeInv, TypeOK, Runner
  <2>3. Current(m, graph) = graph
    BY <2>2 DEF Current, Follows, Places
  <2>4. Tells(graph, capsule, run) /\ (graph.status = "failed" <=> records # {})
    BY <2>1, <2>2, <2>3, RestAgrees
  <2> QED BY <2>4 DEF StatusesFollowGraph, Tells, Ended
<1> QED BY <1>1, <1>2, <1>3, PTL DEF Spec

-----------------------------------------------------------------------------
(* The walk, node by node *)

\* The walk is a function: it starts at the first node, and goes on to the
\* next of every node it is at.
LEMMA WalkUnfolds ==
    ASSUME NEW nodes \in Graphs
    PROVE  /\ Walk(nodes) \in [DOMAIN nodes -> 0 .. Len(nodes)]
           /\ Walk(nodes)[1] = 1
           /\ \A k \in DOMAIN nodes :
                  k # Len(nodes) =>
                      Walk(nodes)[k + 1] = IF Walk(nodes)[k] = 0 THEN 0
                                           ELSE nodes[Walk(nodes)[k]].next
<1> DEFINE n == Len(nodes)
           W(at) == [k \in DOMAIN nodes |->
                        IF k = 1 THEN 1 ELSE IF at[k - 1] = 0 THEN 0 ELSE nodes[at[k - 1]].next]
<1>1. /\ n \in Nat \ {0} /\ DOMAIN nodes = 1 .. n
      /\ \A i \in 1 .. n : nodes[i].next \in 0 .. n
  BY GraphsAssumption, EmptySeq, LenProperties
<1> HIDE DEF n
<1>2. \E f : f = W(f)
  <2>1. PICK step : step = [x \in (1 .. n) \X (0 .. n) |->
                                IF x[2] = 0 THEN 0 ELSE nodes[x[2]].next]
    OBVIOUS
  <2>2. step \in [(1 .. n) \X (0 .. n) -> 0 .. n] /\ 1 \in 0 .. n
    BY <1>1, <2>1
  <2>3. PICK f \in [1 .. n -> 0 .. n] :
            \A k \in 1 .. n : f[k] = IF k = 1 THEN 1 ELSE step[<<k - 1, f[k - 1]>>]
    <3>1. PICK S : S = 0 .. n
      OBVIOUS
    <3>2. step \in [(1 .. n) \X S -> S] /\ 1 \in S
      BY <2>2, <3>1
    <3>3. \E f \in [1 .. n -> S] : Unfolds(f, n, 1, step)
      BY <1>1, <3>2, RecursionUnfolds
    <3> QED BY <3>1, <3>3 DEF Unfolds
  <2>4. ASSUME NEW k \in 1 .. n
        PROVE  f[k] = IF k = 1 THEN 1 ELSE IF f[k - 1] = 0 THEN 0 ELSE nodes[f[k - 1]].next
    <3>1. k # 1 => k - 1 \in 1 .. n /\ f[k - 1] \in 0 .. n
      BY <1>1
    <3> QED BY <2>1, <2>3, <3>1
  <2>5. f = W(f)
    BY <1>1, <2>4
  <2> QED BY <2>5
<1>3. PICK at : at = Walk(nodes)
  OBVIOUS
<1>4. at = W(at)
  <2>1. at = CHOOSE f : f = W(f)
    BY <1>3 DEF Walk
  <2> HIDE DEF W
  <2> QED BY <1>2, <2>1
<1>5. \A k \in 1 .. n :
         at[k] = IF k = 1 THEN 1 ELSE IF at[k - 1] = 0 THEN 0 ELSE nodes[at[k - 1]].next
  BY <1>1, <1>4
<1>6. \A k \in 1 .. n : at[k] \in 0 .. n
  <2>1. PICK T : T = {k \in 1 .. n : at[k] \in 0 .. n}
    OBVIOUS
  <2>2. 1 \in T
    BY <1>1, <1>4, <2>1
  <2>3. ASSUME NEW k \in T, k # n PROVE k + 1 \in T
    <3>1. k \in 1 .. n /\ k + 1 \in 1 .. n /\ k + 1 # 1 /\ k + 1 - 1 = k
      BY <1>1, <2>1, <2>3
    <3>2. at[k + 1] = IF at[k] = 0 THEN 0 ELSE nodes[at[k]].next
      BY <1>5, <3>1
    <3> QED BY <1>1, <2>1, <3>1, <3>2
  <2> QED BY <1>1, <2>1, <2>2, <2>3, UpTo
<1>7. at \in [1 .. n -> 0 .. n]
  BY <1>1, <1>4, <1>6
<1>8. at[1] = 1
  BY <1>1, <1>4
<1>9. ASSUME NEW k \in 1 .. n, k # n
      PROVE  at[k + 1] = IF at[k] = 0 THEN 0 ELSE nodes[at[k]].next
  <2>1. k + 1 \in 1 .. n /\ k + 1 # 1 /\ k + 1 - 1 = k
    BY <1>1, <1>9
  <2> QED BY <1>9, <1>5, <2>1
<1> QED BY <1>1, <1>3, <1>7, <1>8, <1>9 DEF n

\* So is the state of the capsule that the walk is compared with.
LEMMA ExpectedUnfolds ==
    ASSUME NEW nodes \in Graphs
    PROVE  /\ Expected(nodes) \in [DOMAIN nodes -> States]
           /\ Expected(nodes)[1] = Initial
           /\ \A k \in DOMAIN nodes :
                  (k # Len(nodes) /\ Walk(nodes)[k] # 0) =>
                      Expected(nodes)[k + 1] = Leaves(nodes[Walk(nodes)[k]], Expected(nodes)[k])
<1>1. PICK n : n = Len(nodes)
  OBVIOUS
<1>2. PICK at : at = Walk(nodes)
  OBVIOUS
<1> DEFINE W(state) ==
        [k \in DOMAIN nodes |->
            IF k = 1 THEN Initial
            ELSE IF at[k - 1] = 0 THEN state[k - 1]
            ELSE Leaves(nodes[at[k - 1]], state[k - 1])]
<1>3. n \in Nat \ {0} /\ DOMAIN nodes = 1 .. n /\ Initial \in States
  BY <1>1, GraphsAssumption, EmptySeq, LenProperties, BriefAssumption
<1>4. ASSUME NEW k \in 1 .. n, at[k] # 0, NEW s \in States
      PROVE  Leaves(nodes[at[k]], s) \in States
  <2>1. nodes \in Seq(GraphNode) /\ at[k] \in 1 .. n
    BY <1>1, <1>2, <1>3, <1>4, WalkUnfolds, GraphsAssumption
  <2>2. nodes[at[k]] \in GraphNode
    BY <1>1, <2>1, ElementOfSeq
  <2> QED BY <2>2 DEF Leaves, GraphNode
<1>5. \E f : f = W(f)
  <2>1. PICK step : step = [x \in (1 .. n) \X States |->
                                IF at[x[1]] = 0 THEN x[2] ELSE Leaves(nodes[at[x[1]]], x[2])]
    OBVIOUS
  <2>2. step \in [(1 .. n) \X States -> States]
    BY <1>4, <2>1
  <2>3. PICK f \in [1 .. n -> States] : Unfolds(f, n, Initial, step)
    BY <1>3, <2>2, RecursionUnfolds
  <2>4. ASSUME NEW k \in 1 .. n
        PROVE  f[k] = IF k = 1 THEN Initial
                      ELSE IF at[k - 1] = 0 THEN f[k - 1]
                      ELSE Leaves(nodes[at[k - 1]], f[k - 1])
    <3>1. f[k] = IF k = 1 THEN Initial ELSE step[<<k - 1, f[k - 1]>>]
      BY <2>3 DEF Unfolds
    <3>2. k # 1 => <<k - 1, f[k - 1]>> \in (1 .. n) \X States
      BY <1>3
    <3>3. k # 1 => step[<<k - 1, f[k - 1]>>] =
                       IF at[k - 1] = 0 THEN f[k - 1]
                       ELSE Leaves(nodes[at[k - 1]], f[k - 1])
      BY <2>1, <3>2
    <3> QED BY <3>1, <3>3
  <2>5. f = W(f)
    BY <1>3, <2>4
  <2> QED BY <2>5
<1>6. PICK state : state = Expected(nodes)
  OBVIOUS
<1>7. state = W(state)
  <2>1. state = CHOOSE f : f = W(f)
    BY <1>2, <1>6 DEF Expected
  <2> HIDE DEF W
  <2> QED BY <1>5, <2>1
<1>8. \A k \in 1 .. n :
         state[k] = IF k = 1 THEN Initial
                    ELSE IF at[k - 1] = 0 THEN state[k - 1]
                    ELSE Leaves(nodes[at[k - 1]], state[k - 1])
  BY <1>3, <1>7
<1>9. \A k \in 1 .. n : state[k] \in States
  <2>1. PICK T : T = {k \in 1 .. n : state[k] \in States}
    OBVIOUS
  <2>2. 1 \in T
    BY <1>3, <1>8, <2>1
  <2>3. ASSUME NEW k \in T, k # n PROVE k + 1 \in T
    <3>1. /\ k \in 1 .. n /\ k + 1 \in 1 .. n /\ k + 1 # 1 /\ k + 1 - 1 = k
          /\ state[k] \in States
      BY <1>3, <2>1, <2>3
    <3>2. state[k + 1] = IF at[k] = 0 THEN state[k] ELSE Leaves(nodes[at[k]], state[k])
      BY <1>8, <3>1
    <3>3. state[k + 1] \in States
      BY <1>4, <3>1, <3>2
    <3> QED BY <2>1, <3>1, <3>3
  <2> QED BY <1>3, <2>1, <2>2, <2>3, UpTo
<1>10. state \in [1 .. n -> States]
  BY <1>3, <1>7, <1>9
<1>11. state[1] = Initial
  BY <1>3, <1>8
<1>12. ASSUME NEW k \in 1 .. n, k # n, at[k] # 0
       PROVE  state[k + 1] = Leaves(nodes[at[k]], state[k])
  <2>1. k + 1 \in 1 .. n /\ k + 1 # 1 /\ k + 1 - 1 = k
    BY <1>3, <1>12
  <2> QED BY <1>8, <1>12, <2>1
<1> QED BY <1>1, <1>2, <1>3, <1>6, <1>10, <1>11, <1>12

\* The walk is at a node all the way to where it is at a node.
LEMMA VisitedAreNodes ==
    ASSUME NEW nodes \in Graphs, NEW k \in Visited(nodes)
    PROVE  \A i \in 1 .. k : Walk(nodes)[i] \in DOMAIN nodes
<1>1. PICK n : n = Len(nodes)
  OBVIOUS
<1>2. PICK at : at = Walk(nodes)
  OBVIOUS
<1>3. n \in Nat \ {0} /\ DOMAIN nodes = 1 .. n
  BY <1>1, GraphsAssumption, EmptySeq, LenProperties
<1>4. /\ at \in [1 .. n -> 0 .. n] /\ k \in 1 .. n /\ at[k] # 0
      /\ \A i, j \in 1 .. k : at[i] = at[j] => i = j
  BY <1>1, <1>2, <1>3, WalkUnfolds DEF Visited
<1> SUFFICES ASSUME NEW i \in 1 .. k, at[i] = 0 PROVE FALSE
  BY <1>2, <1>3, <1>4
<1>5. i # k /\ i \in 1 .. n /\ i # n /\ i + 1 \in 1 .. k
  BY <1>3, <1>4
<1>6. at[i + 1] = 0
  BY <1>1, <1>2, <1>3, <1>5, WalkUnfolds
<1>7. i = i + 1
  BY <1>4, <1>5, <1>6
<1> QED BY <1>5, <1>7

\* A walk that passes every node and does not end there leads back.
LEMMA WalksAreShort ==
    ASSUME NEW nodes \in Graphs, Straight(nodes), NEW k \in Visited(nodes),
           nodes[Walk(nodes)[k]].next # 0
    PROVE  k # Len(nodes)
<1> SUFFICES ASSUME k = Len(nodes) PROVE FALSE
  OBVIOUS
<1>1. PICK n : n = Len(nodes)
  OBVIOUS
<1>2. PICK at : at = Walk(nodes)
  OBVIOUS
<1>3. /\ n \in Nat \ {0} /\ DOMAIN nodes = 1 .. n /\ k = n
      /\ \A i \in 1 .. n : nodes[i].next \in 0 .. n
  BY <1>1, GraphsAssumption, EmptySeq, LenProperties
<1>4. at \in [1 .. n -> 0 .. n]
  BY <1>1, <1>2, <1>3, WalkUnfolds
<1>5. /\ at[n] # 0 /\ \A i, j \in 1 .. n : at[i] = at[j] => i = j
      /\ \A i \in 1 .. n : nodes[at[n]].next # at[i]
  BY <1>2, <1>3 DEF Visited, Straight
<1>6. at \in [1 .. n -> 1 .. n]
  BY <1>1, <1>2, <1>3, <1>4, VisitedAreNodes
<1>7. at \in Injection(1 .. n, 1 .. n)
  BY <1>5, <1>6 DEF Injection, IsInjective
<1>8. at \in Surjection(1 .. n, 1 .. n)
  <2>1. PICK S : S = 1 .. n
    OBVIOUS
  <2>2. IsFiniteSet(S) /\ at \in Injection(S, S)
    BY <1>3, <1>7, <2>1, FS_Interval
  <2> QED BY <2>1, <2>2, FS_Injection
<1>9. nodes[at[n]].next \in 1 .. n
  BY <1>2, <1>3, <1>6
<1> QED BY <1>5, <1>8, <1>9 DEF Surjection

\* The walk comes to its first node, and to the next node of any it comes to.
LEMMA WalkGoesOn ==
    ASSUME NEW nodes \in Graphs
    PROVE  /\ 1 \in Visited(nodes)
           /\ \A k \in Visited(nodes) :
                  Straight(nodes) /\ nodes[Walk(nodes)[k]].next # 0 =>
                      k + 1 \in Visited(nodes)
<1>1. PICK n : n = Len(nodes)
  OBVIOUS
<1>2. PICK at : at = Walk(nodes)
  OBVIOUS
<1>3. n \in Nat \ {0} /\ DOMAIN nodes = 1 .. n
  BY <1>1, GraphsAssumption, EmptySeq, LenProperties
<1>4. 1 \in Visited(nodes)
  BY <1>3, WalkUnfolds DEF Visited
<1>5. ASSUME NEW k \in Visited(nodes), Straight(nodes), nodes[at[k]].next # 0
      PROVE  k + 1 \in Visited(nodes)
  <2>1. /\ k \in 1 .. n /\ at[k] # 0
        /\ \A i, j \in 1 .. k : at[i] = at[j] => i = j
        /\ \A i \in 1 .. k : nodes[at[k]].next # at[i]
    BY <1>2, <1>3, <1>5 DEF Visited, Straight
  <2>2. k # n
    BY <1>1, <1>2, <1>5, WalksAreShort
  <2>3. k + 1 \in 1 .. n /\ at[k + 1] = nodes[at[k]].next
    BY <1>1, <1>2, <1>3, <2>1, <2>2, WalkUnfolds
  <2>4. \A i \in 1 .. (k + 1) : i \in 1 .. k \/ i = k + 1
    BY <2>1
  <2>5. \A i, j \in 1 .. (k + 1) : at[i] = at[j] => i = j
    BY <2>1, <2>3, <2>4
  <2> QED BY <1>2, <1>3, <1>5, <2>3, <2>5 DEF Visited
<1> QED BY <1>2, <1>4, <1>5

\* A node is come to once.
LEMMA WalkMeetsOnce ==
    ASSUME NEW nodes, NEW j \in Visited(nodes), NEW k \in Visited(nodes),
           nodes \in Graphs, Walk(nodes)[j] = Walk(nodes)[k]
    PROVE  j = k
<1>1. DOMAIN nodes = 1 .. Len(nodes) /\ Len(nodes) \in Nat
  BY GraphsAssumption, LenProperties
<1>2. j \in 1 .. Len(nodes) /\ k \in 1 .. Len(nodes)
  BY <1>1 DEF Visited
<1>3. (j \in 1 .. k /\ k \in 1 .. k) \/ (j \in 1 .. j /\ k \in 1 .. j)
  BY <1>2
<1> QED BY <1>3 DEF Visited

-----------------------------------------------------------------------------
(* One process: the capsule keeps up with the cursor *)

\* The validated walk comes to the node of g with the capsule in state s ...
Arrives(g, s) ==
    /\ FitsBrief(g.graph_hash)
    /\ \E k \in Visited(g.graph_hash) :
           Walk(g.graph_hash)[k] = g.node /\ Expected(g.graph_hash)[k] = s

\* ... or has just left it with the capsule in state s.
Left(g, s) == \E t : Arrives(g, t) /\ s = Leaves(g.graph_hash[g.node], t)

Stands(at, g, s) ==
    IF at = "passing" \/ g.status = "complete" THEN Left(g, s) ELSE Arrives(g, s)

\* Writes that do not say that the brief has no such move.
Possible == {w \in GraphWrite : ~(w.table = "non_conformance_records"
                                  /\ w.value.kind = "NO_VALID_PATH")}

\* The capsule that memory m will leave is where the walk has it.
Keeps(m, g, cap, recs) ==
    /\ \E c : LeadsTo(m.todo, "capsules", cap, c) /\ Stands(m.at, Current(m, g), c.state)
    /\ m.todo \in Seq(Possible)
    /\ \A n \in recs : n.kind # "NO_VALID_PATH"

CursorInv(p) ==
    /\ AgreeInv(p)
    /\ ~lost /\ (graph # None \/ runner[p].at # "idle") =>
           Keeps(runner[p], graph, capsule, records)

\* Where the capsule is expected depends on the place of the cursor only.
LEMMA PlaceIsKept ==
    ASSUME NEW g, NEW h, SamePlace(g, h), NEW s
    PROVE  /\ Arrives(g, s) <=> Arrives(h, s)
           /\ Left(g, s) <=> Left(h, s)
<1>1. h.graph_hash = g.graph_hash /\ h.node = g.node
  BY DEF SamePlace
<1>2. \A t : Arrives(g, t) <=> Arrives(h, t)
  BY <1>1 DEF Arrives
<1> QED BY <1>1, <1>2 DEF Left

\* A graph that fits its brief is at its first node with a new capsule.
LEMMA WalkBegins ==
    ASSUME NEW nodes \in Graphs, FitsBrief(nodes), NEW g, g.graph_hash = nodes, g.node = 1
    PROVE  Arrives(g, Initial)
BY WalkGoesOn, WalkUnfolds, ExpectedUnfolds DEF Arrives

\* The next node finds the capsule where the last one left it.
LEMMA NextArrives ==
    ASSUME NEW g \in GraphRunState, Straight(g.graph_hash), NEW s, Left(g, s), After(g) # 0,
           NEW h, h.graph_hash = g.graph_hash, h.node = After(g)
    PROVE  Arrives(h, s)
<1>1. PICK nodes : nodes = g.graph_hash
  OBVIOUS
<1>2. nodes \in Graphs
  BY <1>1, NodeFields
<1>3. PICK t : Arrives(g, t) /\ s = Leaves(nodes[g.node], t)
  BY <1>1 DEF Left
<1>4. PICK k \in Visited(nodes) : Walk(nodes)[k] = g.node /\ Expected(nodes)[k] = t
  BY <1>1, <1>3 DEF Arrives
<1>5. k + 1 \in Visited(nodes) /\ k \in DOMAIN nodes /\ k # Len(nodes) /\ g.node # 0
  <2>1. nodes[Walk(nodes)[k]].next # 0
    BY <1>1, <1>4 DEF After
  <2>2. k + 1 \in Visited(nodes) /\ k # Len(nodes)
    BY <1>1, <1>2, <2>1, WalkGoesOn, WalksAreShort
  <2> QED BY <1>4, <2>2 DEF Visited
<1>6. Walk(nodes)[k + 1] = After(g)
  BY <1>1, <1>2, <1>4, <1>5, WalkUnfolds DEF After
<1>7. Expected(nodes)[k + 1] = s
  BY <1>2, <1>3, <1>4, <1>5, ExpectedUnfolds
<1> QED BY <1>1, <1>3, <1>5, <1>6, <1>7 DEF Arrives

\* A validated node that moves the capsule finds a transition to move it by.
LEMMA MoveExists ==
    ASSUME NEW g, NEW s, Arrives(g, s), g.graph_hash[g.node].to # None
    PROVE  Matching(s, g.graph_hash[g.node].to) # {}
BY DEF Arrives, FitsBrief

-----------------------------------------------------------------------------
(* The writes of the operations, and the steps *)

\* Writes of rows are possible, but for a breach of that kind.
LEMMA PossibleTypes ==
    /\ \A c \in ProcessCapsule : SaveCapsule(c) \in Possible
    /\ \A r \in RuntimeState : SaveRun(r) \in Possible
    /\ \A e \in Event : RecordEvent(e) \in Possible
    /\ \A n \in NonConformanceRecord : n.kind # "NO_VALID_PATH" => SaveRecord(n) \in Possible
    /\ \A g \in GraphRunState : SaveGraphRun(g) \in Possible
<1>1. Write \subseteq GraphWrite
  BY DEF GraphWrite
<1> QED BY <1>1, WriteTypes, GraphWriteTypes, GraphTables DEF Possible

\* Only a move the brief does not have is written down as one.
LEMMA PossibleSeries ==
    /\ StartWrites \in Seq(Possible)
    /\ \A c \in ProcessCapsule, r \in RuntimeState, to \in States, ev \in Evidence :
           Matching(c.state, to) # {} => Advance(c, r, to, ev).writes \in Seq(Possible)
    /\ \A c \in ProcessCapsule, r \in RuntimeState :
           MarkNonConformance(c, r).writes \in Seq(Possible)
<1>1. StartWrites \in Seq(Possible)
  <2>1. Entry("created", None, Initial, 0) \in Event
    BY BriefAssumption DEF Entry, Event, Evidence
  <2> QED BY <2>1, StartTypes, PossibleTypes, SeriesTypes DEF StartWrites
<1>2. ASSUME NEW c \in ProcessCapsule, NEW r \in RuntimeState, NEW to \in States,
             NEW ev \in Evidence
      PROVE  /\ RefuseMissingEvidence(c, r, to).writes \in Seq(Possible)
             /\ PerformTransition(c, r, to, ev).writes \in Seq(Possible)
             /\ MarkNonConformance(c, r).writes \in Seq(Possible)
  <2>1. /\ Entry("refused", c.state, to, 0) \in Event
        /\ Entry("moved", c.state, to, ev) \in Event
        /\ Entry("rejected", c.state, c.state, c.evidence) \in Event
    BY CapsuleTypes, EntryTypes DEF Evidence
  <2>2. /\ Breach("MISSING_EVIDENCE", c.state, to) \in NonConformanceRecord
        /\ Breach("REVIEW_REJECTED", c.state, None) \in NonConformanceRecord
    BY CapsuleTypes, BreachTypes
  <2>3. /\ Breach("MISSING_EVIDENCE", c.state, to).kind # "NO_VALID_PATH"
        /\ Breach("REVIEW_REJECTED", c.state, None).kind # "NO_VALID_PATH"
    BY DEF Breach
  <2>4. RefuseMissingEvidence(c, r, to).writes \in Seq(Possible)
    BY <2>1, <2>2, <2>3, PossibleTypes, SeriesTypes DEF RefuseMissingEvidence
  <2>5. PerformTransition(c, r, to, ev).writes \in Seq(Possible)
    BY <2>1, MovedTypes, RunTypes, PossibleTypes, SeriesTypes DEF PerformTransition
  <2>6. MarkNonConformance(c, r).writes \in Seq(Possible)
    BY <2>1, <2>2, <2>3, CapsuleTypes, RunTypes, PossibleTypes, SeriesTypes
    DEF MarkNonConformance, Rejection, RejectionRecord
  <2> QED BY <2>4, <2>5, <2>6
<1>3. ASSUME NEW c \in ProcessCapsule, NEW r \in RuntimeState, NEW to \in States,
             NEW ev \in Evidence, Matching(c.state, to) # {}
      PROVE  Advance(c, r, to, ev).writes \in Seq(Possible)
  <2>1. \/ Advance(c, r, to, ev) = RefuseMissingEvidence(c, r, to)
        \/ Advance(c, r, to, ev) = PerformTransition(c, r, to, ev)
    BY <1>3 DEF Advance
  <2> QED BY <1>2, <2>1
<1>4. \A c \in ProcessCapsule, r \in RuntimeState :
          MarkNonConformance(c, r).writes \in Seq(Possible)
  <2>1. Initial \in States /\ 0 \in Evidence
    BY BriefAssumption DEF Evidence
  <2> QED BY <1>2, <2>1
<1> QED BY <1>1, <1>3, <1>4

\* The writes of an approval are a flag, if there is one, and the run.
LEMMA ApprovalIsPossible ==
    ASSUME NEW m, m.run \in RuntimeState, capsule \in ProcessCapsule
    PROVE  Approval(m) \in Seq(Possible)
<1> DEFINE flag == Flag(capsule)
           save == SaveRun(ResolveGate(m.run, TRUE))
           flagged == IF m.decision = "FLAG" THEN <<flag>> ELSE <<>>
<1>1. save \in Possible
  BY RunTypes, PossibleTypes
<1>2. flag \in Possible
  BY CapsuleTypes, EntryTypes, PossibleTypes DEF Flag
<1>3. Approval(m) = flagged \o <<save>>
  BY DEF Approval
<1> HIDE DEF flag, save
<1>4. flagged \in Seq(Possible) /\ <<save>> \in Seq(Possible)
  BY <1>1, <1>2, SeriesTypes, EmptySeries
<1> QED BY <1>3, <1>4, ConcatProperties

\* With nothing left to write, the row itself is where the walk has it.
LEMMA RestKeeps ==
    ASSUME NEW p \in Runners, CursorInv(p), ~lost, NEW m, m = runner[p],
           m.todo = <<>>, graph # None \/ m.at # "idle"
    PROVE  /\ Stands(m.at, Current(m, graph), capsule.state)
           /\ \A n \in records : n.kind # "NO_VALID_PATH"
<1>1. Keeps(m, graph, capsule, records)
  BY DEF CursorInv
<1>2. PICK c : /\ LeadsTo(m.todo, "capsules", capsule, c)
               /\ Stands(m.at, Current(m, graph), c.state)
  BY <1>1 DEF Keeps
<1>3. capsule = c
  BY <1>2, LeadsNowhere
<1> QED BY <1>1, <1>2, <1>3 DEF Keeps

\* A memory with nothing to write keeps up if the row does.
LEMMA QuietKeeps ==
    ASSUME NEW n, n.todo = <<>>, NEW g, NEW cap, NEW recs,
           Stands(n.at, Current(n, g), cap.state),
           \A x \in recs : x.kind # "NO_VALID_PATH"
    PROVE  Keeps(n, g, cap, recs)
<1>1. LeadsTo(n.todo, "capsules", cap, cap)
  BY LeadsNowhere
<1> QED BY <1>1, EmptySeries DEF Keeps

\* The frame of a step that sets the memory of the process.
LEMMA CursorFrame ==
    ASSUME NEW p \in Runners, CursorInv(p), AgreeInv(p)', UNCHANGED rows,
           NEW n, Become(p, n), ~lost' => Keeps(n, graph, capsule, records)
    PROVE  CursorInv(p)'
<1>1. runner'[p] = n
  BY DEF Become, CursorInv, AgreeInv, FollowInv, TypeInv, TypeOK
<1>2. graph' = graph /\ capsule' = capsule /\ records' = records
  BY DEF rows
<1>3. ~lost' => Keeps(runner[p], graph, capsule, records)'
  BY <1>1, <1>2 DEF Keeps, LeadsTo, Stands, Arrives, Left, Current
<1> QED BY <1>3 DEF CursorInv

\* A step that saves a checkpoint keeps up if the writes before it do.
LEMMA CheckpointKeeps ==
    ASSUME NEW p \in Runners, CursorInv(p), AgreeInv(p)', UNCHANGED rows,
           NEW m \in Runner, NEW g, NEW before \in Seq(Possible),
           Become(p, Checkpoint(m, g, before)),
           ~lost' => \E c : /\ LeadsTo(before, "capsules", capsule, c)
                            /\ Stands("stepping", g, c.state),
           ~lost' => \A n \in records : n.kind # "NO_VALID_PATH"
    PROVE  CursorInv(p)'
<1>1. PICK n : n = Checkpoint(m, g, before)
  OBVIOUS
<1>2. n.at = "stepping" /\ n.graph = g /\ n.todo = before \o <<SaveGraphRun(g)>>
  BY <1>1 DEF Checkpoint, Runner
<1>3. runner'[p] = n
  BY <1>1 DEF Become, CursorInv, AgreeInv, FollowInv, TypeInv, TypeOK
<1>4. g \in GraphRunState
  BY <1>2, <1>3 DEF AgreeInv, FollowInv, TypeInv, Holding, Countable
<1>5. <<SaveGraphRun(g)>> \in Seq(Possible)
  BY <1>4, PossibleTypes, SeriesTypes
<1>6. PICK last : last = <<SaveGraphRun(g)>>
  OBVIOUS
<1>7. \A row : LeadsTo(last, "capsules", row, row)
  BY <1>6, GraphTables DEF LeadsTo
<1>8. \A row, x : LeadsTo(before, "capsules", row, x) =>
                      LeadsTo(before \o last, "capsules", row, x)
  BY <1>5, <1>6, <1>7, LeadsOn
<1>9. before \o last \in Seq(Possible)
  BY <1>5, <1>6, ConcatProperties
<1>10. ~lost' => Keeps(n, graph, capsule, records)
  BY <1>2, <1>6, <1>8, <1>9 DEF Keeps, Current, Stands
<1> QED BY <1>1, <1>10, CursorFrame

\* The steps at the head of the loop leave cursor and capsule alone.
LEMMA HeadOfLoopKeeps ==
    ASSUME NEW p \in Runners, CursorInv(p), AgreeInv(p)',
           PauseAtGate(p) \/ Exhaust(p) \/ Retry(p)
    PROVE  CursorInv(p)'
<1>1. PICK m : m = runner[p]
  OBVIOUS
<1>2. /\ m.at = "stepping" /\ m.todo = <<>> /\ m.graph.status = "running"
      /\ UNCHANGED rows /\ lost' = lost
  BY <1>1 DEF PauseAtGate, Exhaust, Retry, Stepping, Ready
<1>3. TypeInv
  BY DEF CursorInv, AgreeInv, FollowInv
<1>4. m \in Runner /\ run \in RuntimeState /\ m.graph \in GraphRunState
  BY <1>1, <1>2, <1>3, ReadyFinds DEF TypeInv, Holding
<1>5. ~lost => /\ Arrives(m.graph, capsule.state)
               /\ \A n \in records : n.kind # "NO_VALID_PATH"
  <2>1. ~lost => /\ Stands(m.at, Current(m, graph), capsule.state)
                 /\ \A n \in records : n.kind # "NO_VALID_PATH"
    BY <1>1, <1>2, RestKeeps
  <2> QED BY <1>2, <2>1 DEF Stands, Current
<1>6. PICK g, before : /\ Become(p, Checkpoint(m, g, before))
                       /\ SamePlace(m.graph, g) /\ g.status # "complete"
                       /\ before \in Seq(Possible)
                       /\ LeadsTo(before, "capsules", capsule, capsule)
  <2>1. /\ <<SaveRun(EnterHumanReview(run))>> \in Seq(Possible)
        /\ <<SaveRun(BlockRun(run))>> \in Seq(Possible)
    BY <1>4, RunTypes, PossibleTypes, SeriesTypes
  <2>2. \A r : LeadsTo(<<SaveRun(r)>>, "capsules", capsule, capsule)
    BY SaveRunLeads
  <2>3. CASE PauseAtGate(p)
    <3>1. PICK g : g = Status(m.graph, "paused_human")
      OBVIOUS
    <3>2. SamePlace(m.graph, g) /\ g.status # "complete"
      BY <1>4, <3>1 DEF GraphRunState, Status, SamePlace
    <3> QED BY <1>1, <2>1, <2>2, <2>3, <3>1, <3>2 DEF PauseAtGate
  <2>4. CASE Exhaust(p)
    <3>1. PICK n : n = m.graph.attempts + 1
      OBVIOUS
    <3>2. PICK h : h = Status(m.graph, "blocked")
      OBVIOUS
    <3>3. PICK g : g = [h EXCEPT !.attempts = n]
      OBVIOUS
    <3>4. h.status = "blocked" /\ SamePlace(m.graph, h) /\ h \in GraphRunState
      BY <1>4, <3>2 DEF GraphRunState, Status, SamePlace, GraphStatus
    <3>5. SamePlace(m.graph, g) /\ g.status # "complete"
      BY <3>3, <3>4 DEF GraphRunState, SamePlace
    <3>6. Become(p, Checkpoint(m, g, <<SaveRun(BlockRun(run))>>))
      BY <1>1, <2>4, <3>1, <3>2, <3>3 DEF Exhaust
    <3> QED BY <2>1, <2>2, <3>5, <3>6
  <2>5. CASE Retry(p)
    <3>1. PICK n : n = m.graph.attempts + 1
      OBVIOUS
    <3>2. PICK g : g = [m.graph EXCEPT !.attempts = n]
      OBVIOUS
    <3>3. SamePlace(m.graph, g) /\ g.status # "complete"
      BY <1>2, <1>4, <3>2 DEF GraphRunState, SamePlace
    <3>4. Become(p, Checkpoint(m, g, <<>>))
      BY <1>1, <2>5, <3>1, <3>2 DEF Retry
    <3> QED BY <3>3, <3>4, EmptySeries, LeadsNowhere
  <2> QED BY <2>3, <2>4, <2>5
<1>7. ~lost => Stands("stepping", g, capsule.state)
  BY <1>5, <1>6, PlaceIsKept DEF Stands
<1> QED BY <1>2, <1>4, <1>5, <1>6, <1>7, CheckpointKeeps

\* The cursor moves on to a node that expects the capsule as it is.
LEMMA MoveToNextKeeps ==
    ASSUME NEW p \in Runners, \A nodes \in Graphs : Straight(nodes),
           CursorInv(p), AgreeInv(p)', MoveToNext(p)
    PROVE  CursorInv(p)'
<1>1. PICK m : m = runner[p]
  OBVIOUS
<1>2. m.at = "passing" /\ m.todo = <<>> /\ UNCHANGED rows /\ lost' = lost
  BY <1>1 DEF MoveToNext, Ready
<1>3. TypeInv /\ Follows(m, graph) /\ AgreeInv(p)
  BY <1>1 DEF CursorInv, AgreeInv, FollowInv
<1>4. /\ m \in Runner /\ m.graph \in GraphRunState /\ m.graph.status = "running"
      /\ Node(p).next = After(m.graph)
  BY <1>1, <1>2, <1>3, ReadyFinds DEF TypeInv, Holding, Follows, NodeOf, After
<1>5. ~lost => /\ Left(m.graph, capsule.state)
               /\ \A n \in records : n.kind # "NO_VALID_PATH"
  <2>1. ~lost => /\ Stands(m.at, Current(m, graph), capsule.state)
                 /\ \A n \in records : n.kind # "NO_VALID_PATH"
    BY <1>1, <1>2, RestKeeps
  <2> QED BY <1>2, <2>1 DEF Stands, Current
<1>6. CASE Node(p).next # 0
  <2>1. PICK h : h = Status(m.graph, "running")
    OBVIOUS
  <2>2. PICK g : g = [h EXCEPT !.node = After(m.graph)]
    OBVIOUS
  <2>3. /\ g.status = "running" /\ g.node = After(m.graph)
        /\ g.graph_hash = m.graph.graph_hash
    BY <1>4, <2>1, <2>2 DEF GraphRunState, Status
  <2>4. Become(p, Checkpoint(m, g, <<>>))
    BY <1>1, <1>4, <1>6, <2>1, <2>2 DEF MoveToNext
  <2>5. ~lost => Stands("stepping", g, capsule.state)
    BY <1>4, <1>5, <1>6, <2>3, NodeFields, NextArrives DEF Stands
  <2> QED BY <1>2, <1>4, <1>5, <2>4, <2>5, LeadsNowhere, EmptySeries, CheckpointKeeps
<1>7. CASE Node(p).next = 0
  <2>1. PICK status : status = IF Frozen(capsule) THEN "failed" ELSE "complete"
    OBVIOUS
  <2>2. PICK g : g = Status(m.graph, status)
    OBVIOUS
  <2>3. g.status = status /\ SamePlace(m.graph, g)
    BY <1>4, <2>2 DEF GraphRunState, Status, SamePlace
  <2>4. Become(p, Checkpoint(m, g, <<>>))
    BY <1>1, <1>7, <2>1, <2>2 DEF MoveToNext
  <2>5. ~lost => ~Frozen(capsule)
    BY <1>1, <1>2, <1>3, <1>4, DrivingAgrees
  <2>6. ~lost => Stands("stepping", g, capsule.state)
    BY <1>5, <2>1, <2>3, <2>5, PlaceIsKept DEF Stands
  <2> QED BY <1>2, <1>4, <1>5, <2>4, <2>6, LeadsNowhere, EmptySeries, CheckpointKeeps
<1> QED BY <1>6, <1>7

\* A rejection freezes the capsule where it is.
LEMMA RejectKeeps ==
    ASSUME NEW p \in Runners, CursorInv(p), AgreeInv(p)', Reject(p)
    PROVE  CursorInv(p)'
<1>1. PICK m : m = runner[p]
  OBVIOUS
<1>2. PICK resolved : resolved = ResolveGate(m.run, FALSE)
  OBVIOUS
<1>3. PICK g : g = Status(m.graph, "failed")
  OBVIOUS
<1>4. PICK rest : rest = MarkNonConformance(capsule, resolved).writes
  OBVIOUS
<1>5. PICK before : before = <<SaveRun(resolved)>> \o rest
  OBVIOUS
<1>6. /\ m.at = "judging" /\ m.todo = <<>> /\ UNCHANGED rows /\ lost' = lost
      /\ Become(p, Checkpoint(m, g, before))
  BY <1>1, <1>2, <1>3, <1>4, <1>5 DEF Reject, Ready
<1>7. TypeInv /\ Follows(m, graph)
  BY <1>1 DEF CursorInv, AgreeInv, FollowInv
<1>8. /\ m \in Runner /\ m.run \in RuntimeState /\ capsule \in ProcessCapsule
      /\ m.graph \in GraphRunState /\ m.graph.status = "paused_human"
  BY <1>1, <1>6, <1>7, ReadyFinds DEF TypeInv, Holding, Follows
<1>9. resolved \in RuntimeState
  BY <1>2, <1>8, RunTypes
<1>10. <<SaveRun(resolved)>> \in Seq(Possible) /\ rest \in Seq(Possible)
  BY <1>4, <1>8, <1>9, PossibleTypes, SeriesTypes, PossibleSeries
<1>11. before \in Seq(Possible)
  BY <1>5, <1>10, ConcatProperties
<1>12. LeadsTo(<<SaveRun(resolved)>>, "capsules", capsule, capsule)
  BY SaveRunLeads
<1>13. LeadsTo(rest, "capsules", capsule, Freeze(capsule))
  BY <1>4, RejectionLeads
<1>14. LeadsTo(before, "capsules", capsule, Freeze(capsule))
  BY <1>5, <1>10, <1>12, <1>13, LeadsOn
<1>15. Freeze(capsule).state = capsule.state
  BY <1>8 DEF Freeze, ProcessCapsule
<1>16. g.status = "failed" /\ SamePlace(m.graph, g)
  BY <1>3, <1>8 DEF GraphRunState, Status, SamePlace
<1>17. ~lost => /\ Stands(m.at, Current(m, graph), capsule.state)
                /\ \A n \in records : n.kind # "NO_VALID_PATH"
  BY <1>1, <1>6, RestKeeps
<1>18. ~lost => Arrives(m.graph, capsule.state)
  BY <1>6, <1>8, <1>17 DEF Stands, Current
<1>19. ~lost => Stands("stepping", g, Freeze(capsule).state)
  BY <1>15, <1>16, <1>18, PlaceIsKept DEF Stands
<1> QED BY <1>6, <1>8, <1>11, <1>14, <1>17, <1>19, CheckpointKeeps

\* A start puts the cursor on the first node and the capsule in the first state.
LEMMA StartKeeps ==
    ASSUME NEW p \in Runners, CursorInv(p), AgreeInv(p)', Start(p)
    PROVE  CursorInv(p)'
<1>1. PICK nodes \in Graphs :
          /\ FitsBrief(nodes)
          /\ Become(p, Checkpoint([Idle EXCEPT !.nodes = nodes],
                                  [status |-> "running", graph_hash |-> nodes,
                                   node |-> 1, attempts |-> 0],
                                  StartWrites))
  BY DEF Start
<1>2. PICK g : g = [status |-> "running", graph_hash |-> nodes, node |-> 1, attempts |-> 0]
  OBVIOUS
<1>3. PICK m : m = [Idle EXCEPT !.nodes = nodes]
  OBVIOUS
<1>4. /\ m \in Runner /\ Become(p, Checkpoint(m, g, StartWrites))
      /\ g.status = "running" /\ g.graph_hash = nodes /\ g.node = 1
  BY <1>1, <1>2, <1>3, FreshHolds
<1>5. UNCHANGED rows /\ graph = None /\ runner[p] = Idle /\ lost' = lost
  BY DEF Start
<1>6. ~lost => records = {}
  BY <1>5 DEF CursorInv, AgreeInv, Idle
<1>7. Stands("stepping", g, NewCapsule.state)
  BY <1>1, <1>4, WalkBegins DEF Stands, NewCapsule
<1> QED BY <1>4, <1>5, <1>6, <1>7, PossibleSeries, StartLeads, CheckpointKeeps

\* A resume takes up the checkpoint where it is.
LEMMA ResumeKeeps ==
    ASSUME NEW p \in Runners, CursorInv(p), AgreeInv(p)', Resume(p) \/ ResumeBlocked(p)
    PROVE  CursorInv(p)'
<1>1. /\ runner[p] = Idle /\ graph # None /\ UNCHANGED rows /\ lost' = lost
  BY DEF Resume, ResumeBlocked
<1>2. Idle.at = "idle" /\ Idle.todo = <<>>
  BY DEF Idle
<1>3. TypeInv
  BY DEF CursorInv, AgreeInv, FollowInv
<1>4. ~lost => /\ Stands("idle", graph, capsule.state)
               /\ \A n \in records : n.kind # "NO_VALID_PATH"
  BY <1>1, <1>2, RestKeeps DEF Current
<1>5. CASE Resume(p)
  <2>1. PICK nodes \in Accepted(graph) :
            Become(p, [Idle EXCEPT !.at = "stepping", !.nodes = nodes, !.graph = graph])
    BY <1>5 DEF Resume
  <2>2. PICK n : n = [Idle EXCEPT !.at = "stepping", !.nodes = nodes, !.graph = graph]
    OBVIOUS
  <2>3. n.at = "stepping" /\ n.todo = <<>> /\ n.graph = graph
    BY <2>2 DEF Idle
  <2>4. ~lost => Keeps(n, graph, capsule, records)
    BY <1>4, <2>3, QuietKeeps DEF Current, Stands
  <2> QED BY <1>1, <2>1, <2>2, <2>4, CursorFrame
<1>6. CASE ResumeBlocked(p)
  <2>1. PICK nodes \in Accepted(graph) :
            Become(p, Checkpoint([Idle EXCEPT !.nodes = nodes],
                                 [Status(graph, "running") EXCEPT !.attempts = 0],
                                 IF run.status = "blocked"
                                 THEN <<SaveRun(ResumeRun(run))>> ELSE <<>>))
    BY <1>6 DEF ResumeBlocked
  <2>2. PICK g : g = [Status(graph, "running") EXCEPT !.attempts = 0]
    OBVIOUS
  <2>3. PICK m : m = [Idle EXCEPT !.nodes = nodes]
    OBVIOUS
  <2>4. PICK before : before = IF run.status = "blocked"
                               THEN <<SaveRun(ResumeRun(run))>> ELSE <<>>
    OBVIOUS
  <2>5. /\ graph \in GraphRunState /\ run \in RuntimeState /\ nodes \in Graphs
        /\ graph.status = "blocked"
    BY <1>1, <1>3, <1>6, NodeFields DEF TypeInv, TypeOK, Grounded, Accepted, ResumeBlocked
  <2>6. m \in Runner /\ Become(p, Checkpoint(m, g, before))
    BY <2>1, <2>2, <2>3, <2>4, <2>5, FreshHolds
  <2>7. g.status = "running" /\ SamePlace(graph, g)
    BY <2>2, <2>5, Unblocked DEF SamePlace
  <2>8. before \in Seq(Possible)
    <3>1. <<SaveRun(ResumeRun(run))>> \in Seq(Possible)
      BY <2>5, RunTypes, PossibleTypes, SeriesTypes
    <3> QED BY <2>4, <3>1, EmptySeries
  <2>9. LeadsTo(before, "capsules", capsule, capsule)
    BY <2>4, SaveRunLeads, LeadsNowhere
  <2>10. ~lost => Stands("stepping", g, capsule.state)
    BY <1>4, <2>5, <2>7, PlaceIsKept DEF Stands
  <2> QED BY <1>1, <1>4, <2>6, <2>8, <2>9, <2>10, CheckpointKeeps
<1> QED BY <1>5, <1>6

\* The state machine has a transition for a validated node: it moves the
\* capsule to where the walk leaves it, or asks for evidence.
LEMMA AdvanceNodeKeeps ==
    ASSUME NEW p \in Runners, CursorInv(p), AgreeInv(p)', AdvanceNode(p)
    PROVE  CursorInv(p)'
<1>1. PICK m : m = runner[p]
  OBVIOUS
<1>2. PICK out : out = Advance(m.capsule, run, NodeOf(m).to, Given(m))
  OBVIOUS
<1>3. TypeInv /\ Follows(m, graph) /\ Fresh(m, capsule, run)
  BY <1>1 DEF CursorInv, AgreeInv, FollowInv
<1>4. /\ m.at = "loaded" /\ m.todo = <<>> /\ m \in Runner /\ Countable(m.graph)
      /\ m.graph.graph_hash = m.nodes
      /\ m.capsule \in ProcessCapsule /\ run \in RuntimeState
      /\ NodeOf(m).to \in States /\ Given(m) \in Evidence
      /\ Become(p, IF out.raised
                   THEN Checkpoint(m, Status(m.graph, "failed"), out.writes)
                   ELSE [m EXCEPT !.at = "passing", !.todo = out.writes])
      /\ UNCHANGED rows /\ lost' = lost
  BY <1>1, <1>2, <1>3, AdvanceNodeReads
<1>5. m.capsule = capsule /\ m.graph.status = "running"
  BY <1>3, <1>4 DEF Fresh, Follows
<1>6. PICK to : to = NodeOf(m).to
  OBVIOUS
<1>7. to \in States /\ to # None /\ to = m.graph.graph_hash[m.graph.node].to
  BY <1>4, <1>6, BriefAssumption DEF NodeOf
<1>8. ~lost => /\ Arrives(m.graph, capsule.state)
               /\ \A n \in records : n.kind # "NO_VALID_PATH"
  <2>1. ~lost => /\ Stands(m.at, Current(m, graph), capsule.state)
                 /\ \A n \in records : n.kind # "NO_VALID_PATH"
    BY <1>1, <1>4, RestKeeps
  <2> QED BY <1>4, <1>5, <2>1 DEF Stands, Current
<1>9. ~lost => out.writes \in Seq(Possible)
  <2>1. ~lost => Matching(capsule.state, to) # {}
    BY <1>7, <1>8, MoveExists
  <2> QED BY <1>2, <1>4, <1>5, <1>6, <2>1, PossibleSeries
<1>10. CASE lost
  <2>1. PICK n : Become(p, n)
    BY <1>4
  <2> QED BY <1>4, <1>10, <2>1, CursorFrame
<1>11. CASE ~lost /\ out.raised
  <2>1. PICK g : g = Status(m.graph, "failed")
    OBVIOUS
  <2>2. g.status = "failed" /\ SamePlace(m.graph, g)
    BY <1>4, <2>1 DEF Countable, GraphRunState, Status, SamePlace
  <2>3. PICK d : LeadsTo(out.writes, "capsules", capsule, d) /\ d.state = capsule.state
    BY <1>2, <1>4, <1>5, <1>11, RefusedLeads
  <2>4. Stands("stepping", g, d.state)
    BY <1>8, <1>11, <2>2, <2>3, PlaceIsKept DEF Stands
  <2>5. Become(p, Checkpoint(m, g, out.writes))
    BY <1>4, <1>11, <2>1
  <2> QED BY <1>4, <1>8, <1>9, <1>11, <2>3, <2>4, <2>5, CheckpointKeeps
<1>12. CASE ~lost /\ ~out.raised
  <2>1. PICK n : n = [m EXCEPT !.at = "passing", !.todo = out.writes]
    OBVIOUS
  <2>2. Become(p, n) /\ n.at = "passing" /\ n.graph = m.graph /\ n.todo = out.writes
    BY <1>4, <1>12, <2>1 DEF Runner
  <2>3. PICK d : LeadsTo(out.writes, "capsules", capsule, d) /\ d.state = to
    BY <1>2, <1>4, <1>5, <1>6, <1>12, MoveLeads
  <2>4. Left(m.graph, d.state)
    BY <1>7, <1>8, <1>12, <2>3 DEF Left, Leaves
  <2>5. Keeps(n, graph, capsule, records)
    BY <1>8, <1>9, <1>12, <2>2, <2>3, <2>4 DEF Keeps, Stands, Current
  <2> QED BY <1>4, <2>2, <2>5, CursorFrame
<1> QED BY <1>10, <1>11, <1>12

\* An approval goes on from where the graph paused.
LEMMA ApproveKeeps ==
    ASSUME NEW p \in Runners, CursorInv(p), AgreeInv(p)', Approve(p)
    PROVE  CursorInv(p)'
<1>1. PICK m : m = runner[p]
  OBVIOUS
<1>2. TypeInv /\ Follows(m, graph)
  BY <1>1 DEF CursorInv, AgreeInv, FollowInv
<1>3. m.at = "judging" /\ m.todo = <<>> /\ m \in Runner /\ UNCHANGED rows /\ lost' = lost
  BY <1>1, <1>2 DEF Approve, Ready, TypeInv, TypeOK
<1>4. /\ m.run \in RuntimeState /\ capsule \in ProcessCapsule /\ m.graph \in GraphRunState
      /\ m.graph.status = "paused_human"
      /\ Node(p) = m.graph.graph_hash[m.graph.node]
  BY <1>1, <1>2, <1>3, ReadyFinds DEF TypeInv, Holding, Follows, NodeOf
<1>5. ~lost => /\ Arrives(m.graph, capsule.state)
               /\ \A n \in records : n.kind # "NO_VALID_PATH"
  <2>1. ~lost => /\ Stands(m.at, Current(m, graph), capsule.state)
                 /\ \A n \in records : n.kind # "NO_VALID_PATH"
    BY <1>1, <1>3, RestKeeps
  <2> QED BY <1>3, <1>4, <2>1 DEF Stands, Current
<1>6. PICK h : h = Status(m.graph, "running")
  OBVIOUS
<1>7. h.status = "running" /\ SamePlace(m.graph, h)
  BY <1>4, <1>6 DEF GraphRunState, Status, SamePlace
<1>8. PICK ws : ws = Approval(m)
  OBVIOUS
<1>9. LeadsTo(ws, "capsules", capsule, capsule) /\ ws \in Seq(Possible)
  BY <1>4, <1>8, ApprovalLeads, ApprovalIsPossible
<1>10. PICK n : n = [m EXCEPT !.at = AfterSuccess(Node(p)), !.run = None,
                              !.graph = h, !.todo = ws]
  OBVIOUS
<1>11. n.at = AfterSuccess(Node(p)) /\ n.graph = h /\ n.todo = ws /\ n.at # "idle"
  BY <1>3, <1>10 DEF Runner, AfterSuccess
<1>12. Become(p, n)
  BY <1>1, <1>6, <1>8, <1>10 DEF Approve, Approval
<1>13. ~lost => Stands(n.at, h, capsule.state)
  BY <1>4, <1>5, <1>7, <1>11, PlaceIsKept DEF Stands, AfterSuccess, Left, Leaves
<1>14. ~lost => Keeps(n, graph, capsule, records)
  BY <1>5, <1>9, <1>11, <1>13 DEF Keeps, Current
<1> QED BY <1>3, <1>12, <1>14, CursorFrame

\* Between checkpoints a process reads, or finds that its node moves nothing.
LEMMA StayKeeps ==
    ASSUME NEW p \in Runners, CursorInv(p), AgreeInv(p)',
           Succeed(p) \/ LoadCapsule(p) \/ AskHuman(p) \/ Decide(p)
    PROVE  CursorInv(p)'
<1>1. PICK m : m = runner[p]
  OBVIOUS
<1>2. /\ m.todo = <<>> /\ m.at \in {"stepping", "advancing", "prompt"}
      /\ UNCHANGED rows /\ lost' = lost
  BY <1>1 DEF Succeed, LoadCapsule, AskHuman, Decide, Stepping, AtPausedGate, Ready
<1>3. TypeInv
  BY DEF CursorInv, AgreeInv, FollowInv
<1>4. /\ m \in Runner /\ m.graph \in GraphRunState
      /\ Node(p) = m.graph.graph_hash[m.graph.node]
  BY <1>1, <1>2, <1>3, ReadyFinds DEF TypeInv, Holding, NodeOf
<1>5. ~lost => /\ Stands("stepping", m.graph, capsule.state)
               /\ \A n \in records : n.kind # "NO_VALID_PATH"
  BY <1>1, <1>2, RestKeeps DEF Current, Stands
<1>6. CASE Succeed(p)
  <2>1. PICK shown : Become(p, [m EXCEPT !.at = AfterSuccess(Node(p)), !.shown = shown,
                                          !.graph.attempts = 0])
    BY <1>1, <1>6 DEF Succeed
  <2>2. PICK n : n = [m EXCEPT !.at = AfterSuccess(Node(p)), !.shown = shown,
                                !.graph.attempts = 0]
    OBVIOUS
  <2>3. /\ n.todo = <<>> /\ n.at = AfterSuccess(Node(p)) /\ n.at \in {"advancing", "passing"}
        /\ n.graph = [m.graph EXCEPT !.attempts = 0]
    BY <1>2, <1>4, <2>2 DEF Runner, AfterSuccess
  <2>4. n.graph.status = m.graph.status /\ SamePlace(m.graph, n.graph)
    BY <1>4, <2>3 DEF GraphRunState, SamePlace
  <2>5. m.graph.status = "running"
    BY <1>1, <1>6 DEF Succeed, Stepping
  <2>6. ~lost => Arrives(m.graph, capsule.state)
    BY <1>5, <2>5 DEF Stands
  <2>7. ~lost => Stands(n.at, n.graph, capsule.state)
    <3>1. CASE Node(p).to = None
      <4>1. ~lost => Left(m.graph, capsule.state)
        BY <1>4, <2>6, <3>1 DEF Left, Leaves
      <4> QED BY <2>3, <2>4, <3>1, <4>1, PlaceIsKept DEF Stands, AfterSuccess
    <3>2. CASE Node(p).to # None
      BY <2>3, <2>4, <2>5, <2>6, <3>2, PlaceIsKept DEF Stands, AfterSuccess
    <3> QED BY <3>1, <3>2
  <2>8. ~lost => Keeps(n, graph, capsule, records)
    BY <1>5, <2>3, <2>7, QuietKeeps DEF Current
  <2> QED BY <1>2, <2>1, <2>2, <2>8, CursorFrame
<1>7. CASE LoadCapsule(p) \/ AskHuman(p) \/ Decide(p)
  <2>1. PICK decision, shown :
            \/ Become(p, [m EXCEPT !.at = "loaded", !.capsule = capsule])
            \/ Become(p, [m EXCEPT !.at = "prompt", !.capsule = capsule])
            \/ Become(p, [m EXCEPT !.at = "judging", !.capsule = None, !.run = run,
                                   !.decision = decision, !.shown = shown])
    BY <1>1, <1>7 DEF LoadCapsule, AskHuman, Decide
  <2>2. PICK n : /\ Become(p, n)
                 /\ \/ n = [m EXCEPT !.at = "loaded", !.capsule = capsule]
                    \/ n = [m EXCEPT !.at = "prompt", !.capsule = capsule]
                    \/ n = [m EXCEPT !.at = "judging", !.capsule = None, !.run = run,
                                     !.decision = decision, !.shown = shown]
    BY <2>1
  <2>3. /\ n.at \in {"loaded", "prompt", "judging"} /\ n.todo = <<>>
        /\ n.graph = m.graph
    BY <1>2, <1>4, <2>2 DEF Runner
  <2>4. ~lost => Keeps(n, graph, capsule, records)
    BY <1>5, <2>3, QuietKeeps DEF Current, Stands
  <2> QED BY <1>2, <2>2, <2>4, CursorFrame
<1> QED BY <1>6, <1>7

\* A process that ends at its checkpoint leaves the rows as it found them.
LEMMA EndKeeps ==
    ASSUME NEW p \in Runners, CursorInv(p), AgreeInv(p)',
           RefuseGate(p) \/ Leave(p) \/ Die(p)
    PROVE  CursorInv(p)'
<1>1. PICK m : m = runner[p]
  OBVIOUS
<1>2. Become(p, Idle) /\ UNCHANGED rows /\ m # Idle
  <2>1. Become(p, Idle) /\ UNCHANGED rows
    BY DEF RefuseGate, Leave, Die
  <2>2. m # Idle
    <3>1. m.at = "stepping" \/ m # Idle
      BY <1>1 DEF RefuseGate, Leave, Die, AtPausedGate, Ready
    <3> QED BY <3>1 DEF Idle
  <2> QED BY <2>1, <2>2
<1>3. Holding(m) /\ Follows(m, graph)
  BY <1>1 DEF CursorInv, AgreeInv, FollowInv, TypeInv
<1>4. m.at # "idle"
  BY <1>2, <1>3 DEF Holding
<1>5. ~lost' => /\ ~lost /\ m.todo = <<>>
                /\ m.at \in {"stepping", "prompt", "judging"}
  <2>1. m.at \in Places
    BY <1>3 DEF Holding, Runner
  <2>2. CASE RefuseGate(p) \/ Leave(p)
    BY <1>1, <2>2 DEF RefuseGate, Leave, AtPausedGate, Ready
  <2>3. CASE Die(p)
    BY <1>1, <1>4, <2>1, <2>3 DEF Die, Places
  <2> QED BY <2>2, <2>3
<1>6. Idle.at = "idle" /\ Idle.todo = <<>>
  BY DEF Idle
<1>7. ~lost' => Keeps(Idle, graph, capsule, records)
  <2> SUFFICES ASSUME ~lost' PROVE Keeps(Idle, graph, capsule, records)
    OBVIOUS
  <2>1. m.graph = graph
    BY <1>3, <1>5 DEF Follows
  <2>2. /\ Stands(m.at, graph, capsule.state)
        /\ \A n \in records : n.kind # "NO_VALID_PATH"
    BY <1>1, <1>4, <1>5, <2>1, RestKeeps DEF Current
  <2> QED BY <1>5, <1>6, <2>2, QuietKeeps DEF Current, Stands
<1> QED BY <1>2, <1>7, CursorFrame

\* A write that reaches its row leaves what the rest of the writes lead to.
LEMMA CommitKeeps ==
    ASSUME NEW p \in Runners, CursorInv(p), AgreeInv(p)', Commit(p)
    PROVE  CursorInv(p)'
<1>1. PICK m, w, n : Commits(p, m, w, n)
  BY CommitReads DEF CursorInv, AgreeInv
<1>2. /\ m = runner[p] /\ w = Head(m.todo) /\ n.todo = Tail(m.todo) /\ m.todo # <<>>
      /\ n.at = m.at /\ n.graph = m.graph /\ runner'[p] = n /\ m \in Runner
      /\ m.at # "idle" /\ lost' = lost
  BY <1>1 DEF Commits
<1>3. PICK ws : ws = m.todo
  OBVIOUS
<1>4. PICK vs : vs = Tail(ws)
  OBVIOUS
<1>5. ws \in Seq(GraphWrite) /\ ws # <<>> /\ w = Head(ws)
  BY <1>2, <1>3 DEF Runner
<1>6. \A row, last : LeadsTo(ws, "capsules", row, last) =>
          LeadsTo(vs, "capsules", IF w.table = "capsules" THEN w.value ELSE row, last)
  BY <1>4, <1>5, LeadsAfterFirst
<1>7. ws \in Seq(Possible) => w \in Possible /\ vs \in Seq(Possible)
  BY <1>4, <1>5, FirstAndRest
<1>8. /\ capsule' = IF w.table = "capsules" THEN w.value ELSE capsule
      /\ \/ records' = records
         \/ w.table = "non_conformance_records" /\ records' = records \cup {w.value}
  BY <1>2 DEF Commit, CommitCapsule, CommitRun, CommitEvent, CommitRecord,
     CommitGraph, Committing
<1>9. PICK cap : cap = capsule'
  OBVIOUS
<1>10. PICK recs : recs = records'
  OBVIOUS
<1>11. PICK g : g = graph'
  OBVIOUS
<1>12. ASSUME ~lost
       PROVE  Keeps(n, g, cap, recs)
  <2>1. Keeps(m, graph, capsule, records)
    BY <1>2, <1>12 DEF CursorInv
  <2>2. PICK c : LeadsTo(ws, "capsules", capsule, c) /\ Stands(m.at, m.graph, c.state)
    BY <1>2, <1>3, <2>1 DEF Keeps, Current
  <2>3. LeadsTo(vs, "capsules", cap, c)
    BY <1>6, <1>8, <1>9, <2>2
  <2>4. w \in Possible /\ vs \in Seq(Possible)
    BY <1>3, <1>7, <2>1 DEF Keeps
  <2>5. \A x \in recs : x.kind # "NO_VALID_PATH"
    BY <1>8, <1>10, <2>1, <2>4 DEF Keeps, Possible
  <2> QED BY <1>2, <1>3, <1>4, <2>2, <2>3, <2>4, <2>5 DEF Keeps, Current
<1>13. ~lost => Keeps(runner'[p], graph', capsule', records')
  BY <1>2, <1>9, <1>10, <1>11, <1>12
<1>14. ~lost => Keeps(runner[p], graph, capsule, records)'
  BY <1>13 DEF Keeps, LeadsTo, Stands, Arrives, Left, Current
<1> QED BY <1>2, <1>14 DEF CursorInv

\* Every step keeps the capsule with the cursor.
LEMMA NextKeeps ==
    ASSUME NEW p, Runners = {p}, \A nodes \in Graphs : Straight(nodes),
           CursorInv(p), [Next]_vars
    PROVE  CursorInv(p)'
<1>1. AgreeInv(p)'
  BY NextAgrees DEF CursorInv
<1>2. CASE UNCHANGED vars
  BY <1>1, <1>2 DEF vars, CursorInv, Keeps, LeadsTo, Stands, Arrives, Left, Current
<1>3. CASE Next
  <2>1. \/ RunnerStep(p)
        \/ Start(p) \/ ResumeBlocked(p) \/ Resume(p) \/ Decide(p) \/ Die(p)
    BY <1>3 DEF Next
  <2> QED BY <1>1, <2>1, CommitKeeps, HeadOfLoopKeeps, MoveToNextKeeps, RejectKeeps,
             StartKeeps, AdvanceNodeKeeps, ApproveKeeps, StayKeeps, EndKeeps,
             ResumeKeeps DEF RunnerStep
<1> QED BY <1>2, <1>3

\* The capsule keeps up with the cursor in every behaviour.
LEMMA CursorHolds ==
    ASSUME NEW p, Runners = {p}, \A nodes \in Graphs : Straight(nodes)
    PROVE  Spec => []CursorInv(p)
<1>1. Init => CursorInv(p)
  <2> SUFFICES ASSUME Init PROVE CursorInv(p)
    OBVIOUS
  <2>1. graph = None /\ runner[p].at = "idle"
    BY DEF Init, Idle
  <2> QED BY <2>1, InitAgrees DEF CursorInv
<1>2. CursorInv(p) /\ [Next]_vars => CursorInv(p)'
  BY NextKeeps
<1> QED BY <1>1, <1>2, PTL DEF Spec

\* kernel.py, start() and _advance(): one process at a time that never died
\* away from its checkpoint has the capsule where the walk that was compared
\* with the brief has it, at every node, however often it was interrupted.
THEOREM CapsuleKeepsUp ==
    ASSUME NEW p, Runners = {p}, \A nodes \in Graphs : Straight(nodes)
    PROVE  Spec => []CursorFollowsCapsule
<1>1. CursorInv(p) => CursorFollowsCapsule
  <2> SUFFICES ASSUME CursorInv(p), AtRest
               PROVE  CursorFollowsCapsule
    BY DEF CursorFollowsCapsule
  <2>1. PICK m : m = runner[p]
    OBVIOUS
  <2>2. /\ graph # None /\ ~lost /\ m.todo = <<>>
        /\ m.at \notin {"advancing", "loaded", "passing"} /\ m.at \in Places
        /\ Follows(m, graph) /\ graph \in GraphRunState
    BY <2>1 DEF AtRest, CursorInv, AgreeInv, FollowInv, TypeInv, TypeOK, Runner
  <2>3. Current(m, graph) = graph
    BY <2>2 DEF Current, Follows, Places
  <2>4. Stands(m.at, graph, capsule.state)
    BY <2>1, <2>2, <2>3, RestKeeps
  <2>5. ASSUME NEW s, Arrives(graph, s)
        PROVE  Expected(graph.graph_hash)[Position] = s
    <3>1. PICK k \in Visited(graph.graph_hash) :
              Walk(graph.graph_hash)[k] = graph.node /\ Expected(graph.graph_hash)[k] = s
      BY <2>5 DEF Arrives
    <3>2. /\ Position \in Visited(graph.graph_hash)
          /\ Walk(graph.graph_hash)[Position] = graph.node
      BY <3>1 DEF Position
    <3>3. Position = k
      BY <2>2, <3>1, <3>2, NodeFields, WalkMeetsOnce
    <3> QED BY <3>1, <3>3
  <2>6. CASE graph.status = "complete"
    <3>1. PICK t : /\ Arrives(graph, t)
                   /\ capsule.state = Leaves(graph.graph_hash[graph.node], t)
      BY <2>4, <2>6 DEF Stands, Left
    <3> QED BY <2>5, <2>6, <3>1 DEF CursorFollowsCapsule
  <2>7. CASE graph.status # "complete"
    BY <2>2, <2>4, <2>5, <2>7 DEF Stands, CursorFollowsCapsule
  <2> QED BY <2>6, <2>7
<1> QED BY <1>1, CursorHolds, PTL

\* kernel.py, start(): a graph that was compared with its brief is never
\* stopped by a move the brief does not have, whatever the brief and the graph.
THEOREM ValidatedGraphsMove ==
    ASSUME NEW p, Runners = {p}, \A nodes \in Graphs : Straight(nodes)
    PROVE  Spec => []ValidatedMovesExist
<1>1. CursorInv(p) => ValidatedMovesExist
  <2> SUFFICES ASSUME CursorInv(p), ~lost
               PROVE  \A n \in records : n.kind # "NO_VALID_PATH"
    BY DEF ValidatedMovesExist
  <2>1. CASE graph # None \/ runner[p].at # "idle"
    BY <2>1 DEF CursorInv, Keeps
  <2>2. CASE ~(graph # None \/ runner[p].at # "idle")
    BY <2>2 DEF CursorInv, AgreeInv
  <2> QED BY <2>1, <2>2
<1> QED BY <1>1, CursorHolds, PTL

\* kernel.py, decide(): at every gate a validated graph pauses at, the brief
\* has the transition that the person is asked about.
THEOREM GatesAreDecidable ==
    ASSUME NEW p, Runners = {p}, \A nodes \in Graphs : Straight(nodes),
           \A nodes \in Graphs : GatesMove(nodes)
    PROVE  Spec => []GatesCanBeDecided
<1>1. CursorInv(p) => GatesCanBeDecided
  <2> SUFFICES ASSUME CursorInv(p), ~lost, AtPausedGate(p)
               PROVE  GateMoves(p) # {}
    BY DEF GatesCanBeDecided
  <2>1. PICK m : m = runner[p]
    OBVIOUS
  <2>2. /\ m.at = "stepping" /\ m.todo = <<>> /\ m.graph.status = "paused_human"
    BY <2>1 DEF AtPausedGate, Ready
  <2>3. TypeInv /\ FollowInv(p)
    BY DEF CursorInv, AgreeInv, FollowInv
  <2>4. /\ m.graph = graph /\ graph \in GraphRunState
        /\ Node(p) = graph.graph_hash[graph.node] /\ graph # None
    BY <2>1, <2>2, <2>3, DrivingFinds
  <2>5. Node(p).kind = "human_gate"
    BY <2>2, <2>3, <2>4 DEF FollowInv, AtGate
  <2>6. Node(p).to # None
    BY <2>4, <2>5, NodeFields DEF GatesMove
  <2>7. Arrives(graph, capsule.state)
    BY <2>1, <2>2, <2>4, RestKeeps DEF Stands, Current
  <2> QED BY <2>4, <2>6, <2>7, MoveExists DEF GateMoves
<1> QED BY <1>1, CursorHolds, PTL

=============================================================================
