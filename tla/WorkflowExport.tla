-------------------------- MODULE WorkflowExport --------------------------
(***************************************************************************)
(* Building the cooperative workflow and flattening it onto a brief        *)
(* (foundry/workflow_export.py).                                           *)
(*                                                                         *)
(* A step's state is the step's id.  The state a gated step waits in and   *)
(* the state of finished work are pairs, so that no step has their name:   *)
(* the code appends to the name until that is so.  Owners of moves are     *)
(* plain names: nothing tells an agent's from a person's but the brief's   *)
(* list of agents.                                                         *)
(***************************************************************************)
EXTENDS Cooperation, WorkflowRules

DepthByClass == [NOT_READY_FOR_AUTOMATION        |-> "CONSCIOUS",
                 HUMAN_ONLY                      |-> "CONSCIOUS",
                 HUMAN_LED_AI_ASSISTED           |-> "GUIDED",
                 AGENT_PREPARED_HUMAN_APPROVED   |-> "GUIDED",
                 DETERMINISTIC_AUTOMATION        |-> "ROUTINE",
                 AGENT_EXECUTED_HUMAN_SUPERVISED |-> "GUIDED",
                 BOUNDED_AUTONOMOUS_AGENT        |-> "GUIDED"]

AgentDepthLevel == [DETERMINISTIC_AUTOMATION        |-> 0,
                    HUMAN_LED_AI_ASSISTED           |-> 1,
                    AGENT_PREPARED_HUMAN_APPROVED   |-> 2,
                    AGENT_EXECUTED_HUMAN_SUPERVISED |-> 2,
                    BOUNDED_AUTONOMOUS_AGENT        |-> 3]

AgentOwned == {"DETERMINISTIC_AUTOMATION", "AGENT_EXECUTED_HUMAN_SUPERVISED",
               "AGENT_PREPARED_HUMAN_APPROVED", "BOUNDED_AUTONOMOUS_AGENT"}

\* Mutant: work an agent only prepares waits for nobody.
GatedLoosely == {"BOUNDED_AUTONOMOUS_AGENT"}

Gated == {"AGENT_PREPARED_HUMAN_APPROVED", "BOUNDED_AUTONOMOUS_AGENT"}

AgentNameFor(id) == id \o "-agent"
Nobody           == ""
WaitingAt(id)    == <<id, "pending-approval">>
Complete         == <<"", "complete">>
StateOf(id)      == <<id, "step">>

(***************************************************************************)
(* The build.  `assessments` is a function of the steps that have one.     *)
(***************************************************************************)
Unassessed(d, assessments) == StepIds(d) \ DOMAIN assessments

GateAt(d, id) == IF GatesAt(d, id) = <<>> THEN "" ELSE GatesAt(d, id)[1].gate_id

AssignmentFor(d, s, executor) ==
    [step_id  |-> s.step_id,
     executor |-> executor,
     identity |-> IF executor = "NOT_READY_FOR_AUTOMATION" THEN Nobody
                  ELSE IF executor \in AgentOwned THEN AgentNameFor(s.step_id)
                  ELSE s.actor,
     human_owner   |-> s.actor,
     approval_gate |-> GateAt(d, s.step_id),
     evidence      |-> {o.evidence : o \in s.outputs} \ {""}]

BuildCooperative(d, assessments, approved) ==
    [source_version |-> d.version,
     assignments    |-> [i \in DOMAIN d.steps |->
                            AssignmentFor(d, d.steps[i],
                                EffectiveExecutor(assessments[d.steps[i].step_id]))],
     approved       |-> approved]

(***************************************************************************)
(* The export.                                                             *)
(***************************************************************************)
AssignedSteps(c) == {c.assignments[i].step_id : i \in DOMAIN c.assignments}

\* The first assignment that names the step.
AssignmentOf(c, id) ==
    c.assignments[CHOOSE i \in DOMAIN c.assignments :
                     /\ c.assignments[i].step_id = id
                     /\ \A j \in 1..(i - 1) : c.assignments[j].step_id # id]

\* _check_exportable: approved, complete, and no bounded agent without a gate.
Exportable(c, d) ==
    /\ c.approved
    /\ StepIds(d) \subseteq AssignedSteps(c)
    /\ \A i \in DOMAIN c.assignments :
          c.assignments[i].executor = "BOUNDED_AUTONOMOUS_AGENT"
              => c.assignments[i].approval_gate # ""

\* An agent assigned to a step the workflow no longer has ends the export
\* in a lookup error, before anything is saved.
AgentsHaveSteps(c, d) ==
    \A i \in DOMAIN c.assignments :
        c.assignments[i].executor \in AgentOwned
            => c.assignments[i].step_id \in StepIds(d)

GateStates(c) ==
    {WaitingAt(c.assignments[i].step_id) :
        i \in {j \in DOMAIN c.assignments : c.assignments[j].executor \in Gated}}

Move(from, to, owner, evidence, depth) ==
    [from |-> from, to |-> to, owner |-> owner, evidence |-> evidence, depth |-> depth]

Destinations(s) ==
    IF s.next_steps = <<>> THEN <<Complete>>
    ELSE [i \in DOMAIN s.next_steps |-> StateOf(s.next_steps[i])]

\* The moves out of one step, in the order they are emitted: the executor's
\* work, the person's decision when the class is gated, then the recoveries
\* that lead to a step.
MovesOf(c, d, s) ==
    LET a == AssignmentOf(c, s.step_id)
        owner == IF a.identity = Nobody THEN a.human_owner ELSE a.identity
        depth == DepthByClass[a.executor]
        here == StateOf(s.step_id)
        onward(from, who, evidence, how) ==
            [i \in DOMAIN Destinations(s) |->
                Move(from, Destinations(s)[i], who, evidence, how)]
        recovery(e) ==
            IF e.next_step \in StepIds(d)
            THEN <<Move(here, StateOf(e.next_step), e.owner, {}, "GUIDED")>>
            ELSE <<>>
    IN (IF a.executor \in Gated
        THEN <<Move(here, WaitingAt(s.step_id), owner, a.evidence, depth)>>
             \o onward(WaitingAt(s.step_id), a.human_owner, {}, "CONSCIOUS")
        ELSE onward(here, owner, a.evidence, depth))
       \o FlattenSeq([i \in DOMAIN s.exceptions |-> recovery(s.exceptions[i])])

\* Mutant: the first move out of a state is kept.
TransitionsByState(c, d) ==
    LET emitted == FlattenSeq([i \in DOMAIN d.steps |-> MovesOf(c, d, d.steps[i])])
    IN {emitted[i] : i \in {j \in DOMAIN emitted :
            ~\E k \in 1..(j - 1) : emitted[k].from = emitted[j].from}}

\* Of two moves between the same states the first one emitted is kept.
Transitions(c, d) ==
    LET emitted == FlattenSeq([i \in DOMAIN d.steps |-> MovesOf(c, d, d.steps[i])])
    IN {emitted[i] : i \in {j \in DOMAIN emitted :
            ~\E k \in 1..(j - 1) : /\ emitted[k].from = emitted[j].from
                                   /\ emitted[k].to = emitted[j].to}}

DepthRank == [ROUTINE |-> 1, GUIDED |-> 2, CONSCIOUS |-> 3]

ExportWorkflow(c, d) ==
    LET moves == Transitions(c, d)
    IN [initial     |-> StateOf(d.steps[1].step_id),
        states      |-> {StateOf(id) : id \in StepIds(d)} \cup GateStates(c) \cup {Complete},
        transitions |-> moves,
        task_depth  |-> CHOOSE k \in DOMAIN DepthRank :
                           /\ \E m \in moves : m.depth = k
                           /\ \A m \in moves : DepthRank[m.depth] <= DepthRank[k],
        agents      |-> {[agent_name |-> c.assignments[i].identity,
                          depth_level |-> AgentDepthLevel[c.assignments[i].executor]] :
                            i \in {j \in DOMAIN c.assignments :
                                      c.assignments[j].executor \in AgentOwned}}]

StepsKeptHuman(c) ==
    {c.assignments[i].step_id :
        i \in {j \in DOMAIN c.assignments : c.assignments[j].executor \notin AgentOwned}}

(***************************************************************************)
(* What the schema of a brief demands of the result.                       *)
(***************************************************************************)
TreatedAsHuman(b, owner) == owner \notin {a.agent_name : a \in b.agents}

BriefIsConsistent(b) ==
    /\ b.initial \in b.states
    /\ \A m \in b.transitions : {m.from, m.to} \subseteq b.states
    /\ \A m \in b.transitions : m.depth = "CONSCIOUS" => TreatedAsHuman(b, m.owner)
=============================================================================
