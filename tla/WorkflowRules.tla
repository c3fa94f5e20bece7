--------------------------- MODULE WorkflowRules ---------------------------
(***************************************************************************)
(* The sixteen rules that judge a workflow draft                           *)
(* (governance/workflow_rules.py over schemas/human_workflow.py).          *)
(*                                                                         *)
(* A draft is a record; steps, gates and exception paths are sequences.    *)
(* Short texts (an actor, an owner, a source) are strings, of which "" is  *)
(* blank, Placeholder says nothing and Ambiguous names no one.  Prose is   *)
(* what the rules look for in it: the words that judge by feel             *)
(* (perception), the words that name a state (state), whether a criterion  *)
(* is stated beside them, and the memory phrase it holds, if any.          *)
(***************************************************************************)
EXTENDS Integers, Sequences, FiniteSets, SequencesExt

CONSTANT ContentWords   \* the meaning-carrying words of each failure named

Placeholder == "tbd"
Ambiguous   == "the team"

Undefined(text)      == text \in {"", Placeholder}
AmbiguousOwner(text) == text = Ambiguous

\* The ambiguous words of the model, in the order `sorted` gives them.
AmbiguousTerms == <<"complete", "done", "fine", "good">>

Prose(text, perception, state, criterion, memory) ==
    [text |-> text, perception |-> perception, state |-> state,
     criterion |-> criterion, memory |-> memory]

\* Perception words always count; state words only without a criterion.
AmbiguousTermsIn(p) == p.perception \cup (IF p.criterion THEN {} ELSE p.state)

FirstTerm(terms) ==
    AmbiguousTerms[CHOOSE i \in DOMAIN AmbiguousTerms :
                      /\ AmbiguousTerms[i] \in terms
                      /\ \A j \in 1..(i - 1) : AmbiguousTerms[j] \notin terms]

\* At least half of the observed failure's words are in the declared one.
DescribesSameFailure(observed, declared) ==
    /\ ContentWords[observed] # {}
    /\ 2 * Cardinality(ContentWords[observed] \cap ContentWords[declared])
          >= Cardinality(ContentWords[observed])

(***************************************************************************)
(* The index every rule shares.                                            *)
(***************************************************************************)
StepIds(d)     == {d.steps[i].step_id : i \in DOMAIN d.steps}
StepOf(d, id)  == d.steps[CHOOSE i \in DOMAIN d.steps : d.steps[i].step_id = id]
GatesAt(d, id) == SelectSeq(d.gates, LAMBDA g : g.at_step = id)

\* A route that may name nowhere.
Named(t) == IF t = "" THEN <<>> ELSE <<t>>

\* Where work may go from a step: onward, recovered, or approved at a gate.
Routes(d, id) ==
    LET s == StepOf(d, id)
    IN s.next_steps
       \o FlattenSeq([i \in DOMAIN s.exceptions |-> Named(s.exceptions[i].next_step)])
       \o FlattenSeq([i \in DOMAIN d.gates |->
                         IF d.gates[i].at_step = id THEN Named(d.gates[i].on_approve)
                         ELSE <<>>])

\* Mutant: what was still queued is lost.
TurnOver(d, walk) ==
    LET current == Last(walk.frontier)
    IN IF current \in walk.seen \/ current \notin StepIds(d)
       THEN [walk EXCEPT !.frontier = Front(walk.frontier)]
       ELSE [seen |-> walk.seen \cup {current}, frontier |-> Routes(d, current)]

\* One turn of the worklist: the last entry is taken and, when it is a step
\* not seen before, its routes are added.
Turn(d, walk) ==
    LET current == Last(walk.frontier)
        rest == Front(walk.frontier)
    IN IF current \in walk.seen \/ current \notin StepIds(d)
       THEN [walk EXCEPT !.frontier = rest]
       ELSE [seen |-> walk.seen \cup {current},
             frontier |-> rest \o Routes(d, current)]

\* More turns than the worklist can take: each route is queued at most once.
Queued(d) == UNION {{i} \X DOMAIN Routes(d, d.steps[i].step_id) : i \in DOMAIN d.steps}
Turns(d)  == 1 + Cardinality(Queued(d))

ReachableFromEntry(d) ==
    IF d.steps = <<>> THEN {}
    ELSE LET start == [seen |-> {}, frontier |-> <<d.steps[1].step_id>>]
             walk[n \in 0..Turns(d)] ==
                IF n = 0 THEN start
                ELSE LET last == walk[n - 1]
                     IN IF last.frontier = <<>> THEN last ELSE Turn(d, last)
         IN walk[Turns(d)].seen

StepsOf(d) == {d.steps[i] : i \in DOMAIN d.steps}
GatesOf(d) == {d.gates[i] : i \in DOMAIN d.gates}
ExceptionsOf(s) == {s.exceptions[i] : i \in DOMAIN s.exceptions}
NextOf(s) == {s.next_steps[i] : i \in DOMAIN s.next_steps}

TerminalSteps(d) ==
    {s \in StepsOf(d) : s.step_id \in ReachableFromEntry(d) /\ s.next_steps = <<>>}

(***************************************************************************)
(* Findings.  The id is the rule and the place, not the text that was      *)
(* found there; `detail` quotes the text.                                  *)
(***************************************************************************)
Finding(rule, at, field, which, detail) ==
    [rule |-> rule, at |-> at, field |-> field, which |-> which, detail |-> detail]

FindingId(f) == <<f.rule, f.at, f.field, f.which>>

UndefinedTrigger(d) ==                                              \* HW-001
    IF Undefined(d.trigger) THEN {Finding("HW-001", "", "trigger", "", "")} ELSE {}

UndefinedOutcome(d) ==                                              \* HW-002
    (IF Undefined(d.claimed_outcome.text)
     THEN {Finding("HW-002", "", "claimed_outcome", "outcome", "")} ELSE {})
    \cup
    (IF d.steps # <<>> /\ TerminalSteps(d) = {}
     THEN {Finding("HW-002", "", "steps", "terminal", "")} ELSE {})

MissingStepOwner(d) ==                                              \* HW-003
    {Finding("HW-003", s.step_id, "actor", "", s.actor) :
        s \in {x \in StepsOf(d) : Undefined(x.actor)}}

\* A step decides when it branches, is gated, or its effect must be owned.
DecisionIsMadeHere(d, s) ==
    \/ Len(s.next_steps) > 1
    \/ GatesAt(d, s.step_id) # <<>>
    \/ s.characteristics.reversibility = "IRREVERSIBLE"
    \/ s.characteristics.risk = "HIGH"

Vague(text) == Undefined(text) \/ AmbiguousOwner(text)

AsAmbiguous(text) == IF Undefined(text) THEN "" ELSE "ambiguous"

DecisionAuthority(d) ==                                             \* HW-004
    {Finding("HW-004", s.step_id, "decision_authority",
             AsAmbiguous(s.decision_authority), s.decision_authority) :
        s \in {x \in StepsOf(d) : /\ DecisionIsMadeHere(d, x)
                                  /\ Vague(x.decision_authority)}}
    \cup
    {Finding("HW-004", g.gate_id, "approver", AsAmbiguous(g.approver), g.approver) :
        g \in {x \in GatesOf(d) : Vague(x.approver)}}

DanglingReference(d) ==                                             \* HW-005
    LET known == StepIds(d)
    IN UNION {{Finding("HW-005", s.step_id, "next_steps", t, t) :
                  t \in NextOf(s) \ known} : s \in StepsOf(d)}
       \cup
       UNION {{Finding("HW-005", s.step_id, "exception_paths.next_step", t, t) :
                  t \in {e.next_step : e \in ExceptionsOf(s)} \ (known \cup {""})} :
                  s \in StepsOf(d)}
       \cup
       {Finding("HW-005", g.gate_id, "at_step", "", g.at_step) :
            g \in {x \in GatesOf(d) : x.at_step \notin known}}
       \cup
       {Finding("HW-005", g.gate_id, "on_approve", g.on_approve, g.on_approve) :
            g \in {x \in GatesOf(d) : x.on_approve \notin known \cup {""}}}

UnreachableStep(d) ==                                               \* HW-006
    {Finding("HW-006", id, "next_steps", "", "") :
        id \in StepIds(d) \ ReachableFromEntry(d)}

DeadEnd(d) ==                                                       \* HW-007
    {Finding("HW-007", s.step_id, "next_steps", "", "") :
        s \in {x \in TerminalSteps(d) : x.outputs = {}}}
    \cup
    UNION {{Finding("HW-007", s.step_id, "exception_paths", e.failure, e.failure) :
               e \in {x \in ExceptionsOf(s) : /\ x.next_step = ""
                                              /\ Undefined(x.handling)}} :
               s \in StepsOf(d)}

HasVerifiableOutput(s) ==
    \E o \in s.outputs : ~Undefined(o.artifact_type) /\ ~Undefined(o.evidence)

ImplicitHandoff(d) ==                                               \* HW-008
    UNION {{Finding("HW-008", s.step_id, "outputs", t, t) :
               t \in {x \in NextOf(s) \cap StepIds(d) :
                        /\ ~Undefined(s.actor)
                        /\ ~Undefined(StepOf(d, x).actor)
                        /\ s.actor # StepOf(d, x).actor}} :
               s \in {x \in StepsOf(d) : ~HasVerifiableOutput(x)}}

MissingInputSource(d) ==                                            \* HW-009
    UNION {{Finding("HW-009", s.step_id, "inputs.source", i.name, i.name) :
               i \in {x \in s.inputs : x.required /\ Undefined(x.source)}} :
               s \in StepsOf(d)}

UnverifiableOutput(d) ==                                            \* HW-010
    UNION {{Finding("HW-010", s.step_id, "outputs.artifact_type", o.name, o.name) :
               o \in {x \in s.outputs : Undefined(x.artifact_type)}}
           \cup
           {Finding("HW-010", s.step_id, "outputs.evidence_requirement", o.name, o.name) :
               o \in {x \in s.outputs : Undefined(x.evidence)}} :
           s \in StepsOf(d)}

UnhandledFailureMode(d) ==                                          \* HW-011
    LET declared == UNION {{e.failure : e \in ExceptionsOf(s)} : s \in StepsOf(d)}
    IN {Finding("HW-011", "", "observed_exceptions", o, o) :
           o \in {x \in d.observed_exceptions :
                    ~\E y \in declared : DescribesSameFailure(x, y)}}

UnownedException(d) ==                                              \* HW-012
    UNION {{Finding("HW-012", s.step_id,
                    IF Undefined(e.owner) THEN "exception_paths.owner"
                                          ELSE "exception_paths.owner/ambiguous",
                    e.failure, e.owner) :
               e \in {x \in ExceptionsOf(s) : Vague(x.owner)}} : s \in StepsOf(d)}

MemoryDependency(d) ==                                              \* HW-013
    {Finding("HW-013", "", "unwritten_rules", r, r) : r \in d.unwritten_rules}
    \cup
    UNION {{Finding("HW-013", s.step_id, f, s[f].memory, s[f].memory) :
               f \in {x \in {"description", "exit_condition", "notes"} :
                         s[x].memory # ""}} : s \in StepsOf(d)}

\* One prose field judged by feel, or nothing.
Judged(p, at, field) ==
    IF Undefined(p.text) \/ AmbiguousTermsIn(p) = {} THEN {}
    ELSE {Finding("HW-014", at, field, FirstTerm(AmbiguousTermsIn(p)), p.text)}

AmbiguousCriteria(d) ==                                             \* HW-014
    Judged(d.claimed_outcome, "", "claimed_outcome")
    \cup UNION {Judged(s.exit_condition, s.step_id, "exit_condition") : s \in StepsOf(d)}
    \cup UNION {IF Undefined(g.criteria.text)
                THEN {Finding("HW-014", g.gate_id, "criteria", "empty", "")}
                ELSE Judged(g.criteria, g.gate_id, "criteria") : g \in GatesOf(d)}

GateWithoutNextAction(d) ==                                         \* HW-015
    {Finding("HW-015", g.gate_id, "on_reject", "", "") :
        g \in {x \in GatesOf(d) : Undefined(x.on_reject)}}

UnsupportedCompletion(d) ==                                         \* HW-016
    IF \/ Undefined(d.claimed_outcome.text)
       \/ d.steps = <<>>
       \/ \E s \in StepsOf(d) : /\ s.step_id \in ReachableFromEntry(d)
                                /\ \E o \in s.outputs : ~Undefined(o.evidence)
    THEN {}
    ELSE {Finding("HW-016", "", "claimed_outcome", "", d.claimed_outcome.text)}

(***************************************************************************)
(* The registry's policy, and the report.                                  *)
(***************************************************************************)
AdvisoryRules == {"HW-013", "HW-014"}
Blocking(f)   == f.rule \notin AdvisoryRules

ValidateWorkflow(d) ==
    UndefinedTrigger(d) \cup UndefinedOutcome(d) \cup MissingStepOwner(d)
    \cup DecisionAuthority(d) \cup DanglingReference(d) \cup UnreachableStep(d)
    \cup DeadEnd(d) \cup ImplicitHandoff(d) \cup MissingInputSource(d)
    \cup UnverifiableOutput(d) \cup UnhandledFailureMode(d) \cup UnownedException(d)
    \cup MemoryDependency(d) \cup AmbiguousCriteria(d) \cup GateWithoutNextAction(d)
    \cup UnsupportedCompletion(d)
=============================================================================
