-------------------------- MODULE GovernanceChecks --------------------------
(***************************************************************************)
(* The five governance checks and the evaluation of a case                 *)
(* (governance/checks.py, governance/evals.py, schemas/eval_case.py), over *)
(* the handoff a run leaves behind (runtime/handoff.py).                   *)
(*                                                                         *)
(* A run that is evaluated is a record of what a handoff shows of it; a    *)
(* text is the set of the phrases a case can ask for or forbid.            *)
(***************************************************************************)
EXTENDS AgentPackages

Categories == {"handoff_completeness", "observation_discipline", "depth_compliance",
               "escalation_correctness", "complexity_reduction"}

PassedIf(condition) == IF condition THEN "pass" ELSE "fail"

(***************************************************************************)
(* The handoff.                                                            *)
(***************************************************************************)
NoHandoff == [written |-> FALSE]

\* The next action is what the run says, or what its status suggests.
NextAction(run) ==
    IF run.next_action # "" THEN run.next_action
    ELSE CASE run.status = "complete"     -> "none"
           [] run.status = "failed"       -> "investigate"
           [] run.status = "human_review" -> "review"
           [] OTHER                       -> "resume"

\* What a reader finds: the sections are always there, the artifacts and
\* the checks only when the run has some.
WriteHandoff(run) ==
    [written          |-> TRUE,
     artifacts        |-> run.inputs + run.outputs,
     next_action      |-> NextAction(run),
     completed_checks |-> run.completed_checks # <<>>,
     text             |-> run.text]

\* Mutant: sections that say there is nothing stand for artifacts.
CheckHandoffSections(handoff) ==
    PassedIf(/\ handoff.next_action # ""
             /\ handoff.completed_checks \/ "evidence:" \in handoff.text)

CheckHandoffCompleteness(handoff) ==
    PassedIf(/\ handoff.artifacts > 0
             /\ handoff.next_action # ""
             /\ handoff.completed_checks \/ "evidence:" \in handoff.text)

CheckRequiredFields(handoff, required) == required \ handoff.text   \* the missing ones

(***************************************************************************)
(* The other four.                                                         *)
(***************************************************************************)
CheckObservationDiscipline(packets, forbidden, handoff) ==
    LET searchable == UNION packets \cup (IF handoff.written THEN handoff.text ELSE {})
    IN PassedIf(packets # {} /\ forbidden \cap searchable = {})

AnyDepth == -1

\* The check reads the files as plain data; it does not validate them.
CheckDepthCompliance(pkg, expected) ==
    PassedIf(/\ Readable(pkg[Manifest]) /\ Readable(pkg[Capsule])
             /\ expected \in {AnyDepth, pkg[Manifest].depth_level}
             /\ pkg[Capsule].depth_level = pkg[Manifest].depth_level
             /\ \A i \in DOMAIN pkg[Capsule].steps :
                   pkg[Capsule].steps[i] <= pkg[Manifest].depth_level
             /\ pkg[Manifest].depth_level # 5)

CheckEscalationCorrectness(pkg, expected) ==
    PassedIf(/\ Readable(pkg[Capsule])
             /\ pkg[Capsule].targets # {}
             /\ expected # "" => expected \in pkg[Capsule].targets)

\* A kind that came up twice must not be left open, and what is resolved
\* must say what changed.  The records are a function of their ids.
CheckComplexityReduction(records) ==
    PassedIf(\A id \in DOMAIN records :
                /\ (\E other \in DOMAIN records \ {id} : records[other].kind = records[id].kind)
                      => records[id].resolution_status # "open"
                /\ records[id].resolution_status = "resolved"
                      => records[id].resolution_note # "")

(***************************************************************************)
(* A case.  `scoring` tells for each category it declares whether the      *)
(* check is run.                                                           *)
(***************************************************************************)
NoPackage == [content |-> "no package"]

Outcome(case, category, handoff, packets, pkg, records) ==
    CASE ~case.scoring[category] -> "skipped"
      [] /\ case.scoring[category]
         /\ category = "handoff_completeness" ->
            IF /\ handoff.written
               /\ CheckRequiredFields(handoff, case.required_fields) = {}
            THEN CheckHandoffCompleteness(handoff) ELSE "fail"
      [] /\ case.scoring[category]
         /\ category = "observation_discipline" ->
            CheckObservationDiscipline(packets, case.forbidden_claims, handoff)
      [] /\ case.scoring[category]
         /\ category = "depth_compliance" ->
            IF pkg = NoPackage THEN "skipped"
            ELSE CheckDepthCompliance(pkg, case.expected_depth)
      [] /\ case.scoring[category]
         /\ category = "escalation_correctness" ->
            IF pkg = NoPackage THEN "skipped"
            ELSE CheckEscalationCorrectness(pkg, case.expected_escalation)
      [] OTHER -> CheckComplexityReduction(records)

\* An empty capsule file is no mapping: both package checks fall over it and
\* the command ends with no result recorded.
ChecksFinish(case, pkg) ==
    pkg # NoPackage /\ pkg[Capsule] = Truncated =>
        \A c \in DOMAIN case.scoring \cap {"depth_compliance", "escalation_correctness"} :
            case.scoring[c] => c = "depth_compliance" /\ ~Readable(pkg[Manifest])

\* Mutant: a check that was skipped stands for one that passed.
OverallFromAll(checks) ==
    PassedIf(\A c \in DOMAIN checks : checks[c] # "fail")

\* Skipped checks do not count; any failure fails the case.
OverallFrom(checks) ==
    LET ran == {c \in DOMAIN checks : checks[c] # "skipped"}
    IN IF ran = {} THEN "skipped"
       ELSE PassedIf(\A c \in ran : checks[c] = "pass")

RunEvalCase(case, handoff, packets, pkg, records) ==
    LET checks == [c \in DOMAIN case.scoring |->
                      Outcome(case, c, handoff, packets, pkg, records)]
    IN [case_id |-> case.case_id, checks |-> checks, overall |-> OverallFrom(checks)]
=============================================================================
