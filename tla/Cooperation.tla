---------------------------- MODULE Cooperation ----------------------------
(***************************************************************************)
(* How a step of a workflow is to be executed: the decision table, the     *)
(* safety floors that cap it and the overrides a person may make           *)
(* (governance/cooperation.py, schemas/cooperation.py).                    *)
(*                                                                         *)
(* A step's characteristics are a record of six factors.  An assessment    *)
(* keeps the factors and the authority it was computed from, as the code   *)
(* does with assessed_factors.                                             *)
(***************************************************************************)
EXTENDS Integers, Sequences

\* ExecutorClass.autonomy_rank: how much unsupervised latitude a class grants.
AutonomyRank == [NOT_READY_FOR_AUTOMATION        |-> 0,
                 HUMAN_ONLY                      |-> 1,
                 HUMAN_LED_AI_ASSISTED           |-> 2,
                 AGENT_PREPARED_HUMAN_APPROVED   |-> 3,
                 DETERMINISTIC_AUTOMATION        |-> 4,
                 AGENT_EXECUTED_HUMAN_SUPERVISED |-> 5,
                 BOUNDED_AUTONOMOUS_AGENT        |-> 6]

ExecutorClasses == DOMAIN AutonomyRank

NoOverride == "no override"

Characteristics ==
    [judgment_load    : {"NONE", "LOW", "MODERATE", "HIGH", "UNKNOWN"},
     repeatability    : {"ONE_OFF", "OCCASIONAL", "ROUTINE", "UNKNOWN"},
     determinism      : {"DETERMINISTIC", "MOSTLY_DETERMINISTIC",
                         "JUDGMENT_BASED", "UNKNOWN"},
     risk             : {"LOW", "MODERATE", "HIGH", "UNKNOWN"},
     reversibility    : {"REVERSIBLE", "PARTIALLY_REVERSIBLE",
                         "IRREVERSIBLE", "UNKNOWN"},
     data_sensitivity : {"PUBLIC", "INTERNAL", "SENSITIVE", "UNKNOWN"}]

UnknownFactors(c) == {f \in DOMAIN c : c[f] = "UNKNOWN"}

(***************************************************************************)
(* The decision table.  It reads judgment, repeatability and determinism;  *)
(* the other factors only ever restrict what it says.                      *)
(***************************************************************************)
BaseRecommendation(c) ==
    CASE c.judgment_load = "HIGH"     -> "HUMAN_ONLY"
      [] c.judgment_load = "MODERATE" -> "HUMAN_LED_AI_ASSISTED"
      [] /\ c.judgment_load \notin {"HIGH", "MODERATE"}
         /\ c.repeatability = "ONE_OFF" -> "AGENT_PREPARED_HUMAN_APPROVED"
      [] /\ c.judgment_load \notin {"HIGH", "MODERATE"}
         /\ c.repeatability = "ROUTINE"
         /\ c.determinism = "DETERMINISTIC" -> "DETERMINISTIC_AUTOMATION"
      [] /\ c.judgment_load = "NONE"
         /\ c.repeatability = "ROUTINE"
         /\ c.determinism = "MOSTLY_DETERMINISTIC" -> "BOUNDED_AUTONOMOUS_AGENT"
      [] OTHER -> IF c.determinism \in {"DETERMINISTIC", "MOSTLY_DETERMINISTIC"}
                  THEN "AGENT_EXECUTED_HUMAN_SUPERVISED"
                  ELSE "HUMAN_LED_AI_ASSISTED"

(***************************************************************************)
(* The safety floors, in precedence order.                                 *)
(***************************************************************************)
FloorCeilings ==
    <<[floor |-> "UNDEFINED_AUTHORITY",     ceiling |-> "NOT_READY_FOR_AUTOMATION"],
      [floor |-> "UNKNOWN_CHARACTERISTICS", ceiling |-> "NOT_READY_FOR_AUTOMATION"],
      [floor |-> "IRREVERSIBLE",            ceiling |-> "AGENT_PREPARED_HUMAN_APPROVED"],
      [floor |-> "HIGH_RISK",               ceiling |-> "AGENT_PREPARED_HUMAN_APPROVED"],
      [floor |-> "SENSITIVE_DATA",          ceiling |-> "AGENT_PREPARED_HUMAN_APPROVED"]>>

Triggers(floor, c, authority) ==
    \/ floor = "UNDEFINED_AUTHORITY" /\ authority = ""
    \/ floor = "UNKNOWN_CHARACTERISTICS" /\ UnknownFactors(c) # {}
    \/ floor = "IRREVERSIBLE" /\ c.reversibility = "IRREVERSIBLE"
    \/ floor = "HIGH_RISK" /\ c.risk = "HIGH"
    \/ floor = "SENSITIVE_DATA" /\ c.data_sensitivity = "SENSITIVE"

\* The floors a step hits, as positions in FloorCeilings.
ApplicableFloors(c, authority) ==
    {i \in 1..5 : Triggers(FloorCeilings[i].floor, c, authority)}

CeilingRank(i) == AutonomyRank[FloorCeilings[i].ceiling]

\* The most restrictive ceiling wins; ties go to the floor listed first.
BindingFloor(floors) ==
    CHOOSE i \in floors : \A j \in floors :
        \/ CeilingRank(i) < CeilingRank(j)
        \/ CeilingRank(i) = CeilingRank(j) /\ i <= j

Supervision == [NOT_READY_FOR_AUTOMATION        |-> "APPROVAL_REQUIRED",
                HUMAN_ONLY                      |-> "NONE",
                HUMAN_LED_AI_ASSISTED           |-> "EVERY_OUTPUT_REVIEWED",
                AGENT_PREPARED_HUMAN_APPROVED   |-> "APPROVAL_REQUIRED",
                DETERMINISTIC_AUTOMATION        |-> "SPOT_CHECK",
                AGENT_EXECUTED_HUMAN_SUPERVISED |-> "EVERY_OUTPUT_REVIEWED",
                BOUNDED_AUTONOMOUS_AGENT        |-> "SPOT_CHECK"]

\* A gate tightens a spot check and nothing else.
SupervisionOf(executor, gated) ==
    IF gated /\ Supervision[executor] = "SPOT_CHECK"
    THEN "APPROVAL_REQUIRED"
    ELSE Supervision[executor]

Readiness(executor, c, floored) ==
    IF \/ executor \in {"NOT_READY_FOR_AUTOMATION", "HUMAN_ONLY"}
       \/ UnknownFactors(c) # {}
       \/ c.repeatability = "ONE_OFF"
    THEN "NOT_READY"
    ELSE IF /\ ~floored
            /\ c.repeatability = "ROUTINE"
            /\ c.determinism \in {"DETERMINISTIC", "MOSTLY_DETERMINISTIC"}
         THEN "READY"
         ELSE "PILOT"

(***************************************************************************)
(* assess_step: the base, capped by the binding floor.  A floor that does  *)
(* not lower the base is recorded too, because it governs overrides.       *)
(***************************************************************************)
RecommendedExecutor(c, floors) ==
    LET base == BaseRecommendation(c)
    IN IF /\ floors # {}
          /\ CeilingRank(BindingFloor(floors)) < AutonomyRank[base]
       THEN FloorCeilings[BindingFloor(floors)].ceiling
       ELSE base

AssessStep(step_id, c, authority, gated) ==
    LET floors == ApplicableFloors(c, authority)
        executor == RecommendedExecutor(c, floors)
    IN [step_id      |-> step_id,
        recommended  |-> executor,
        factors      |-> c,
        authority    |-> authority,
        safety_floor |-> IF floors = {} THEN "NONE"
                         ELSE FloorCeilings[BindingFloor(floors)].floor,
        supervision  |-> SupervisionOf(executor, gated),
        readiness    |-> Readiness(executor, c, floors # {}),
        override     |-> NoOverride]

\* effective_executor: the override governs when there is one.
EffectiveExecutor(a) ==
    IF a.override = NoOverride THEN a.recommended ELSE a.override

IsFloored(a) == a.safety_floor # "NONE"

\* apply_override refuses to move a floored step away from human control.
OverridePermitted(a, to) ==
    IsFloored(a) => AutonomyRank[to] <= AutonomyRank[EffectiveExecutor(a)]

ApplyOverride(a, to) == [a EXCEPT !.override = to]

(***************************************************************************)
(* An assessment that stays under every floor its own facts trigger.       *)
(***************************************************************************)
RespectsFloors(a) ==
    /\ EffectiveExecutor(a) \in ExecutorClasses
    /\ IsFloored(a) <=> ApplicableFloors(a.factors, a.authority) # {}
    /\ \A i \in ApplicableFloors(a.factors, a.authority) :
          AutonomyRank[EffectiveExecutor(a)] <= CeilingRank(i)
=============================================================================
