----------------------- MODULE WorkflowLifecycle_proofs ----------------------
(***************************************************************************)
(* What holds of a workflow on its way to a brief, for any programs, any   *)
(* editions of its file, and wherever a program dies.                      *)
(***************************************************************************)
EXTENDS WorkflowLifecycle, Numbers_proofs, SequenceTheorems

-----------------------------------------------------------------------------
(* Floors and overrides *)

LEMMA ClassesAre ==
    /\ ExecutorClasses = {"NOT_READY_FOR_AUTOMATION", "HUMAN_ONLY", "HUMAN_LED_AI_ASSISTED",
                          "AGENT_PREPARED_HUMAN_APPROVED", "DETERMINISTIC_AUTOMATION",
                          "AGENT_EXECUTED_HUMAN_SUPERVISED", "BOUNDED_AUTONOMOUS_AGENT"}
    /\ \A e \in ExecutorClasses : AutonomyRank[e] \in Nat
    /\ NoOverride \notin ExecutorClasses
BY DEF ExecutorClasses, AutonomyRank, NoOverride

LEMMA CeilingsAre ==
    /\ CeilingRank(1) = 0 /\ CeilingRank(2) = 0 /\ CeilingRank(3) = 3
    /\ CeilingRank(4) = 3 /\ CeilingRank(5) = 3
    /\ \A i \in 1..5 : /\ FloorCeilings[i].ceiling \in ExecutorClasses
                       /\ CeilingRank(i) = AutonomyRank[FloorCeilings[i].ceiling]
                       /\ FloorCeilings[i].floor # "NONE"
BY DEF CeilingRank, FloorCeilings, AutonomyRank, ExecutorClasses

\* The binding floor is the most restrictive of those a step hits.
LEMMA BindingFloorBinds ==
    ASSUME NEW floors, floors \subseteq 1..5, floors # {}
    PROVE  /\ BindingFloor(floors) \in floors
           /\ \A j \in floors : CeilingRank(BindingFloor(floors)) <= CeilingRank(j)
<1> DEFINE Binds(i) == \A j \in floors : \/ CeilingRank(i) < CeilingRank(j)
                                         \/ CeilingRank(i) = CeilingRank(j) /\ i <= j
<1>1. \E i \in floors : Binds(i)
  <2>1. CASE 1 \in floors
    BY <2>1, CeilingsAre
  <2>2. CASE 1 \notin floors /\ 2 \in floors
    BY <2>2, CeilingsAre
  <2>3. CASE 1 \notin floors /\ 2 \notin floors /\ 3 \in floors
    BY <2>3, CeilingsAre
  <2>4. CASE 1 \notin floors /\ 2 \notin floors /\ 3 \notin floors /\ 4 \in floors
    BY <2>4, CeilingsAre
  <2>5. CASE 1 \notin floors /\ 2 \notin floors /\ 3 \notin floors /\ 4 \notin floors
    <3>1. ASSUME NEW i \in floors PROVE i = 5
      BY <2>5, <3>1
    <3>2. floors = {5}
      BY <3>1
    <3> QED BY <3>2, CeilingsAre
  <2> QED BY <2>1, <2>2, <2>3, <2>4, <2>5
<1>2. BindingFloor(floors) \in floors /\ Binds(BindingFloor(floors))
  BY <1>1 DEF BindingFloor
<1>3. \A i \in floors : CeilingRank(i) \in Nat
  BY CeilingsAre
<1>4. ASSUME NEW j \in floors PROVE CeilingRank(BindingFloor(floors)) <= CeilingRank(j)
  <2>1. CeilingRank(BindingFloor(floors)) \in Nat /\ CeilingRank(j) \in Nat
    BY <1>2, <1>3
  <2>2. \/ CeilingRank(BindingFloor(floors)) < CeilingRank(j)
        \/ CeilingRank(BindingFloor(floors)) = CeilingRank(j)
    BY <1>2
  <2> QED BY <2>1, <2>2
<1> QED BY <1>2, <1>4

Fields == {"step_id", "recommended", "factors", "authority", "safety_floor",
           "supervision", "readiness", "override"}

RowOK(a) == DOMAIN a = Fields /\ RespectsFloors(a)

\* What the classifier recommends is under every floor, whatever the factors.
LEMMA AssessedUnderFloors ==
    ASSUME NEW id, NEW c, NEW authority, NEW gated
    PROVE  RowOK(AssessStep(id, c, authority, gated))
<1> DEFINE a == AssessStep(id, c, authority, gated)
<1> DEFINE floors == ApplicableFloors(c, authority)
<1> DEFINE base == BaseRecommendation(c)
<1>1. floors \subseteq 1..5
  BY DEF ApplicableFloors
<1>2. base \in ExecutorClasses
  BY ClassesAre DEF BaseRecommendation
<1>3. /\ RecommendedExecutor(c, floors) \in ExecutorClasses
      /\ \A i \in floors : AutonomyRank[RecommendedExecutor(c, floors)] <= CeilingRank(i)
  <2>1. CASE floors = {}
    BY <1>2, <2>1 DEF RecommendedExecutor
  <2>2. CASE floors # {}
    <3> DEFINE b == BindingFloor(floors)
    <3> HIDE DEF floors, base
    <3>1. b \in floors /\ \A j \in floors : CeilingRank(b) <= CeilingRank(j)
      BY <1>1, <2>2, BindingFloorBinds
    <3> HIDE DEF b
    <3>2. CASE CeilingRank(b) < AutonomyRank[base]
      <4>1. RecommendedExecutor(c, floors) = FloorCeilings[b].ceiling
        BY <2>2, <3>2 DEF RecommendedExecutor, b, base
      <4> QED BY <1>1, <3>1, <4>1, CeilingsAre
    <3>3. CASE ~(CeilingRank(b) < AutonomyRank[base])
      <4>1. RecommendedExecutor(c, floors) = base
        BY <3>3 DEF RecommendedExecutor, b, base
      <4>2. \A i \in 1..5 : CeilingRank(i) \in Nat
        BY CeilingsAre
      <4>3. AutonomyRank[base] \in Nat
        BY <1>2, ClassesAre
      <4> QED BY <1>1, <1>2, <3>1, <3>3, <4>1, <4>2, <4>3
    <3> QED BY <3>2, <3>3
  <2> QED BY <2>1, <2>2
<1>4. /\ DOMAIN a = Fields /\ a.recommended = RecommendedExecutor(c, floors)
      /\ a.factors = c /\ a.authority = authority /\ a.override = NoOverride
      /\ a.safety_floor = IF floors = {} THEN "NONE"
                          ELSE FloorCeilings[BindingFloor(floors)].floor
  BY DEF AssessStep, Fields
<1> HIDE DEF a, floors
<1>5. IsFloored(a) <=> floors # {}
  BY <1>1, <1>4, BindingFloorBinds, CeilingsAre DEF IsFloored
<1>6. EffectiveExecutor(a) = RecommendedExecutor(c, floors)
  BY <1>4 DEF EffectiveExecutor
<1>7. ApplicableFloors(a.factors, a.authority) = floors
  BY <1>4 DEF floors
<1> QED BY <1>3, <1>4, <1>5, <1>6, <1>7 DEF RowOK, RespectsFloors, a

\* An override that is permitted stays under every floor.
LEMMA OverriddenUnderFloors ==
    ASSUME NEW a, RowOK(a), NEW to \in ExecutorClasses, OverridePermitted(a, to)
    PROVE  RowOK(ApplyOverride(a, to))
<1> DEFINE b == ApplyOverride(a, to)
<1>1. /\ DOMAIN b = Fields /\ b.override = to /\ b.factors = a.factors
      /\ b.authority = a.authority /\ b.safety_floor = a.safety_floor
  BY DEF ApplyOverride, RowOK, Fields
<1>2. EffectiveExecutor(b) = to
  BY <1>1, ClassesAre DEF EffectiveExecutor
<1> HIDE DEF b
<1>3. IsFloored(b) <=> IsFloored(a)
  BY <1>1 DEF IsFloored
<1>4. ASSUME NEW i \in ApplicableFloors(a.factors, a.authority)
      PROVE  AutonomyRank[to] <= CeilingRank(i)
  <2>1. AutonomyRank[to] <= AutonomyRank[EffectiveExecutor(a)]
    BY <1>4 DEF OverridePermitted, RowOK, RespectsFloors
  <2>2. AutonomyRank[EffectiveExecutor(a)] <= CeilingRank(i)
    BY <1>4 DEF RowOK, RespectsFloors
  <2>3. i \in 1..5
    BY <1>4 DEF ApplicableFloors
  <2>4. CeilingRank(i) \in Nat
    BY <2>3, CeilingsAre
  <2> QED BY <2>1, <2>2, <2>4, ClassesAre DEF RowOK, RespectsFloors
<1> QED BY <1>1, <1>2, <1>3, <1>4 DEF RowOK, RespectsFloors, b
-----------------------------------------------------------------------------
(* The stored assessments *)

RowsOK(rows) == \A id \in DOMAIN rows : RowOK(rows[id])

\* What a program that is about to store rows holds.
Holds(s) ==
    /\ "at" \in DOMAIN s
    /\ s.at \in {"store assessments", "store override"} => RowsOK(s.rows)

FloorInv ==
    /\ RowsOK(assessments)
    /\ DOMAIN session = Programs /\ \A p \in Programs : Holds(session[p])

LEMMA InvGivesFloors == FloorInv => RowsRespectFloors
BY DEF FloorInv, RowsOK, RowOK, RowsRespectFloors

\* A step of one session that leaves the stored rows alone.
LEMMA SessionMoves ==
    ASSUME FloorInv, NEW p \in Programs, NEW s, Holds(s),
           session' = [session EXCEPT ![p] = s], UNCHANGED assessments
    PROVE  FloorInv'
BY DEF FloorInv

LEMMA IdleHolds == Holds(Idle)
BY DEF Holds, Idle

LEMMA CommandBegins ==
    ASSUME FloorInv, NEW p \in Programs, NEW command, NEW s, Holds(s), Begin(p, command, s)
    PROVE  FloorInv'
BY SessionMoves DEF Begin, ledger

LEMMA ProgramGoes ==
    ASSUME FloorInv, NEW p \in Programs, NEW place, GoTo(p, place),
           place \notin {"store assessments", "store override"}, UNCHANGED assessments
    PROVE  FloorInv'
<1> DEFINE s == [session[p] EXCEPT !.at = place]
<1>1. session' = [session EXCEPT ![p] = s]
  BY DEF GoTo, FloorInv
<1>2. Holds(s)
  BY DEF FloorInv, Holds
<1> QED BY <1>1, <1>2, SessionMoves

LEMMA ProgramLeaves ==
    ASSUME FloorInv, NEW p \in Programs, Leave(p), UNCHANGED assessments
    PROVE  FloorInv'
BY IdleHolds, SessionMoves DEF Leave

\* A recorded override that is carried is one of the classes.
LEMMA CarriedIsClass ==
    ASSUME FloorInv, NEW d, NEW replaced, NEW id \in Carried(d, replaced)
    PROVE  assessments[id].override \in ExecutorClasses
BY DEF FloorInv, RowsOK, RowOK, RespectsFloors, EffectiveExecutor, Carried

LEMMA FreshOK == ASSUME NEW d PROVE DOMAIN Fresh(d) = StepIds(d) /\ RowsOK(Fresh(d))
BY AssessedUnderFloors DEF Fresh, RowsOK

LEMMA ReassessedOK ==
    ASSUME FloorInv, NEW d, NEW replaced, CarriesOver(d, replaced)
    PROVE  DOMAIN Reassessed(d, replaced) = StepIds(d) /\ RowsOK(Reassessed(d, replaced))
<1>1. ASSUME NEW id \in StepIds(d) PROVE RowOK(Reassessed(d, replaced)[id])
  <2>1. RowOK(Fresh(d)[id])
    BY FreshOK DEF RowsOK
  <2>2. CASE id \in Carried(d, replaced)
    <3>1. OverridePermitted(Fresh(d)[id], assessments[id].override)
      BY <2>2 DEF CarriesOver
    <3>2. Reassessed(d, replaced)[id] = ApplyOverride(Fresh(d)[id], assessments[id].override)
      BY <2>2 DEF Reassessed
    <3> QED BY <2>1, <2>2, <3>1, <3>2, CarriedIsClass, OverriddenUnderFloors
  <2>3. CASE id \notin Carried(d, replaced)
    <3>1. Reassessed(d, replaced)[id] = Fresh(d)[id]
      BY <2>3 DEF Reassessed
    <3> QED BY <2>1, <3>1
  <2> QED BY <2>2, <2>3
<1>2. DOMAIN Reassessed(d, replaced) = StepIds(d)
  BY DEF Reassessed
<1> QED BY <1>1, <1>2 DEF RowsOK

\* Overrides given to a command name classes.
LEMMA ReplacementsAreClasses ==
    ASSUME NEW replacing \in Replacements, NEW id \in DOMAIN replacing
    PROVE  replacing[id] \in ExecutorClasses
<1>1. DOMAIN <<>> = {}
  OBVIOUS
<1>2. replacing # <<>>
  BY <1>1
<1>3. PICK x : replacing \in [{x} -> Targets]
  BY <1>2 DEF Replacements
<1> QED BY <1>3, TargetsAreClasses

LEMMA CommandLineAssesses ==
    ASSUME FloorInv, NEW p \in Programs, NEW replacing \in Replacements,
           WorkflowAssessCooperation(p, replacing)
    PROVE  FloorInv'
<1> DEFINE d == Newest
<1> DEFINE rows == [id \in StepIds(d) |->
                      IF id \in DOMAIN replacing
                      THEN ApplyOverride(Fresh(d)[id], replacing[id])
                      ELSE Reassessed(d, DOMAIN replacing)[id]]
<1> DEFINE s == [at |-> "store assessments", rows |-> rows]
<1>1. /\ CarriesOver(d, DOMAIN replacing)
      /\ \A id \in DOMAIN replacing : OverridePermitted(Fresh(d)[id], replacing[id])
      /\ Begin(p, "assess", s)
  BY DEF WorkflowAssessCooperation
<1>2. ASSUME NEW id \in StepIds(d) PROVE RowOK(rows[id])
  <2>1. CASE id \in DOMAIN replacing
    <3>1. RowOK(Fresh(d)[id])
      BY FreshOK DEF RowsOK
    <3>2. rows[id] = ApplyOverride(Fresh(d)[id], replacing[id])
      BY <2>1
    <3> HIDE DEF d, rows
    <3> QED BY <1>1, <2>1, <3>1, <3>2, ReplacementsAreClasses, OverriddenUnderFloors
  <2>2. CASE id \notin DOMAIN replacing
    <3>1. rows[id] = Reassessed(d, DOMAIN replacing)[id]
      BY <2>2
    <3> HIDE DEF d, rows
    <3> QED BY <1>1, <3>1, ReassessedOK DEF RowsOK
  <2> QED BY <2>1, <2>2
<1>3. DOMAIN rows = StepIds(d)
  OBVIOUS
<1> HIDE DEF rows
<1>4. Holds(s)
  BY <1>2, <1>3 DEF Holds, RowsOK
<1> QED BY <1>1, <1>4, CommandBegins

LEMMA DesktopAssesses ==
    ASSUME FloorInv, NEW p \in Programs, AssessCooperation(p)
    PROVE  FloorInv'
<1> DEFINE s == [at |-> "store assessments", rows |-> Reassessed(Newest, {})]
<1>1. CarriesOver(Newest, {}) /\ Begin(p, "assess", s)
  BY DEF AssessCooperation
<1>2. Holds(s)
  BY <1>1, ReassessedOK DEF Holds
<1> QED BY <1>1, <1>2, CommandBegins

LEMMA DesktopOverrides ==
    ASSUME FloorInv, NEW p \in Programs, NEW id, NEW to \in Targets, OverrideExecutor(p, id, to)
    PROVE  FloorInv'
<1> DEFINE rows == [x \in {id} |-> ApplyOverride(assessments[x], to)]
<1> DEFINE s == [at |-> "store override", rows |-> rows]
<1>1. /\ id \in DOMAIN assessments /\ OverridePermitted(assessments[id], to)
      /\ Begin(p, "override", s)
  BY DEF OverrideExecutor
<1>2. RowOK(ApplyOverride(assessments[id], to))
  BY <1>1, TargetsAreClasses, OverriddenUnderFloors DEF FloorInv, RowsOK
<1>3. RowsOK(rows)
  BY <1>2 DEF RowsOK
<1> HIDE DEF rows
<1>4. Holds(s)
  BY <1>3 DEF Holds
<1> QED BY <1>1, <1>4, CommandBegins

LEMMA RowsAreSaved ==
    ASSUME FloorInv, NEW p \in Programs, SaveAssessments(p)
    PROVE  FloorInv'
<1>1. RowsOK(session[p].rows)
  BY DEF SaveAssessments, At, FloorInv, Holds
<1>2. assessments' = [id \in DOMAIN session[p].rows \cup DOMAIN assessments |->
                        IF id \in DOMAIN session[p].rows THEN session[p].rows[id]
                        ELSE assessments[id]]
  BY DEF SaveAssessments
<1>3. RowsOK(assessments')
  BY <1>1, <1>2 DEF RowsOK, FloorInv
<1>4. \E s : Holds(s) /\ session' = [session EXCEPT ![p] = s]
  <2>1. Holds([at |-> "reassess"])
    BY DEF Holds
  <2> QED BY <2>1, IdleHolds DEF SaveAssessments, Leave
<1>5. DOMAIN session' = Programs /\ \A q \in Programs : Holds(session'[q])
  BY <1>4 DEF FloorInv
<1> QED BY <1>3, <1>5 DEF FloorInv

LEMMA DesktopReassesses ==
    ASSUME FloorInv, NEW p \in Programs, Reassess(p)
    PROVE  FloorInv'
<1>1. UNCHANGED assessments
  BY DEF Reassess, ledger
<1>2. CASE artifacts # <<>> /\ CarriesOver(Newest, {})
  <2> DEFINE s == [at |-> "store assessments", rows |-> Reassessed(Newest, {})]
  <2>1. session' = [session EXCEPT ![p] = s]
    BY <1>2 DEF Reassess
  <2>2. Holds(s)
    BY <1>2, ReassessedOK DEF Holds
  <2> QED BY <1>1, <2>1, <2>2, SessionMoves
<1>3. CASE ~(artifacts # <<>> /\ CarriesOver(Newest, {}))
  BY <1>1, <1>3, ProgramLeaves DEF Reassess
<1> QED BY <1>2, <1>3

LEMMA CaptureKeepsFloors ==
    ASSUME FloorInv, NEW p \in Programs, Capture(p)
    PROVE  FloorInv'
<1>1. CASE ImportDraft(p)
  BY <1>1, CommandBegins DEF ImportDraft, Holds
<1>2. CASE WorkflowValidate(p) \/ ValidateDraft(p)
  BY <1>2, CommandBegins DEF WorkflowValidate, ValidateDraft, Validate, Holds
<1>3. ASSUME NEW id, NEW by, WorkflowAcceptRisk(p, id, by) \/ AcceptFinding(p, id, by)
      PROVE  FloorInv'
  <2>1. PICK s : s.at = "store acceptance" /\ "at" \in DOMAIN s /\ Begin(p, "accept", s)
    BY <1>3 DEF WorkflowAcceptRisk, AcceptFinding, AcceptRisk
  <2> QED BY <2>1, CommandBegins DEF Holds
<1>4. CASE SaveRiskAcceptance(p)
  <2> DEFINE s == [at |-> "store draft", draft |-> session[p].draft, report |-> session[p].report]
  <2>1. session' = [session EXCEPT ![p] = s] /\ UNCHANGED assessments
    BY <1>4 DEF SaveRiskAcceptance
  <2>2. Holds(s)
    BY DEF Holds
  <2> QED BY <2>1, <2>2, SessionMoves
<1>5. CASE SaveDraft(p)
  BY <1>5, ProgramLeaves, ProgramGoes DEF SaveDraft
<1>6. CASE SaveReport(p)
  BY <1>6, ProgramLeaves DEF SaveReport
<1> QED BY <1>1, <1>2, <1>3, <1>4, <1>5, <1>6 DEF Capture

LEMMA ClimbKeepsFloors ==
    ASSUME FloorInv, NEW p \in Programs, Climb(p)
    PROVE  FloorInv'
<1>1. CASE WorkflowPromote(p) \/ PromoteDraft(p)
  <2>1. PICK s : s.at = "cite" /\ "at" \in DOMAIN s /\ Begin(p, "promote", s)
    BY <1>1 DEF WorkflowPromote, PromoteDraft, Promote
  <2> QED BY <2>1, CommandBegins DEF Holds
<1>2. CASE CiteReport(p)
  BY <1>2, ProgramGoes DEF CiteReport, Verdict
<1>3. CASE Refuse(p) \/ Grant(p)
  BY <1>3, ProgramLeaves DEF Refuse, Grant, RecordPromotion
<1>4. CASE AdvanceDraft(p)
  BY <1>4, ProgramGoes DEF AdvanceDraft
<1>5. CASE LookForArtifact(p)
  BY <1>5, ProgramGoes DEF LookForArtifact, ledger
<1>6. CASE InsertArtifact(p)
  BY <1>6, ProgramGoes, ProgramLeaves DEF InsertArtifact
<1> QED BY <1>1, <1>2, <1>3, <1>4, <1>5, <1>6 DEF Climb

LEMMA AssignKeepsFloors ==
    ASSUME FloorInv, NEW p \in Programs, Assign(p)
    PROVE  FloorInv'
<1>1. ASSUME NEW approved, WorkflowBuildCooperative(p, approved) \/ BuildCooperativeDraft(p, approved)
      PROVE  FloorInv'
  <2>1. PICK s : s.at = "store cooperative" /\ "at" \in DOMAIN s /\ Begin(p, "build", s)
    BY <1>1 DEF WorkflowBuildCooperative, BuildCooperativeDraft, Build
  <2> QED BY <2>1, CommandBegins DEF Holds
<1>2. CASE WorkflowExportAgentBrief(p) \/ ExportBrief(p)
  <2>1. PICK s : s.at = "store brief" /\ "at" \in DOMAIN s /\ Begin(p, "export", s)
    BY <1>2 DEF WorkflowExportAgentBrief, ExportBrief, Export
  <2> QED BY <2>1, CommandBegins DEF Holds
<1>3. CASE SaveCooperative(p) \/ SaveBrief(p)
  BY <1>3, ProgramLeaves DEF SaveCooperative, SaveBrief
<1> QED BY <1>1, <1>2, <1>3 DEF Assign

LEMMA FloorsInit == Init => FloorInv
<1> SUFFICES ASSUME Init PROVE FloorInv
  OBVIOUS
<1>1. assessments = <<>> /\ DOMAIN <<>> = {}
  BY DEF Init
<1> QED BY <1>1, IdleHolds DEF Init, FloorInv, RowsOK

LEMMA FloorsKept == FloorInv /\ [Next]_vars => FloorInv'
<1> SUFFICES ASSUME FloorInv, [Next]_vars PROVE FloorInv'
  OBVIOUS
<1>1. CASE UNCHANGED <<assessments, session>>
  BY <1>1 DEF FloorInv
<1>2. ASSUME NEW f, Edit(f) PROVE FloorInv'
  BY <1>1, <1>2 DEF Edit, ledger
<1>3. ASSUME NEW p \in Programs, Cooperate(p) PROVE FloorInv'
  BY <1>3, CommandLineAssesses, DesktopAssesses, DesktopOverrides, RowsAreSaved,
     DesktopReassesses DEF Cooperate
<1>4. ASSUME NEW p \in Programs, Die(p) PROVE FloorInv'
  BY <1>4, ProgramLeaves DEF Die, ledger
<1> QED BY <1>1, <1>2, <1>3, <1>4, CaptureKeepsFloors, ClimbKeepsFloors, AssignKeepsFloors
        DEF Next, vars, ledger

\* No stored assessment lets a step run more freely than a floor its own
\* facts trigger, whichever overrides, re-assessments and deaths interleave
\* (governance/cooperation.py assess_step, apply_override; cli.py and
\* gui/services/workflow.py, which both store what they were permitted).
THEOREM RowsAlwaysRespectFloors == Spec => []RowsRespectFloors
BY FloorsInit, FloorsKept, InvGivesFloors, PTL DEF Spec

-----------------------------------------------------------------------------
(* Promotions *)

LEMMA RowAppended ==
    ASSUME NEW s, IsList(s), NEW e
    PROVE  /\ Len(s) \in Nat /\ DOMAIN s = 1..Len(s)
           /\ IsList(Append(s, e))
           /\ DOMAIN Append(s, e) = 1..(Len(s) + 1)
           /\ \A i \in 1..Len(s) : Append(s, e)[i] = s[i]
           /\ Append(s, e)[Len(s) + 1] = e
           /\ Elements(Append(s, e)) = Elements(s) \cup {e}
<1> DEFINE t == Append(s, e)
<1>1. /\ Len(s) \in Nat /\ DOMAIN s = 1..Len(s)
      /\ \A i \in 1..Len(s) : s[i] \in Elements(s)
  BY DEF IsList, Elements
<1>2. s \in Seq(Elements(s) \cup {e})
  BY DEF IsList
<1>3. /\ t \in Seq(Elements(s) \cup {e}) /\ DOMAIN t = 1..(Len(s) + 1)
      /\ \A i \in 1..Len(s) : t[i] = s[i]
      /\ t[Len(s) + 1] = e
  BY <1>1, <1>2
<1> HIDE DEF t
<1>4. Elements(t) = Elements(s) \cup {e}
  <2>1. ASSUME NEW i \in DOMAIN t PROVE t[i] \in Elements(s) \cup {e}
    BY <1>1, <1>3, <2>1
  <2>2. ASSUME NEW i \in DOMAIN s PROVE s[i] \in Elements(t)
    <3>1. i \in DOMAIN t /\ t[i] = s[i]
      BY <1>1, <1>3
    <3> QED BY <3>1 DEF Elements
  <2>3. e \in Elements(t)
    <3>1. Len(s) + 1 \in DOMAIN t
      BY <1>1, <1>3
    <3> QED BY <1>3, <3>1 DEF Elements
  <2> QED BY <2>1, <2>2, <2>3 DEF Elements
<1> QED BY <1>1, <1>3, <1>4 DEF IsList, t

LEMMA EmptyTable == IsList(<<>>) /\ Elements(<<>>) = {} /\ DOMAIN <<>> = {}
BY DEF IsList, Elements

\* What a promotion cites: content without blocking findings, each accepted
\* risk one of its advisory findings and on record.
Accountable(report, record) ==
    /\ \A f \in Findings[report.edition] : ~Blocking(f)
    /\ report.accepted \subseteq record
    /\ \A r \in report.accepted : r.id \in Advisory(report.edition)
    /\ \A r, t \in report.accepted : r.id = t.id => r = t

Places == {"cite", "refuse", "advance", "look", "insert", "grant"}

\* What a program that is promoting holds.
Promoting(s, record) ==
    s.at \in Places =>
        /\ DOMAIN s = {"at", "draft", "report", "rows"}
        /\ s.report.edition = s.draft.edition
        /\ Accountable(s.report, record)
        /\ s.at = "advance" => Target(s.draft) = "MAPPED"
        /\ s.at \in {"look", "insert"} => Target(s.draft) # "MAPPED"

\* A program that has stored an artifact and not yet the row that grants it.
Granting(s) == s.at = "grant" /\ Target(s.draft) # "MAPPED"

Alike(row, s) ==
    /\ row.granted /\ row.to = Target(s.draft)
    /\ Version(row.report.edition) = Version(s.draft.edition)

\* It has its artifact, and is alone in granting that version this maturity.
GrantsAlone ==
    \A p \in Programs : Granting(session[p]) =>
        /\ \E a \in Elements(artifacts) :
              a.edition = session[p].draft.edition /\ a.maturity = Target(session[p].draft)
        /\ \A i \in DOMAIN promotions : ~Alike(promotions[i], session[p])
        /\ \A q \in Programs \ {p} :
              Granting(session[q]) /\ Target(session[q].draft) = Target(session[p].draft)
                 => Version(session[q].draft.edition) # Version(session[p].draft.edition)

PromotionInv ==
    /\ FloorInv
    /\ IsList(acceptances) /\ IsList(promotions) /\ IsList(artifacts)
    /\ \A p \in Programs : Promoting(session[p], Elements(acceptances))
    /\ ArtifactsAreAccountable
    /\ GrantsHaveArtifacts
    /\ GrantsAlone

\* The kind of a finding is part of its identity.
LEMMA BlockingIsApart ==
    ASSUME NEW e, NEW f \in Findings[e], Blocking(f)
    PROVE  FindingId(f) \notin Advisory(e)
BY DEF Advisory, FindingId, Blocking

\* The oldest acceptance of a finding is on record and is of that finding.
LEMMA OldestIsOnRecord ==
    ASSUME IsList(acceptances), NEW r \in Elements(acceptances)
    PROVE  Oldest(r.id) \in Elements(acceptances) /\ Oldest(r.id).id = r.id
<1> DEFINE T == {i \in DOMAIN acceptances : acceptances[i].id = r.id}
<1>1. T \in SUBSET Nat /\ T # {} /\ DOMAIN acceptances = 1..Len(acceptances)
  BY DEF IsList, Elements
<1>2. PICK i \in T : \A j \in T : i <= j
  <2> HIDE DEF T
  <2> QED BY <1>1, LeastNumber
<1>3. \A j \in 1..(i - 1) : acceptances[j].id # r.id
  <2>1. ASSUME NEW j \in 1..(i - 1) PROVE j \in DOMAIN acceptances /\ ~(i <= j)
    BY <1>1, <2>1
  <2> QED BY <1>2, <2>1
<1> QED BY <1>2, <1>3 DEF Oldest, Elements

LEMMA ReportIsAccountable ==
    ASSUME IsList(acceptances), NEW e, UnresolvedBlocking(ReportOn(e)) = {}
    PROVE  ReportOn(e).edition = e /\ Accountable(ReportOn(e), Elements(acceptances))
<1> DEFINE r == ReportOn(e)
<1>1. r.edition = e
  BY DEF ReportOn
<1>2. ASSUME NEW a \in r.accepted
      PROVE  /\ a \in Elements(acceptances) /\ a.id \in Advisory(e) /\ a = Oldest(a.id)
  <2>1. PICK id \in Advisory(e) \cap {x.id : x \in Elements(acceptances)} : a = Oldest(id)
    BY <1>2 DEF ReportOn
  <2>2. PICK x \in Elements(acceptances) : x.id = id
    BY <2>1
  <2>3. Oldest(id) \in Elements(acceptances) /\ Oldest(id).id = id
    BY <2>2, OldestIsOnRecord
  <2> QED BY <2>1, <2>3
<1> HIDE DEF r
<1>3. ASSUME NEW f \in Findings[e], Blocking(f) PROVE FALSE
  <2>1. FindingId(f) \in {a.id : a \in r.accepted}
    BY <1>1, <1>3 DEF UnresolvedBlocking, r
  <2>2. FindingId(f) \in Advisory(e)
    BY <1>2, <2>1
  <2> QED BY <1>3, <2>2, BlockingIsApart
<1> QED BY <1>1, <1>2, <1>3 DEF Accountable, r

LEMMA AccountableGrows ==
    ASSUME NEW report, NEW record, NEW more, Accountable(report, record), record \subseteq more
    PROVE  Accountable(report, more)
BY DEF Accountable

\* A step of one session that leaves the trail and the artifacts alone and
\* does not come to grant beyond MAPPED.
LEMMA SessionClimbs ==
    ASSUME PromotionInv, FloorInv', NEW p \in Programs, NEW s,
           session' = [session EXCEPT ![p] = s],
           ~Granting(s), Promoting(s, Elements(acceptances')),
           Elements(acceptances) \subseteq Elements(acceptances'), IsList(acceptances'),
           UNCHANGED <<promotions, artifacts>>
    PROVE  PromotionInv'
<1>1. /\ session'[p] = s
      /\ \A q \in Programs \ {p} : session'[q] = session[q]
  BY DEF PromotionInv, FloorInv
<1>2. ASSUME NEW q \in Programs PROVE Promoting(session'[q], Elements(acceptances'))
  <2>1. CASE q = p
    BY <1>1, <2>1
  <2>2. CASE q # p
    <3>1. Promoting(session[q], Elements(acceptances))
      BY DEF PromotionInv
    <3> QED BY <1>1, <2>2, <3>1, AccountableGrows DEF Promoting
  <2> QED BY <2>1, <2>2
<1>3. ArtifactsAreAccountable'
  BY DEF PromotionInv, ArtifactsAreAccountable
<1>4. GrantsHaveArtifacts'
  BY DEF PromotionInv, GrantsHaveArtifacts
<1>5. GrantsAlone'
  <2>1. \A q \in Programs : Granting(session'[q]) => q # p /\ session'[q] = session[q]
    BY <1>1
  <2> QED BY <2>1 DEF PromotionInv, GrantsAlone
<1> QED BY <1>2, <1>3, <1>4, <1>5 DEF PromotionInv

\* Steps outside a promotion: the record of acceptances may grow.
Quiet(p) ==
    \E s : /\ "at" \in DOMAIN s /\ s.at \notin Places
           /\ session' = [session EXCEPT ![p] = s]
           /\ UNCHANGED <<promotions, artifacts>>
           /\ \/ UNCHANGED acceptances
              \/ \E row : acceptances' = Append(acceptances, row)

LEMMA QuietKeepsGrants ==
    ASSUME PromotionInv, FloorInv', NEW p \in Programs, Quiet(p)
    PROVE  PromotionInv'
<1>1. PICK s : /\ "at" \in DOMAIN s /\ s.at \notin Places
               /\ session' = [session EXCEPT ![p] = s]
               /\ UNCHANGED <<promotions, artifacts>>
               /\ \/ UNCHANGED acceptances
                  \/ \E row : acceptances' = Append(acceptances, row)
  BY DEF Quiet
<1>2. ~Granting(s) /\ Promoting(s, Elements(acceptances'))
  BY <1>1 DEF Granting, Promoting, Places
<1>3. IsList(acceptances)
  BY DEF PromotionInv
<1>4. Elements(acceptances) \subseteq Elements(acceptances') /\ IsList(acceptances')
  <2>1. CASE UNCHANGED acceptances
    BY <1>3, <2>1
  <2>2. ASSUME NEW row, acceptances' = Append(acceptances, row)
        PROVE  Elements(acceptances) \subseteq Elements(acceptances') /\ IsList(acceptances')
    BY <1>3, <2>2, RowAppended
  <2> QED BY <1>1, <2>1, <2>2
<1> QED BY <1>1, <1>2, <1>4, SessionClimbs

LEMMA QuietSteps ==
    ASSUME NEW p \in Programs, NEW s, "at" \in DOMAIN s, s.at \notin Places,
           session' = [session EXCEPT ![p] = s], UNCHANGED <<promotions, artifacts>>,
           UNCHANGED acceptances \/ \E row : acceptances' = Append(acceptances, row)
    PROVE  Quiet(p)
BY DEF Quiet

LEMMA QuietBegins ==
    ASSUME NEW p \in Programs, NEW command, NEW s, "at" \in DOMAIN s, s.at \notin Places,
           Begin(p, command, s)
    PROVE  Quiet(p)
<1>1. session' = [session EXCEPT ![p] = s] /\ UNCHANGED <<promotions, artifacts, acceptances>>
  BY DEF Begin, ledger
<1> QED BY <1>1, QuietSteps

LEMMA QuietLeaves ==
    ASSUME NEW p \in Programs, Leave(p), UNCHANGED <<promotions, artifacts, acceptances>>
    PROVE  Quiet(p)
<1>1. "at" \in DOMAIN Idle /\ Idle.at \notin Places
  BY DEF Idle, Places
<1> QED BY <1>1, QuietSteps DEF Leave

LEMMA CaptureIsQuiet ==
    ASSUME FloorInv, NEW p \in Programs, Capture(p)
    PROVE  Quiet(p)
<1>1. CASE ImportDraft(p)
  BY <1>1, QuietBegins DEF ImportDraft, Places
<1>2. CASE WorkflowValidate(p) \/ ValidateDraft(p)
  BY <1>2, QuietBegins DEF WorkflowValidate, ValidateDraft, Validate, Places
<1>3. ASSUME NEW id, NEW by, WorkflowAcceptRisk(p, id, by) \/ AcceptFinding(p, id, by)
      PROVE  Quiet(p)
  <2>1. PICK s : s.at = "store acceptance" /\ "at" \in DOMAIN s /\ Begin(p, "accept", s)
    BY <1>3 DEF WorkflowAcceptRisk, AcceptFinding, AcceptRisk
  <2> QED BY <2>1, QuietBegins DEF Places
<1>4. CASE SaveRiskAcceptance(p)
  <2> DEFINE s == [at |-> "store draft", draft |-> session[p].draft, report |-> session[p].report]
  <2>1. /\ session' = [session EXCEPT ![p] = s] /\ UNCHANGED <<promotions, artifacts>>
        /\ acceptances' = Append(acceptances, session[p].row)
    BY <1>4 DEF SaveRiskAcceptance
  <2>2. "at" \in DOMAIN s /\ s.at \notin Places
    BY DEF Places
  <2> HIDE DEF s
  <2> QED BY <2>1, <2>2, QuietSteps
<1>5. CASE SaveDraft(p) /\ session[p].report # None
  <2> DEFINE s == [session[p] EXCEPT !.at = "store report"]
  <2>1. session' = [session EXCEPT ![p] = s]
    BY <1>5 DEF SaveDraft, GoTo, FloorInv
  <2>2. "at" \in DOMAIN s /\ s.at = "store report"
    BY DEF FloorInv, Holds
  <2>3. UNCHANGED <<promotions, artifacts, acceptances>> /\ s.at \notin Places
    BY <1>5, <2>2 DEF SaveDraft, Places
  <2> HIDE DEF s
  <2> QED BY <2>1, <2>2, <2>3, QuietSteps
<1>6. CASE SaveDraft(p) /\ session[p].report = None
  BY <1>6, QuietLeaves DEF SaveDraft
<1>7. CASE SaveReport(p)
  BY <1>7, QuietLeaves DEF SaveReport
<1> QED BY <1>1, <1>2, <1>3, <1>4, <1>5, <1>6, <1>7 DEF Capture

LEMMA CooperateIsQuiet ==
    ASSUME NEW p \in Programs, Cooperate(p)
    PROVE  Quiet(p)
<1>1. ASSUME NEW replacing, WorkflowAssessCooperation(p, replacing) PROVE Quiet(p)
  <2>1. PICK s : s.at = "store assessments" /\ "at" \in DOMAIN s /\ Begin(p, "assess", s)
    BY <1>1 DEF WorkflowAssessCooperation
  <2> QED BY <2>1, QuietBegins DEF Places
<1>2. CASE AssessCooperation(p)
  <2>1. PICK s : s.at = "store assessments" /\ "at" \in DOMAIN s /\ Begin(p, "assess", s)
    BY <1>2 DEF AssessCooperation
  <2> QED BY <2>1, QuietBegins DEF Places
<1>3. ASSUME NEW id, NEW to, OverrideExecutor(p, id, to) PROVE Quiet(p)
  <2>1. PICK s : s.at = "store override" /\ "at" \in DOMAIN s /\ Begin(p, "override", s)
    BY <1>3 DEF OverrideExecutor
  <2> QED BY <2>1, QuietBegins DEF Places
<1>4. CASE SaveAssessments(p)
  <2>1. UNCHANGED <<promotions, artifacts, acceptances>>
    BY <1>4 DEF SaveAssessments
  <2>2. CASE At(p, "store override")
    <3> DEFINE s == [at |-> "reassess"]
    <3>1. session' = [session EXCEPT ![p] = s]
      BY <1>4, <2>2 DEF SaveAssessments
    <3>2. "at" \in DOMAIN s /\ s.at \notin Places
      BY DEF Places
    <3> HIDE DEF s
    <3> QED BY <2>1, <3>1, <3>2, QuietSteps
  <2>3. CASE ~At(p, "store override")
    BY <1>4, <2>1, <2>3, QuietLeaves DEF SaveAssessments
  <2> QED BY <2>2, <2>3
<1>5. CASE Reassess(p)
  <2>1. UNCHANGED <<promotions, artifacts, acceptances>>
    BY <1>5 DEF Reassess, ledger
  <2>2. CASE artifacts # <<>> /\ CarriesOver(Newest, {})
    <3> DEFINE s == [at |-> "store assessments", rows |-> Reassessed(Newest, {})]
    <3>1. session' = [session EXCEPT ![p] = s]
      BY <1>5, <2>2 DEF Reassess
    <3>2. "at" \in DOMAIN s /\ s.at \notin Places
      BY DEF Places
    <3> HIDE DEF s
    <3> QED BY <2>1, <3>1, <3>2, QuietSteps
  <2>3. CASE ~(artifacts # <<>> /\ CarriesOver(Newest, {}))
    BY <1>5, <2>1, <2>3, QuietLeaves DEF Reassess
  <2> QED BY <2>2, <2>3
<1> QED BY <1>1, <1>2, <1>3, <1>4, <1>5 DEF Cooperate

LEMMA AssignIsQuiet ==
    ASSUME NEW p \in Programs, Assign(p)
    PROVE  Quiet(p)
<1>1. ASSUME NEW approved, WorkflowBuildCooperative(p, approved) \/ BuildCooperativeDraft(p, approved)
      PROVE  Quiet(p)
  <2>1. PICK s : s.at = "store cooperative" /\ "at" \in DOMAIN s /\ Begin(p, "build", s)
    BY <1>1 DEF WorkflowBuildCooperative, BuildCooperativeDraft, Build
  <2> QED BY <2>1, QuietBegins DEF Places
<1>2. CASE WorkflowExportAgentBrief(p) \/ ExportBrief(p)
  <2>1. PICK s : s.at = "store brief" /\ "at" \in DOMAIN s /\ Begin(p, "export", s)
    BY <1>2 DEF WorkflowExportAgentBrief, ExportBrief, Export
  <2> QED BY <2>1, QuietBegins DEF Places
<1>3. CASE SaveCooperative(p) \/ SaveBrief(p)
  BY <1>3, QuietLeaves DEF SaveCooperative, SaveBrief
<1> QED BY <1>1, <1>2, <1>3 DEF Assign

\* A promotion goes from one place to the next.
LEMMA ClimbGoesOn ==
    ASSUME PromotionInv, FloorInv', NEW p \in Programs, NEW place,
           session[p].at \in Places, GoTo(p, place), place \in Places,
           place \in {"advance", "grant"} => Target(session[p].draft) = "MAPPED",
           place \in {"look", "insert"} => Target(session[p].draft) # "MAPPED",
           UNCHANGED <<acceptances, promotions, artifacts>>
    PROVE  PromotionInv'
<1> DEFINE s == [session[p] EXCEPT !.at = place]
<1>1. session' = [session EXCEPT ![p] = s]
  BY DEF GoTo, PromotionInv, FloorInv
<1>2. Promoting(session[p], Elements(acceptances))
  BY DEF PromotionInv
<1>3. /\ DOMAIN s = {"at", "draft", "report", "rows"} /\ s.at = place
      /\ s.draft = session[p].draft /\ s.report = session[p].report
  BY <1>2 DEF Promoting
<1> HIDE DEF s
<1>4. ~Granting(s) /\ Promoting(s, Elements(acceptances))
  BY <1>2, <1>3 DEF Promoting, Granting
<1>5. IsList(acceptances)
  BY DEF PromotionInv
<1> QED BY <1>1, <1>4, <1>5, SessionClimbs

LEMMA PromoteKeepsGrants ==
    ASSUME PromotionInv, FloorInv', NEW p \in Programs, Promote(p)
    PROVE  PromotionInv'
<1> DEFINE draft == AtRecordedMaturity(file)
           report == ReportOn(draft.edition)
           s == [at |-> "cite", draft |-> draft, report |-> report, rows |-> assessments]
<1>1. UnresolvedBlocking(report) = {} /\ Begin(p, "promote", s)
  BY DEF Promote
<1>2. IsList(acceptances)
  BY DEF PromotionInv
<1>3. report.edition = draft.edition /\ Accountable(report, Elements(acceptances))
  <2> HIDE DEF draft
  <2> QED BY <1>1, <1>2, ReportIsAccountable
<1> HIDE DEF draft, report
<1>4. ~Granting(s) /\ Promoting(s, Elements(acceptances))
  BY <1>3 DEF Granting, Promoting
<1>5. session' = [session EXCEPT ![p] = s] /\ UNCHANGED <<acceptances, promotions, artifacts>>
  BY <1>1 DEF Begin, ledger
<1> HIDE DEF s
<1> QED BY <1>2, <1>4, <1>5, SessionClimbs

\* Where a verdict sends a promotion follows from the rung it is for.
LEMMA VerdictFitsTarget ==
    ASSUME NEW draft, NEW report, NEW rows
    PROVE  /\ Verdict(draft, report, rows) \in {"refuse", "advance", "look"}
           /\ Verdict(draft, report, rows) = "advance" => Target(draft) = "MAPPED"
           /\ Verdict(draft, report, rows) = "look" => Target(draft) # "MAPPED"
<1>1. Len(Ladder) = 8 /\ Enforced = 6
  <2>1. /\ DOMAIN Ladder = 1..8 /\ Len(Ladder) = 8
        /\ \A i \in 1..8 : Ladder[i] = "RUNTIME_READY" <=> i = 6
    BY DEF Ladder
  <2> QED BY <2>1 DEF Enforced, Rung
<1> QED BY <1>1 DEF Verdict, Target

LEMMA CiteKeepsGrants ==
    ASSUME PromotionInv, FloorInv', NEW p \in Programs, CiteReport(p)
    PROVE  PromotionInv'
<1> DEFINE place == Verdict(session[p].draft, session[p].report, session[p].rows)
<1>1. session[p].at = "cite" /\ GoTo(p, place) /\ UNCHANGED <<acceptances, promotions, artifacts>>
  BY DEF CiteReport, At
<1>2. /\ place \in {"refuse", "advance", "look"}
      /\ place = "advance" => Target(session[p].draft) = "MAPPED"
      /\ place = "look" => Target(session[p].draft) # "MAPPED"
  BY VerdictFitsTarget
<1> HIDE DEF place
<1> QED BY <1>1, <1>2, ClimbGoesOn DEF Places

\* A refusal or a grant is put on the trail.
LEMMA RecordKeepsGrants ==
    ASSUME PromotionInv, FloorInv', NEW p \in Programs, NEW granted \in BOOLEAN,
           session[p].at \in Places, granted => session[p].at = "grant",
           RecordPromotion(p, granted)
    PROVE  PromotionInv'
<1> DEFINE s == session[p]
           row == PromotionRow(p, granted)
           n == Len(promotions)
<1>1. /\ promotions' = Append(promotions, row)
      /\ session' = [session EXCEPT ![p] = Idle]
      /\ UNCHANGED <<acceptances, artifacts>>
  BY DEF RecordPromotion, Leave
<1>2. /\ session'[p] = Idle
      /\ \A q \in Programs \ {p} : session'[q] = session[q]
  BY <1>1 DEF PromotionInv, FloorInv
<1>3. /\ row.granted = granted /\ row.to = Target(s.draft)
      /\ row.report.edition = s.draft.edition
  BY DEF PromotionRow, PromotionInv, Promoting
<1> HIDE DEF row
<1>4. /\ n \in Nat /\ DOMAIN promotions = 1..n /\ DOMAIN promotions' = 1..(n + 1)
      /\ IsList(promotions')
      /\ \A i \in 1..n : promotions'[i] = promotions[i]
      /\ promotions'[n + 1] = row
  BY <1>1, RowAppended DEF PromotionInv
<1> HIDE DEF n
<1>5. ~Granting(Idle) /\ Idle.at \notin Places
  BY DEF Idle, Granting, Places
<1>6. \A q \in Programs : Promoting(session'[q], Elements(acceptances'))
  BY <1>1, <1>2, <1>5 DEF PromotionInv, Promoting
<1>7. ArtifactsAreAccountable'
  BY <1>1 DEF PromotionInv, ArtifactsAreAccountable
<1>8. GrantsHaveArtifacts'
  <2> SUFFICES ASSUME NEW i \in 1..(n + 1),
                      promotions'[i].granted, promotions'[i].to # "MAPPED"
               PROVE  /\ \E a \in Elements(artifacts) :
                            /\ a.edition = promotions'[i].report.edition
                            /\ a.maturity = promotions'[i].to
                      /\ ~\E j \in 1..(i - 1) :
                            /\ promotions'[j].granted
                            /\ promotions'[j].to = promotions'[i].to
                            /\ Version(promotions'[j].report.edition)
                                  = Version(promotions'[i].report.edition)
    BY <1>1, <1>4 DEF GrantsHaveArtifacts
  <2>1. \A j \in 1..(i - 1) : j \in 1..n /\ promotions'[j] = promotions[j]
    BY <1>4
  <2>2. CASE i \in 1..n
    BY <1>4, <2>1, <2>2 DEF PromotionInv, GrantsHaveArtifacts
  <2>3. CASE i = n + 1
    <3>1. Granting(s) /\ promotions'[i] = row
      BY <1>3, <1>4, <2>3 DEF Granting
    <3>2. /\ \E a \in Elements(artifacts) :
                a.edition = s.draft.edition /\ a.maturity = Target(s.draft)
          /\ \A j \in DOMAIN promotions : ~Alike(promotions[j], s)
      BY <3>1 DEF PromotionInv, GrantsAlone
    <3> QED BY <1>3, <1>4, <2>1, <3>1, <3>2 DEF Alike
  <2> QED BY <1>4, <2>2, <2>3
<1>9. GrantsAlone'
  <2>1. \A q \in Programs : Granting(session'[q]) => q # p /\ session'[q] = session[q]
    BY <1>2, <1>5
  <2>2. ASSUME NEW q \in Programs, Granting(session'[q]), NEW i \in DOMAIN promotions'
        PROVE  ~Alike(promotions'[i], session[q])
    <3>1. q # p /\ Granting(session[q])
      BY <2>1, <2>2
    <3>2. CASE i \in 1..n
      BY <1>4, <3>1, <3>2 DEF PromotionInv, GrantsAlone
    <3>3. CASE i = n + 1
      <4>1. SUFFICES ASSUME Alike(row, session[q]) PROVE FALSE
        BY <1>4, <3>3
      <4>2. /\ Granting(s) /\ Target(session[q].draft) = Target(s.draft)
            /\ Version(session[q].draft.edition) = Version(s.draft.edition)
        BY <1>3, <3>1, <4>1 DEF Alike, Granting
      <4> QED BY <3>1, <4>2 DEF PromotionInv, GrantsAlone
    <3> QED BY <1>4, <2>2, <3>2, <3>3
  <2>3. ASSUME NEW q \in Programs, Granting(session'[q])
        PROVE  /\ session'[q] = session[q]
               /\ \E a \in Elements(artifacts') :
                     a.edition = session[q].draft.edition /\ a.maturity = Target(session[q].draft)
               /\ \A x \in Programs \ {q} :
                     Granting(session'[x]) /\ Target(session'[x].draft) = Target(session[q].draft)
                        => Version(session'[x].draft.edition) # Version(session[q].draft.edition)
    BY <1>1, <2>1, <2>3 DEF PromotionInv, GrantsAlone
  <2> QED BY <2>2, <2>3 DEF GrantsAlone
<1> QED BY <1>1, <1>4, <1>6, <1>7, <1>8, <1>9 DEF PromotionInv

\* The first artifact of a version and a maturity is inserted.
LEMMA InsertKeepsGrants ==
    ASSUME PromotionInv, FloorInv', NEW p \in Programs, InsertArtifact(p)
    PROVE  PromotionInv'
<1> DEFINE old == session[p]
           s == [session[p] EXCEPT !.at = "grant"]
           a == Artifact(session[p])
<1>1. CASE Uninsertable(old.draft)
  <2>1. Leave(p) /\ UNCHANGED <<promotions, artifacts, acceptances>>
    BY <1>1 DEF InsertArtifact
  <2> QED BY <2>1, QuietLeaves, QuietKeepsGrants
<1>2. CASE ~Uninsertable(old.draft)
  <2>1. /\ old.at = "insert"
        /\ artifacts' = Append(artifacts, a) /\ session' = [session EXCEPT ![p] = s]
        /\ UNCHANGED <<promotions, acceptances>>
    BY <1>2 DEF InsertArtifact, At, GoTo, PromotionInv, FloorInv
  <2>2. /\ DOMAIN old = {"at", "draft", "report", "rows"}
        /\ old.report.edition = old.draft.edition
        /\ Accountable(old.report, Elements(acceptances))
        /\ Target(old.draft) # "MAPPED"
    BY <2>1 DEF PromotionInv, Promoting, Places
  <2>3. /\ DOMAIN s = {"at", "draft", "report", "rows"} /\ s.at = "grant"
        /\ s.draft = old.draft /\ s.report = old.report
    BY <2>2
  <2>4. /\ a.edition = old.draft.edition /\ a.maturity = Target(old.draft)
        /\ a.accepted_risks = old.report.accepted
    BY DEF Artifact
  <2> HIDE DEF s, a
  <2>5. session'[p] = s /\ \A q \in Programs \ {p} : session'[q] = session[q]
    BY <2>1 DEF PromotionInv, FloorInv
  <2>6. IsList(artifacts') /\ Elements(artifacts') = Elements(artifacts) \cup {a}
    BY <2>1, RowAppended DEF PromotionInv
  <2>7. \A q \in Programs : Promoting(session'[q], Elements(acceptances'))
    BY <2>1, <2>2, <2>3, <2>5 DEF PromotionInv, Promoting
  <2>8. ArtifactsAreAccountable'
    BY <2>1, <2>2, <2>4, <2>6 DEF PromotionInv, ArtifactsAreAccountable, Accountable
  <2>9. GrantsHaveArtifacts'
    BY <2>1, <2>6 DEF PromotionInv, GrantsHaveArtifacts
  <2>10. \A x \in Elements(artifacts) : ~( /\ Version(x.edition) = Version(old.draft.edition)
                                           /\ x.maturity = Target(old.draft) )
    BY <1>2 DEF Uninsertable, HasArtifact
  <2>11. ASSUME NEW q \in Programs \ {p}, Granting(session[q]),
                Target(session[q].draft) = Target(old.draft)
         PROVE  Version(session[q].draft.edition) # Version(old.draft.edition)
    BY <2>10, <2>11 DEF PromotionInv, GrantsAlone
  <2>12. ASSUME NEW i \in DOMAIN promotions PROVE ~Alike(promotions[i], s)
    BY <2>2, <2>3, <2>10 DEF PromotionInv, GrantsHaveArtifacts, Alike
  <2>13. GrantsAlone'
    <3> SUFFICES ASSUME NEW q \in Programs, Granting(session'[q])
                 PROVE  /\ \E x \in Elements(artifacts') :
                              /\ x.edition = session'[q].draft.edition
                              /\ x.maturity = Target(session'[q].draft)
                        /\ \A i \in DOMAIN promotions : ~Alike(promotions[i], session'[q])
                        /\ \A x \in Programs \ {q} :
                              Granting(session'[x])
                              /\ Target(session'[x].draft) = Target(session'[q].draft)
                              => Version(session'[x].draft.edition)
                                    # Version(session'[q].draft.edition)
      BY <2>1 DEF GrantsAlone
    <3>1. CASE q = p
      BY <2>3, <2>4, <2>5, <2>6, <2>11, <2>12, <3>1
    <3>2. CASE q # p
      <4>1. Granting(session[q]) /\ session'[q] = session[q]
        BY <2>5, <3>2
      <4> QED BY <2>3, <2>5, <2>6, <2>11, <3>2, <4>1 DEF PromotionInv, GrantsAlone
    <3> QED BY <3>1, <3>2
  <2> QED BY <2>1, <2>6, <2>7, <2>8, <2>9, <2>13 DEF PromotionInv
<1> QED BY <1>1, <1>2

LEMMA ClimbKeepsGrants ==
    ASSUME PromotionInv, FloorInv', NEW p \in Programs, Climb(p)
    PROVE  PromotionInv'
<1>1. CASE WorkflowPromote(p) \/ PromoteDraft(p)
  BY <1>1, PromoteKeepsGrants DEF WorkflowPromote, PromoteDraft
<1>2. CASE Refuse(p) \/ Grant(p)
  BY <1>2, RecordKeepsGrants DEF Refuse, Grant, At, Places
<1>3. CASE AdvanceDraft(p)
  <2>1. /\ session[p].at = "advance" /\ GoTo(p, "grant")
        /\ UNCHANGED <<acceptances, promotions, artifacts>>
    BY <1>3 DEF AdvanceDraft, At
  <2>2. Target(session[p].draft) = "MAPPED"
    BY <2>1 DEF PromotionInv, Promoting, Places
  <2> QED BY <2>1, <2>2, ClimbGoesOn DEF Places
<1>4. CASE LookForArtifact(p)
  <2>1. /\ session[p].at = "look" /\ UNCHANGED <<acceptances, promotions, artifacts>>
        /\ \E place \in {"refuse", "insert"} : GoTo(p, place)
    BY <1>4 DEF LookForArtifact, At, ledger
  <2>2. Target(session[p].draft) # "MAPPED"
    BY <2>1 DEF PromotionInv, Promoting, Places
  <2> QED BY <2>1, <2>2, ClimbGoesOn DEF Places
<1> QED BY <1>1, <1>2, <1>3, <1>4, CiteKeepsGrants, InsertKeepsGrants DEF Climb

LEMMA GrantsInit == Init => PromotionInv
<1> SUFFICES ASSUME Init PROVE PromotionInv
  OBVIOUS
<1>1. Idle.at \notin Places /\ \A p \in Programs : session[p] = Idle
  BY DEF Init, Idle, Places
<1>2. acceptances = <<>> /\ promotions = <<>> /\ artifacts = <<>>
  BY DEF Init
<1>3. GrantsAlone
  BY <1>1 DEF GrantsAlone, Granting, Places
<1> QED BY <1>1, <1>2, <1>3, EmptyTable, FloorsInit
        DEF PromotionInv, Promoting, ArtifactsAreAccountable, GrantsHaveArtifacts

LEMMA GrantsKept == PromotionInv /\ [Next]_vars => PromotionInv'
<1> SUFFICES ASSUME PromotionInv, [Next]_vars PROVE PromotionInv'
  OBVIOUS
<1>1. FloorInv /\ FloorInv'
  BY FloorsKept DEF PromotionInv
<1>2. CASE UNCHANGED <<session, acceptances, promotions, artifacts>>
  BY <1>1, <1>2 DEF PromotionInv, ArtifactsAreAccountable, GrantsHaveArtifacts, GrantsAlone
<1>3. ASSUME NEW f, Edit(f) PROVE PromotionInv'
  BY <1>2, <1>3 DEF Edit, ledger
<1>4. ASSUME NEW p \in Programs, Capture(p) \/ Cooperate(p) \/ Assign(p) PROVE PromotionInv'
  BY <1>1, <1>4, CaptureIsQuiet, CooperateIsQuiet, AssignIsQuiet, QuietKeepsGrants
<1>5. ASSUME NEW p \in Programs, Die(p) PROVE PromotionInv'
  BY <1>1, <1>5, QuietLeaves, QuietKeepsGrants DEF Die, ledger
<1> QED BY <1>1, <1>2, <1>3, <1>4, <1>5, ClimbKeepsGrants DEF Next, vars, ledger

\* The content of every artifact is free of blocking findings, and every
\* risk it cites is an advisory finding of that very content, accepted on
\* record and once (workflow_promotion.py promote_workflow, ledger tables
\* workflow_risk_acceptances and accountable_workflows).
THEOREM ArtifactsAlwaysAccountable == Spec => []ArtifactsAreAccountable
<1>1. PromotionInv => ArtifactsAreAccountable
  BY DEF PromotionInv
<1> QED BY <1>1, GrantsInit, GrantsKept, PTL DEF Spec

\* However many programs promote one version and wherever they die, a granted
\* row beyond MAPPED has the artifact made from the content it cites, and no
\* version is granted one maturity twice: the lookup (workflow_promotion.py
\* promote_workflow) may be stale, and the key of the table then stops the
\* slower program before its row.
THEOREM GrantsAlwaysHaveArtifacts == Spec => []GrantsHaveArtifacts
<1>1. PromotionInv => GrantsHaveArtifacts
  BY DEF PromotionInv
<1> QED BY <1>1, GrantsInit, GrantsKept, PTL DEF Spec
-----------------------------------------------------------------------------
(* One step at a time *)

Stores == {"store acceptance", "store draft"}

MappedRow(version) ==
    \E r \in Elements(promotions) :
        /\ r.granted /\ r.to = "MAPPED"
        /\ Version(r.report.edition) = version

\* What stands for a draft at MAPPED: its row, a program about to write it, or
\* the file's word.
Vouched(version) ==
    version \in unvouched \/ StillToGrant(version, "MAPPED") \/ MappedRow(version)

AsFiled(draft) == Version(draft.edition) \in unvouched \/ draft.maturity = "OBSERVED"
Earned(draft)  == \/ AsFiled(draft)
                  \/ draft.maturity = "MAPPED" /\ Vouched(Version(draft.edition))

IsDraft(draft) == DOMAIN draft = {"edition", "maturity"}

Climbing(s) ==
    /\ s.at \in Stores => AsFiled(s.draft)
    /\ s.at \in Places => IsDraft(s.draft) /\ Earned(s.draft)

Stored(version) ==
    drafts[version] # None =>
        Version(drafts[version].edition) = version /\ Earned(drafts[version])

ForAccountable(a) ==
    \/ Version(a.edition) \in unvouched
    \/ a.maturity = "ACCOUNTABLE" /\ Vouched(Version(a.edition))

ClimbInv ==
    /\ PromotionInv
    /\ file \in [edition : Editions, maturity : Claims] /\ AsFiled(file)
    /\ DOMAIN drafts = Versions /\ \A v \in Versions : Stored(v)
    /\ \A p \in Programs : Climbing(session[p])
    /\ \A a \in Elements(artifacts) : ForAccountable(a)

LEMMA InvGivesClimb == ClimbInv => ClimbedStepByStep
BY DEF ClimbInv, ForAccountable, Vouched, MappedRow, ClimbedStepByStep

LEMMA TargetsAre ==
    ASSUME NEW draft
    PROVE  /\ draft.maturity = "OBSERVED" => Target(draft) = "MAPPED"
           /\ draft.maturity = "MAPPED" => Target(draft) = "ACCOUNTABLE"
<1>1. /\ DOMAIN Ladder = 1..8 /\ Len(Ladder) = 8
      /\ Ladder[2] = "MAPPED" /\ Ladder[3] = "ACCOUNTABLE"
      /\ \A i \in 1..8 : Ladder[i] = "OBSERVED" <=> i = 1
      /\ \A i \in 1..8 : Ladder[i] = "MAPPED" <=> i = 2
  BY DEF Ladder
<1>2. Rung("OBSERVED") = 1 /\ Rung("MAPPED") = 2
  BY <1>1 DEF Rung
<1> QED BY <1>1, <1>2 DEF Target

\* What vouches for a version stays, when a grant that is dropped leaves its
\* row or its mark.
LEMMA VouchingStays ==
    ASSUME ClimbInv, NEW p \in Programs, NEW s, session' = [session EXCEPT ![p] = s],
           unvouched \subseteq unvouched', Elements(promotions) \subseteq Elements(promotions'),
           \A v : /\ session[p].at = "grant" /\ Target(session[p].draft) = "MAPPED"
                  /\ Version(session[p].draft.edition) = v
                  => v \in unvouched' \/ MappedRow(v)'
    PROVE  \A v : Vouched(v) => Vouched(v)'
<1>1. \A q \in Programs \ {p} : session'[q] = session[q]
  BY DEF ClimbInv, PromotionInv, FloorInv
<1>2. ASSUME NEW v, StillToGrant(v, "MAPPED") PROVE Vouched(v)'
  <2>1. PICK q \in Programs : /\ session[q].at = "grant"
                              /\ Target(session[q].draft) = "MAPPED"
                              /\ Version(session[q].draft.edition) = v
    BY <1>2 DEF StillToGrant, At
  <2>2. CASE q = p
    BY <2>1, <2>2 DEF Vouched
  <2>3. CASE q # p
    BY <1>1, <2>1, <2>3 DEF Vouched, StillToGrant, At
  <2> QED BY <2>2, <2>3
<1>3. ASSUME NEW v, MappedRow(v) PROVE Vouched(v)'
  BY <1>3 DEF MappedRow, Vouched
<1>4. ASSUME NEW v, v \in unvouched PROVE Vouched(v)'
  BY <1>4 DEF Vouched
<1> QED BY <1>2, <1>3, <1>4 DEF Vouched

LEMMA EarningStays ==
    ASSUME unvouched \subseteq unvouched', \A v : Vouched(v) => Vouched(v)', NEW draft
    PROVE  /\ AsFiled(draft) => AsFiled(draft)'
           /\ Earned(draft) => Earned(draft)'
           /\ ForAccountable(draft) => ForAccountable(draft)'
BY DEF AsFiled, Earned, ForAccountable

\* A step of one session.
LEMMA SessionEarns ==
    ASSUME ClimbInv, PromotionInv', NEW p \in Programs, NEW s,
           session' = [session EXCEPT ![p] = s], UNCHANGED file,
           unvouched \subseteq unvouched', \A v : Vouched(v) => Vouched(v)',
           s.at \in Stores => AsFiled(s.draft)',
           s.at \in Places => IsDraft(s.draft) /\ Earned(s.draft)',
           DOMAIN drafts' = DOMAIN drafts,
           \A v \in Versions :
              \/ drafts'[v] = drafts[v]
              \/ \E d : drafts'[v] = d /\ Version(d.edition) = v /\ Earned(d)',
           \A a \in Elements(artifacts') : a \in Elements(artifacts) \/ ForAccountable(a)'
    PROVE  ClimbInv'
<1>1. session'[p] = s /\ \A q \in Programs \ {p} : session'[q] = session[q]
  BY DEF ClimbInv, PromotionInv, FloorInv
<1>2. ASSUME NEW q \in Programs PROVE Climbing(session[q])'
  <2>1. CASE q = p
    BY <1>1, <2>1 DEF Climbing
  <2>2. CASE q # p
    <3>1. Climbing(session[q]) /\ session'[q] = session[q]
      BY <1>1, <2>2 DEF ClimbInv
    <3>2. /\ AsFiled(session[q].draft) => AsFiled(session[q].draft)'
          /\ Earned(session[q].draft) => Earned(session[q].draft)'
      BY <3>1 DEF AsFiled, Earned
    <3> QED BY <3>1, <3>2 DEF Climbing
  <2> QED BY <2>1, <2>2
<1>3. ASSUME NEW v \in Versions PROVE Stored(v)'
  <2>1. CASE drafts'[v] = drafts[v]
    <3>1. Stored(v)
      BY DEF ClimbInv
    <3>2. Earned(drafts[v]) => \E d : d = drafts[v] /\ Earned(d)'
      BY EarningStays
    <3> QED BY <2>1, <3>1, <3>2 DEF Stored, Earned, AsFiled
  <2>2. ASSUME NEW d, drafts'[v] = d, Version(d.edition) = v, Earned(d)'
        PROVE  Stored(v)'
    BY <2>2 DEF Stored, Earned, AsFiled
  <2> QED BY <2>1, <2>2
<1>4. ASSUME NEW a \in Elements(artifacts') PROVE ForAccountable(a)'
  <2>1. CASE a \in Elements(artifacts)
    <3>1. ForAccountable(a)
      BY <2>1 DEF ClimbInv
    <3> QED BY <3>1, EarningStays
  <2> QED BY <2>1
<1>5. (file \in [edition : Editions, maturity : Claims] /\ AsFiled(file))'
  BY DEF ClimbInv, AsFiled
<1>6. DOMAIN drafts' = Versions
  BY DEF ClimbInv
<1> QED BY <1>2, <1>3, <1>4, <1>5, <1>6 DEF ClimbInv

\* A step of one session beside the drafts, the trail and the artifacts.
LEMMA SessionGoesAside ==
    ASSUME ClimbInv, PromotionInv', NEW p \in Programs, NEW s,
           session' = [session EXCEPT ![p] = s], session[p].at # "grant",
           s.at \in Stores => AsFiled(s.draft),
           s.at \in Places => IsDraft(s.draft) /\ Earned(s.draft),
           UNCHANGED <<file, drafts, promotions, artifacts, unvouched>>
    PROVE  ClimbInv'
<1>1. \A v : Vouched(v) => Vouched(v)'
  BY VouchingStays
<1>2. /\ s.at \in Stores => AsFiled(s.draft)'
      /\ s.at \in Places => IsDraft(s.draft) /\ Earned(s.draft)'
  BY <1>1, EarningStays
<1> QED BY <1>1, <1>2, SessionEarns

LEMMA LeavingAside ==
    ASSUME ClimbInv, PromotionInv', NEW p \in Programs, Leave(p), session[p].at # "grant",
           UNCHANGED <<file, drafts, promotions, artifacts, unvouched>>
    PROVE  ClimbInv'
<1>1. Idle.at \notin Places /\ Idle.at \notin Stores
  BY DEF Idle, Places, Stores
<1> QED BY <1>1, SessionGoesAside DEF Leave

LEMMA BeginningAside ==
    ASSUME ClimbInv, PromotionInv', NEW p \in Programs, NEW command, NEW s,
           Begin(p, command, s),
           s.at \in Stores => AsFiled(s.draft),
           s.at \in Places => IsDraft(s.draft) /\ Earned(s.draft)
    PROVE  ClimbInv'
<1>1. session[p].at # "grant"
  BY DEF Begin, Idle
<1>2. /\ session' = [session EXCEPT ![p] = s]
      /\ UNCHANGED <<file, drafts, promotions, artifacts, unvouched>>
  BY DEF Begin, ledger
<1> QED BY <1>1, <1>2, SessionGoesAside

\* A promotion goes from one place to the next, the draft with it.
LEMMA GoingAside ==
    ASSUME ClimbInv, PromotionInv', NEW p \in Programs, NEW place, GoTo(p, place),
           session[p].at \in Places \ {"grant"}, place \notin Stores,
           UNCHANGED <<file, drafts, promotions, artifacts, unvouched>>
    PROVE  ClimbInv'
<1> DEFINE s == [session[p] EXCEPT !.at = place]
<1>1. session' = [session EXCEPT ![p] = s]
  BY DEF GoTo, ClimbInv, PromotionInv, FloorInv
<1>2. s.at = place /\ s.draft = session[p].draft
  BY DEF ClimbInv, PromotionInv, Promoting
<1>3. IsDraft(session[p].draft) /\ Earned(session[p].draft)
  BY DEF ClimbInv, Climbing
<1> HIDE DEF s
<1> QED BY <1>1, <1>2, <1>3, SessionGoesAside

\* The draft is stored as the file had it.
LEMMA StoringClimbs ==
    ASSUME ClimbInv, PromotionInv', NEW p \in Programs, SaveDraft(p)
    PROVE  ClimbInv'
<1> DEFINE d == session[p].draft
<1>1. /\ session[p].at = "store draft"
      /\ drafts' = [drafts EXCEPT ![Version(d.edition)] = d]
      /\ UNCHANGED <<file, promotions, artifacts, unvouched>>
  BY DEF SaveDraft, At
<1>2. AsFiled(d)
  BY <1>1 DEF ClimbInv, Climbing, Stores
<1>3. PICK s : session' = [session EXCEPT ![p] = s] /\ s.at \in {"idle", "store report"}
  <2>1. CASE session[p].report = None
    <3>1. session' = [session EXCEPT ![p] = Idle] /\ Idle.at = "idle"
      BY <2>1 DEF SaveDraft, Leave, Idle
    <3> QED BY <3>1
  <2>2. CASE session[p].report # None
    <3>1. session' = [session EXCEPT ![p] = [session[p] EXCEPT !.at = "store report"]]
      BY <2>2 DEF SaveDraft, GoTo, ClimbInv, PromotionInv, FloorInv
    <3>2. [session[p] EXCEPT !.at = "store report"].at = "store report"
      BY DEF ClimbInv, PromotionInv, FloorInv, Holds
    <3> QED BY <3>1, <3>2
  <2> QED BY <2>1, <2>2
<1> HIDE DEF d
<1>4. \A v : Vouched(v) => Vouched(v)'
  BY <1>1, <1>3, VouchingStays
<1>5. Earned(d) => \E x : x = d /\ Earned(x)'
  BY <1>1, <1>4, EarningStays
<1>6. ASSUME NEW v \in Versions
      PROVE  \/ drafts'[v] = drafts[v]
             \/ \E x : drafts'[v] = x /\ Version(x.edition) = v /\ Earned(x)'
  <2>1. \/ drafts'[v] = drafts[v]
        \/ drafts'[v] = d /\ v = Version(d.edition)
    BY <1>1 DEF ClimbInv
  <2>2. Earned(d)
    BY <1>2 DEF Earned
  <2> QED BY <1>5, <2>1, <2>2
<1>7. s.at \notin Places /\ s.at \notin Stores
  BY <1>3 DEF Places, Stores
<1> QED BY <1>1, <1>3, <1>4, <1>6, <1>7, SessionEarns

LEMMA CaptureClimbs ==
    ASSUME ClimbInv, PromotionInv', NEW p \in Programs, Capture(p)
    PROVE  ClimbInv'
<1>1. AsFiled(file)
  BY DEF ClimbInv
<1>2. CASE ImportDraft(p)
  <2> DEFINE s == [at |-> "store draft", draft |-> file, report |-> None]
  <2>1. Begin(p, "import", s) /\ s.at \notin Places /\ s.draft = file
    BY <1>2 DEF ImportDraft, Places
  <2> HIDE DEF s
  <2> QED BY <1>1, <2>1, BeginningAside
<1>3. CASE WorkflowValidate(p) \/ ValidateDraft(p)
  <2> DEFINE s == [at |-> "store draft", draft |-> file, report |-> ReportOn(file.edition)]
  <2>1. Begin(p, "validate", s) /\ s.at \notin Places /\ s.draft = file
    BY <1>3 DEF WorkflowValidate, ValidateDraft, Validate, Places
  <2> HIDE DEF s
  <2> QED BY <1>1, <2>1, BeginningAside
<1>4. ASSUME NEW id, NEW by, WorkflowAcceptRisk(p, id, by) \/ AcceptFinding(p, id, by)
      PROVE  ClimbInv'
  <2>1. PICK s : s.at = "store acceptance" /\ s.draft = file /\ Begin(p, "accept", s)
    BY <1>4 DEF WorkflowAcceptRisk, AcceptFinding, AcceptRisk
  <2>2. s.at \notin Places
    BY <2>1 DEF Places
  <2> QED BY <1>1, <2>1, <2>2, BeginningAside
<1>5. CASE SaveRiskAcceptance(p)
  <2> DEFINE s == [at |-> "store draft", draft |-> session[p].draft, report |-> session[p].report]
  <2>1. /\ session' = [session EXCEPT ![p] = s] /\ session[p].at = "store acceptance"
        /\ UNCHANGED <<file, drafts, promotions, artifacts, unvouched>>
    BY <1>5 DEF SaveRiskAcceptance, At
  <2>2. s.at \notin Places /\ s.draft = session[p].draft
    BY DEF Places
  <2>3. AsFiled(session[p].draft)
    BY <2>1 DEF ClimbInv, Climbing, Stores
  <2> HIDE DEF s
  <2> QED BY <2>1, <2>2, <2>3, SessionGoesAside
<1>6. CASE SaveReport(p)
  BY <1>6, LeavingAside DEF SaveReport, At
<1> QED BY <1>2, <1>3, <1>4, <1>5, <1>6, StoringClimbs DEF Capture

LEMMA CooperateClimbs ==
    ASSUME ClimbInv, PromotionInv', NEW p \in Programs, Cooperate(p)
    PROVE  ClimbInv'
<1>1. ASSUME NEW replacing, WorkflowAssessCooperation(p, replacing) PROVE ClimbInv'
  <2>1. PICK s : s.at = "store assessments" /\ Begin(p, "assess", s)
    BY <1>1 DEF WorkflowAssessCooperation
  <2> QED BY <2>1, BeginningAside DEF Places, Stores
<1>2. CASE AssessCooperation(p)
  <2>1. PICK s : s.at = "store assessments" /\ Begin(p, "assess", s)
    BY <1>2 DEF AssessCooperation
  <2> QED BY <2>1, BeginningAside DEF Places, Stores
<1>3. ASSUME NEW id, NEW to, OverrideExecutor(p, id, to) PROVE ClimbInv'
  <2>1. PICK s : s.at = "store override" /\ Begin(p, "override", s)
    BY <1>3 DEF OverrideExecutor
  <2> QED BY <2>1, BeginningAside DEF Places, Stores
<1>4. CASE SaveAssessments(p)
  <2>1. /\ UNCHANGED <<file, drafts, promotions, artifacts, unvouched>>
        /\ session[p].at # "grant"
    BY <1>4 DEF SaveAssessments, At
  <2>2. CASE At(p, "store override")
    <3>1. PICK s : s.at = "reassess" /\ session' = [session EXCEPT ![p] = s]
      BY <1>4, <2>2 DEF SaveAssessments
    <3> QED BY <2>1, <3>1, SessionGoesAside DEF Places, Stores
  <2>3. CASE ~At(p, "store override")
    BY <1>4, <2>1, <2>3, LeavingAside DEF SaveAssessments
  <2> QED BY <2>2, <2>3
<1>5. CASE Reassess(p)
  <2>1. /\ UNCHANGED <<file, drafts, promotions, artifacts, unvouched>>
        /\ session[p].at # "grant"
    BY <1>5 DEF Reassess, At, ledger
  <2>2. CASE artifacts # <<>> /\ CarriesOver(Newest, {})
    <3>1. PICK s : s.at = "store assessments" /\ session' = [session EXCEPT ![p] = s]
      BY <1>5, <2>2 DEF Reassess
    <3> QED BY <2>1, <3>1, SessionGoesAside DEF Places, Stores
  <2>3. CASE ~(artifacts # <<>> /\ CarriesOver(Newest, {}))
    BY <1>5, <2>1, <2>3, LeavingAside DEF Reassess
  <2> QED BY <2>2, <2>3
<1> QED BY <1>1, <1>2, <1>3, <1>4, <1>5 DEF Cooperate

LEMMA AssignClimbs ==
    ASSUME ClimbInv, PromotionInv', NEW p \in Programs, Assign(p)
    PROVE  ClimbInv'
<1>1. ASSUME NEW approved, WorkflowBuildCooperative(p, approved) \/ BuildCooperativeDraft(p, approved)
      PROVE  ClimbInv'
  <2>1. PICK s : s.at = "store cooperative" /\ Begin(p, "build", s)
    BY <1>1 DEF WorkflowBuildCooperative, BuildCooperativeDraft, Build
  <2> QED BY <2>1, BeginningAside DEF Places, Stores
<1>2. CASE WorkflowExportAgentBrief(p) \/ ExportBrief(p)
  <2>1. PICK s : s.at = "store brief" /\ Begin(p, "export", s)
    BY <1>2 DEF WorkflowExportAgentBrief, ExportBrief, Export
  <2> QED BY <2>1, BeginningAside DEF Places, Stores
<1>3. CASE SaveCooperative(p) \/ SaveBrief(p)
  BY <1>3, LeavingAside DEF SaveCooperative, SaveBrief, At
<1> QED BY <1>1, <1>2, <1>3 DEF Assign

\* Progress is the file's or the ledger's, content the file's.
LEMMA RecordedIsEarned ==
    ASSUME ClimbInv
    PROVE  IsDraft(AtRecordedMaturity(file)) /\ Earned(AtRecordedMaturity(file))
<1> DEFINE stored == drafts[Version(file.edition)]
           d == AtRecordedMaturity(file)
<1>1. /\ IsDraft(file) /\ AsFiled(file) /\ Version(file.edition) \in Versions
  BY DEF ClimbInv, IsDraft, Versions
<1>2. CASE d = file
  BY <1>1, <1>2 DEF Earned
<1>3. CASE d # file
  <2>1. stored # None /\ d = [file EXCEPT !.maturity = stored.maturity]
    BY <1>3 DEF AtRecordedMaturity
  <2>2. IsDraft(d) /\ d.edition = file.edition /\ d.maturity = stored.maturity
    BY <1>1, <2>1 DEF IsDraft
  <2>3. Version(stored.edition) = Version(file.edition) /\ Earned(stored)
    BY <1>1, <2>1 DEF ClimbInv, Stored
  <2> HIDE DEF d, stored
  <2> QED BY <2>2, <2>3 DEF Earned, AsFiled, d
<1> QED BY <1>2, <1>3

LEMMA AdvanceClimbs ==
    ASSUME ClimbInv, PromotionInv', NEW p \in Programs, AdvanceDraft(p)
    PROVE  ClimbInv'
<1>1. PICK d, s, mapped :
        /\ d = session[p].draft
        /\ s = [session[p] EXCEPT !.at = "grant"]
        /\ mapped = [d EXCEPT !.maturity = "MAPPED"]
  OBVIOUS
<1>2. /\ session[p].at = "advance" /\ session' = [session EXCEPT ![p] = s]
      /\ drafts' = [drafts EXCEPT ![Version(d.edition)] = mapped]
      /\ UNCHANGED <<file, promotions, artifacts, unvouched>>
  BY <1>1 DEF AdvanceDraft, At, GoTo, ClimbInv, PromotionInv, FloorInv
<1>3. /\ IsDraft(d) /\ Earned(d) /\ Target(d) = "MAPPED"
      /\ DOMAIN session[p] = {"at", "draft", "report", "rows"}
  BY <1>1, <1>2 DEF ClimbInv, Climbing, PromotionInv, Promoting, Places
<1>4. mapped.edition = d.edition /\ mapped.maturity = "MAPPED"
  BY <1>1, <1>3 DEF IsDraft
<1>5. s.at = "grant" /\ s.draft = d
  BY <1>1, <1>3
<1>6. \A v : Vouched(v) => Vouched(v)'
  BY <1>2, VouchingStays
<1>7. session'[p] = s
  BY <1>2 DEF ClimbInv, PromotionInv, FloorInv
<1>8. Earned(d)' /\ Earned(mapped)'
  <2>1. StillToGrant(Version(d.edition), "MAPPED")'
    BY <1>3, <1>5, <1>7 DEF StillToGrant, At
  <2>2. Vouched(Version(d.edition))'
    BY <2>1 DEF Vouched
  <2>3. Earned(d)'
    BY <1>2, <1>3, <1>6, EarningStays
  <2> QED BY <1>4, <2>2, <2>3 DEF Earned
<1>9. ASSUME NEW v \in Versions
      PROVE  \/ drafts'[v] = drafts[v]
             \/ \E x : drafts'[v] = x /\ Version(x.edition) = v /\ Earned(x)'
  <2>1. \/ drafts'[v] = drafts[v]
        \/ drafts'[v] = mapped /\ v = Version(d.edition)
    BY <1>2 DEF ClimbInv
  <2> QED BY <1>4, <1>8, <2>1
<1>10. DOMAIN drafts' = DOMAIN drafts
  BY <1>2
<1>11. s.at \notin Stores
  BY <1>5 DEF Stores
<1> QED BY <1>2, <1>3, <1>5, <1>6, <1>8, <1>9, <1>10, <1>11, SessionEarns

LEMMA InsertClimbs ==
    ASSUME ClimbInv, PromotionInv', NEW p \in Programs, InsertArtifact(p)
    PROVE  ClimbInv'
<1>1. PICK d, s, a :
        /\ d = session[p].draft
        /\ s = [session[p] EXCEPT !.at = "grant"]
        /\ a = Artifact(session[p])
  OBVIOUS
<1>2. session[p].at = "insert" /\ UNCHANGED <<file, drafts, promotions, unvouched>>
  BY DEF InsertArtifact, At
<1>3. CASE Uninsertable(d)
  <2>1. Leave(p) /\ UNCHANGED artifacts
    BY <1>1, <1>3 DEF InsertArtifact
  <2> QED BY <1>2, <2>1, LeavingAside
<1>4. CASE ~Uninsertable(d)
  <2>1. artifacts' = Append(artifacts, a) /\ session' = [session EXCEPT ![p] = s]
    BY <1>1, <1>4 DEF InsertArtifact, GoTo, ClimbInv, PromotionInv, FloorInv
  <2>2. Elements(artifacts') = Elements(artifacts) \cup {a}
    BY <2>1, RowAppended DEF ClimbInv, PromotionInv
  <2>3. /\ IsDraft(d) /\ Earned(d) /\ Target(d) # "MAPPED"
        /\ DOMAIN session[p] = {"at", "draft", "report", "rows"}
    BY <1>1, <1>2 DEF ClimbInv, Climbing, PromotionInv, Promoting, Places
  <2>4. s.at = "grant" /\ s.draft = d /\ a.edition = d.edition /\ a.maturity = Target(d)
    BY <1>1, <2>3 DEF Artifact
  <2>5. \A v : Vouched(v) => Vouched(v)'
    BY <1>2, <2>1, VouchingStays
  <2>6. Earned(d)'
    BY <1>2, <2>3, <2>5, EarningStays
  <2>7. ForAccountable(a)
    BY <2>3, <2>4, TargetsAre DEF Earned, AsFiled, ForAccountable
  <2>8. ForAccountable(a)'
    BY <1>2, <2>5, <2>7, EarningStays
  <2>9. s.at \notin Stores
    BY <2>4 DEF Stores
  <2> QED BY <1>2, <2>1, <2>2, <2>3, <2>4, <2>5, <2>6, <2>8, <2>9, SessionEarns
<1> QED BY <1>3, <1>4

LEMMA RecordClimbs ==
    ASSUME ClimbInv, PromotionInv', NEW p \in Programs, NEW granted \in BOOLEAN,
           session[p].at \in Places, granted <=> session[p].at = "grant",
           RecordPromotion(p, granted)
    PROVE  ClimbInv'
<1>1. PICK row : row = PromotionRow(p, granted)
  OBVIOUS
<1>2. /\ promotions' = Append(promotions, row)
      /\ session' = [session EXCEPT ![p] = Idle]
      /\ UNCHANGED <<file, drafts, artifacts, unvouched>>
  BY <1>1 DEF RecordPromotion, Leave
<1>3. /\ row.granted = granted /\ row.to = Target(session[p].draft)
      /\ row.report.edition = session[p].draft.edition
  BY <1>1 DEF PromotionRow, ClimbInv, PromotionInv, Promoting
<1>4. Elements(promotions') = Elements(promotions) \cup {row}
  BY <1>2, RowAppended DEF ClimbInv, PromotionInv
<1>5. ASSUME NEW v, session[p].at = "grant", Target(session[p].draft) = "MAPPED",
             Version(session[p].draft.edition) = v
      PROVE  MappedRow(v)'
  BY <1>3, <1>4, <1>5 DEF MappedRow
<1>6. \A v : Vouched(v) => Vouched(v)'
  BY <1>2, <1>4, <1>5, VouchingStays
<1>7. Idle.at \notin Places /\ Idle.at \notin Stores
  BY DEF Idle, Places, Stores
<1> QED BY <1>2, <1>6, <1>7, SessionEarns

LEMMA ClimbClimbs ==
    ASSUME ClimbInv, PromotionInv', NEW p \in Programs, Climb(p)
    PROVE  ClimbInv'
<1>1. CASE WorkflowPromote(p) \/ PromoteDraft(p)
  <2>1. PICK s : s.at = "cite" /\ s.draft = AtRecordedMaturity(file) /\ Begin(p, "promote", s)
    BY <1>1 DEF WorkflowPromote, PromoteDraft, Promote
  <2>2. s.at \notin Stores
    BY <2>1 DEF Stores
  <2>3. IsDraft(s.draft) /\ Earned(s.draft)
    BY <2>1, RecordedIsEarned
  <2> QED BY <2>1, <2>2, <2>3, BeginningAside
<1>2. CASE CiteReport(p)
  <2>1. PICK place : place = Verdict(session[p].draft, session[p].report, session[p].rows)
    OBVIOUS
  <2>2. /\ session[p].at = "cite" /\ GoTo(p, place)
        /\ UNCHANGED <<file, drafts, promotions, artifacts, unvouched>>
    BY <1>2, <2>1 DEF CiteReport, At
  <2>3. place \in {"refuse", "advance", "look"}
    BY <2>1, VerdictFitsTarget
  <2> QED BY <2>2, <2>3, GoingAside DEF Places, Stores
<1>3. CASE Refuse(p)
  BY <1>3, RecordClimbs DEF Refuse, At, Places
<1>4. CASE Grant(p)
  BY <1>4, RecordClimbs DEF Grant, At, Places
<1>5. CASE LookForArtifact(p)
  <2>1. PICK place \in {"refuse", "insert"} : GoTo(p, place)
    BY <1>5 DEF LookForArtifact
  <2>2. session[p].at = "look" /\ UNCHANGED <<file, drafts, promotions, artifacts, unvouched>>
    BY <1>5 DEF LookForArtifact, At, ledger
  <2> QED BY <2>1, <2>2, GoingAside DEF Places, Stores
<1> QED BY <1>1, <1>2, <1>3, <1>4, <1>5, AdvanceClimbs, InsertClimbs DEF Climb

LEMMA DieClimbs ==
    ASSUME ClimbInv, PromotionInv', NEW p \in Programs, Die(p)
    PROVE  ClimbInv'
<1>1. /\ session' = [session EXCEPT ![p] = Idle] /\ unvouched \subseteq unvouched'
      /\ UNCHANGED <<file, drafts, promotions, artifacts>>
  BY DEF Die, Leave, ledger
<1>2. ASSUME NEW v, session[p].at = "grant", Target(session[p].draft) = "MAPPED",
             Version(session[p].draft.edition) = v
      PROVE  v \in unvouched'
  BY <1>2 DEF Die, At
<1>3. \A v : Vouched(v) => Vouched(v)'
  BY <1>1, <1>2, VouchingStays
<1>4. Idle.at \notin Places /\ Idle.at \notin Stores
  BY DEF Idle, Places, Stores
<1> QED BY <1>1, <1>3, <1>4, SessionEarns

\* The file may claim what it likes: its version is marked.
LEMMA EditClimbs ==
    ASSUME ClimbInv, PromotionInv', NEW f \in [edition : Editions, maturity : Claims], Edit(f)
    PROVE  ClimbInv'
<1>1. /\ file' = f /\ unvouched' = unvouched \cup ClaimedBy(f)
      /\ UNCHANGED <<session, drafts, promotions, artifacts>>
  BY DEF Edit, ledger
<1>2. ASSUME NEW v, Vouched(v) PROVE Vouched(v)'
  BY <1>1, <1>2 DEF Vouched, StillToGrant, At, MappedRow
<1>3. /\ \A d : AsFiled(d) => AsFiled(d)'
      /\ \A d : Earned(d) => Earned(d)'
      /\ \A d : ForAccountable(d) => ForAccountable(d)'
  BY <1>1, <1>2, EarningStays
<1>4. AsFiled(f)'
  BY <1>1 DEF AsFiled, ClaimedBy
<1>5. AsFiled(file)'
  BY <1>1, <1>4 DEF AsFiled
<1>6. ASSUME NEW v \in Versions PROVE Stored(v)'
  <2>1. PICK d : d = drafts[v]
    OBVIOUS
  <2>2. d # None => Version(d.edition) = v /\ Earned(d)
    BY <2>1 DEF ClimbInv, Stored
  <2>3. d # None => Earned(d)'
    BY <1>3, <2>2
  <2> QED BY <1>1, <2>1, <2>2, <2>3 DEF Stored
<1>7. ASSUME NEW p \in Programs PROVE Climbing(session[p])'
  <2>1. PICK s : s = session[p]
    OBVIOUS
  <2>2. Climbing(s)
    BY <2>1 DEF ClimbInv
  <2>3. Climbing(s)'
    BY <1>3, <2>2 DEF Climbing
  <2> QED BY <1>1, <2>1, <2>3
<1>8. ASSUME NEW a \in Elements(artifacts') PROVE ForAccountable(a)'
  BY <1>1, <1>3 DEF ClimbInv
<1> QED BY <1>1, <1>5, <1>6, <1>7, <1>8 DEF ClimbInv

LEMMA ClimbInit == Init => ClimbInv
<1> SUFFICES ASSUME Init PROVE ClimbInv
  OBVIOUS
<1>1. Idle.at \notin Places /\ Idle.at \notin Stores /\ \A p \in Programs : session[p] = Idle
  BY DEF Init, Idle, Places, Stores
<1>2. AsFiled(file)
  BY DEF Init, AsFiled, ClaimedBy
<1>3. artifacts = <<>>
  BY DEF Init
<1> QED BY <1>1, <1>2, <1>3, EmptyTable, GrantsInit DEF Init, ClimbInv, Climbing, Stored

LEMMA ClimbKept == ClimbInv /\ [Next]_vars => ClimbInv'
<1> SUFFICES ASSUME ClimbInv, [Next]_vars PROVE ClimbInv'
  OBVIOUS
<1>1. PromotionInv'
  BY GrantsKept DEF ClimbInv
<1>2. CASE UNCHANGED vars
  BY <1>1, <1>2 DEF vars, ledger, ClimbInv, AsFiled, Stored, Climbing, ForAccountable, Earned,
                    Vouched, StillToGrant, At, MappedRow
<1>3. ASSUME NEW p \in Programs, Capture(p) \/ Climb(p) \/ Cooperate(p) \/ Assign(p) \/ Die(p)
      PROVE  ClimbInv'
  BY <1>1, <1>3, CaptureClimbs, ClimbClimbs, CooperateClimbs, AssignClimbs, DieClimbs
<1> QED BY <1>1, <1>2, <1>3, EditClimbs DEF Next

\* No rung is skipped: an artifact is for ACCOUNTABLE and its version has, or
\* is about to have, its row to MAPPED, unless its file claimed a rung for
\* itself or a death kept the row back (workflow_promotion.py
\* at_recorded_maturity and promote_workflow, which advances the draft before
\* the row is written).
THEOREM AlwaysClimbedStepByStep == Spec => []ClimbedStepByStep
BY ClimbInit, ClimbKept, InvGivesClimb, PTL DEF Spec

-----------------------------------------------------------------------------
(* Decisions already made *)

Saves == {"store assessments", "store override"}

\* Rows that keep every override on record.
KeepsDecisions(rows) ==
    \A id \in DOMAIN rows \cap DOMAIN assessments :
        assessments[id].override # NoOverride => rows[id].override # NoOverride

DecidedInv ==
    /\ FloorInv
    /\ \A p, q \in Programs : session[p] # Idle /\ session[q] # Idle => p = q
    /\ \A p \in Programs : session[p].at \in Saves => KeepsDecisions(session[p].rows)

DecisionsStand ==
    \A id \in DOMAIN assessments :
        assessments[id].override # NoOverride => assessments'[id].override # NoOverride

\* A step of one session that leaves the stored rows alone.
LEMMA OneGoesOn ==
    ASSUME DecidedInv, FloorInv', NEW p \in Programs, NEW s,
           session' = [session EXCEPT ![p] = s],
           s = Idle \/ session[p] # Idle \/ \A q \in Programs : session[q] = Idle,
           s.at \in Saves => KeepsDecisions(s.rows), UNCHANGED assessments
    PROVE  DecidedInv' /\ DecisionsStand
<1>1. session'[p] = s /\ \A q \in Programs \ {p} : session'[q] = session[q]
  BY DEF DecidedInv, FloorInv
<1>2. ASSUME NEW q \in Programs, NEW r \in Programs, session'[q] # Idle, session'[r] # Idle
      PROVE  q = r
  BY <1>1, <1>2 DEF DecidedInv
<1>3. ASSUME NEW q \in Programs, session'[q].at \in Saves
      PROVE  KeepsDecisions(session[q].rows)'
  <2>1. KeepsDecisions(session'[q].rows)
    <3>1. CASE q = p
      BY <1>1, <1>3, <3>1
    <3>2. CASE q # p
      <4>1. session'[q] = session[q] /\ session[q].at \in Saves
        BY <1>1, <1>3, <3>2
      <4>2. KeepsDecisions(session[q].rows)
        BY <4>1 DEF DecidedInv
      <4> QED BY <4>1, <4>2 DEF KeepsDecisions
    <3> QED BY <3>1, <3>2
  <2> QED BY <2>1 DEF KeepsDecisions
<1>4. DecisionsStand
  BY DEF DecisionsStand
<1> QED BY <1>2, <1>3, <1>4 DEF DecidedInv

LEMMA IdleIsApart == Idle.at = "idle" /\ "idle" \notin Saves
BY DEF Idle, Saves

LEMMA DecisionBegins ==
    ASSUME DecidedInv, FloorInv', Overlap = FALSE, NEW p \in Programs, NEW command, NEW s,
           Begin(p, command, s), s.at \in Saves => KeepsDecisions(s.rows)
    PROVE  DecidedInv' /\ DecisionsStand
<1>1. /\ session' = [session EXCEPT ![p] = s] /\ UNCHANGED assessments
      /\ \A q \in Programs : session[q] = Idle
  BY DEF Begin, ledger
<1> QED BY <1>1, OneGoesOn

LEMMA DecisionLeaves ==
    ASSUME DecidedInv, FloorInv', NEW p \in Programs, Leave(p), UNCHANGED assessments
    PROVE  DecidedInv' /\ DecisionsStand
<1>1. Idle.at \notin Saves
  BY DEF Idle, Saves
<1> QED BY <1>1, OneGoesOn DEF Leave

LEMMA DecisionGoes ==
    ASSUME DecidedInv, FloorInv', NEW p \in Programs, NEW place, GoTo(p, place),
           session[p].at # "idle", place \notin Saves, UNCHANGED assessments
    PROVE  DecidedInv' /\ DecisionsStand
<1>1. PICK s : s = [session[p] EXCEPT !.at = place]
  OBVIOUS
<1>2. session' = [session EXCEPT ![p] = s]
  BY <1>1 DEF GoTo, DecidedInv, FloorInv
<1>3. s.at = place
  BY <1>1 DEF DecidedInv, FloorInv, Holds
<1>4. session[p] # Idle
  BY DEF Idle
<1> QED BY <1>2, <1>3, <1>4, OneGoesOn

\* A fresh assessment carries the overrides on record, or others replace them.
LEMMA ReassessedKeeps ==
    ASSUME NEW d, NEW replaced, NEW id \in StepIds(d), id \notin replaced,
           id \in DOMAIN assessments, assessments[id].override # NoOverride
    PROVE  Reassessed(d, replaced)[id].override # NoOverride
<1>1. id \in Carried(d, replaced)
  BY DEF Carried
<1>2. Reassessed(d, replaced)[id] = ApplyOverride(Fresh(d)[id], assessments[id].override)
  BY <1>1 DEF Reassessed
<1>3. DOMAIN Fresh(d)[id] = Fields
  BY FreshOK DEF RowsOK, RowOK
<1> QED BY <1>2, <1>3 DEF ApplyOverride, Fields

LEMMA WholeReassessedKeeps == ASSUME NEW d PROVE KeepsDecisions(Reassessed(d, {}))
<1>1. DOMAIN Reassessed(d, {}) = StepIds(d)
  BY DEF Reassessed
<1> QED BY <1>1, ReassessedKeeps DEF KeepsDecisions

LEMMA CommandLineDecides ==
    ASSUME DecidedInv, FloorInv', Overlap = FALSE, NEW p \in Programs,
           NEW replacing \in Replacements, WorkflowAssessCooperation(p, replacing)
    PROVE  DecidedInv' /\ DecisionsStand
<1>1. PICK d, rows :
        /\ d = Newest
        /\ rows = [id \in StepIds(d) |->
                     IF id \in DOMAIN replacing
                     THEN ApplyOverride(Fresh(d)[id], replacing[id])
                     ELSE Reassessed(d, DOMAIN replacing)[id]]
  OBVIOUS
<1>2. Begin(p, "assess", [at |-> "store assessments", rows |-> rows])
  BY <1>1 DEF WorkflowAssessCooperation
<1>3. ASSUME NEW id \in StepIds(d), id \in DOMAIN assessments,
             assessments[id].override # NoOverride
      PROVE  rows[id].override # NoOverride
  <2>1. CASE id \in DOMAIN replacing
    <3>1. rows[id] = ApplyOverride(Fresh(d)[id], replacing[id])
      BY <1>1, <2>1
    <3>2. DOMAIN Fresh(d)[id] = Fields
      BY FreshOK DEF RowsOK, RowOK
    <3>3. replacing[id] # NoOverride
      BY <2>1, ReplacementsAreClasses, ClassesAre
    <3> QED BY <3>1, <3>2, <3>3 DEF ApplyOverride, Fields
  <2>2. CASE id \notin DOMAIN replacing
    <3>1. rows[id] = Reassessed(d, DOMAIN replacing)[id]
      BY <1>1, <2>2
    <3> QED BY <1>3, <2>2, <3>1, ReassessedKeeps
  <2> QED BY <2>1, <2>2
<1>4. KeepsDecisions(rows)
  <2>1. DOMAIN rows = StepIds(d)
    BY <1>1
  <2> QED BY <1>3, <2>1 DEF KeepsDecisions
<1> QED BY <1>2, <1>4, DecisionBegins

LEMMA DesktopDecides ==
    ASSUME DecidedInv, FloorInv', Overlap = FALSE, NEW p \in Programs, NEW id, NEW to \in Targets,
           OverrideExecutor(p, id, to)
    PROVE  DecidedInv' /\ DecisionsStand
<1>1. PICK rows : rows = [x \in {id} |-> ApplyOverride(assessments[x], to)]
  OBVIOUS
<1>2. /\ id \in DOMAIN assessments
      /\ Begin(p, "override", [at |-> "store override", rows |-> rows])
  BY <1>1 DEF OverrideExecutor
<1>3. DOMAIN rows = {id} /\ rows[id].override = to
  <2>1. DOMAIN assessments[id] = Fields
    BY <1>2 DEF DecidedInv, FloorInv, RowsOK, RowOK
  <2> QED BY <1>1, <2>1 DEF ApplyOverride, Fields
<1>4. KeepsDecisions(rows)
  BY <1>3, TargetsAreClasses, ClassesAre DEF KeepsDecisions
<1> QED BY <1>2, <1>4, DecisionBegins

\* The only program under way stores rows that keep what is on record.
LEMMA SavedRowsDecide ==
    ASSUME DecidedInv, FloorInv', NEW p \in Programs, SaveAssessments(p)
    PROVE  DecidedInv' /\ DecisionsStand
<1>1. PICK rows : rows = session[p].rows
  OBVIOUS
<1>2. session[p].at \in Saves
  BY DEF SaveAssessments, At, Saves
<1>3. KeepsDecisions(rows)
  BY <1>1, <1>2 DEF DecidedInv
<1>4. assessments' = [id \in DOMAIN rows \cup DOMAIN assessments |->
                        IF id \in DOMAIN rows THEN rows[id] ELSE assessments[id]]
  BY <1>1 DEF SaveAssessments
<1>5. DecisionsStand
  BY <1>3, <1>4 DEF KeepsDecisions, DecisionsStand
<1>6. PICK s : s.at \notin Saves /\ session' = [session EXCEPT ![p] = s]
  BY DEF SaveAssessments, Leave, Idle, Saves
<1>7. session'[p] = s /\ \A q \in Programs \ {p} : session'[q] = session[q] /\ session[q] = Idle
  <2>1. session[p] # Idle
    BY <1>2, IdleIsApart
  <2> QED BY <1>6, <2>1 DEF DecidedInv, FloorInv
<1>8. \A q \in Programs : session'[q].at \notin Saves
  BY <1>6, <1>7, IdleIsApart
<1> QED BY <1>5, <1>7, <1>8 DEF DecidedInv

LEMMA CooperateDecides ==
    ASSUME DecidedInv, FloorInv', Overlap = FALSE, NEW p \in Programs, Cooperate(p)
    PROVE  DecidedInv' /\ DecisionsStand
<1>1. CASE AssessCooperation(p)
  <2>1. Begin(p, "assess", [at |-> "store assessments", rows |-> Reassessed(Newest, {})])
    BY <1>1 DEF AssessCooperation
  <2> QED BY <2>1, WholeReassessedKeeps, DecisionBegins
<1>2. CASE Reassess(p)
  <2>1. UNCHANGED assessments /\ session[p].at = "reassess"
    BY <1>2 DEF Reassess, ledger, At
  <2>2. CASE artifacts # <<>> /\ CarriesOver(Newest, {})
    <3>1. PICK s : s.rows = Reassessed(Newest, {}) /\ session' = [session EXCEPT ![p] = s]
      BY <1>2, <2>2 DEF Reassess
    <3>2. session[p] # Idle
      BY <2>1 DEF Idle
    <3> QED BY <2>1, <3>1, <3>2, WholeReassessedKeeps, OneGoesOn
  <2>3. CASE ~(artifacts # <<>> /\ CarriesOver(Newest, {}))
    BY <1>2, <2>1, <2>3, DecisionLeaves DEF Reassess
  <2> QED BY <2>2, <2>3
<1> QED BY <1>1, <1>2, CommandLineDecides, DesktopDecides, SavedRowsDecide DEF Cooperate

LEMMA CaptureDecides ==
    ASSUME DecidedInv, FloorInv', Overlap = FALSE, NEW p \in Programs, Capture(p)
    PROVE  DecidedInv' /\ DecisionsStand
<1>1. CASE ImportDraft(p)
  BY <1>1, DecisionBegins DEF ImportDraft, Saves
<1>2. CASE WorkflowValidate(p) \/ ValidateDraft(p)
  BY <1>2, DecisionBegins DEF WorkflowValidate, ValidateDraft, Validate, Saves
<1>3. ASSUME NEW id, NEW by, WorkflowAcceptRisk(p, id, by) \/ AcceptFinding(p, id, by)
      PROVE  DecidedInv' /\ DecisionsStand
  <2>1. PICK s : s.at = "store acceptance" /\ Begin(p, "accept", s)
    BY <1>3 DEF WorkflowAcceptRisk, AcceptFinding, AcceptRisk
  <2> QED BY <2>1, DecisionBegins DEF Saves
<1>4. CASE SaveRiskAcceptance(p)
  <2>1. PICK s : s.at = "store draft" /\ session' = [session EXCEPT ![p] = s]
    BY <1>4 DEF SaveRiskAcceptance
  <2>2. session[p].at = "store acceptance" /\ UNCHANGED assessments
    BY <1>4 DEF SaveRiskAcceptance, At
  <2>3. session[p] # Idle
    BY <2>2, IdleIsApart
  <2> QED BY <2>1, <2>2, <2>3, OneGoesOn DEF Saves
<1>5. CASE SaveDraft(p)
  BY <1>5, DecisionGoes, DecisionLeaves DEF SaveDraft, At, Saves
<1>6. CASE SaveReport(p)
  BY <1>6, DecisionLeaves DEF SaveReport
<1> QED BY <1>1, <1>2, <1>3, <1>4, <1>5, <1>6 DEF Capture

LEMMA ClimbDecides ==
    ASSUME DecidedInv, FloorInv', Overlap = FALSE, NEW p \in Programs, Climb(p)
    PROVE  DecidedInv' /\ DecisionsStand
<1>1. CASE WorkflowPromote(p) \/ PromoteDraft(p)
  <2>1. PICK s : s.at = "cite" /\ Begin(p, "promote", s)
    BY <1>1 DEF WorkflowPromote, PromoteDraft, Promote
  <2> QED BY <2>1, DecisionBegins DEF Saves
<1>2. CASE CiteReport(p)
  <2>1. PICK place : place = Verdict(session[p].draft, session[p].report, session[p].rows)
    OBVIOUS
  <2>2. session[p].at = "cite" /\ GoTo(p, place) /\ UNCHANGED assessments
    BY <1>2, <2>1 DEF CiteReport, At
  <2>3. place \notin Saves
    BY <2>1, VerdictFitsTarget DEF Saves
  <2> QED BY <2>2, <2>3, DecisionGoes
<1>3. CASE Refuse(p) \/ Grant(p)
  BY <1>3, DecisionLeaves DEF Refuse, Grant, RecordPromotion
<1>4. CASE AdvanceDraft(p)
  BY <1>4, DecisionGoes DEF AdvanceDraft, At, Saves
<1>5. CASE LookForArtifact(p)
  BY <1>5, DecisionGoes DEF LookForArtifact, At, Saves, ledger
<1>6. CASE InsertArtifact(p)
  BY <1>6, DecisionGoes, DecisionLeaves DEF InsertArtifact, At, Saves
<1> QED BY <1>1, <1>2, <1>3, <1>4, <1>5, <1>6 DEF Climb

LEMMA AssignDecides ==
    ASSUME DecidedInv, FloorInv', Overlap = FALSE, NEW p \in Programs, Assign(p)
    PROVE  DecidedInv' /\ DecisionsStand
<1>1. ASSUME NEW approved, WorkflowBuildCooperative(p, approved) \/ BuildCooperativeDraft(p, approved)
      PROVE  DecidedInv' /\ DecisionsStand
  <2>1. PICK s : s.at = "store cooperative" /\ Begin(p, "build", s)
    BY <1>1 DEF WorkflowBuildCooperative, BuildCooperativeDraft, Build
  <2> QED BY <2>1, DecisionBegins DEF Saves
<1>2. CASE WorkflowExportAgentBrief(p) \/ ExportBrief(p)
  <2>1. PICK s : s.at = "store brief" /\ Begin(p, "export", s)
    BY <1>2 DEF WorkflowExportAgentBrief, ExportBrief, Export
  <2> QED BY <2>1, DecisionBegins DEF Saves
<1>3. CASE SaveCooperative(p) \/ SaveBrief(p)
  BY <1>3, DecisionLeaves DEF SaveCooperative, SaveBrief
<1> QED BY <1>1, <1>2, <1>3 DEF Assign

LEMMA DecisionsInit == Init => DecidedInv
<1> SUFFICES ASSUME Init PROVE DecidedInv
  OBVIOUS
<1>1. Idle.at \notin Saves /\ \A p \in Programs : session[p] = Idle
  BY DEF Init, Idle, Saves
<1> QED BY <1>1, FloorsInit DEF DecidedInv

LEMMA DecisionsKept ==
    ASSUME Overlap = FALSE
    PROVE  DecidedInv /\ [Next]_vars => DecidedInv' /\ (DecisionsStand \/ UNCHANGED vars)
<1> SUFFICES ASSUME DecidedInv, [Next]_vars
             PROVE  DecidedInv' /\ (DecisionsStand \/ UNCHANGED vars)
  OBVIOUS
<1>1. FloorInv'
  BY FloorsKept DEF DecidedInv
<1>2. CASE UNCHANGED vars
  BY <1>1, <1>2 DEF vars, ledger, DecidedInv, KeepsDecisions
<1>3. ASSUME NEW f, Edit(f) PROVE DecidedInv' /\ DecisionsStand
  BY <1>1, <1>3 DEF Edit, ledger, DecidedInv, KeepsDecisions, DecisionsStand
<1>4. ASSUME NEW p \in Programs, Die(p) PROVE DecidedInv' /\ DecisionsStand
  BY <1>1, <1>4, DecisionLeaves DEF Die, ledger
<1>5. ASSUME NEW p \in Programs, Capture(p) \/ Climb(p) \/ Cooperate(p) \/ Assign(p)
      PROVE  DecidedInv' /\ DecisionsStand
  BY <1>1, <1>5, CaptureDecides, ClimbDecides, CooperateDecides, AssignDecides
<1> QED BY <1>2, <1>3, <1>4, <1>5 DEF Next

\* One command at a time, no re-assessment drops a decision a person made:
\* the overrides on record are carried onto every fresh assessment or replaced
\* by others, or the command refuses (cli.py workflow_assess_cooperation,
\* gui/services/workflow.py assess_cooperation and override_executor).  A
\* command that overlaps another can still store rows older than its override.
THEOREM DecisionsAlwaysStand ==
    ASSUME Overlap = FALSE
    PROVE  Spec => OverridesSurviveReassessment
<1>1. DecidedInv /\ [Next]_vars => DecidedInv'
  BY DecisionsKept
<1>2. DecidedInv /\ [Next]_vars => [DecisionsStand]_vars
  BY DecisionsKept
<1>3. Spec => [][DecisionsStand]_vars
  BY <1>1, <1>2, DecisionsInit, PTL DEF Spec
<1> QED BY <1>3 DEF OverridesSurviveReassessment, DecisionsStand

-----------------------------------------------------------------------------
(* The kinds of rows *)

Rungs == Elements(Ladder)

ReportTyped(r) == r.edition \in Editions /\ r.accepted \subseteq Acceptance

RowTyped(row, id) ==
    /\ DOMAIN row = Fields /\ row.step_id = id /\ row.factors \in Characteristics

RowsTyped(rows) == \A id \in DOMAIN rows : RowTyped(rows[id], id)

\* What a program is in the middle of; `stored` is the table of reports.
Typed(s, stored) ==
    /\ s.at = "store acceptance" => /\ s.row \in Acceptance /\ s.draft \in Drafts
                                    /\ ReportTyped(s.report)
    /\ s.at = "store draft" => /\ DOMAIN s = {"at", "draft", "report"} /\ s.draft \in Drafts
                               /\ s.report # None => ReportTyped(s.report)
    /\ s.at = "store report" => ReportTyped(s.report)
    /\ s.at \in Places => s.draft \in Drafts /\ ReportTyped(s.report)
    /\ s.at \in Places \ {"cite"} => s.report \in stored
    /\ s.at = "look" => Target(s.draft) \in Rungs
    /\ s.at = "insert" => Target(s.draft) \in Rungs
    /\ s.at \in Saves => RowsTyped(s.rows)

TypeInv ==
    /\ ClimbInv
    /\ TypeOK
    /\ \A p \in Programs : Typed(session[p], reports)

LEMMA LadderIs ==
    /\ Rungs = {"OBSERVED", "MAPPED", "ACCOUNTABLE", "COOPERATION_READY",
                "COOPERATIVE_DESIGN_APPROVED", "RUNTIME_READY", "DEPLOYED", "VALIDATED"}
    /\ Claims \subseteq Rungs
    /\ \A m \in Rungs : Rung(m) \in 1..8
    /\ \A i \in 1..8 : Ladder[i] \in Rungs
    /\ Len(Ladder) = 8
<1>1. DOMAIN Ladder = 1..8 /\ Len(Ladder) = 8
  BY DEF Ladder
<1>2. \A i \in 1..8 : Ladder[i] \in Rungs
  BY <1>1 DEF Rungs, Elements
<1>3. ASSUME NEW m \in Rungs PROVE Rung(m) \in 1..8
  <2>1. \E i \in DOMAIN Ladder : Ladder[i] = m
    BY <1>3 DEF Rungs, Elements
  <2> QED BY <1>1, <2>1 DEF Rung
<1>4. Claims \subseteq Rungs
  BY ClaimsAreRungs DEF Rungs, Elements
<1>5. Rungs = {"OBSERVED", "MAPPED", "ACCOUNTABLE", "COOPERATION_READY",
               "COOPERATIVE_DESIGN_APPROVED", "RUNTIME_READY", "DEPLOYED", "VALIDATED"}
  <2>1. Rungs = {Ladder[i] : i \in 1..8}
    BY <1>1 DEF Rungs, Elements
  <2>2. 1..8 = {1, 2, 3, 4, 5, 6, 7, 8}
    OBVIOUS
  <2>3. /\ Ladder[1] = "OBSERVED" /\ Ladder[2] = "MAPPED" /\ Ladder[3] = "ACCOUNTABLE"
        /\ Ladder[4] = "COOPERATION_READY" /\ Ladder[5] = "COOPERATIVE_DESIGN_APPROVED"
        /\ Ladder[6] = "RUNTIME_READY" /\ Ladder[7] = "DEPLOYED" /\ Ladder[8] = "VALIDATED"
    BY DEF Ladder
  <2> QED BY <2>1, <2>2, <2>3
<1> QED BY <1>1, <1>2, <1>3, <1>4, <1>5

LEMMA FilesAreDrafts ==
    ASSUME NEW f \in [edition : Editions, maturity : Claims]
    PROVE  f \in Drafts
BY LadderIs DEF Drafts, Rungs

\* A promotion that has a rung to go to.
LEMMA VerdictNamesRung ==
    ASSUME NEW draft \in Drafts, NEW report, NEW rows,
           Verdict(draft, report, rows) \in {"advance", "look"}
    PROVE  Target(draft) \in Rungs
<1>1. Enforced = 6
  <2>1. /\ DOMAIN Ladder = 1..8
        /\ \A i \in 1..8 : Ladder[i] = "RUNTIME_READY" <=> i = 6
    BY DEF Ladder
  <2> QED BY <2>1 DEF Enforced, Rung
<1>2. PICK n : n = Rung(draft.maturity)
  OBVIOUS
<1>3. n \in 1..8
  BY <1>2, LadderIs DEF Drafts, Rungs
<1>4. ~(n + 1 > 6)
  BY <1>1, <1>2 DEF Verdict
<1>5. n # 8 /\ n + 1 \in 1..8
  BY <1>3, <1>4
<1>6. Target(draft) = Ladder[n + 1]
  BY <1>2, <1>5, LadderIs DEF Target
<1> QED BY <1>5, <1>6, LadderIs

LEMMA RecordedIsTyped ==
    ASSUME TypeInv
    PROVE  AtRecordedMaturity(file) \in Drafts
<1>1. file \in Drafts /\ Version(file.edition) \in Versions
  BY FilesAreDrafts DEF TypeInv, TypeOK, Versions
<1>2. PICK stored : stored = drafts[Version(file.edition)]
  OBVIOUS
<1>3. stored # None => stored \in Drafts
  BY <1>1, <1>2 DEF TypeInv, TypeOK
<1>4. stored # None => [file EXCEPT !.maturity = stored.maturity] \in Drafts
  BY <1>1, <1>3 DEF Drafts
<1> QED BY <1>1, <1>2, <1>4 DEF AtRecordedMaturity

LEMMA ReportIsTyped ==
    ASSUME TypeInv, NEW e \in Editions
    PROVE  ReportTyped(ReportOn(e))
<1>1. IsList(acceptances) /\ Elements(acceptances) \subseteq Acceptance
  BY DEF TypeInv, TypeOK, ClimbInv, PromotionInv
<1>2. ASSUME NEW a \in ReportOn(e).accepted PROVE a \in Acceptance
  <2>1. PICK id \in Advisory(e) \cap {x.id : x \in Elements(acceptances)} : a = Oldest(id)
    BY <1>2 DEF ReportOn
  <2>2. PICK x \in Elements(acceptances) : x.id = id
    BY <2>1
  <2>3. Oldest(id) \in Elements(acceptances)
    BY <1>1, <2>2, OldestIsOnRecord
  <2> QED BY <1>1, <2>1, <2>3
<1>3. ReportOn(e).edition = e
  BY DEF ReportOn
<1> QED BY <1>2, <1>3 DEF ReportTyped

\* A step of one session.
LEMMA SessionTyped ==
    ASSUME TypeInv, ClimbInv', TypeOK', NEW p \in Programs, NEW s,
           session' = [session EXCEPT ![p] = s],
           reports \subseteq reports', Typed(s, reports')
    PROVE  TypeInv'
<1>1. session'[p] = s /\ \A q \in Programs \ {p} : session'[q] = session[q]
  BY DEF TypeInv, ClimbInv, PromotionInv, FloorInv
<1>2. ASSUME NEW q \in Programs PROVE Typed(session'[q], reports')
  <2>1. CASE q = p
    BY <1>1, <2>1
  <2>2. CASE q # p
    <3>1. Typed(session[q], reports)
      BY DEF TypeInv
    <3>2. Typed(session[q], reports')
      BY <3>1 DEF Typed
    <3> QED BY <1>1, <2>2, <3>2
  <2> QED BY <2>1, <2>2
<1> QED BY <1>2 DEF TypeInv

LEMMA TablesStay ==
    ASSUME TypeOK, UNCHANGED <<file, ledger, unvouched>>, begun' = begun \/ begun' \in 0..MaxCommands
    PROVE  TypeOK'
BY DEF TypeOK, ledger

LEMMA BeginTyped ==
    ASSUME TypeInv, ClimbInv', NEW p \in Programs, NEW command, NEW s,
           Begin(p, command, s), Typed(s, reports)
    PROVE  TypeInv'
<1>1. begun' \in 0..MaxCommands
  BY MaxCommandsAssumption DEF Begin, TypeInv, TypeOK
<1>2. UNCHANGED <<file, ledger, unvouched>> /\ session' = [session EXCEPT ![p] = s]
  BY DEF Begin
<1>3. TypeOK'
  BY <1>1, <1>2, TablesStay DEF TypeInv
<1>4. reports' = reports
  BY <1>2 DEF ledger
<1> QED BY <1>2, <1>3, <1>4, SessionTyped

LEMMA LeaveTyped ==
    ASSUME TypeInv, ClimbInv', TypeOK', NEW p \in Programs, Leave(p), reports \subseteq reports'
    PROVE  TypeInv'
<1>1. Typed(Idle, reports')
  BY DEF Typed, Idle, Places, Saves
<1> QED BY <1>1, SessionTyped DEF Leave

LEMMA CaptureTyped ==
    ASSUME TypeInv, ClimbInv', NEW p \in Programs, Capture(p)
    PROVE  TypeInv'
<1>1. file \in Drafts /\ file.edition \in Editions
  BY FilesAreDrafts DEF TypeInv, TypeOK
<1>2. CASE ImportDraft(p)
  <2>1. PICK s : s = [at |-> "store draft", draft |-> file, report |-> None]
    OBVIOUS
  <2>2. Begin(p, "import", s)
    BY <1>2, <2>1 DEF ImportDraft
  <2>3. Typed(s, reports)
    BY <1>1, <2>1 DEF Typed, Places, Saves
  <2> QED BY <2>2, <2>3, BeginTyped
<1>3. CASE WorkflowValidate(p) \/ ValidateDraft(p)
  <2>1. PICK s : s = [at |-> "store draft", draft |-> file, report |-> ReportOn(file.edition)]
    OBVIOUS
  <2>2. Begin(p, "validate", s)
    BY <1>3, <2>1 DEF WorkflowValidate, ValidateDraft, Validate
  <2>3. ReportTyped(ReportOn(file.edition))
    BY <1>1, ReportIsTyped
  <2>4. Typed(s, reports)
    BY <1>1, <2>1, <2>3 DEF Typed, Places, Saves
  <2> QED BY <2>2, <2>4, BeginTyped
<1>4. ASSUME NEW id, NEW by \in People, WorkflowAcceptRisk(p, id, by) \/ AcceptFinding(p, id, by)
      PROVE  TypeInv'
  <2>1. PICK fresh, row, report, s :
          /\ fresh = ReportOn(file.edition)
          /\ row = [id |-> id, by |-> by]
          /\ report = [fresh EXCEPT !.accepted = {a \in @ : a.id # id} \cup {row}]
          /\ s = [at |-> "store acceptance", row |-> row, draft |-> file, report |-> report]
    OBVIOUS
  <2>2. id \in Advisory(file.edition) /\ Begin(p, "accept", s)
    BY <1>4, <2>1 DEF WorkflowAcceptRisk, AcceptFinding, AcceptRisk
  <2>3. id \in FindingIds
    BY <1>1, <2>2 DEF Advisory, FindingIds
  <2>4. row \in Acceptance
    BY <2>1, <2>3 DEF Acceptance
  <2>5. ReportTyped(fresh) /\ DOMAIN fresh = {"edition", "accepted"}
    BY <1>1, <2>1, ReportIsTyped DEF ReportOn
  <2>6. /\ report.edition = fresh.edition
        /\ report.accepted = {a \in fresh.accepted : a.id # id} \cup {row}
    BY <2>1, <2>5
  <2>7. ReportTyped(report)
    BY <2>4, <2>5, <2>6 DEF ReportTyped
  <2>8. Typed(s, reports)
    BY <1>1, <2>1, <2>4, <2>7 DEF Typed, Places, Saves
  <2> QED BY <2>2, <2>8, BeginTyped
<1>5. CASE SaveRiskAcceptance(p)
  <2>1. PICK old, s : old = session[p] /\ s = [at |-> "store draft", draft |-> old.draft, report |-> old.report]
    OBVIOUS
  <2>2. /\ old.at = "store acceptance" /\ acceptances' = Append(acceptances, old.row)
        /\ session' = [session EXCEPT ![p] = s]
        /\ UNCHANGED <<file, drafts, reports, promotions, artifacts, assessments, begun, unvouched>>
    BY <1>5, <2>1 DEF SaveRiskAcceptance, At
  <2>3. old.row \in Acceptance /\ old.draft \in Drafts /\ ReportTyped(old.report)
    BY <2>1, <2>2 DEF TypeInv, Typed
  <2>4. Elements(acceptances') = Elements(acceptances) \cup {old.row}
    BY <2>2, RowAppended DEF TypeInv, ClimbInv, PromotionInv
  <2>5. TypeOK'
    BY <2>2, <2>3, <2>4 DEF TypeInv, TypeOK
  <2>6. Typed(s, reports')
    BY <2>1, <2>3 DEF Typed, Places, Saves
  <2> QED BY <2>2, <2>5, <2>6, SessionTyped
<1>6. CASE SaveDraft(p)
  <2>1. PICK old : old = session[p]
    OBVIOUS
  <2>2. /\ old.at = "store draft"
        /\ drafts' = [drafts EXCEPT ![Version(old.draft.edition)] = old.draft]
        /\ UNCHANGED <<file, reports, acceptances, promotions, artifacts, assessments, begun, unvouched>>
    BY <1>6, <2>1 DEF SaveDraft, At
  <2>3. /\ DOMAIN old = {"at", "draft", "report"} /\ old.draft \in Drafts
        /\ old.report # None => ReportTyped(old.report)
    BY <2>1, <2>2 DEF TypeInv, Typed
  <2>4. ASSUME NEW v \in Versions, drafts'[v] # None
        PROVE  drafts'[v] \in Drafts /\ Version(drafts'[v].edition) = v
    <3>1. \/ drafts'[v] = drafts[v]
          \/ drafts'[v] = old.draft /\ v = Version(old.draft.edition)
      BY <2>2 DEF TypeInv, ClimbInv
    <3> QED BY <2>3, <2>4, <3>1 DEF TypeInv, TypeOK
  <2>5. TypeOK'
    BY <2>2, <2>4 DEF TypeInv, TypeOK
  <2>6. CASE old.report = None
    BY <1>6, <2>1, <2>2, <2>5, <2>6, LeaveTyped DEF SaveDraft
  <2>7. CASE old.report # None
    <3>1. PICK s : s = [old EXCEPT !.at = "store report"]
      OBVIOUS
    <3>2. session' = [session EXCEPT ![p] = s]
      BY <1>6, <2>1, <2>7, <3>1 DEF SaveDraft, GoTo, TypeInv, ClimbInv, PromotionInv, FloorInv
    <3>3. s.at = "store report" /\ s.report = old.report
      BY <2>3, <3>1
    <3>4. Typed(s, reports')
      BY <2>3, <2>7, <3>3 DEF Typed, Places, Saves
    <3> QED BY <2>2, <2>5, <3>2, <3>4, SessionTyped
  <2> QED BY <2>6, <2>7
<1>7. CASE SaveReport(p)
  <2>1. PICK r : r = session[p].report
    OBVIOUS
  <2>2. /\ session[p].at = "store report" /\ reports' = reports \cup {r} /\ Leave(p)
        /\ UNCHANGED <<file, drafts, acceptances, promotions, artifacts, assessments, begun, unvouched>>
    BY <1>7, <2>1 DEF SaveReport, At
  <2>3. ReportTyped(r)
    BY <2>1, <2>2 DEF TypeInv, Typed
  <2>4. TypeOK'
    BY <2>2, <2>3 DEF TypeInv, TypeOK, ReportTyped
  <2> QED BY <2>2, <2>4, LeaveTyped
<1> QED BY <1>2, <1>3, <1>4, <1>5, <1>6, <1>7 DEF Capture


\* A promotion goes from one place to the next.
LEMMA ClimbGoesTyped ==
    ASSUME TypeInv, ClimbInv', TypeOK', NEW p \in Programs, NEW place, NEW s,
           session[p].at \in Places, place \in Places \ {"cite"}, GoTo(p, place),
           session[p].report \in reports', reports \subseteq reports',
           place \in {"look", "insert"} => Target(session[p].draft) \in Rungs
    PROVE  TypeInv'
<1>1. PICK old, new : old = session[p] /\ new = [old EXCEPT !.at = place]
  OBVIOUS
<1>2. session' = [session EXCEPT ![p] = new]
  BY <1>1 DEF GoTo, TypeInv, ClimbInv, PromotionInv, FloorInv
<1>3. /\ DOMAIN old = {"at", "draft", "report", "rows"}
      /\ old.draft \in Drafts /\ ReportTyped(old.report)
  BY <1>1 DEF TypeInv, Typed, ClimbInv, PromotionInv, Promoting
<1>4. new.at = place /\ new.draft = old.draft /\ new.report = old.report
  BY <1>1, <1>3
<1>5. Typed(new, reports')
  BY <1>1, <1>3, <1>4 DEF Typed, Places, Saves
<1> QED BY <1>2, <1>5, SessionTyped

LEMMA ClimbTyped ==
    ASSUME TypeInv, ClimbInv', NEW p \in Programs, Climb(p)
    PROVE  TypeInv'
<1>1. CASE WorkflowPromote(p) \/ PromoteDraft(p)
  <2>1. PICK draft, report, s :
          /\ draft = AtRecordedMaturity(file) /\ report = ReportOn(draft.edition)
          /\ s = [at |-> "cite", draft |-> draft, report |-> report, rows |-> assessments]
    OBVIOUS
  <2>2. Begin(p, "promote", s)
    BY <1>1, <2>1 DEF WorkflowPromote, PromoteDraft, Promote
  <2>3. draft \in Drafts
    BY <2>1, RecordedIsTyped
  <2>4. ReportTyped(report)
    BY <2>1, <2>3, ReportIsTyped DEF Drafts
  <2>5. Typed(s, reports)
    BY <2>1, <2>3, <2>4 DEF Typed, Places, Saves
  <2> QED BY <2>2, <2>5, BeginTyped
<1>2. CASE CiteReport(p)
  <2>1. PICK old, place :
          old = session[p] /\ place = Verdict(old.draft, old.report, old.rows)
    OBVIOUS
  <2>2. /\ old.at = "cite" /\ reports' = reports \cup {old.report} /\ GoTo(p, place)
        /\ UNCHANGED <<file, drafts, acceptances, promotions, artifacts, assessments, begun, unvouched>>
    BY <1>2, <2>1 DEF CiteReport, At
  <2>3. old.draft \in Drafts /\ ReportTyped(old.report)
    BY <2>1, <2>2 DEF TypeInv, Typed, Places
  <2>4. TypeOK'
    BY <2>2, <2>3 DEF TypeInv, TypeOK, ReportTyped
  <2>5. place \in {"refuse", "advance", "look"}
    BY <2>1, VerdictFitsTarget
  <2>6. ASSUME place = "look" PROVE Target(old.draft) \in Rungs
    <3>1. Verdict(old.draft, old.report, old.rows) \in {"advance", "look"}
      BY <2>1, <2>6
    <3> QED BY <2>3, <3>1, VerdictNamesRung
  <2> QED BY <2>1, <2>2, <2>4, <2>5, <2>6, ClimbGoesTyped DEF Places
<1>3. ASSUME NEW granted, session[p].at \in {"refuse", "grant"}, RecordPromotion(p, granted)
      PROVE  TypeInv'
  <2>1. PICK row : row = PromotionRow(p, granted)
    OBVIOUS
  <2>2. /\ promotions' = Append(promotions, row) /\ Leave(p)
        /\ UNCHANGED <<file, drafts, reports, acceptances, artifacts, assessments, begun, unvouched>>
    BY <1>3, <2>1 DEF RecordPromotion
  <2>3. row.report = session[p].report /\ session[p].report \in reports
    BY <1>3, <2>1 DEF PromotionRow, TypeInv, Typed, Places
  <2>4. Elements(promotions') = Elements(promotions) \cup {row}
    BY <2>2, RowAppended DEF TypeInv, ClimbInv, PromotionInv
  <2>5. TypeOK'
    BY <2>2, <2>3, <2>4 DEF TypeInv, TypeOK
  <2> QED BY <2>2, <2>5, LeaveTyped
<1>4. CASE Refuse(p) \/ Grant(p)
  <2>1. session[p].at \in {"refuse", "grant"}
    BY <1>4 DEF Refuse, Grant, At
  <2>2. PICK granted : RecordPromotion(p, granted)
    BY <1>4 DEF Refuse, Grant
  <2> QED BY <1>3, <2>1, <2>2
<1>5. CASE AdvanceDraft(p)
  <2>1. PICK d, mapped : d = session[p].draft /\ mapped = [d EXCEPT !.maturity = "MAPPED"]
    OBVIOUS
  <2>2. /\ session[p].at = "advance" /\ GoTo(p, "grant")
        /\ drafts' = [drafts EXCEPT ![Version(d.edition)] = mapped]
        /\ UNCHANGED <<file, reports, acceptances, promotions, artifacts, assessments, begun, unvouched>>
    BY <1>5, <2>1 DEF AdvanceDraft, At
  <2>3. d \in Drafts /\ session[p].report \in reports
    BY <2>1, <2>2 DEF TypeInv, Typed, Places
  <2>4. mapped \in Drafts /\ mapped.edition = d.edition
    BY <2>1, <2>3, LadderIs DEF Drafts, Rungs
  <2>5. ASSUME NEW v \in Versions, drafts'[v] # None
        PROVE  drafts'[v] \in Drafts /\ Version(drafts'[v].edition) = v
    <3>1. \/ drafts'[v] = drafts[v]
          \/ drafts'[v] = mapped /\ v = Version(d.edition)
      BY <2>2 DEF TypeInv, ClimbInv
    <3> QED BY <2>4, <2>5, <3>1 DEF TypeInv, TypeOK
  <2>6. TypeOK'
    BY <2>2, <2>5 DEF TypeInv, TypeOK
  <2> QED BY <2>2, <2>3, <2>6, ClimbGoesTyped DEF Places
<1>6. CASE LookForArtifact(p)
  <2>1. PICK place \in {"refuse", "insert"} : GoTo(p, place)
    BY <1>6 DEF LookForArtifact
  <2>2. session[p].at = "look" /\ UNCHANGED <<file, ledger, begun, unvouched>>
    BY <1>6 DEF LookForArtifact, At
  <2>3. TypeOK' /\ reports' = reports
    BY <2>2, TablesStay DEF TypeInv, ledger
  <2>4. session[p].report \in reports /\ Target(session[p].draft) \in Rungs
    BY <2>2 DEF TypeInv, Typed, Places
  <2> QED BY <2>1, <2>2, <2>3, <2>4, ClimbGoesTyped DEF Places
<1>7. CASE InsertArtifact(p)
  <2>1. PICK d, a : d = session[p].draft /\ a = Artifact(session[p])
    OBVIOUS
  <2>2. /\ session[p].at = "insert"
        /\ UNCHANGED <<file, drafts, reports, acceptances, promotions, assessments, begun, unvouched>>
    BY <1>7 DEF InsertArtifact, At
  <2>3. d \in Drafts /\ session[p].report \in reports /\ Target(d) \in Rungs
    BY <2>1, <2>2 DEF TypeInv, Typed, Places
  <2>4. CASE Uninsertable(d)
    <3>1. Leave(p) /\ UNCHANGED artifacts
      BY <1>7, <2>1, <2>4 DEF InsertArtifact
    <3>2. TypeOK'
      BY <2>2, <3>1 DEF TypeInv, TypeOK
    <3> QED BY <2>2, <3>1, <3>2, LeaveTyped
  <2>5. CASE ~Uninsertable(d)
    <3>1. artifacts' = Append(artifacts, a) /\ GoTo(p, "grant")
      BY <1>7, <2>1, <2>5 DEF InsertArtifact
    <3>2. a.edition = d.edition /\ a.maturity = Target(d)
      BY <2>1 DEF Artifact
    <3>3. Elements(artifacts') = Elements(artifacts) \cup {a}
      BY <3>1, RowAppended DEF TypeInv, ClimbInv, PromotionInv
    <3>4. TypeOK'
      BY <2>2, <2>3, <3>2, <3>3 DEF TypeInv, TypeOK, Rungs, Drafts
    <3> QED BY <2>2, <2>3, <3>1, <3>4, ClimbGoesTyped DEF Places
  <2> QED BY <2>4, <2>5
<1> QED BY <1>1, <1>2, <1>4, <1>5, <1>6, <1>7 DEF Climb

\* A step of a workflow is one its draft lists.
LEMMA StepIsListed ==
    ASSUME NEW e \in Editions, NEW id \in StepIds(Content[e])
    PROVE  StepOf(Content[e], id).characteristics \in Characteristics
<1>1. PICK d : d = Content[e]
  OBVIOUS
<1>2. \E i \in DOMAIN d.steps : d.steps[i].step_id = id
  BY <1>1 DEF StepIds
<1>3. PICK i \in DOMAIN d.steps : StepOf(d, id) = d.steps[i]
  BY <1>2 DEF StepOf
<1> QED BY <1>1, <1>3, ContentIsWorkflows DEF IsWorkflow

LEMMA AssessedTyped ==
    ASSUME NEW id, NEW c \in Characteristics, NEW authority, NEW gated
    PROVE  RowTyped(AssessStep(id, c, authority, gated), id)
<1>1. PICK a : a = AssessStep(id, c, authority, gated)
  OBVIOUS
<1>2. DOMAIN a = Fields /\ a.step_id = id /\ a.factors = c
  BY <1>1 DEF AssessStep, Fields
<1> QED BY <1>1, <1>2 DEF RowTyped

LEMMA OverriddenTyped ==
    ASSUME NEW id, NEW a, RowTyped(a, id), NEW to
    PROVE  RowTyped(ApplyOverride(a, to), id)
BY DEF RowTyped, ApplyOverride, Fields

LEMMA FreshTyped ==
    ASSUME NEW e \in Editions, NEW id \in StepIds(Content[e])
    PROVE  RowTyped(Fresh(Content[e])[id], id)
BY StepIsListed, AssessedTyped DEF Fresh

LEMMA ReassessedTyped ==
    ASSUME NEW e \in Editions, NEW replaced, NEW id \in StepIds(Content[e])
    PROVE  RowTyped(Reassessed(Content[e], replaced)[id], id)
<1>1. \/ Reassessed(Content[e], replaced)[id] = Fresh(Content[e])[id]
      \/ Reassessed(Content[e], replaced)[id]
            = ApplyOverride(Fresh(Content[e])[id], assessments[id].override)
  BY DEF Reassessed
<1> QED BY <1>1, FreshTyped, OverriddenTyped

\* The newest artifact is of one of the editions.
LEMMA NewestIsWorkflow ==
    ASSUME TypeInv, artifacts # <<>>
    PROVE  \E e \in Editions : Newest = Content[e]
<1>1. IsList(artifacts)
  BY DEF TypeInv, ClimbInv, PromotionInv
<1>2. Len(artifacts) \in DOMAIN artifacts
  BY <1>1 DEF IsList
<1>3. artifacts[Len(artifacts)] \in Elements(artifacts)
  BY <1>2 DEF Elements
<1> QED BY <1>3 DEF TypeInv, TypeOK, Newest

LEMMA RowsGoTyped ==
    ASSUME TypeInv, ClimbInv', NEW p \in Programs, NEW command, NEW s,
           s.at \in Saves, RowsTyped(s.rows),
           \/ Begin(p, command, s)
           \/ /\ session' = [session EXCEPT ![p] = s]
              /\ UNCHANGED <<file, ledger, begun, unvouched>>
    PROVE  TypeInv'
<1>1. Typed(s, reports)
  BY DEF Typed, Saves, Places
<1>2. CASE Begin(p, command, s)
  BY <1>1, <1>2, BeginTyped
<1>3. CASE /\ session' = [session EXCEPT ![p] = s]
           /\ UNCHANGED <<file, ledger, begun, unvouched>>
  <2>1. TypeOK' /\ reports' = reports
    BY <1>3, TablesStay DEF TypeInv, ledger
  <2> QED BY <1>1, <1>3, <2>1, SessionTyped
<1> QED BY <1>2, <1>3

LEMMA CooperateTyped ==
    ASSUME TypeInv, ClimbInv', NEW p \in Programs, Cooperate(p)
    PROVE  TypeInv'
<1>1. ASSUME artifacts # <<>>, NEW replaced
      PROVE  RowsTyped(Reassessed(Newest, replaced))
  <2>1. PICK e \in Editions : Newest = Content[e]
    BY <1>1, NewestIsWorkflow
  <2>2. DOMAIN Reassessed(Newest, replaced) = StepIds(Content[e])
    BY <2>1 DEF Reassessed
  <2> QED BY <2>1, <2>2, ReassessedTyped DEF RowsTyped
<1>2. ASSUME NEW replacing, WorkflowAssessCooperation(p, replacing) PROVE TypeInv'
  <2>1. PICK e \in Editions : Newest = Content[e]
    BY <1>2, NewestIsWorkflow DEF WorkflowAssessCooperation
  <2>2. PICK d, rows, s :
          /\ d = Content[e]
          /\ rows = [id \in StepIds(d) |->
                       IF id \in DOMAIN replacing
                       THEN ApplyOverride(Fresh(d)[id], replacing[id])
                       ELSE Reassessed(d, DOMAIN replacing)[id]]
          /\ s = [at |-> "store assessments", rows |-> rows]
    OBVIOUS
  <2>3. Begin(p, "assess", s)
    BY <1>2, <2>1, <2>2 DEF WorkflowAssessCooperation
  <2>4. ASSUME NEW id \in StepIds(d) PROVE RowTyped(rows[id], id)
    <3>1. \/ rows[id] = ApplyOverride(Fresh(d)[id], replacing[id])
          \/ rows[id] = Reassessed(d, DOMAIN replacing)[id]
      BY <2>2
    <3> QED BY <2>2, <3>1, FreshTyped, ReassessedTyped, OverriddenTyped
  <2>5. RowsTyped(rows)
    BY <2>2, <2>4 DEF RowsTyped
  <2>6. s.at \in Saves /\ s.rows = rows
    BY <2>2 DEF Saves
  <2> QED BY <2>3, <2>5, <2>6, RowsGoTyped
<1>3. CASE AssessCooperation(p)
  <2>1. PICK s : s = [at |-> "store assessments", rows |-> Reassessed(Newest, {})]
    OBVIOUS
  <2>2. artifacts # <<>> /\ Begin(p, "assess", s)
    BY <1>3, <2>1 DEF AssessCooperation
  <2>3. s.at \in Saves /\ s.rows = Reassessed(Newest, {})
    BY <2>1 DEF Saves
  <2> QED BY <1>1, <2>2, <2>3, RowsGoTyped
<1>4. ASSUME NEW id, NEW to, OverrideExecutor(p, id, to) PROVE TypeInv'
  <2>1. PICK rows, s :
          /\ rows = [x \in {id} |-> ApplyOverride(assessments[x], to)]
          /\ s = [at |-> "store override", rows |-> rows]
    OBVIOUS
  <2>2. id \in DOMAIN assessments /\ Begin(p, "override", s)
    BY <1>4, <2>1 DEF OverrideExecutor
  <2>3. RowTyped(assessments[id], id)
    BY <2>2 DEF TypeInv, TypeOK, ClimbInv, PromotionInv, FloorInv, RowsOK, RowOK, RowTyped
  <2>4. RowsTyped(rows)
    BY <2>1, <2>3, OverriddenTyped DEF RowsTyped
  <2>5. s.at \in Saves /\ s.rows = rows
    BY <2>1 DEF Saves
  <2> QED BY <2>2, <2>4, <2>5, RowsGoTyped
<1>5. CASE SaveAssessments(p)
  <2>1. PICK rows : rows = session[p].rows
    OBVIOUS
  <2>2. /\ session[p].at \in Saves
        /\ assessments' = [id \in DOMAIN rows \cup DOMAIN assessments |->
                              IF id \in DOMAIN rows THEN rows[id] ELSE assessments[id]]
        /\ UNCHANGED <<file, drafts, reports, acceptances, promotions, artifacts, begun, unvouched>>
    BY <1>5, <2>1 DEF SaveAssessments, At, Saves
  <2>3. RowsTyped(rows)
    BY <2>1, <2>2 DEF TypeInv, Typed
  <2>4. ASSUME NEW id \in DOMAIN assessments'
        PROVE  assessments'[id].step_id = id /\ assessments'[id].factors \in Characteristics
    BY <2>2, <2>3 DEF RowsTyped, RowTyped, TypeInv, TypeOK
  <2>5. TypeOK'
    BY <2>2, <2>4 DEF TypeInv, TypeOK
  <2>6. CASE At(p, "store override")
    <3>1. PICK s : s = [at |-> "reassess"]
      OBVIOUS
    <3>2. session' = [session EXCEPT ![p] = s]
      BY <1>5, <2>6, <3>1 DEF SaveAssessments
    <3>3. Typed(s, reports')
      BY <3>1 DEF Typed, Places, Saves
    <3> QED BY <2>2, <2>5, <3>2, <3>3, SessionTyped
  <2>7. CASE ~At(p, "store override")
    BY <1>5, <2>2, <2>5, <2>7, LeaveTyped DEF SaveAssessments
  <2> QED BY <2>6, <2>7
<1>6. CASE Reassess(p)
  <2>1. UNCHANGED <<file, ledger, begun, unvouched>>
    BY <1>6 DEF Reassess
  <2>2. CASE artifacts # <<>> /\ CarriesOver(Newest, {})
    <3>1. PICK s : s = [at |-> "store assessments", rows |-> Reassessed(Newest, {})]
      OBVIOUS
    <3>2. session' = [session EXCEPT ![p] = s]
      BY <1>6, <2>2, <3>1 DEF Reassess
    <3>3. s.at \in Saves /\ s.rows = Reassessed(Newest, {})
      BY <3>1 DEF Saves
    <3> QED BY <1>1, <2>1, <2>2, <3>2, <3>3, RowsGoTyped
  <2>3. CASE ~(artifacts # <<>> /\ CarriesOver(Newest, {}))
    <3>1. TypeOK' /\ reports' = reports
      BY <2>1, TablesStay DEF TypeInv, ledger
    <3> QED BY <1>6, <2>3, <3>1, LeaveTyped DEF Reassess
  <2> QED BY <2>2, <2>3
<1> QED BY <1>2, <1>3, <1>4, <1>5, <1>6 DEF Cooperate

LEMMA AssignTyped ==
    ASSUME TypeInv, ClimbInv', NEW p \in Programs, Assign(p)
    PROVE  TypeInv'
<1>1. ASSUME NEW approved, WorkflowBuildCooperative(p, approved) \/ BuildCooperativeDraft(p, approved)
      PROVE  TypeInv'
  <2>1. PICK s : s.at = "store cooperative" /\ Begin(p, "build", s)
    BY <1>1 DEF WorkflowBuildCooperative, BuildCooperativeDraft, Build
  <2> QED BY <2>1, BeginTyped DEF Typed, Places, Saves
<1>2. CASE WorkflowExportAgentBrief(p) \/ ExportBrief(p)
  <2>1. PICK s : s.at = "store brief" /\ Begin(p, "export", s)
    BY <1>2 DEF WorkflowExportAgentBrief, ExportBrief, Export
  <2> QED BY <2>1, BeginTyped DEF Typed, Places, Saves
<1>3. CASE SaveCooperative(p) \/ SaveBrief(p)
  <2>1. /\ Leave(p) /\ reports' = reports
        /\ UNCHANGED <<file, drafts, acceptances, promotions, artifacts, assessments, begun, unvouched>>
    BY <1>3 DEF SaveCooperative, SaveBrief
  <2>2. TypeOK'
    BY <2>1 DEF TypeInv, TypeOK
  <2> QED BY <2>1, <2>2, LeaveTyped
<1> QED BY <1>1, <1>2, <1>3 DEF Assign

LEMMA DieTyped ==
    ASSUME TypeInv, ClimbInv', NEW p \in Programs, Die(p)
    PROVE  TypeInv'
<1>1. Leave(p) /\ reports' = reports /\ UNCHANGED <<file, ledger, begun>>
  BY DEF Die, ledger
<1>2. unvouched' \subseteq Versions
  <2>1. session[p].at = "grant" => Version(session[p].draft.edition) \in Versions
    BY DEF TypeInv, Typed, Places, Drafts, Versions
  <2> QED BY <2>1 DEF Die, At, TypeInv, TypeOK
<1>3. TypeOK'
  BY <1>1, <1>2 DEF TypeInv, TypeOK, ledger
<1> QED BY <1>1, <1>3, LeaveTyped

LEMMA EditTyped ==
    ASSUME TypeInv, ClimbInv', NEW f \in [edition : Editions, maturity : Claims], Edit(f)
    PROVE  TypeInv'
<1>1. /\ file' = f /\ unvouched' = unvouched \cup ClaimedBy(f) /\ reports' = reports
      /\ UNCHANGED <<ledger, session>> /\ begun' = begun + 1 /\ begun < MaxCommands
  BY DEF Edit, ledger
<1>2. ClaimedBy(f) \subseteq Versions
  BY DEF ClaimedBy, Versions
<1>3. begun' \in 0..MaxCommands
  BY <1>1, MaxCommandsAssumption DEF TypeInv, TypeOK
<1>4. TypeOK'
  BY <1>1, <1>2, <1>3 DEF TypeInv, TypeOK, ledger
<1> QED BY <1>1, <1>4 DEF TypeInv

LEMMA TypesInit == Init => TypeInv
<1> SUFFICES ASSUME Init PROVE TypeInv
  OBVIOUS
<1>1. ASSUME NEW p \in Programs PROVE Typed(session[p], reports)
  <2>1. session[p] = Idle
    BY DEF Init
  <2> QED BY <2>1 DEF Typed, Idle, Places, Saves
<1>2. unvouched \subseteq Versions
  BY DEF Init, ClaimedBy, Versions
<1>3. acceptances = <<>> /\ promotions = <<>> /\ artifacts = <<>> /\ assessments = <<>>
  BY DEF Init
<1>4. begun \in 0..MaxCommands
  BY MaxCommandsAssumption DEF Init
<1>5. TypeOK
  BY <1>2, <1>3, <1>4, EmptyTable DEF Init, TypeOK
<1> QED BY <1>1, <1>5, ClimbInit DEF TypeInv

LEMMA TypesKept == TypeInv /\ [Next]_vars => TypeInv'
<1> SUFFICES ASSUME TypeInv, [Next]_vars PROVE TypeInv'
  OBVIOUS
<1>1. ClimbInv'
  BY ClimbKept DEF TypeInv
<1>2. CASE UNCHANGED vars
  BY <1>1, <1>2 DEF vars, ledger, TypeInv, TypeOK
<1> QED BY <1>1, <1>2, EditTyped, CaptureTyped, ClimbTyped, CooperateTyped, AssignTyped,
           DieTyped DEF Next

\* Every table holds rows of its kind, and what a row cites is there: a
\* promotion's report is stored before its row (workflow_promotion.py
\* promote_workflow), a draft is filed under its own version, an assessment
\* under its own step (runtime/ledger.py).
THEOREM TypeCorrect == Spec => []TypeOK
<1>1. TypeInv => TypeOK
  BY DEF TypeInv
<1> QED BY <1>1, TypesInit, TypesKept, PTL DEF Spec

-----------------------------------------------------------------------------
(* Lists *)

LEMMA ListsAre ==
    ASSUME NEW T, NEW s \in Seq(T)
    PROVE  IsList(s) /\ Elements(s) \subseteq T
<1>1. \A i \in DOMAIN s : s[i] \in T /\ s[i] \in Elements(s)
  BY ElementOfSeq, LenProperties DEF Elements
<1>2. s \in Seq(Elements(s))
  BY <1>1, LenProperties, IsASeq
<1> QED BY <1>1, <1>2 DEF IsList, Elements

LEMMA ListsJoin ==
    ASSUME NEW T, NEW s \in Seq(T), NEW t \in Seq(T)
    PROVE  /\ s \o t \in Seq(T)
           /\ Elements(s \o t) = Elements(s) \cup Elements(t)
<1>1. s \o t \in Seq(T) /\ Len(s \o t) = Len(s) + Len(t) /\ Len(s) \in Nat /\ Len(t) \in Nat
  BY ConcatProperties, LenProperties
<1>2. \A i \in 1 .. Len(s) + Len(t) : (s \o t)[i] = IF i <= Len(s) THEN s[i] ELSE t[i - Len(s)]
  BY ConcatProperties
<1>3. DOMAIN s = 1 .. Len(s) /\ DOMAIN t = 1 .. Len(t) /\ DOMAIN (s \o t) = 1 .. Len(s) + Len(t)
  BY <1>1, LenProperties
<1>4. PICK u : u = s \o t
  OBVIOUS
<1>5. ASSUME NEW x \in Elements(u) PROVE x \in Elements(s) \cup Elements(t)
  <2>1. PICK i \in 1 .. Len(s) + Len(t) : x = u[i]
    BY <1>3, <1>4, <1>5 DEF Elements
  <2>2. CASE i <= Len(s)
    <3>1. i \in DOMAIN s /\ x = s[i]
      BY <2>1, <2>2, <1>1, <1>2, <1>3, <1>4
    <3> QED BY <3>1 DEF Elements
  <2>3. CASE ~(i <= Len(s))
    <3>1. i - Len(s) \in 1 .. Len(t) /\ x = t[i - Len(s)]
      BY <2>1, <2>3, <1>1, <1>2, <1>4
    <3> QED BY <3>1, <1>3 DEF Elements
  <2> QED BY <2>2, <2>3
<1>6. ASSUME NEW x \in Elements(s) PROVE x \in Elements(u)
  <2>1. PICK i \in DOMAIN s : x = s[i]
    BY <1>6 DEF Elements
  <2>2. i \in 1 .. Len(s) + Len(t) /\ i <= Len(s)
    BY <1>1, <1>3
  <2>3. u[i] = x
    BY <2>1, <2>2, <1>2, <1>4
  <2> QED BY <2>2, <2>3, <1>3, <1>4 DEF Elements
<1>7. ASSUME NEW x \in Elements(t) PROVE x \in Elements(u)
  <2>1. PICK i \in DOMAIN t : x = t[i]
    BY <1>7 DEF Elements
  <2>2. /\ i + Len(s) \in 1 .. Len(s) + Len(t) /\ ~(i + Len(s) <= Len(s))
        /\ i + Len(s) - Len(s) = i
    BY <1>1, <1>3
  <2>3. u[i + Len(s)] = x
    BY <2>1, <2>2, <1>2, <1>4
  <2> QED BY <2>2, <2>3, <1>3, <1>4 DEF Elements
<1> QED BY <1>1, <1>4, <1>5, <1>6, <1>7

\* A list of lists put one after the other is a list of what they hold.
LEMMA ListsFlatten ==
    ASSUME NEW T, NEW s \in Seq(Seq(T))
    PROVE  /\ FlattenSeq(s) \in Seq(T)
           /\ Elements(FlattenSeq(s)) = UNION {Elements(s[i]) : i \in DOMAIN s}
<1>1. Len(s) \in Nat /\ DOMAIN s = 1 .. Len(s) /\ \A i \in DOMAIN s : s[i] \in Seq(T)
  BY ElementOfSeq, LenProperties
<1>2. CASE Len(s) = 0
  <2>1. s = <<>> /\ DOMAIN s = {}
    BY <1>1, <1>2, EmptySeq
  <2>2. FlattenSeq(s) = <<>>
    BY <1>2, <2>1 DEF FlattenSeq
  <2>3. FlattenSeq(s) \in Seq(T)
    BY <2>2
  <2>4. UNION {Elements(s[i]) : i \in DOMAIN s} = {}
    BY <2>1
  <2> QED BY <2>2, <2>3, <2>4, EmptyTable
<1>3. CASE Len(s) # 0
  <2>1. PICK n \in Nat \ {0} : n = Len(s)
    BY <1>1, <1>3
  <2>2. n \in Nat /\ 1 \in 1 .. n /\ n \in 1 .. n
    BY <2>1
  <2>3. PICK step : step = [p \in (1 .. n) \X Seq(T) |->
                               IF p[1] + 1 \in 1 .. n THEN p[2] \o s[p[1] + 1] ELSE p[2]]
    OBVIOUS
  <2>4. step \in [(1 .. n) \X Seq(T) -> Seq(T)]
    <3>1. ASSUME NEW p \in (1 .. n) \X Seq(T)
          PROVE  (IF p[1] + 1 \in 1 .. n THEN p[2] \o s[p[1] + 1] ELSE p[2]) \in Seq(T)
      <4>1. p[2] \in Seq(T)
        OBVIOUS
      <4>2. p[1] + 1 \in 1 .. n => s[p[1] + 1] \in Seq(T)
        BY <1>1, <2>1
      <4> QED BY <4>1, <4>2, ConcatProperties
    <3> QED BY <2>3, <3>1
  <2>5. s[1] \in Seq(T)
    BY <1>1, <2>1
  <2>6. PICK f \in [1 .. n -> Seq(T)] : Unfolds(f, n, s[1], step)
    BY <2>4, <2>5, RecursionUnfolds
  <2>7. \A i \in 1 .. n : f[i] = IF i = 1 THEN s[i] ELSE f[i - 1] \o s[i]
    <3>1. ASSUME NEW i \in 1 .. n, i # 1
          PROVE  f[i] = f[i - 1] \o s[i]
      <4>1. f[i] = step[<<i - 1, f[i - 1]>>]
        BY <2>6, <3>1 DEF Unfolds
      <4>2. i - 1 \in 1 .. n /\ f[i - 1] \in Seq(T) /\ i - 1 + 1 = i
        BY <3>1, <2>6
      <4>3. <<i - 1, f[i - 1]>> \in (1 .. n) \X Seq(T)
        BY <4>2
      <4> QED BY <4>1, <4>2, <4>3, <2>3
    <3>2. f[1] = s[1]
      BY <2>6, <2>2 DEF Unfolds
    <3> QED BY <3>1, <3>2
  <2>8. f = [i \in 1 .. n |-> IF i = 1 THEN s[i] ELSE f[i - 1] \o s[i]]
    BY <2>6, <2>7
  <2> DEFINE Is(g) == g = [i \in 1 .. n |-> IF i = 1 THEN s[i] ELSE g[i - 1] \o s[i]]
  <2>9. PICK g : g = CHOOSE h : Is(h)
    OBVIOUS
  <2>10. /\ g[1] = s[1]
        /\ \A i \in 1 .. n : i # 1 => g[i] = g[i - 1] \o s[i]
    <3>1. Is(g)
      BY <2>8, <2>9
    <3> QED BY <3>1, <2>2
  <2>11. FlattenSeq(s) = g[n]
    BY <1>3, <2>1, <2>9 DEF FlattenSeq
  <2> DEFINE Upto(i) == UNION {Elements(s[j]) : j \in 1 .. i}
             G == {i \in 1 .. n : g[i] \in Seq(T) /\ Elements(g[i]) = Upto(i)}
  <2>12. 1 \in G
    <3>1. Upto(1) = Elements(s[1])
      OBVIOUS
    <3> QED BY <2>10, <2>2, <3>1, <2>5
  <2>13. ASSUME NEW i \in G, i # n PROVE i + 1 \in G
    <3>1. PICK k : k = i + 1
      OBVIOUS
    <3>2. i \in 1 .. n /\ i # n
      BY <2>13
    <3>3. i \in 1 .. n /\ k \in 1 .. n /\ k # 1 /\ k - 1 = i
      BY ONLY <2>2, <3>1, <3>2
    <3>4. g[k] = g[i] \o s[k]
      BY <2>10, <3>3
    <3>5. s[k] \in Seq(T) /\ g[i] \in Seq(T) /\ Elements(g[i]) = Upto(i)
      BY <1>1, <2>1, <3>3, <2>13
    <3>6. g[k] \in Seq(T) /\ Elements(g[k]) = Upto(i) \cup Elements(s[k])
      BY <3>4, <3>5, ListsJoin
    <3>7. Upto(k) = Upto(i) \cup Elements(s[k])
      <4>1. 1 .. k = (1 .. i) \cup {k}
        BY <3>1, <3>3
      <4> QED BY <4>1
    <3> QED BY <3>1, <3>3, <3>6, <3>7
  <2>14. \A i \in G : i \in 1 .. n /\ i # n => i + 1 \in G
    BY <2>13
  <2>15. \A i \in 1 .. n : i \in G
    <3> HIDE DEF G
    <3> QED BY <2>12, <2>14, UpTo
  <2>16. n \in G
    BY <2>15, <2>2
  <2>17. Upto(n) = UNION {Elements(s[i]) : i \in DOMAIN s}
    BY <1>1, <2>1
  <2> QED BY <2>11, <2>16, <2>17
<1> QED BY <1>2, <1>3

-----------------------------------------------------------------------------
(* The routes out of a step *)

LEMMA OneListed ==
    ASSUME NEW T, NEW t \in T
    PROVE  <<t>> \in Seq(T) /\ Elements(<<t>>) = {t}
<1>1. <<t>> \in Seq(T)
  OBVIOUS
<1>2. DOMAIN <<t>> = 1 .. 1 /\ <<t>>[1] = t
  OBVIOUS
<1>3. PICK q : q = <<t>>
  OBVIOUS
<1>4. Elements(q) = {t}
  BY <1>2, <1>3 DEF Elements
<1> QED BY <1>1, <1>3, <1>4

LEMMA NamedIs ==
    ASSUME NEW T, NEW t, t # "" => t \in T
    PROVE  Named(t) \in Seq(T) /\ Elements(Named(t)) = {t} \ {""}
<1>1. CASE t = ""
  <2>1. Named(t) = <<>>
    BY <1>1 DEF Named
  <2> QED BY <1>1, <2>1, EmptyTable, EmptySeq
<1>2. CASE t # ""
  <2>1. Named(t) = <<t>>
    BY <1>2 DEF Named
  <2>2. t \in T
    BY <1>2
  <2>3. <<t>> \in Seq(T) /\ Elements(<<t>>) = {t}
    BY ONLY <2>2, OneListed
  <2> QED BY <1>2, <2>1, <2>3
<1> QED BY <1>1, <1>2

LEMMA ListsHave ==
    ASSUME NEW s, IsList(s)
    PROVE  Len(s) \in Nat /\ DOMAIN s = 1 .. Len(s) /\ s \in Seq(Elements(s))
BY LenProperties DEF IsList

LEMMA ListsOf ==
    ASSUME NEW S, NEW s, IsList(s), NEW r \in [DOMAIN s -> S]
    PROVE  r \in Seq(S) /\ DOMAIN r = DOMAIN s
<1>1. PICK n \in Nat : DOMAIN s = 1 .. n
  BY ListsHave
<1> QED BY <1>1

\* A step has an index, and is the step of its id.
LEMMA StepHasIndex ==
    ASSUME NEW d, NEW id \in StepIds(d)
    PROVE  \E i \in DOMAIN d.steps : d.steps[i].step_id = id /\ StepOf(d, id) = d.steps[i]
BY DEF StepIds, StepOf

Approves(d, id) == {d.gates[i].on_approve : i \in {j \in DOMAIN d.gates : d.gates[j].at_step = id}}

LEMMA RoutesAre ==
    ASSUME NEW d, IsWorkflow(d), NEW id \in StepIds(d)
    PROVE  /\ IsList(Routes(d, id))
           /\ Elements(Routes(d, id)) =
                 NextOf(StepOf(d, id))
                 \cup ({e.next_step : e \in ExceptionsOf(StepOf(d, id))} \ {""})
                 \cup (Approves(d, id) \ {""})
<1>1. PICK s : s = StepOf(d, id)
  OBVIOUS
<1>2. IsList(s.next_steps) /\ IsList(s.exceptions) /\ IsList(d.gates)
  BY <1>1, StepHasIndex DEF IsWorkflow
<1>3. PICK T : T = NextOf(s) \cup ({e.next_step : e \in ExceptionsOf(s)} \ {""})
                   \cup (Approves(d, id) \ {""})
  OBVIOUS
<1>4. s.next_steps \in Seq(T) /\ Elements(s.next_steps) = NextOf(s)
  <2>1. Elements(s.next_steps) = NextOf(s)
    BY DEF Elements, NextOf
  <2>2. Elements(s.next_steps) \subseteq T
    BY <1>3, <2>1
  <2> QED BY <2>1, <2>2, <1>2, SeqMonotonic DEF IsList
<1>5. PICK r : r = [i \in DOMAIN s.exceptions |-> Named(s.exceptions[i].next_step)]
  OBVIOUS
<1>6. /\ FlattenSeq(r) \in Seq(T)
      /\ Elements(FlattenSeq(r)) = {e.next_step : e \in ExceptionsOf(s)} \ {""}
  <2>1. ASSUME NEW i \in DOMAIN s.exceptions
        PROVE  /\ Named(s.exceptions[i].next_step) \in Seq(T)
               /\ Elements(Named(s.exceptions[i].next_step)) = {s.exceptions[i].next_step} \ {""}
    <3>1. s.exceptions[i].next_step # "" => s.exceptions[i].next_step \in T
      BY <1>3 DEF ExceptionsOf
    <3> QED BY <3>1, NamedIs
  <2>2. r \in [DOMAIN s.exceptions -> Seq(T)]
    BY <1>5, <2>1
  <2>3. r \in Seq(Seq(T)) /\ DOMAIN r = DOMAIN s.exceptions
    BY <1>2, <2>2, ListsOf
  <2>4. UNION {Elements(r[i]) : i \in DOMAIN r} = {e.next_step : e \in ExceptionsOf(s)} \ {""}
    <3>1. \A i \in DOMAIN r : Elements(r[i]) = {s.exceptions[i].next_step} \ {""}
      BY <1>5, <2>1, <2>3
    <3>2. UNION {Elements(r[i]) : i \in DOMAIN r}
             = UNION {{s.exceptions[i].next_step} \ {""} : i \in DOMAIN s.exceptions}
      BY <3>1, <2>3
    <3>3. {e.next_step : e \in ExceptionsOf(s)}
             = {s.exceptions[i].next_step : i \in DOMAIN s.exceptions}
      BY DEF ExceptionsOf
    <3>4. \A x : x \in UNION {{s.exceptions[i].next_step} \ {""} : i \in DOMAIN s.exceptions}
                   <=> x # "" /\ \E i \in DOMAIN s.exceptions : x = s.exceptions[i].next_step
      BY Zenon
    <3> QED BY ONLY <3>2, <3>3, <3>4
  <2> QED BY <2>3, <2>4, ListsFlatten
<1>7. PICK g : g = [i \in DOMAIN d.gates |->
                      IF d.gates[i].at_step = id THEN Named(d.gates[i].on_approve) ELSE <<>>]
  OBVIOUS
<1>8. /\ FlattenSeq(g) \in Seq(T)
      /\ Elements(FlattenSeq(g)) = Approves(d, id) \ {""}
  <2>1. ASSUME NEW i \in DOMAIN d.gates
        PROVE  /\ g[i] \in Seq(T)
               /\ Elements(g[i]) = IF d.gates[i].at_step = id
                                   THEN {d.gates[i].on_approve} \ {""} ELSE {}
    <3>1. CASE d.gates[i].at_step = id
      <4>1. d.gates[i].on_approve # "" => d.gates[i].on_approve \in T
        BY <1>3, <3>1 DEF Approves
      <4>2. g[i] = Named(d.gates[i].on_approve)
        BY <1>7, <3>1
      <4> QED BY <4>1, <4>2, <3>1, NamedIs
    <3>2. CASE d.gates[i].at_step # id
      <4>1. g[i] = <<>>
        BY <1>7, <3>2
      <4> QED BY <4>1, <3>2, EmptyTable
    <3> QED BY <3>1, <3>2
  <2>2. g \in [DOMAIN d.gates -> Seq(T)]
    BY <1>7, <2>1
  <2>3. g \in Seq(Seq(T)) /\ DOMAIN g = DOMAIN d.gates
    BY <1>2, <2>2, ListsOf
  <2>4. UNION {Elements(g[i]) : i \in DOMAIN g} = Approves(d, id) \ {""}
    <3>1. ASSUME NEW x \in UNION {Elements(g[i]) : i \in DOMAIN g}
          PROVE  x \in Approves(d, id) \ {""}
      BY <2>1, <2>3, <3>1 DEF Approves
    <3>2. ASSUME NEW x \in Approves(d, id) \ {""}
          PROVE  x \in UNION {Elements(g[i]) : i \in DOMAIN g}
      <4>1. PICK i \in DOMAIN d.gates : d.gates[i].at_step = id /\ x = d.gates[i].on_approve
        BY <3>2 DEF Approves
      <4>2. i \in DOMAIN g /\ Elements(g[i]) = {x} \ {""} /\ x # ""
        BY <4>1, <2>1, <2>3, <3>2
      <4> QED BY <4>2
    <3> QED BY <3>1, <3>2
  <2> QED BY <2>3, <2>4, ListsFlatten
<1>9. PICK a, b, c : a = s.next_steps /\ b = FlattenSeq(r) /\ c = FlattenSeq(g)
  OBVIOUS
<1>10. Routes(d, id) = (a \o b) \o c
  BY <1>1, <1>5, <1>7, <1>9 DEF Routes
<1>11. a \in Seq(T) /\ b \in Seq(T) /\ c \in Seq(T)
  BY <1>4, <1>6, <1>8, <1>9
<1>12. a \o b \in Seq(T) /\ Elements(a \o b) = Elements(a) \cup Elements(b)
  BY ONLY <1>11, ListsJoin
<1>13. PICK ab : ab = a \o b
  OBVIOUS
<1>14. ab \in Seq(T)
  BY <1>12, <1>13
<1>15. ab \o c \in Seq(T) /\ Elements(ab \o c) = Elements(ab) \cup Elements(c)
  BY ONLY <1>11, <1>14, ListsJoin
<1>16. Routes(d, id) \in Seq(T) /\ Elements(Routes(d, id)) = T
  BY <1>3, <1>4, <1>6, <1>8, <1>9, <1>10, <1>12, <1>13, <1>15
<1> QED BY <1>1, <1>3, <1>16, ListsAre

-----------------------------------------------------------------------------
(* The worklist takes its turns, and the turns suffice *)

LEMMA LastLeaves ==
    ASSUME NEW T, NEW s \in Seq(T), s # <<>>
    PROVE  /\ Front(s) \in Seq(T) /\ Last(s) \in T
           /\ Len(Front(s)) = Len(s) - 1 /\ Len(s) \in Nat \ {0}
           /\ Elements(s) = Elements(Front(s)) \cup {Last(s)}
<1>1. Len(s) \in Nat \ {0} /\ DOMAIN s = 1 .. Len(s)
  BY EmptySeq, LenProperties
<1>2. \A i \in 1 .. Len(s) : s[i] \in T
  BY ElementOfSeq
<1>3. PICK n : n = Len(s) - 1
  OBVIOUS
<1>4. n \in Nat /\ n = Len(s) - 1
  BY <1>1, <1>3
<1>5. \A i \in 1 .. n : i \in 1 .. Len(s)
  BY <1>1, <1>4
<1>6. /\ Front(s) \in Seq(T) /\ Len(Front(s)) = n
      /\ \A i \in 1 .. n : Front(s)[i] = s[i]
  <2>1. Front(s) = SubSeq(s, 1, n)
    BY <1>4 DEF Front
  <2>2. \A i \in 1 .. n : s[i] \in T
    BY <1>2, <1>5
  <2>3. 1 \in Int /\ n \in Int
    BY <1>4
  <2>4. /\ SubSeq(s, 1, n) \in Seq(T)
        /\ Len(SubSeq(s, 1, n)) = IF 1 <= n THEN n - 1 + 1 ELSE 0
        /\ \A i \in 1 .. n - 1 + 1 : SubSeq(s, 1, n)[i] = s[1 + i - 1]
    BY <2>2, <2>3, SubSeqProperties
  <2>5. PICK q : q = SubSeq(s, 1, n)
    OBVIOUS
  <2>6. q \in Seq(T) /\ Len(q) = n
    BY <1>4, <2>4, <2>5
  <2>7. ASSUME NEW i \in 1 .. n PROVE q[i] = s[i]
    <3>1. i \in 1 .. n - 1 + 1 /\ 1 + i - 1 = i
      BY <1>4
    <3> QED BY <2>4, <2>5, <3>1
  <2> QED BY <2>1, <2>5, <2>6, <2>7
<1>7. DOMAIN Front(s) = 1 .. n
  BY <1>6, LenProperties
<1>8. Last(s) = s[Len(s)]
  BY DEF Last
<1>9. 1 .. Len(s) = (1 .. n) \cup {Len(s)}
  BY <1>1, <1>4
<1>10. Elements(s) = {s[i] : i \in 1 .. n} \cup {s[Len(s)]}
  BY <1>1, <1>9 DEF Elements
<1>11. Elements(Front(s)) = {s[i] : i \in 1 .. n}
  BY <1>6, <1>7 DEF Elements
<1> QED BY <1>1, <1>2, <1>4, <1>6, <1>8, <1>10, <1>11

LEMMA QueuedIsFinite ==
    ASSUME NEW d, IsWorkflow(d)
    PROVE  IsFiniteSet(Queued(d))
<1>1. PICK f : f = [i \in DOMAIN d.steps |-> {i} \X DOMAIN Routes(d, d.steps[i].step_id)]
  OBVIOUS
<1>2. PICK R : R = {f[i] : i \in DOMAIN d.steps}
  OBVIOUS
<1>3. IsFiniteSet(DOMAIN d.steps)
  <2>1. PICK n \in Nat : DOMAIN d.steps = 1 .. n
    BY ListsHave DEF IsWorkflow
  <2> QED BY <2>1, FS_Interval
<1>4. IsFiniteSet(R)
  <2>1. f \in Surjection(DOMAIN d.steps, R)
    BY <1>1, <1>2 DEF Surjection
  <2> QED BY <1>3, <2>1, FS_Surjection
<1>5. ASSUME NEW i \in DOMAIN d.steps PROVE IsFiniteSet(f[i])
  <2>1. PICK n \in Nat : DOMAIN Routes(d, d.steps[i].step_id) = 1 .. n
    BY RoutesAre, ListsHave DEF StepIds
  <2>2. f[i] = {i} \X (1 .. n)
    BY <1>1, <2>1
  <2>3. IsFiniteSet({i})
    BY FS_Singleton
  <2>4. IsFiniteSet(1 .. n)
    BY FS_Interval
  <2> QED BY <2>2, <2>3, <2>4, FS_Product
<1>6. \A Q \in R : IsFiniteSet(Q)
  BY <1>2, <1>5
<1>7. Queued(d) = UNION R
  <2>1. R = {{i} \X DOMAIN Routes(d, d.steps[i].step_id) : i \in DOMAIN d.steps}
    BY <1>1, <1>2
  <2> QED BY <2>1 DEF Queued
<1> QED BY <1>4, <1>6, <1>7, FS_UNION

LEMMA TurnsAre ==
    ASSUME NEW d, IsWorkflow(d)
    PROVE  Turns(d) \in Nat \ {0} /\ Turns(d) = 1 + Cardinality(Queued(d))
BY QueuedIsFinite, FS_CardinalityType DEF Turns

Entry(d) == d.steps[1].step_id
Entries(d) == {Entry(d)} \cup UNION {Elements(Routes(d, id)) : id \in StepIds(d)}
Walking(d) == [seen : SUBSET StepIds(d), frontier : Seq(Entries(d))]
Started(d) == [seen |-> {}, frontier |-> <<Entry(d)>>]

LEMMA EntryIs ==
    ASSUME NEW d, IsWorkflow(d), d.steps # <<>>
    PROVE  /\ Entry(d) \in StepIds(d) /\ Started(d) \in Walking(d)
           /\ Elements(Started(d).frontier) = {Entry(d)}
           /\ Len(Started(d).frontier) = 1
<1>1. Entry(d) \in StepIds(d)
  <2>1. PICK n \in Nat : DOMAIN d.steps = 1 .. n /\ n = Len(d.steps)
    BY ListsHave DEF IsWorkflow
  <2>2. n # 0
    BY <2>1, ListsHave, EmptySeq DEF IsWorkflow
  <2>3. 1 \in DOMAIN d.steps
    BY <2>1, <2>2
  <2> QED BY <2>3 DEF Entry, StepIds
<1>2. PICK x : x = Entry(d)
  OBVIOUS
<1>3. x \in Entries(d)
  BY <1>2 DEF Entries
<1>4. <<x>> \in Seq(Entries(d)) /\ Elements(<<x>>) = {x} /\ Len(<<x>>) = 1
  BY ONLY <1>3, OneListed
<1> QED BY <1>1, <1>2, <1>4 DEF Started, Walking

\* A turn took x from the list, left rest and may have added routes.
Takes(d, w, v, x, rest) ==
    /\ v \in Walking(d)
    /\ Len(rest) = Len(w.frontier) - 1 /\ Len(w.frontier) \in Nat \ {0}
    /\ Elements(w.frontier) = Elements(rest) \cup {x}
    /\ \/ /\ x \in w.seen \/ x \notin StepIds(d)
          /\ v.seen = w.seen /\ v.frontier = rest
       \/ /\ x \in StepIds(d) \ w.seen
          /\ v.seen = w.seen \cup {x}
          /\ Len(v.frontier) = Len(rest) + Len(Routes(d, x))
          /\ Elements(v.frontier) = Elements(rest) \cup Elements(Routes(d, x))

\* A turn takes the last entry of the list.
LEMMA TurnIs ==
    ASSUME NEW d, IsWorkflow(d), NEW w \in Walking(d), w.frontier # <<>>,
           NEW v, v = Turn(d, w)
    PROVE  \E x \in Entries(d), rest \in Seq(Entries(d)) : Takes(d, w, v, x, rest)
<1>1. w.frontier \in Seq(Entries(d)) /\ w.seen \in SUBSET StepIds(d)
  BY DEF Walking
<1>2. PICK x, rest : x = Last(w.frontier) /\ rest = Front(w.frontier)
  OBVIOUS
<1>3. /\ x \in Entries(d) /\ rest \in Seq(Entries(d))
      /\ Len(rest) = Len(w.frontier) - 1 /\ Len(w.frontier) \in Nat \ {0}
      /\ Elements(w.frontier) = Elements(rest) \cup {x}
  BY <1>1, <1>2, LastLeaves
<1>4. CASE x \in w.seen \/ x \notin StepIds(d)
  <2>1. v = [w EXCEPT !.frontier = rest]
    BY <1>2, <1>4 DEF Turn
  <2>2. v \in Walking(d) /\ v.seen = w.seen /\ v.frontier = rest
    BY <1>1, <1>3, <2>1 DEF Walking
  <2> QED BY <1>3, <1>4, <2>2 DEF Takes
<1>5. CASE x \in StepIds(d) \ w.seen
  <2>1. PICK r : r = Routes(d, x)
    OBVIOUS
  <2>2. v = [seen |-> w.seen \cup {x}, frontier |-> rest \o r]
    BY <1>2, <1>5, <2>1 DEF Turn
  <2>3. r \in Seq(Elements(r)) /\ Elements(r) \subseteq Entries(d)
    BY <1>5, <2>1, RoutesAre DEF IsList, Entries
  <2>4. r \in Seq(Entries(d))
    BY <2>3, SeqMonotonic
  <2>5. /\ rest \o r \in Seq(Entries(d))
        /\ Elements(rest \o r) = Elements(rest) \cup Elements(r)
        /\ Len(rest \o r) = Len(rest) + Len(r)
    <3>1. rest \in Seq(Entries(d))
      BY <1>3
    <3>2. rest \o r \in Seq(Entries(d)) /\ Len(rest \o r) = Len(rest) + Len(r)
      BY ONLY <3>1, <2>4, ConcatProperties
    <3>3. Elements(rest \o r) = Elements(rest) \cup Elements(r)
      BY ONLY <3>1, <2>4, ListsJoin
    <3> QED BY <3>2, <3>3
  <2>6. v \in Walking(d) /\ v.seen = w.seen \cup {x} /\ v.frontier = rest \o r
    BY <1>1, <1>5, <2>2, <2>5 DEF Walking
  <2> QED BY <1>3, <1>5, <2>1, <2>5, <2>6 DEF Takes
<1> QED BY <1>4, <1>5

Worklist(d, w) ==
    /\ w \in [0 .. Turns(d) -> Walking(d)]
    /\ w[0] = Started(d)
    /\ \A n \in 0 .. (Turns(d) - 1) :
          /\ w[n].frontier = <<>> => w[n + 1] = w[n]
          /\ w[n].frontier # <<>> => w[n + 1] = Turn(d, w[n])

LEMMA WorklistUnfolds ==
    ASSUME NEW d, IsWorkflow(d), d.steps # <<>>
    PROVE  \E w : Worklist(d, w) /\ ReachableFromEntry(d) = w[Turns(d)].seen
<1>1. PICK m \in Nat : m = Turns(d)
  BY TurnsAre
<1>2. PICK n \in Nat \ {0} : n = m + 1
  BY <1>1
<1>3. PICK step : step = [p \in (1 .. n) \X Walking(d) |->
                            IF p[2].frontier = <<>> THEN p[2] ELSE Turn(d, p[2])]
  OBVIOUS
<1>4. step \in [(1 .. n) \X Walking(d) -> Walking(d)]
  <2>1. ASSUME NEW p \in (1 .. n) \X Walking(d)
        PROVE  (IF p[2].frontier = <<>> THEN p[2] ELSE Turn(d, p[2])) \in Walking(d)
    <3>1. p[2] \in Walking(d)
      OBVIOUS
    <3>2. p[2].frontier # <<>> => Turn(d, p[2]) \in Walking(d)
      BY <3>1, TurnIs DEF Takes
    <3> QED BY <3>1, <3>2
  <2> QED BY <1>3, <2>1
<1>5. Started(d) \in Walking(d)
  BY EntryIs
<1>6. PICK f \in [1 .. n -> Walking(d)] : Unfolds(f, n, Started(d), step)
  BY <1>4, <1>5, RecursionUnfolds
<1>7. PICK g : g = [k \in 0 .. m |-> f[k + 1]]
  OBVIOUS
<1> DEFINE Next1(v) == IF v.frontier = <<>> THEN v ELSE Turn(d, v)
           Is(h) == h = [k \in 0 .. m |-> IF k = 0 THEN Started(d) ELSE Next1(h[k - 1])]
<1>8. ASSUME NEW k \in 0 .. m, k # 0
      PROVE  g[k] = Next1(g[k - 1])
  <2>1. k \in 1 .. n /\ k + 1 \in 1 .. n /\ k + 1 # 1 /\ k + 1 - 1 = k /\ k - 1 \in 0 .. m
        /\ k - 1 + 1 = k
    BY <1>2, <1>8
  <2>2. PICK l : l = k + 1
    OBVIOUS
  <2>3. f[l] = step[<<l - 1, f[l - 1]>>]
    BY <1>6, <2>1, <2>2 DEF Unfolds
  <2>4. f[l] = step[<<k, f[k]>>]
    BY <2>1, <2>2, <2>3
  <2>5. <<k, f[k]>> \in (1 .. n) \X Walking(d)
    BY <1>6, <2>1
  <2>6. f[l] = Next1(f[k])
    BY <1>3, <2>4, <2>5
  <2>7. g[k] = f[l]
    BY <1>7, <2>2
  <2>8. g[k - 1] = f[k]
    BY <1>7, <2>1
  <2> QED BY <2>6, <2>7, <2>8
<1>9. g[0] = Started(d)
  <2>1. 1 \in 1 .. n
    BY <1>2
  <2>2. f[1] = Started(d)
    BY <1>6, <2>1 DEF Unfolds
  <2> QED BY <1>7, <2>2
<1>10. Is(g)
  <2>1. \A k \in 0 .. m : g[k] = IF k = 0 THEN Started(d) ELSE Next1(g[k - 1])
    <3> HIDE DEF Next1
    <3> QED BY <1>8, <1>9
  <2>2. g = [k \in 0 .. m |-> g[k]]
    BY <1>7
  <2> HIDE DEF Next1
  <2> QED BY <2>1, <2>2
<1>11. PICK w : w = CHOOSE h : Is(h)
  OBVIOUS
<1>12. Is(w)
  <2> HIDE DEF Is
  <2> QED BY <1>10, <1>11
<1>13. ReachableFromEntry(d) = w[m].seen
  BY <1>1, <1>11 DEF ReachableFromEntry, Started, Entry
<1>14. w[0] = Started(d)
  BY <1>12
<1>15. \A k \in 0 .. (m - 1) : w[k + 1] = Next1(w[k])
  <2>1. ASSUME NEW k \in 0 .. (m - 1) PROVE w[k + 1] = Next1(w[k])
    <3>1. PICK l : l = k + 1
      OBVIOUS
    <3>2. l \in 0 .. m /\ l # 0 /\ l - 1 = k
      BY <3>1
    <3>3. w[l] = Next1(w[l - 1])
      <4> HIDE DEF Next1
      <4> QED BY <1>12, <3>2
    <3> QED BY <3>1, <3>2, <3>3
  <2> QED BY <2>1
<1>16. w \in [0 .. m -> Walking(d)]
  <2> DEFINE K == {k \in 1 .. n : w[k - 1] \in Walking(d)}
  <2>1. 1 \in K
    BY <1>2, <1>5, <1>14
  <2>2. \A k \in K : k \in 1 .. n /\ k # n => k + 1 \in K
    <3>1. ASSUME NEW k \in K, k # n PROVE k + 1 \in K
      <4>1. PICK l : l = k - 1
        OBVIOUS
      <4>2. k \in 1 .. n /\ k + 1 \in 1 .. n /\ l \in 0 .. (m - 1) /\ k + 1 - 1 = l + 1
            /\ w[l] \in Walking(d)
        BY <1>2, <3>1, <4>1
      <4>3. w[l + 1] \in Walking(d)
        <5>1. w[l + 1] = Next1(w[l])
          <6> HIDE DEF Next1
          <6> QED BY <1>15, <4>2
        <5> QED BY <4>2, <5>1, TurnIs DEF Takes
      <4> QED BY <4>2, <4>3
    <3> QED BY <3>1
  <2>3. \A k \in 1 .. n : k \in K
    <3> HIDE DEF K
    <3> QED BY <2>1, <2>2, UpTo
  <2>4. \A k \in 0 .. m : w[k] \in Walking(d)
    <3>1. ASSUME NEW k \in 0 .. m PROVE w[k] \in Walking(d)
      <4>1. PICK l : l = k + 1
        OBVIOUS
      <4>2. l \in 1 .. n /\ l - 1 = k
        BY <1>2, <4>1
      <4> QED BY <2>3, <4>2
    <3> QED BY <3>1
  <2>5. w = [k \in 0 .. m |-> w[k]]
    BY <1>12
  <2> QED BY <2>4, <2>5
<1> QED BY <1>1, <1>13, <1>14, <1>15, <1>16 DEF Worklist

\* The routes that are still to be put on the list.
Ahead(d, v) == {q \in Queued(d) : d.steps[q[1]].step_id \notin v.seen}

LEMMA AheadIsFinite ==
    ASSUME NEW d, IsWorkflow(d), NEW v
    PROVE  IsFiniteSet(Ahead(d, v)) /\ Cardinality(Ahead(d, v)) \in Nat
<1>1. Ahead(d, v) \in SUBSET Queued(d)
  BY DEF Ahead
<1> QED BY <1>1, QueuedIsFinite, FS_Subset, FS_CardinalityType

LEMMA RoutesLeave ==
    ASSUME NEW d, IsWorkflow(d), NEW w, NEW v, NEW x \in StepIds(d) \ w.seen,
           v.seen = w.seen \cup {x}
    PROVE  /\ Cardinality(Ahead(d, v)) + Len(Routes(d, x)) <= Cardinality(Ahead(d, w))
           /\ Len(Routes(d, x)) \in Nat
<1>1. PICK i \in DOMAIN d.steps : d.steps[i].step_id = x
  BY DEF StepIds
<1>2. PICK n \in Nat : n = Len(Routes(d, x)) /\ DOMAIN Routes(d, x) = 1 .. n
  BY RoutesAre, ListsHave
<1>3. PICK Q : Q = {i} \X (1 .. n)
  OBVIOUS
<1>4. IsFiniteSet(Q) /\ Cardinality(Q) = n
  <2>1. IsFiniteSet({i}) /\ Cardinality({i}) = 1
    BY FS_Singleton
  <2>2. IsFiniteSet(1 .. n) /\ Cardinality(1 .. n) = n
    BY FS_Interval
  <2>3. IsFiniteSet(Q) /\ Cardinality(Q) = Cardinality({i}) * Cardinality(1 .. n)
    BY ONLY <1>3, <2>1, <2>2, FS_Product
  <2> QED BY <2>1, <2>2, <2>3
<1>5. Q \subseteq Ahead(d, w)
  <2>1. Q \subseteq Queued(d)
    BY <1>1, <1>2, <1>3 DEF Queued
  <2>2. \A q \in Q : q[1] = i
    BY <1>3
  <2> QED BY <1>1, <2>1, <2>2 DEF Ahead
<1>6. Ahead(d, v) \subseteq Ahead(d, w) \ Q
  <2>1. \A q \in Q : q[1] = i
    BY <1>3
  <2> QED BY <1>1, <2>1 DEF Ahead
<1>7. PICK A, B : A = Ahead(d, w) /\ B = Ahead(d, v)
  OBVIOUS
<1>8. IsFiniteSet(A) /\ Cardinality(A) \in Nat /\ Cardinality(B) \in Nat
  BY <1>7, AheadIsFinite
<1>9. /\ IsFiniteSet(A \ Q)
      /\ Cardinality(A \ Q) = Cardinality(A) - Cardinality(A \cap Q)
  BY ONLY <1>8, FS_Difference
<1>10. A \cap Q = Q
  BY <1>5, <1>7
<1>11. B \in SUBSET (A \ Q)
  BY <1>6, <1>7
<1>12. Cardinality(B) <= Cardinality(A \ Q)
  BY ONLY <1>9, <1>11, FS_Subset
<1>13. Cardinality(B) + n <= Cardinality(A)
  <2>1. Cardinality(A \ Q) = Cardinality(A) - n
    BY <1>4, <1>9, <1>10
  <2> QED BY ONLY <1>2, <1>8, <1>12, <2>1
<1> QED BY <1>2, <1>7, <1>13

Effort(d, v) == Cardinality(Ahead(d, v)) + Len(v.frontier)

LEMMA EffortIs ==
    ASSUME NEW d, IsWorkflow(d), NEW v \in Walking(d)
    PROVE  Effort(d, v) \in Nat /\ (Effort(d, v) = 0 => v.frontier = <<>>)
<1>1. v.frontier \in Seq(Entries(d))
  BY DEF Walking
<1>2. Len(v.frontier) \in Nat /\ (v.frontier # <<>> => Len(v.frontier) \in Nat \ {0})
  BY <1>1, EmptySeq, LenProperties
<1>3. Cardinality(Ahead(d, v)) \in Nat
  BY AheadIsFinite
<1> QED BY <1>2, <1>3 DEF Effort

LEMMA TurnsTakeEffort ==
    ASSUME NEW d, IsWorkflow(d), NEW w \in Walking(d), w.frontier # <<>>,
           NEW v, v = Turn(d, w)
    PROVE  Effort(d, v) + 1 <= Effort(d, w)
<1>1. PICK x \in Entries(d), rest \in Seq(Entries(d)) : Takes(d, w, v, x, rest)
  BY TurnIs
<1>2. Cardinality(Ahead(d, v)) \in Nat /\ Cardinality(Ahead(d, w)) \in Nat
  BY AheadIsFinite
<1>3. CASE v.seen = w.seen /\ v.frontier = rest
  <2>1. Ahead(d, v) = Ahead(d, w)
    BY <1>3 DEF Ahead
  <2> QED BY <1>1, <1>2, <1>3, <2>1 DEF Effort, Takes
<1>4. CASE /\ x \in StepIds(d) \ w.seen
           /\ v.seen = w.seen \cup {x}
           /\ Len(v.frontier) = Len(rest) + Len(Routes(d, x))
  <2>1. /\ Cardinality(Ahead(d, v)) + Len(Routes(d, x)) <= Cardinality(Ahead(d, w))
        /\ Len(Routes(d, x)) \in Nat
    BY <1>4, RoutesLeave
  <2>2. PICK a, b, c, l : /\ a = Cardinality(Ahead(d, v)) /\ b = Cardinality(Ahead(d, w))
                          /\ c = Len(Routes(d, x)) /\ l = Len(w.frontier)
    OBVIOUS
  <2>3. Effort(d, v) = a + ((l - 1) + c) /\ Effort(d, w) = b + l
    BY <1>1, <1>4, <2>2 DEF Effort, Takes
  <2>4. a \in Nat /\ b \in Nat /\ c \in Nat /\ l \in Nat /\ a + c <= b
    BY <1>1, <1>2, <2>1, <2>2 DEF Takes
  <2> QED BY ONLY <2>3, <2>4
<1> QED BY <1>1, <1>3, <1>4 DEF Takes

\* The turns suffice: the list is empty in the end.
LEMMA WorklistEnds ==
    ASSUME NEW d, IsWorkflow(d), d.steps # <<>>, NEW w, Worklist(d, w)
    PROVE  w[Turns(d)].frontier = <<>>
<1>1. PICK m \in Nat \ {0} : m = Turns(d) /\ m = 1 + Cardinality(Queued(d))
  BY TurnsAre
<1>2. /\ \A k \in 0 .. m : w[k] \in Walking(d)
      /\ w[0] = Started(d)
      /\ \A k \in 0 .. (m - 1) : /\ w[k].frontier = <<>> => w[k + 1] = w[k]
                                 /\ w[k].frontier # <<>> => w[k + 1] = Turn(d, w[k])
  BY <1>1 DEF Worklist
<1> DEFINE K == {k \in 0 .. m : w[k].frontier = <<>> \/ Effort(d, w[k]) + k <= m}
<1>3. 0 \in K
  <2>1. Ahead(d, Started(d)) = Queued(d)
    BY DEF Ahead, Started
  <2>2. Effort(d, w[0]) = m
    <3>1. Cardinality(Queued(d)) \in Nat
      BY QueuedIsFinite, FS_CardinalityType
    <3>2. PICK v : v = Started(d)
      OBVIOUS
    <3>3. w[0] = v /\ Ahead(d, v) = Queued(d) /\ Len(v.frontier) = 1
      BY <1>2, <2>1, <3>2, EntryIs
    <3> QED BY <1>1, <3>1, <3>3 DEF Effort
  <2> QED BY <2>2, <1>1
<1>4. \A k \in K : k \in 0 .. (m - 1) => k + 1 \in K
  <2>1. ASSUME NEW k \in K, k \in 0 .. (m - 1) PROVE k + 1 \in K
    <3>1. PICK l : l = k + 1
      OBVIOUS
    <3>2. l \in 0 .. m /\ k \in Nat /\ w[k] \in Walking(d) /\ w[l] \in Walking(d)
      BY <1>1, <1>2, <2>1, <3>1
    <3>3. CASE w[k].frontier = <<>>
      <4>1. w[l] = w[k]
        BY <1>2, <2>1, <3>1, <3>3
      <4> QED BY <3>1, <3>2, <3>3, <4>1
    <3>4. CASE w[k].frontier # <<>>
      <4>1. w[l] = Turn(d, w[k])
        BY <1>2, <2>1, <3>1, <3>4
      <4>2. Effort(d, w[l]) + 1 <= Effort(d, w[k])
        BY <3>2, <3>4, <4>1, TurnsTakeEffort
      <4>3. Effort(d, w[l]) \in Nat /\ Effort(d, w[k]) \in Nat
        BY <3>2, EffortIs
      <4>4. Effort(d, w[k]) + k <= m
        BY <2>1, <3>4
      <4>5. Effort(d, w[l]) + l <= m
        BY <3>1, <3>2, <4>2, <4>3, <4>4
      <4> QED BY <3>1, <3>2, <4>5
    <3> QED BY <3>3, <3>4
  <2> QED BY <2>1
<1>5. m \in K
  <2>1. \A k \in 0 .. m : k \in K
    <3> HIDE DEF K
    <3> QED BY <1>3, <1>4, UpFromZero
  <2>2. m \in 0 .. m
    BY <1>1
  <2> QED BY <2>1, <2>2
<1>6. w[m] \in Walking(d)
  BY <1>1, <1>2
<1>7. Effort(d, w[m]) \in Nat /\ (Effort(d, w[m]) = 0 => w[m].frontier = <<>>)
  BY <1>6, EffortIs
<1> QED BY <1>1, <1>5, <1>7

-----------------------------------------------------------------------------
(* What the worklist finds *)

\* What has been seen leads to what has been seen or is on the list.
Visits(d, v) ==
    /\ Entry(d) \in v.seen \cup Elements(v.frontier)
    /\ \A id \in v.seen :
          Elements(Routes(d, id)) \cap StepIds(d) \subseteq v.seen \cup Elements(v.frontier)

\* Nothing outside a set that the routes do not leave is ever on the list.
Within(d, S, v) == v.seen \subseteq S /\ Elements(v.frontier) \cap StepIds(d) \subseteq S

IsClosed(d, S) ==
    /\ S \in SUBSET StepIds(d)
    /\ Entry(d) \in S
    /\ \A id \in S : Elements(Routes(d, id)) \cap StepIds(d) \subseteq S

LEMMA TurnVisits ==
    ASSUME NEW d, IsWorkflow(d), d.steps # <<>>, NEW w \in Walking(d), w.frontier # <<>>,
           NEW v, v = Turn(d, w), Visits(d, w)
    PROVE  Visits(d, v)
<1>1. PICK x \in Entries(d), rest \in Seq(Entries(d)) : Takes(d, w, v, x, rest)
  BY TurnIs
<1>2. Entry(d) \in StepIds(d)
  BY EntryIs
<1>3. /\ Entry(d) \in w.seen \cup Elements(w.frontier)
      /\ \A id \in w.seen :
            Elements(Routes(d, id)) \cap StepIds(d) \subseteq w.seen \cup Elements(w.frontier)
  BY DEF Visits
<1>4. CASE /\ x \in w.seen \/ x \notin StepIds(d)
           /\ v.seen = w.seen /\ v.frontier = rest
  BY <1>1, <1>2, <1>3, <1>4 DEF Visits, Takes
<1>5. CASE /\ x \in StepIds(d) \ w.seen
           /\ v.seen = w.seen \cup {x}
           /\ Elements(v.frontier) = Elements(rest) \cup Elements(Routes(d, x))
  <2>1. Entry(d) \in v.seen \cup Elements(v.frontier)
    BY <1>1, <1>3, <1>5 DEF Takes
  <2>2. ASSUME NEW id \in v.seen
        PROVE  Elements(Routes(d, id)) \cap StepIds(d) \subseteq v.seen \cup Elements(v.frontier)
    BY <1>1, <1>3, <1>5 DEF Takes
  <2> QED BY <2>1, <2>2 DEF Visits
<1> QED BY <1>1, <1>4, <1>5 DEF Takes

LEMMA TurnStaysWithin ==
    ASSUME NEW d, IsWorkflow(d), NEW S, IsClosed(d, S),
           NEW w \in Walking(d), w.frontier # <<>>,
           NEW v, v = Turn(d, w), Within(d, S, w)
    PROVE  Within(d, S, v)
<1>1. PICK x \in Entries(d), rest \in Seq(Entries(d)) : Takes(d, w, v, x, rest)
  BY TurnIs
<1>2. w.seen \subseteq S /\ Elements(w.frontier) \cap StepIds(d) \subseteq S
  BY DEF Within
<1>3. CASE v.seen = w.seen /\ v.frontier = rest
  BY <1>1, <1>2, <1>3 DEF Within, Takes
<1>4. CASE /\ x \in StepIds(d) \ w.seen
           /\ v.seen = w.seen \cup {x}
           /\ Elements(v.frontier) = Elements(rest) \cup Elements(Routes(d, x))
  <2>1. x \in S
    BY <1>1, <1>2, <1>4 DEF Takes
  <2>2. Elements(Routes(d, x)) \cap StepIds(d) \subseteq S
    BY <2>1 DEF IsClosed
  <2> QED BY <1>1, <1>2, <1>4, <2>1, <2>2 DEF Within, Takes
<1> QED BY <1>1, <1>3, <1>4 DEF Takes

LEMMA ReachableIs ==
    ASSUME NEW d, IsWorkflow(d), d.steps # <<>>
    PROVE  /\ IsClosed(d, ReachableFromEntry(d))
           /\ \A S : IsClosed(d, S) => ReachableFromEntry(d) \subseteq S
<1>1. PICK w : Worklist(d, w) /\ ReachableFromEntry(d) = w[Turns(d)].seen
  BY WorklistUnfolds
<1>2. PICK m \in Nat : m = Turns(d)
  BY TurnsAre
<1>3. /\ \A k \in 0 .. m : w[k] \in Walking(d)
      /\ w[0] = Started(d)
      /\ \A k \in 0 .. (m - 1) : /\ w[k].frontier = <<>> => w[k + 1] = w[k]
                                 /\ w[k].frontier # <<>> => w[k + 1] = Turn(d, w[k])
  BY <1>1, <1>2 DEF Worklist
<1>4. w[m].frontier = <<>> /\ w[m].seen = ReachableFromEntry(d) /\ w[m] \in Walking(d)
  BY <1>1, <1>2, <1>3, WorklistEnds
<1>5. Elements(w[m].frontier) = {}
  BY <1>4, EmptyTable
<1>6. PICK z : z = Started(d) /\ z = w[0]
  BY <1>3
<1>7. z.seen = {} /\ Elements(z.frontier) = {Entry(d)}
  <2>1. Elements(Started(d).frontier) = {Entry(d)}
    BY EntryIs
  <2>2. Started(d).seen = {}
    BY DEF Started
  <2> QED BY ONLY <1>6, <2>1, <2>2
<1>8. Visits(d, w[m])
  <2> DEFINE K == {k \in 0 .. m : Visits(d, w[k])}
  <2>1. 0 \in K
    <3>1. Visits(d, z)
      BY <1>7 DEF Visits
    <3> QED BY <1>6, <3>1
  <2>2. \A k \in K : k \in 0 .. (m - 1) => k + 1 \in K
    <3>1. ASSUME NEW k \in K, k \in 0 .. (m - 1) PROVE k + 1 \in K
      <4>1. k + 1 \in 0 .. m /\ w[k] \in Walking(d) /\ Visits(d, w[k])
        BY <1>3, <3>1
      <4>2. Visits(d, w[k + 1])
        BY <1>3, <3>1, <4>1, TurnVisits
      <4> QED BY <4>1, <4>2
    <3> QED BY <3>1
  <2>3. \A k \in 0 .. m : k \in K
    <3> HIDE DEF K
    <3> QED BY <2>1, <2>2, UpFromZero
  <2>4. m \in 0 .. m
    OBVIOUS
  <2> QED BY <2>3, <2>4
<1>9. IsClosed(d, ReachableFromEntry(d))
  <2>1. w[m].seen \in SUBSET StepIds(d)
    BY <1>4 DEF Walking
  <2> QED BY <1>4, <1>5, <1>8, <2>1 DEF IsClosed, Visits
<1>10. ASSUME NEW S, IsClosed(d, S) PROVE ReachableFromEntry(d) \subseteq S
  <2> DEFINE K == {k \in 0 .. m : Within(d, S, w[k])}
  <2>1. 0 \in K
    <3>1. Within(d, S, z)
      BY <1>7, <1>10 DEF Within, IsClosed
    <3> QED BY <1>6, <3>1
  <2>2. \A k \in K : k \in 0 .. (m - 1) => k + 1 \in K
    <3>1. ASSUME NEW k \in K, k \in 0 .. (m - 1) PROVE k + 1 \in K
      <4>1. k + 1 \in 0 .. m /\ w[k] \in Walking(d) /\ Within(d, S, w[k])
        BY <1>3, <3>1
      <4>2. Within(d, S, w[k + 1])
        BY <1>3, <1>10, <3>1, <4>1, TurnStaysWithin
      <4> QED BY <4>1, <4>2
    <3> QED BY <3>1
  <2>3. \A k \in 0 .. m : k \in K
    <3> HIDE DEF K
    <3> QED BY <2>1, <2>2, UpFromZero
  <2>4. m \in 0 .. m
    OBVIOUS
  <2>5. Within(d, S, w[m])
    BY <2>3, <2>4
  <2> QED BY <1>4, <2>5 DEF Within
<1> QED BY <1>9, <1>10

\* governance/workflow_rules.py, reachable_from_entry(): the worklist finds
\* exactly the least set of steps that holds the entry and that no route
\* leaves, for any draft.
THEOREM ReachableAlwaysLeast == Spec => []ReachableIsLeast
<1>1. TypeOK => ReachableIsLeast
  <2> SUFFICES ASSUME TypeOK PROVE ReachableIsLeast
    OBVIOUS
  <2>1. PICK d : d = Content[file.edition]
    OBVIOUS
  <2>2. IsWorkflow(d)
    BY <2>1, ContentIsWorkflows DEF TypeOK
  <2>3. d.steps # <<>> => /\ IsClosed(d, ReachableFromEntry(d))
                          /\ \A S : IsClosed(d, S) => ReachableFromEntry(d) \subseteq S
    BY <2>2, ReachableIs
  <2> QED BY <2>1, <2>3 DEF ReachableIsLeast, IsClosed, Entry
<1> QED BY <1>1, TypeCorrect, PTL

-----------------------------------------------------------------------------
(* The moves an export makes *)

\* Where a step's work ends up, and the moves it and its recoveries make.
Ends(s) == IF s.next_steps = <<>> THEN {Complete} ELSE {StateOf(t) : t \in NextOf(s)}

Onward(s, from, who, evidence, how) ==
    {Move(from, x, who, evidence, how) : x \in Ends(s)}

Recoveries(d, s) ==
    {Move(StateOf(s.step_id), StateOf(e.next_step), e.owner, {}, "GUIDED") :
        e \in {x \in ExceptionsOf(s) : x.next_step \in StepIds(d)}}

Worker(a) == IF a.identity = Nobody THEN a.human_owner ELSE a.identity

\* The moves out of a step whose assignment is a, as a set.
MovesUnder(a, d, s) ==
    (IF a.executor \in Gated
     THEN {Move(StateOf(s.step_id), WaitingAt(s.step_id), Worker(a), a.evidence,
                DepthByClass[a.executor])}
          \cup Onward(s, WaitingAt(s.step_id), a.human_owner, {}, "CONSCIOUS")
     ELSE Onward(s, StateOf(s.step_id), Worker(a), a.evidence, DepthByClass[a.executor]))
    \cup Recoveries(d, s)

LEMMA DestinationsAre ==
    ASSUME NEW s, IsList(s.next_steps)
    PROVE  IsList(Destinations(s)) /\ Elements(Destinations(s)) = Ends(s)
<1>1. CASE s.next_steps = <<>>
  <2>1. Destinations(s) = <<Complete>> /\ Ends(s) = {Complete}
    BY <1>1 DEF Destinations, Ends
  <2>2. PICK x : x = Complete
    OBVIOUS
  <2>3. x \in {x}
    OBVIOUS
  <2>4. <<x>> \in Seq({x}) /\ Elements(<<x>>) = {x}
    BY ONLY <2>3, OneListed
  <2> QED BY <2>1, <2>2, <2>4, ListsAre
<1>2. CASE s.next_steps # <<>>
  <2>1. PICK D : D = Destinations(s)
    OBVIOUS
  <2>2. D = [i \in DOMAIN s.next_steps |-> StateOf(s.next_steps[i])]
    BY <1>2, <2>1 DEF Destinations
  <2>3. D \in [DOMAIN s.next_steps -> Ends(s)]
    <3>1. ASSUME NEW i \in DOMAIN s.next_steps PROVE StateOf(s.next_steps[i]) \in Ends(s)
      BY <1>2 DEF Ends, NextOf
    <3> QED BY <2>2, <3>1
  <2>4. D \in Seq(Ends(s)) /\ DOMAIN D = DOMAIN s.next_steps
    BY <2>3, ListsOf
  <2>5. Elements(D) = Ends(s)
    BY <1>2, <2>2 DEF Elements, Ends, NextOf
  <2> QED BY <2>1, <2>4, <2>5, ListsAre
<1> QED BY <1>1, <1>2

LEMMA OnwardIs ==
    ASSUME NEW s, IsList(s.next_steps), NEW from, NEW who, NEW evidence, NEW how,
           NEW l, l = [i \in DOMAIN Destinations(s) |->
                          Move(from, Destinations(s)[i], who, evidence, how)]
    PROVE  l \in Seq(Onward(s, from, who, evidence, how))
           /\ Elements(l) = Onward(s, from, who, evidence, how)
<1>1. PICK D : D = Destinations(s)
  OBVIOUS
<1>2. IsList(D) /\ Elements(D) = Ends(s)
  BY <1>1, DestinationsAre
<1>3. PICK O : O = Onward(s, from, who, evidence, how)
  OBVIOUS
<1>4. O = {Move(from, x, who, evidence, how) : x \in Ends(s)}
  BY <1>3 DEF Onward
<1>5. l \in [DOMAIN D -> O]
  BY <1>1, <1>2, <1>4 DEF Elements
<1>6. l \in Seq(O)
  BY <1>2, <1>5, ListsOf
<1>7. Elements(l) = O
  BY <1>1, <1>2, <1>4 DEF Elements
<1> QED BY <1>3, <1>6, <1>7

LEMMA RecoveriesAre ==
    ASSUME NEW d, NEW s, IsList(s.exceptions),
           NEW r, r = [i \in DOMAIN s.exceptions |->
                         IF s.exceptions[i].next_step \in StepIds(d)
                         THEN <<Move(StateOf(s.step_id), StateOf(s.exceptions[i].next_step),
                                     s.exceptions[i].owner, {}, "GUIDED")>>
                         ELSE <<>>]
    PROVE  FlattenSeq(r) \in Seq(Recoveries(d, s))
           /\ Elements(FlattenSeq(r)) = Recoveries(d, s)
<1>1. PICK R : R = Recoveries(d, s)
  OBVIOUS
<1> DEFINE To(i) == Move(StateOf(s.step_id), StateOf(s.exceptions[i].next_step),
                         s.exceptions[i].owner, {}, "GUIDED")
           Leads(i) == s.exceptions[i].next_step \in StepIds(d)
<1>2. R = {To(i) : i \in {j \in DOMAIN s.exceptions : Leads(j)}}
  BY <1>1 DEF Recoveries, ExceptionsOf
<1>3. r = [i \in DOMAIN s.exceptions |-> IF Leads(i) THEN <<To(i)>> ELSE <<>>]
  OBVIOUS
<1> HIDE DEF To, Leads
<1>4. ASSUME NEW i \in DOMAIN s.exceptions
      PROVE  r[i] \in Seq(R) /\ Elements(r[i]) = IF Leads(i) THEN {To(i)} ELSE {}
  <2>1. CASE Leads(i)
    <3>1. PICK x : x = To(i)
      OBVIOUS
    <3>2. x \in R /\ r[i] = <<x>>
      BY <1>2, <1>3, <2>1, <3>1
    <3>3. <<x>> \in Seq(R) /\ Elements(<<x>>) = {x}
      BY ONLY <3>2, OneListed
    <3> QED BY <2>1, <3>1, <3>2, <3>3
  <2>2. CASE ~Leads(i)
    <3>1. r[i] = <<>>
      BY <1>3, <2>2
    <3> QED BY <2>2, <3>1, EmptyTable
  <2> QED BY <2>1, <2>2
<1>5. r \in [DOMAIN s.exceptions -> Seq(R)]
  BY <1>3, <1>4
<1>6. r \in Seq(Seq(R)) /\ DOMAIN r = DOMAIN s.exceptions
  BY <1>5, ListsOf
<1>7. UNION {Elements(r[i]) : i \in DOMAIN r} = R
  <2>1. ASSUME NEW x \in UNION {Elements(r[i]) : i \in DOMAIN r} PROVE x \in R
    <3>1. PICK i \in DOMAIN r : x \in Elements(r[i])
      BY <2>1
    <3>2. Leads(i) /\ x = To(i)
      <4>1. i \in DOMAIN s.exceptions
        BY ONLY <1>6, <3>1
      <4>2. x \in IF Leads(i) THEN {To(i)} ELSE {}
        BY <1>4, <3>1, <4>1
      <4> QED BY ONLY <4>2
    <3> QED BY <1>2, <1>6, <3>1, <3>2
  <2>2. ASSUME NEW x \in R PROVE x \in UNION {Elements(r[i]) : i \in DOMAIN r}
    <3>1. PICK i \in DOMAIN s.exceptions : Leads(i) /\ x = To(i)
      BY <1>2, <2>2
    <3>2. i \in DOMAIN r /\ x \in Elements(r[i])
      BY <1>4, <1>6, <3>1
    <3> QED BY <3>2
  <2> QED BY <2>1, <2>2
<1>8. FlattenSeq(r) \in Seq(R) /\ Elements(FlattenSeq(r)) = R
  <2>1. /\ FlattenSeq(r) \in Seq(R)
        /\ Elements(FlattenSeq(r)) = UNION {Elements(r[i]) : i \in DOMAIN r}
    BY ONLY <1>6, ListsFlatten
  <2> QED BY ONLY <1>7, <2>1
<1> QED BY <1>1, <1>8

\* The moves of a step, in whatever order, are those its assignment makes.
LEMMA MovesAre ==
    ASSUME NEW c, NEW d, NEW s, IsList(s.next_steps), IsList(s.exceptions)
    PROVE  /\ IsList(MovesOf(c, d, s))
           /\ Elements(MovesOf(c, d, s)) = MovesUnder(AssignmentOf(c, s.step_id), d, s)
<1>1. PICK a : a = AssignmentOf(c, s.step_id)
  OBVIOUS
<1>2. PICK here, wait : here = StateOf(s.step_id) /\ wait = WaitingAt(s.step_id)
  OBVIOUS
<1>3. PICK r : r = [i \in DOMAIN s.exceptions |->
                         IF s.exceptions[i].next_step \in StepIds(d)
                         THEN <<Move(StateOf(s.step_id), StateOf(s.exceptions[i].next_step),
                                     s.exceptions[i].owner, {}, "GUIDED")>>
                         ELSE <<>>]
  OBVIOUS
<1>4. PICK R, rl : R = Recoveries(d, s) /\ rl = FlattenSeq(r)
  OBVIOUS
<1>5. rl \in Seq(R) /\ Elements(rl) = R
  BY <1>3, <1>4, RecoveriesAre
<1>6. CASE a.executor \in Gated
  <2>1. PICK l : l = [i \in DOMAIN Destinations(s) |->
                         Move(wait, Destinations(s)[i], a.human_owner, {}, "CONSCIOUS")]
    OBVIOUS
  <2>2. PICK O : O = Onward(s, wait, a.human_owner, {}, "CONSCIOUS")
    OBVIOUS
  <2>3. l \in Seq(O) /\ Elements(l) = O
    BY <2>1, <2>2, OnwardIs
  <2>4. PICK m : m = Move(here, wait, Worker(a), a.evidence, DepthByClass[a.executor])
    OBVIOUS
  <2>5. MovesOf(c, d, s) = (<<m>> \o l) \o rl
    BY <1>1, <1>2, <1>3, <1>4, <1>6, <2>1, <2>4 DEF MovesOf, Worker
  <2>6. PICK T : T = {m} \cup O \cup R
    OBVIOUS
  <2>7. l \in Seq(T) /\ rl \in Seq(T) /\ m \in T
    BY <1>5, <2>3, <2>6, SeqMonotonic
  <2>8. <<m>> \in Seq(T) /\ Elements(<<m>>) = {m}
    BY ONLY <2>7, OneListed
  <2>9. PICK one : one = <<m>>
    OBVIOUS
  <2>10. one \in Seq(T) /\ Elements(one) = {m}
    BY <2>8, <2>9
  <2>11. one \o l \in Seq(T) /\ Elements(one \o l) = {m} \cup O
    BY ONLY <2>3, <2>7, <2>10, ListsJoin
  <2>12. PICK two : two = one \o l
    OBVIOUS
  <2>13. two \in Seq(T) /\ Elements(two) = {m} \cup O
    BY <2>11, <2>12
  <2>14. two \o rl \in Seq(T) /\ Elements(two \o rl) = {m} \cup O \cup R
    BY ONLY <1>5, <2>7, <2>13, ListsJoin
  <2>15. MovesOf(c, d, s) \in Seq(T) /\ Elements(MovesOf(c, d, s)) = {m} \cup O \cup R
    BY <2>5, <2>9, <2>12, <2>14
  <2>16. MovesUnder(a, d, s) = {m} \cup O \cup R
    BY <1>2, <1>4, <1>6, <2>2, <2>4 DEF MovesUnder
  <2> QED BY <1>1, <2>15, <2>16, ListsAre
<1>7. CASE a.executor \notin Gated
  <2>1. PICK l : l = [i \in DOMAIN Destinations(s) |->
                         Move(here, Destinations(s)[i], Worker(a), a.evidence,
                              DepthByClass[a.executor])]
    OBVIOUS
  <2>2. PICK O : O = Onward(s, here, Worker(a), a.evidence, DepthByClass[a.executor])
    OBVIOUS
  <2>3. l \in Seq(O) /\ Elements(l) = O
    BY <2>1, <2>2, OnwardIs
  <2>4. MovesOf(c, d, s) = l \o rl
    BY <1>1, <1>2, <1>3, <1>4, <1>7, <2>1 DEF MovesOf, Worker
  <2>5. PICK T : T = O \cup R
    OBVIOUS
  <2>6. l \in Seq(T) /\ rl \in Seq(T)
    BY <1>5, <2>3, <2>5, SeqMonotonic
  <2>7. l \o rl \in Seq(T) /\ Elements(l \o rl) = O \cup R
    BY ONLY <1>5, <2>3, <2>6, ListsJoin
  <2>8. MovesUnder(a, d, s) = O \cup R
    BY <1>2, <1>4, <1>7, <2>2 DEF MovesUnder
  <2> QED BY <1>1, <2>4, <2>7, <2>8, ListsAre
<1> QED BY <1>6, <1>7

Emitted(c, d) == UNION {MovesUnder(AssignmentOf(c, s.step_id), d, s) : s \in StepsOf(d)}

LEMMA EmittedAre ==
    ASSUME NEW c, NEW d, IsWorkflow(d),
           NEW l, l = [i \in DOMAIN d.steps |-> MovesOf(c, d, d.steps[i])]
    PROVE  IsList(FlattenSeq(l)) /\ Elements(FlattenSeq(l)) = Emitted(c, d)
<1>1. PICK E : E = Emitted(c, d)
  OBVIOUS
<1>2. ASSUME NEW i \in DOMAIN d.steps
      PROVE  /\ l[i] \in Seq(E)
             /\ Elements(l[i]) = MovesUnder(AssignmentOf(c, d.steps[i].step_id), d, d.steps[i])
  <2>1. PICK s : s = d.steps[i]
    OBVIOUS
  <2>2. IsList(s.next_steps) /\ IsList(s.exceptions)
    BY <2>1 DEF IsWorkflow
  <2>3. IsList(l[i]) /\ Elements(l[i]) = MovesUnder(AssignmentOf(c, s.step_id), d, s)
    BY <2>1, <2>2, MovesAre
  <2>4. Elements(l[i]) \subseteq E
    BY <1>1, <2>1, <2>3 DEF Emitted, StepsOf
  <2> QED BY <2>1, <2>3, <2>4, SeqMonotonic DEF IsList
<1>3. l \in [DOMAIN d.steps -> Seq(E)]
  BY <1>2
<1>4. IsList(d.steps)
  BY DEF IsWorkflow
<1>5. l \in Seq(Seq(E)) /\ DOMAIN l = DOMAIN d.steps
  BY <1>3, <1>4, ListsOf
<1>6. UNION {Elements(l[i]) : i \in DOMAIN l} = E
  <2>1. E = UNION {MovesUnder(AssignmentOf(c, d.steps[i].step_id), d, d.steps[i]) :
                      i \in DOMAIN d.steps}
    BY <1>1 DEF Emitted, StepsOf
  <2>2. ASSUME NEW x \in E PROVE x \in UNION {Elements(l[i]) : i \in DOMAIN l}
    <3>1. PICK i \in DOMAIN d.steps :
              x \in MovesUnder(AssignmentOf(c, d.steps[i].step_id), d, d.steps[i])
      BY <2>1, <2>2
    <3>2. i \in DOMAIN l /\ x \in Elements(l[i])
      BY <1>2, <1>5, <3>1
    <3> QED BY <3>2
  <2>3. ASSUME NEW x \in UNION {Elements(l[i]) : i \in DOMAIN l} PROVE x \in E
    <3>1. PICK i \in DOMAIN l : x \in Elements(l[i])
      BY <2>3
    <3>2. i \in DOMAIN d.steps
      BY <1>5, <3>1
    <3> QED BY <1>2, <2>1, <3>1, <3>2
  <2> QED BY <2>2, <2>3
<1>7. FlattenSeq(l) \in Seq(E) /\ Elements(FlattenSeq(l)) = E
  <2>1. /\ FlattenSeq(l) \in Seq(E)
        /\ Elements(FlattenSeq(l)) = UNION {Elements(l[i]) : i \in DOMAIN l}
    BY ONLY <1>5, ListsFlatten
  <2> QED BY ONLY <1>6, <2>1
<1> QED BY <1>1, <1>7, ListsAre

\* Every transition was emitted, and of the emitted moves between two states
\* one is kept.
LEMMA TransitionsAre ==
    ASSUME NEW c, NEW d, IsWorkflow(d)
    PROVE  /\ Transitions(c, d) \subseteq Emitted(c, d)
           /\ \A m \in Emitted(c, d) : \E t \in Transitions(c, d) :
                 t.from = m.from /\ t.to = m.to
<1>1. PICK l : l = FlattenSeq([i \in DOMAIN d.steps |-> MovesOf(c, d, d.steps[i])])
  OBVIOUS
<1>2. IsList(l) /\ Elements(l) = Emitted(c, d)
  BY <1>1, EmittedAre
<1>3. Transitions(c, d) = {l[i] : i \in {j \in DOMAIN l :
            ~\E k \in 1..(j - 1) : l[k].from = l[j].from /\ l[k].to = l[j].to}}
  BY <1>1 DEF Transitions
<1>4. PICK n \in Nat : DOMAIN l = 1 .. n
  BY <1>2, ListsHave
<1>5. Transitions(c, d) \subseteq Emitted(c, d)
  BY <1>2, <1>3 DEF Elements
<1>6. ASSUME NEW m \in Emitted(c, d)
      PROVE  \E t \in Transitions(c, d) : t.from = m.from /\ t.to = m.to
  <2> DEFINE J == {j \in DOMAIN l : l[j].from = m.from /\ l[j].to = m.to}
  <2>1. J # {} /\ J \in SUBSET Nat
    BY <1>2, <1>4 DEF Elements
  <2>2. PICK j \in J : \A k \in J : j <= k
    <3> HIDE DEF J
    <3> QED BY <2>1, LeastNumber
  <2>3. ASSUME NEW k \in 1 .. (j - 1) PROVE ~(l[k].from = l[j].from /\ l[k].to = l[j].to)
    <3>1. k \in DOMAIN l /\ ~(j <= k)
      BY <1>4
    <3> QED BY <2>2, <3>1
  <2>4. l[j] \in Transitions(c, d)
    BY <1>3, <2>2, <2>3
  <2> QED BY <2>2, <2>4
<1> QED BY <1>5, <1>6

-----------------------------------------------------------------------------
(* What the moves of a brief lead to *)

Grow(b, R) == R \cup {m.to : m \in {x \in b.transitions : x.from \in R}}

Followed(b, w) ==
    /\ w \in [0 .. Cardinality(b.states) -> SUBSET b.states]
    /\ w[0] = {b.initial}
    /\ \A n \in 0 .. (Cardinality(b.states) - 1) : w[n + 1] = Grow(b, w[n])

LEMMA FollowUnfolds ==
    ASSUME NEW b, IsFiniteSet(b.states), BriefIsConsistent(b)
    PROVE  \E w : Followed(b, w) /\ Follow(b) = w[Cardinality(b.states)]
<1>1. PICK m \in Nat : m = Cardinality(b.states)
  BY FS_CardinalityType
<1>2. PICK n \in Nat \ {0} : n = m + 1
  BY <1>1
<1>3. PICK S : S = SUBSET b.states
  OBVIOUS
<1>4. ASSUME NEW R \in S PROVE Grow(b, R) \in S
  BY <1>3 DEF Grow, BriefIsConsistent
<1>5. PICK first : first = {b.initial}
  OBVIOUS
<1>6. first \in S
  BY <1>3, <1>5 DEF BriefIsConsistent
<1>7. PICK step : step = [p \in (1 .. n) \X S |-> Grow(b, p[2])]
  OBVIOUS
<1>8. step \in [(1 .. n) \X S -> S]
  BY <1>4, <1>7
<1>9. PICK f \in [1 .. n -> S] : Unfolds(f, n, first, step)
  BY <1>6, <1>8, RecursionUnfolds
<1>10. PICK g : g = [k \in 0 .. m |-> f[k + 1]]
  OBVIOUS
<1> DEFINE Is(h) == h = [k \in 0 .. m |-> IF k = 0 THEN first ELSE Grow(b, h[k - 1])]
<1>11. ASSUME NEW k \in 0 .. m, k # 0
       PROVE  g[k] = Grow(b, g[k - 1])
  <2>1. k \in 1 .. n /\ k + 1 \in 1 .. n /\ k + 1 # 1 /\ k + 1 - 1 = k /\ k - 1 \in 0 .. m
        /\ k - 1 + 1 = k
    BY <1>2, <1>11
  <2>2. PICK l : l = k + 1
    OBVIOUS
  <2>3. f[l] = step[<<l - 1, f[l - 1]>>]
    BY <1>9, <2>1, <2>2 DEF Unfolds
  <2>4. f[l] = step[<<k, f[k]>>]
    BY <2>1, <2>2, <2>3
  <2>5. <<k, f[k]>> \in (1 .. n) \X S
    BY <1>9, <2>1
  <2>6. f[l] = Grow(b, f[k])
    BY <1>7, <2>4, <2>5
  <2>7. g[k] = f[l]
    BY <1>10, <2>2
  <2>8. g[k - 1] = f[k]
    BY <1>10, <2>1
  <2> QED BY <2>6, <2>7, <2>8
<1>12. g[0] = first
  <2>1. 1 \in 1 .. n
    BY <1>2
  <2>2. f[1] = first
    BY <1>9, <2>1 DEF Unfolds
  <2> QED BY <1>10, <2>2
<1>13. Is(g)
  <2>1. \A k \in 0 .. m : g[k] = IF k = 0 THEN first ELSE Grow(b, g[k - 1])
    BY <1>11, <1>12
  <2>2. g = [k \in 0 .. m |-> g[k]]
    BY <1>10
  <2> QED BY <2>1, <2>2
<1>14. PICK w : w = CHOOSE h : Is(h)
  OBVIOUS
<1>15. Is(w)
  <2> HIDE DEF Is
  <2> QED BY <1>13, <1>14
<1>16. Follow(b) = w[m]
  BY <1>1, <1>5, <1>14 DEF Follow, Grow
<1>17. w[0] = first /\ \A k \in 0 .. m : k # 0 => w[k] = Grow(b, w[k - 1])
  BY <1>15
<1>18. \A k \in 0 .. (m - 1) : w[k + 1] = Grow(b, w[k])
  <2>1. ASSUME NEW k \in 0 .. (m - 1) PROVE w[k + 1] = Grow(b, w[k])
    <3>1. PICK l : l = k + 1
      OBVIOUS
    <3>2. l \in 0 .. m /\ l # 0 /\ l - 1 = k
      BY <3>1
    <3>3. w[l] = Grow(b, w[l - 1])
      BY <1>17, <3>2
    <3> QED BY <3>1, <3>2, <3>3
  <2> QED BY <2>1
<1>19. w \in [0 .. m -> S]
  <2> DEFINE K == {k \in 0 .. m : w[k] \in S}
  <2>1. 0 \in K
    BY <1>6, <1>17
  <2>2. \A k \in K : k \in 0 .. (m - 1) => k + 1 \in K
    <3>1. ASSUME NEW k \in K, k \in 0 .. (m - 1) PROVE k + 1 \in K
      <4>1. k + 1 \in 0 .. m /\ w[k] \in S
        BY <3>1
      <4>2. w[k + 1] \in S
        BY <1>4, <1>18, <3>1, <4>1
      <4> QED BY <4>1, <4>2
    <3> QED BY <3>1
  <2>3. \A k \in 0 .. m : k \in K
    <3> HIDE DEF K
    <3> QED BY <2>1, <2>2, UpFromZero
  <2>4. w = [k \in 0 .. m |-> w[k]]
    BY <1>15
  <2> QED BY <2>3, <2>4
<1>20. Followed(b, w)
  BY <1>1, <1>3, <1>5, <1>17, <1>18, <1>19 DEF Followed
<1> QED BY <1>1, <1>16, <1>20

\* After as many rounds as there are states nothing new is found: a round
\* that is not the last adds a state.
LEMMA FollowIs ==
    ASSUME NEW b, IsFiniteSet(b.states), BriefIsConsistent(b)
    PROVE  /\ b.initial \in Follow(b)
           /\ \A m \in b.transitions : m.from \in Follow(b) => m.to \in Follow(b)
<1>1. PICK w : Followed(b, w) /\ Follow(b) = w[Cardinality(b.states)]
  BY FollowUnfolds
<1>2. PICK n \in Nat : n = Cardinality(b.states)
  BY FS_CardinalityType
<1>3. /\ \A k \in 0 .. n : w[k] \in SUBSET b.states
      /\ w[0] = {b.initial}
      /\ \A k \in 0 .. (n - 1) : w[k + 1] = Grow(b, w[k])
  BY <1>1, <1>2 DEF Followed
<1>4. ASSUME NEW k \in 0 .. n
      PROVE  IsFiniteSet(w[k]) /\ Cardinality(w[k]) \in Nat /\ Cardinality(w[k]) <= n
  BY <1>2, <1>3, FS_Subset, FS_CardinalityType
<1> DEFINE Larger(k) == Cardinality(w[k]) >= k + 1
           K == {k \in 0 .. n : b.initial \in w[k] /\ (Grow(b, w[k]) = w[k] \/ Larger(k))}
<1>5. 0 \in K
  <2>1. PICK x : x = b.initial
    OBVIOUS
  <2>2. w[0] = {x}
    BY <1>3, <2>1
  <2>3. Cardinality({x}) = 1
    BY FS_Singleton
  <2> QED BY <2>1, <2>2, <2>3
<1>6. ASSUME NEW k \in K, k \in 0 .. (n - 1) PROVE k + 1 \in K
  <2>1. PICK l : l = k + 1
    OBVIOUS
  <2>2. l \in 0 .. n /\ k \in 0 .. n /\ w[l] = Grow(b, w[k])
    BY <1>3, <1>6, <2>1
  <2>3. w[k] \subseteq w[l] /\ b.initial \in w[l]
    BY <2>2, <1>6 DEF Grow
  <2>4. CASE w[l] = w[k]
    BY <2>1, <2>2, <2>3, <2>4
  <2>5. CASE w[l] # w[k]
    <3>1. Cardinality(w[k]) >= k + 1
      BY <1>6, <2>2, <2>5
    <3>2. PICK A, B : A = w[k] /\ B = w[l]
      OBVIOUS
    <3>3. /\ IsFiniteSet(B) /\ A \in SUBSET B /\ A # B
          /\ Cardinality(A) \in Nat /\ Cardinality(B) \in Nat
      BY <1>4, <2>2, <2>3, <2>5, <3>2
    <3>4. Cardinality(A) <= Cardinality(B) /\ Cardinality(A) # Cardinality(B)
      BY ONLY <3>3, FS_Subset
    <3>5. Larger(l)
      BY <2>1, <3>1, <3>2, <3>3, <3>4
    <3> QED BY <2>1, <2>2, <2>3, <3>5
  <2> QED BY <2>4, <2>5
<1>7. n \in K
  <2>1. \A k \in K : k \in 0 .. (n - 1) => k + 1 \in K
    BY <1>6
  <2>2. \A k \in 0 .. n : k \in K
    <3> HIDE DEF K
    <3> QED BY <1>5, <2>1, UpFromZero
  <2>3. n \in 0 .. n
    OBVIOUS
  <2> QED BY <2>2, <2>3
<1>8. ~Larger(n)
  <2>1. n \in 0 .. n
    OBVIOUS
  <2>2. Cardinality(w[n]) \in Nat /\ Cardinality(w[n]) <= n
    BY <1>4, <2>1
  <2> QED BY <2>2
<1>9. Grow(b, w[n]) = w[n] /\ b.initial \in w[n]
  BY <1>7, <1>8
<1> QED BY <1>1, <1>2, <1>9 DEF Grow

\* The list of assignments has an end.
IsBuild(c) == \E n \in Nat : DOMAIN c.assignments = 1 .. n

LEMMA StatesAreFinite ==
    ASSUME NEW c, IsBuild(c), NEW d, IsWorkflow(d)
    PROVE  IsFiniteSet(ExportWorkflow(c, d).states)
<1>1. PICK n \in Nat : DOMAIN c.assignments = 1 .. n
  BY DEF IsBuild
<1>2. PICK m \in Nat : DOMAIN d.steps = 1 .. m
  BY ListsHave DEF IsWorkflow
<1>3. PICK A, B : A = {StateOf(id) : id \in StepIds(d)} /\ B = GateStates(c)
  OBVIOUS
<1>4. IsFiniteSet(A)
  <2>1. PICK f : f = [i \in 1 .. m |-> StateOf(d.steps[i].step_id)]
    OBVIOUS
  <2>2. f \in Surjection(1 .. m, A)
    BY <1>2, <1>3, <2>1 DEF Surjection, StepIds
  <2> QED BY <2>2, FS_Interval, FS_Surjection
<1>5. IsFiniteSet(B)
  <2>1. PICK G : G = {i \in 1 .. n : c.assignments[i].executor \in Gated}
    OBVIOUS
  <2>2. IsFiniteSet(G)
    <3>1. IsFiniteSet(1 .. n) /\ G \in SUBSET (1 .. n)
      BY <2>1, FS_Interval
    <3> QED BY ONLY <3>1, FS_Subset
  <2>3. PICK f : f = [i \in G |-> WaitingAt(c.assignments[i].step_id)]
    OBVIOUS
  <2>4. f \in Surjection(G, B)
    BY <1>1, <1>3, <2>1, <2>3 DEF Surjection, GateStates
  <2> QED BY <2>2, <2>4, FS_Surjection
<1>6. IsFiniteSet(A \cup B)
  BY ONLY <1>4, <1>5, FS_Union
<1>7. IsFiniteSet((A \cup B) \cup {Complete})
  BY ONLY <1>6, FS_AddElement
<1>8. ExportWorkflow(c, d).states = (A \cup B) \cup {Complete}
  BY <1>3 DEF ExportWorkflow
<1> QED BY <1>7, <1>8

\* Where a step's work ends up follows from the step's own state, through the
\* state it waits in when the step is gated.
LEMMA EndsFollow ==
    ASSUME NEW c, NEW d, IsWorkflow(d), NEW F,
           \A m \in Transitions(c, d) : m.from \in F => m.to \in F,
           NEW s \in StepsOf(d), StateOf(s.step_id) \in F
    PROVE  /\ Ends(s) \subseteq F
           /\ \A e \in ExceptionsOf(s) : e.next_step \in StepIds(d) => StateOf(e.next_step) \in F
<1>1. PICK a : a = AssignmentOf(c, s.step_id)
  OBVIOUS
<1>2. MovesUnder(a, d, s) \subseteq Emitted(c, d)
  BY <1>1 DEF Emitted
<1>3. ASSUME NEW m \in MovesUnder(a, d, s), m.from \in F PROVE m.to \in F
  <2>1. PICK t \in Transitions(c, d) : t.from = m.from /\ t.to = m.to
    BY <1>2, TransitionsAre
  <2> QED BY <1>3, <2>1
<1>4. PICK here, wait : here = StateOf(s.step_id) /\ wait = WaitingAt(s.step_id)
  OBVIOUS
<1>5. ASSUME NEW from, NEW who, NEW evidence, NEW how, from \in F,
             Onward(s, from, who, evidence, how) \subseteq MovesUnder(a, d, s)
      PROVE  Ends(s) \subseteq F
  <2>1. ASSUME NEW x \in Ends(s) PROVE x \in F
    <3>1. PICK m : m = Move(from, x, who, evidence, how)
      OBVIOUS
    <3>2. m \in MovesUnder(a, d, s) /\ m.from = from /\ m.to = x
      BY <1>5, <3>1 DEF Onward, Move
    <3> QED BY <1>3, <1>5, <3>2
  <2> QED BY <2>1
<1>6. Ends(s) \subseteq F
  <2>1. CASE a.executor \in Gated
    <3>1. PICK m : m = Move(here, wait, Worker(a), a.evidence, DepthByClass[a.executor])
      OBVIOUS
    <3>2. m \in MovesUnder(a, d, s) /\ m.from = here /\ m.to = wait
      BY <1>4, <2>1, <3>1 DEF MovesUnder, Move
    <3>3. wait \in F
      BY <1>3, <1>4, <3>2
    <3>4. Onward(s, wait, a.human_owner, {}, "CONSCIOUS") \subseteq MovesUnder(a, d, s)
      BY <1>4, <2>1 DEF MovesUnder
    <3> QED BY <1>5, <3>3, <3>4
  <2>2. CASE a.executor \notin Gated
    <3>1. Onward(s, here, Worker(a), a.evidence, DepthByClass[a.executor])
             \subseteq MovesUnder(a, d, s)
      BY <1>4, <2>2 DEF MovesUnder
    <3> QED BY <1>4, <1>5, <3>1
  <2> QED BY <2>1, <2>2
<1>7. ASSUME NEW e \in ExceptionsOf(s), e.next_step \in StepIds(d)
      PROVE  StateOf(e.next_step) \in F
  <2>1. PICK m : m = Move(here, StateOf(e.next_step), e.owner, {}, "GUIDED")
    OBVIOUS
  <2>2. m \in MovesUnder(a, d, s) /\ m.from = here /\ m.to = StateOf(e.next_step)
    BY <1>4, <1>7, <2>1 DEF MovesUnder, Recoveries, Move
  <2> QED BY <1>3, <1>4, <2>2
<1> QED BY <1>6, <1>7

LEMMA StepOfIs ==
    ASSUME NEW d, IsWorkflow(d), NEW s \in StepsOf(d)
    PROVE  s.step_id \in StepIds(d) /\ StepOf(d, s.step_id) = s
<1>1. PICK i \in DOMAIN d.steps : s = d.steps[i]
  BY DEF StepsOf
<1>2. s.step_id \in StepIds(d)
  BY <1>1 DEF StepIds
<1>3. PICK j \in DOMAIN d.steps : d.steps[j].step_id = s.step_id /\ StepOf(d, s.step_id) = d.steps[j]
  BY <1>2, StepHasIndex
<1>4. j = i
  BY <1>1, <1>3 DEF IsWorkflow
<1> QED BY <1>1, <1>2, <1>3, <1>4

\* The steps that a brief leads to, of a draft whose gates send nobody
\* anywhere, are a set that the draft's routes do not leave.
LEMMA FollowedStepsAreClosed ==
    ASSUME NEW c, NEW d, IsWorkflow(d), d.steps # <<>>, NEW F,
           \A g \in GatesOf(d) : g.on_approve = "",
           StateOf(Entry(d)) \in F,
           \A m \in Transitions(c, d) : m.from \in F => m.to \in F
    PROVE  IsClosed(d, {id \in StepIds(d) : StateOf(id) \in F})
<1>1. PICK S : S = {id \in StepIds(d) : StateOf(id) \in F}
  OBVIOUS
<1>2. Entry(d) \in S
  BY <1>1, EntryIs
<1>3. ASSUME NEW id \in S, NEW t \in Elements(Routes(d, id)) \cap StepIds(d)
      PROVE  t \in S
  <2>1. PICK i \in DOMAIN d.steps : d.steps[i].step_id = id /\ StepOf(d, id) = d.steps[i]
    BY <1>1, <1>3, StepHasIndex
  <2>2. PICK s : s = StepOf(d, id) /\ s \in StepsOf(d) /\ s.step_id = id
    BY <2>1 DEF StepsOf
  <2>3. /\ Ends(s) \subseteq F
        /\ \A e \in ExceptionsOf(s) : e.next_step \in StepIds(d) => StateOf(e.next_step) \in F
    BY <1>1, <1>3, <2>2, EndsFollow
  <2>4. t \in NextOf(s) \cup ({e.next_step : e \in ExceptionsOf(s)} \ {""})
               \cup (Approves(d, id) \ {""})
    BY <1>1, <1>3, <2>2, RoutesAre
  <2>5. CASE t \in NextOf(s)
    <3>1. s.next_steps # <<>>
      BY <2>5, EmptyTable DEF NextOf
    <3>2. StateOf(t) \in Ends(s)
      BY <2>5, <3>1 DEF Ends
    <3> QED BY <1>1, <1>3, <2>3, <3>2
  <2>6. CASE t \in {e.next_step : e \in ExceptionsOf(s)}
    BY <1>1, <1>3, <2>3, <2>6
  <2>7. CASE t \in Approves(d, id) \ {""}
    BY <2>7 DEF Approves, GatesOf
  <2> QED BY <2>4, <2>5, <2>6, <2>7
<1> QED BY <1>1, <1>2, <1>3 DEF IsClosed

\* Without blocking findings some step that is reached ends the work.
LEMMA SomeStepEnds ==
    ASSUME NEW d, d.steps # <<>>, \A f \in ValidateWorkflow(d) : ~Blocking(f)
    PROVE  TerminalSteps(d) # {}
<1> SUFFICES ASSUME TerminalSteps(d) = {} PROVE FALSE
  OBVIOUS
<1>1. PICK f : f = Finding("HW-002", "", "steps", "terminal", "")
  OBVIOUS
<1>2. f \in UndefinedOutcome(d)
  BY <1>1 DEF UndefinedOutcome
<1>3. f \in ValidateWorkflow(d)
  BY <1>2 DEF ValidateWorkflow
<1>4. Blocking(f)
  BY <1>1 DEF Blocking, AdvisoryRules, Finding
<1> QED BY <1>3, <1>4

LEMMA ExportFinishes ==
    ASSUME NEW d, IsWorkflow(d), d.steps # <<>>,
           \A f \in ValidateWorkflow(d) : ~Blocking(f),
           \A g \in GatesOf(d) : g.on_approve = "",
           NEW c, IsBuild(c), NEW b, b = ExportWorkflow(c, d), BriefIsConsistent(b)
    PROVE  Complete \in Follow(b)
<1>1. PICK F : F = Follow(b)
  OBVIOUS
<1>2. b.initial = StateOf(Entry(d)) /\ b.transitions = Transitions(c, d)
  BY DEF ExportWorkflow, Entry
<1>3. IsFiniteSet(b.states)
  BY StatesAreFinite
<1>4. b.initial \in F /\ \A m \in b.transitions : m.from \in F => m.to \in F
  BY <1>1, <1>3, FollowIs
<1>5. PICK S : S = {id \in StepIds(d) : StateOf(id) \in F}
  OBVIOUS
<1>6. StateOf(Entry(d)) \in F /\ \A m \in Transitions(c, d) : m.from \in F => m.to \in F
  BY <1>2, <1>4
<1>7. IsWorkflow(d) /\ d.steps # <<>> /\ \A g \in GatesOf(d) : g.on_approve = ""
  OBVIOUS
<1>8. IsClosed(d, S)
  <2>1. IsClosed(d, {id \in StepIds(d) : StateOf(id) \in F})
    BY ONLY <1>6, <1>7, FollowedStepsAreClosed, Zenon
  <2> QED BY <1>5, <2>1
<1>9. ReachableFromEntry(d) \subseteq S
  BY <1>8, ReachableIs
<1>10. PICK s \in StepsOf(d) : s.step_id \in ReachableFromEntry(d) /\ s.next_steps = <<>>
  BY SomeStepEnds DEF TerminalSteps
<1>11. StateOf(s.step_id) \in F
  BY <1>5, <1>9, <1>10
<1>12. Ends(s) \subseteq F
  BY ONLY <1>11, <1>6, <1>7, EndsFollow, Zenon
<1> QED BY <1>1, <1>10, <1>12 DEF Ends

-----------------------------------------------------------------------------
(* Where programs get, and which tables they change *)

\* Where rows are cited, saved and turned into a build or a brief, a program
\* only gets by the commands that work them out.
Assigns == {"store cooperative", "store brief"}

Went(p, s) ==
    \/ s.at \notin Places \cup Saves \cup Assigns
    \/ s.at \in Places /\ s.draft = session[p].draft /\ session[p].at \in Places
    \/ s.at \in Places /\ Promote(p)
    \/ s.at \in Saves /\ Cooperate(p)
    \/ s.at = "store cooperative" /\ \E approved \in BOOLEAN : Build(p, approved)
    \/ s.at = "store brief" /\ Export(p)

SessionsGo == \A p \in Programs : session'[p] = session[p] \/ Went(p, session'[p])

TablesGo ==
    /\ file' = file \/ ("edit" \in Commands /\ file'.edition \in Editions)
    /\ artifacts' = artifacts \/ \E p \in Programs : InsertArtifact(p)
    /\ assessments' = assessments \/ \E p \in Programs : SaveAssessments(p)
    /\ cooperative' = cooperative \/ \E p \in Programs : SaveCooperative(p)
    /\ brief' = brief \/ \E p \in Programs : SaveBrief(p)

LEMMA OneWent ==
    ASSUME PromotionInv, NEW p \in Programs, NEW s,
           session' = [session EXCEPT ![p] = s], Went(p, s)
    PROVE  SessionsGo
<1>1. session'[p] = s /\ \A q \in Programs \ {p} : session'[q] = session[q]
  BY DEF PromotionInv, FloorInv
<1>2. Went(p, session'[p])
  BY <1>1
<1> QED BY <1>1, <1>2 DEF SessionsGo

LEMMA BeganAndWent ==
    ASSUME PromotionInv, NEW p \in Programs, NEW command, NEW s, Begin(p, command, s), Went(p, s)
    PROVE  SessionsGo
<1>1. session' = [session EXCEPT ![p] = s]
  BY DEF Begin
<1> QED BY <1>1, OneWent

LEMMA LeftAndWent ==
    ASSUME PromotionInv, NEW p \in Programs, Leave(p)
    PROVE  SessionsGo
<1>1. session' = [session EXCEPT ![p] = Idle]
  BY DEF Leave
<1>2. Idle.at \notin Places \cup Saves \cup Assigns
  BY DEF Idle, Places, Saves, Assigns
<1>3. Went(p, Idle)
  BY <1>2 DEF Went
<1> QED BY <1>1, <1>3, OneWent

LEMMA MovedAndWent ==
    ASSUME PromotionInv, NEW p \in Programs, NEW place, GoTo(p, place),
           \/ place \notin Places \cup Saves \cup Assigns
           \/ place \in Places /\ session[p].at \in Places
    PROVE  SessionsGo
<1>1. PICK s : s = [session[p] EXCEPT !.at = place]
  OBVIOUS
<1>2. session' = [session EXCEPT ![p] = s]
  BY <1>1 DEF GoTo, PromotionInv, FloorInv
<1>3. s.at = place /\ (session[p].at \in Places => s.draft = session[p].draft)
  BY <1>1 DEF PromotionInv, Promoting, FloorInv, Holds
<1>4. Went(p, s)
  BY <1>3 DEF Went
<1> QED BY <1>2, <1>4, OneWent

LEMMA CaptureGoes ==
    ASSUME PromotionInv, NEW p \in Programs, Capture(p)
    PROVE  SessionsGo
<1>1. CASE ImportDraft(p) \/ WorkflowValidate(p) \/ ValidateDraft(p)
  <2>1. PICK command, s : s.at = "store draft" /\ Begin(p, command, s)
    BY <1>1 DEF ImportDraft, WorkflowValidate, ValidateDraft, Validate
  <2>2. Went(p, s)
    BY <2>1 DEF Went, Places, Saves, Assigns
  <2> QED BY <2>1, <2>2, BeganAndWent
<1>2. ASSUME NEW id, NEW by, WorkflowAcceptRisk(p, id, by) \/ AcceptFinding(p, id, by)
      PROVE  SessionsGo
  <2>1. PICK s : s.at = "store acceptance" /\ Begin(p, "accept", s)
    BY <1>2 DEF WorkflowAcceptRisk, AcceptFinding, AcceptRisk
  <2>2. Went(p, s)
    BY <2>1 DEF Went, Places, Saves, Assigns
  <2> QED BY <2>1, <2>2, BeganAndWent
<1>3. CASE SaveRiskAcceptance(p)
  <2>1. PICK s : s.at = "store draft" /\ session' = [session EXCEPT ![p] = s]
    BY <1>3 DEF SaveRiskAcceptance
  <2>2. Went(p, s)
    BY <2>1 DEF Went, Places, Saves, Assigns
  <2> QED BY <2>1, <2>2, OneWent
<1>4. CASE SaveDraft(p)
  <2>1. "store report" \notin Places \cup Saves \cup Assigns
    BY DEF Places, Saves, Assigns
  <2> QED BY <1>4, <2>1, MovedAndWent, LeftAndWent DEF SaveDraft
<1>5. CASE SaveReport(p)
  BY <1>5, LeftAndWent DEF SaveReport
<1> QED BY <1>1, <1>2, <1>3, <1>4, <1>5 DEF Capture

LEMMA ClimbGoes ==
    ASSUME PromotionInv, NEW p \in Programs, Climb(p)
    PROVE  SessionsGo
<1>1. CASE WorkflowPromote(p) \/ PromoteDraft(p)
  <2>1. Promote(p)
    BY <1>1 DEF WorkflowPromote, PromoteDraft
  <2>2. PICK s : s.at = "cite" /\ Begin(p, "promote", s)
    BY <2>1 DEF Promote
  <2>3. Went(p, s)
    BY <2>1, <2>2 DEF Went, Places
  <2> QED BY <2>2, <2>3, BeganAndWent
<1>2. CASE CiteReport(p)
  <2>1. PICK place : place = Verdict(session[p].draft, session[p].report, session[p].rows)
    OBVIOUS
  <2>2. session[p].at = "cite" /\ GoTo(p, place)
    BY <1>2, <2>1 DEF CiteReport, At
  <2>3. place \in Places
    BY <2>1, VerdictFitsTarget DEF Places
  <2> QED BY <2>2, <2>3, MovedAndWent DEF Places
<1>3. CASE Refuse(p) \/ Grant(p)
  BY <1>3, LeftAndWent DEF Refuse, Grant, RecordPromotion
<1>4. CASE AdvanceDraft(p)
  BY <1>4, MovedAndWent DEF AdvanceDraft, At, Places
<1>5. CASE LookForArtifact(p)
  BY <1>5, MovedAndWent DEF LookForArtifact, At, Places
<1>6. CASE InsertArtifact(p)
  BY <1>6, MovedAndWent, LeftAndWent DEF InsertArtifact, At, Places
<1> QED BY <1>1, <1>2, <1>3, <1>4, <1>5, <1>6 DEF Climb

LEMMA CooperateGoes ==
    ASSUME PromotionInv, NEW p \in Programs, Cooperate(p)
    PROVE  SessionsGo
<1>1. ASSUME NEW replacing, WorkflowAssessCooperation(p, replacing) PROVE SessionsGo
  <2>1. PICK s : s.at = "store assessments" /\ Begin(p, "assess", s)
    BY <1>1 DEF WorkflowAssessCooperation
  <2>2. Went(p, s)
    BY <2>1 DEF Went, Saves
  <2> QED BY <2>1, <2>2, BeganAndWent
<1>2. CASE AssessCooperation(p)
  <2>1. PICK s : s.at = "store assessments" /\ Begin(p, "assess", s)
    BY <1>2 DEF AssessCooperation
  <2>2. Went(p, s)
    BY <2>1 DEF Went, Saves
  <2> QED BY <2>1, <2>2, BeganAndWent
<1>3. ASSUME NEW id, NEW to, OverrideExecutor(p, id, to) PROVE SessionsGo
  <2>1. PICK s : s.at = "store override" /\ Begin(p, "override", s)
    BY <1>3 DEF OverrideExecutor
  <2>2. Went(p, s)
    BY <2>1 DEF Went, Saves
  <2> QED BY <2>1, <2>2, BeganAndWent
<1>4. CASE SaveAssessments(p)
  <2>1. CASE At(p, "store override")
    <3>1. PICK s : s = [at |-> "reassess"]
      OBVIOUS
    <3>2. session' = [session EXCEPT ![p] = s]
      BY <1>4, <2>1, <3>1 DEF SaveAssessments
    <3>3. Went(p, s)
      BY <3>1 DEF Went, Places, Saves, Assigns
    <3> QED BY <3>2, <3>3, OneWent
  <2>2. CASE ~At(p, "store override")
    BY <1>4, <2>2, LeftAndWent DEF SaveAssessments
  <2> QED BY <2>1, <2>2
<1>5. CASE Reassess(p)
  <2>1. CASE Leave(p)
    BY <2>1, LeftAndWent
  <2>2. CASE ~Leave(p)
    <3>1. PICK s : s.at = "store assessments" /\ session' = [session EXCEPT ![p] = s]
      BY <1>5, <2>2 DEF Reassess
    <3>2. Went(p, s)
      BY <3>1 DEF Went, Saves
    <3> QED BY <3>1, <3>2, OneWent
  <2> QED BY <2>1, <2>2
<1> QED BY <1>1, <1>2, <1>3, <1>4, <1>5 DEF Cooperate

LEMMA AssignGoes ==
    ASSUME PromotionInv, NEW p \in Programs, Assign(p)
    PROVE  SessionsGo
<1>1. ASSUME NEW approved \in BOOLEAN,
             WorkflowBuildCooperative(p, approved) \/ BuildCooperativeDraft(p, approved)
      PROVE  SessionsGo
  <2>1. Build(p, approved)
    BY <1>1 DEF WorkflowBuildCooperative, BuildCooperativeDraft
  <2>2. PICK s : s.at = "store cooperative" /\ Begin(p, "build", s)
    BY <2>1 DEF Build
  <2>3. Went(p, s)
    BY <2>1, <2>2 DEF Went
  <2> QED BY <2>2, <2>3, BeganAndWent
<1>2. CASE WorkflowExportAgentBrief(p) \/ ExportBrief(p)
  <2>1. Export(p)
    BY <1>2 DEF WorkflowExportAgentBrief, ExportBrief
  <2>2. PICK s : s.at = "store brief" /\ Begin(p, "export", s)
    BY <2>1 DEF Export
  <2>3. Went(p, s)
    BY <2>1, <2>2 DEF Went
  <2> QED BY <2>2, <2>3, BeganAndWent
<1>3. CASE SaveCooperative(p) \/ SaveBrief(p)
  BY <1>3, LeftAndWent DEF SaveCooperative, SaveBrief
<1> QED BY <1>1, <1>2, <1>3 DEF Assign

LEMMA TablesFollow ==
    ASSUME [Next]_vars
    PROVE  TablesGo
<1>1. CASE UNCHANGED vars
  BY <1>1 DEF vars, ledger, TablesGo
<1>2. ASSUME NEW f \in [edition : Editions, maturity : Claims], Edit(f) PROVE TablesGo
  BY <1>2 DEF Edit, ledger, TablesGo
<1>3. ASSUME NEW p \in Programs, NEW command, NEW s, Begin(p, command, s) PROVE TablesGo
  BY <1>3 DEF Begin, ledger, TablesGo
<1>4. ASSUME NEW p \in Programs, Capture(p) PROVE TablesGo
  <2>1. CASE \E command, s : Begin(p, command, s)
    BY <1>3, <2>1
  <2>2. CASE SaveRiskAcceptance(p) \/ SaveDraft(p) \/ SaveReport(p)
    BY <2>2 DEF SaveRiskAcceptance, SaveDraft, SaveReport, TablesGo
  <2> QED BY <1>4, <2>1, <2>2 DEF Capture, ImportDraft, WorkflowValidate, ValidateDraft,
             Validate, WorkflowAcceptRisk, AcceptFinding, AcceptRisk
<1>5. ASSUME NEW p \in Programs, Climb(p) PROVE TablesGo
  <2>1. CASE \E command, s : Begin(p, command, s)
    BY <1>3, <2>1
  <2>2. CASE CiteReport(p) \/ Refuse(p) \/ AdvanceDraft(p) \/ LookForArtifact(p) \/ Grant(p)
    BY <2>2 DEF CiteReport, Refuse, AdvanceDraft, LookForArtifact, Grant, RecordPromotion,
                ledger, TablesGo
  <2>3. CASE InsertArtifact(p)
    <3>1. UNCHANGED <<file, assessments, cooperative, brief>>
      BY <2>3 DEF InsertArtifact
    <3> QED BY <2>3, <3>1 DEF TablesGo
  <2> QED BY <1>5, <2>1, <2>2, <2>3 DEF Climb, WorkflowPromote, PromoteDraft, Promote
<1>6. ASSUME NEW p \in Programs, Cooperate(p) PROVE TablesGo
  <2>1. CASE \E command, s : Begin(p, command, s)
    BY <1>3, <2>1
  <2>2. CASE SaveAssessments(p)
    <3>1. UNCHANGED <<file, artifacts, cooperative, brief>>
      BY <2>2 DEF SaveAssessments
    <3> QED BY <2>2, <3>1 DEF TablesGo
  <2>3. CASE Reassess(p)
    BY <2>3 DEF Reassess, ledger, TablesGo
  <2> QED BY <1>6, <2>1, <2>2, <2>3 DEF Cooperate, WorkflowAssessCooperation,
             AssessCooperation, OverrideExecutor
<1>7. ASSUME NEW p \in Programs, Assign(p) PROVE TablesGo
  <2>1. CASE \E command, s : Begin(p, command, s)
    BY <1>3, <2>1
  <2>2. CASE SaveCooperative(p)
    <3>1. UNCHANGED <<file, artifacts, assessments, brief>>
      BY <2>2 DEF SaveCooperative
    <3> QED BY <2>2, <3>1 DEF TablesGo
  <2>3. CASE SaveBrief(p)
    <3>1. UNCHANGED <<file, artifacts, assessments, cooperative>>
      BY <2>3 DEF SaveBrief
    <3> QED BY <2>3, <3>1 DEF TablesGo
  <2> QED BY <1>7, <2>1, <2>2, <2>3 DEF Assign, WorkflowBuildCooperative,
             BuildCooperativeDraft, Build, WorkflowExportAgentBrief, ExportBrief, Export
<1>8. ASSUME NEW p \in Programs, Die(p) PROVE TablesGo
  BY <1>8 DEF Die, ledger, TablesGo
<1> QED BY <1>1, <1>2, <1>4, <1>5, <1>6, <1>7, <1>8 DEF Next

LEMMA StepsGo ==
    ASSUME PromotionInv, [Next]_vars
    PROVE  SessionsGo /\ TablesGo
<1>1. CASE UNCHANGED session
  BY <1>1, TablesFollow DEF SessionsGo
<1>2. ASSUME NEW p \in Programs, Die(p) PROVE SessionsGo
  BY <1>2, LeftAndWent DEF Die
<1> QED BY <1>1, <1>2, TablesFollow, CaptureGoes, ClimbGoes, CooperateGoes, AssignGoes
        DEF Next, vars, Edit

-----------------------------------------------------------------------------
(* Exported work can finish *)

Finishes(b) ==
    (\A g \in GatesOf(Content[b.edition]) : g.on_approve = "") => Complete \in Follow(b.exported)

Building(s) == s.at = "store cooperative" => IsBuild(s.built)
Briefing(s) == s.at = "store brief" => Finishes(s.brief)

FinishInv ==
    /\ cooperative # None => IsBuild(cooperative)
    /\ brief # None => Finishes(brief)
    /\ \A p \in Programs : Building(session[p]) /\ Briefing(session[p])

\* The newest artifact is there, of one of the editions, and accountable.
LEMMA NewestIsAccountable ==
    ASSUME TypeInv, artifacts # <<>>
    PROVE  LET e == artifacts[Len(artifacts)].edition
           IN e \in Editions /\ IsWorkflow(Content[e]) /\ \A f \in ValidateWorkflow(Content[e]) : ~Blocking(f)
<1>1. IsList(artifacts)
  BY DEF TypeInv, ClimbInv, PromotionInv
<1>2. Len(artifacts) \in DOMAIN artifacts
  BY <1>1 DEF IsList
<1>3. PICK a \in Elements(artifacts) : a = artifacts[Len(artifacts)]
  BY <1>2 DEF Elements
<1>4. a.edition \in Editions
  BY DEF TypeInv, TypeOK
<1>5. \A f \in Findings[a.edition] : ~Blocking(f)
  BY DEF TypeInv, ClimbInv, PromotionInv, ArtifactsAreAccountable
<1> QED BY <1>3, <1>4, <1>5, ContentIsWorkflows DEF Findings

LEMMA BegunIs ==
    ASSUME TypeInv, NEW p \in Programs, NEW command, NEW s, Begin(p, command, s)
    PROVE  session'[p] = s
BY DEF Begin, TypeInv, ClimbInv, PromotionInv, FloorInv

LEMMA BuildIs ==
    ASSUME TypeInv, NEW p \in Programs, NEW approved, Build(p, approved)
    PROVE  /\ session'[p].at = "store cooperative"
           /\ session'[p].built = BuildCooperative(Newest, assessments, approved)
<1>1. PICK c : c = BuildCooperative(Newest, assessments, approved)
  OBVIOUS
<1>2. PICK s : s = [at |-> "store cooperative", built |-> c]
  OBVIOUS
<1>3. Begin(p, "build", s)
  BY <1>1, <1>2 DEF Build
<1>4. session'[p] = s
  BY <1>3, BegunIs
<1>5. s.at = "store cooperative" /\ s.built = c
  BY ONLY <1>2
<1> QED BY ONLY <1>1, <1>4, <1>5

LEMMA ExportIs ==
    ASSUME TypeInv, NEW p \in Programs, Export(p)
    PROVE  /\ session'[p].at = "store brief"
           /\ session'[p].brief = [edition |-> artifacts[Len(artifacts)].edition,
                                    exported |-> ExportWorkflow(cooperative, Newest)]
<1>1. PICK b : b = [edition |-> artifacts[Len(artifacts)].edition,
                    exported |-> ExportWorkflow(cooperative, Newest)]
  OBVIOUS
<1>2. PICK s : s = [at |-> "store brief", brief |-> b]
  OBVIOUS
<1>3. Begin(p, "export", s)
  BY <1>1, <1>2 DEF Export
<1>4. session'[p] = s
  BY <1>3, BegunIs
<1>5. s.at = "store brief" /\ s.brief = b
  BY ONLY <1>2
<1> QED BY ONLY <1>1, <1>4, <1>5

LEMMA BuiltIsList ==
    ASSUME TypeInv, NEW p \in Programs, NEW approved, Build(p, approved)
    PROVE  Building(session'[p])
<1>1. artifacts # <<>>
  BY DEF Build
<1>2. PICK d : d = Newest /\ IsWorkflow(d)
  BY <1>1, NewestIsAccountable DEF Newest
<1>3. session'[p].built = BuildCooperative(d, assessments, approved)
  BY <1>2, BuildIs
<1>4. DOMAIN BuildCooperative(d, assessments, approved).assignments = DOMAIN d.steps
  BY DEF BuildCooperative
<1>5. PICK n \in Nat : DOMAIN d.steps = 1 .. n
  BY <1>2, ListsHave DEF IsWorkflow
<1> QED BY <1>3, <1>4, <1>5 DEF Building, IsBuild

LEMMA ExportedFinishes ==
    ASSUME TypeInv, FinishInv, NEW p \in Programs, Export(p)
    PROVE  Briefing(session'[p])
<1>1. PICK e : e = artifacts[Len(artifacts)].edition
  OBVIOUS
<1>2. PICK d : d = Newest /\ d = Content[e]
  BY <1>1 DEF Newest
<1>3. artifacts # <<>> /\ cooperative # None /\ d.steps # <<>>
  BY <1>2 DEF Export
<1>4. IsWorkflow(d) /\ \A f \in ValidateWorkflow(d) : ~Blocking(f)
  BY <1>1, <1>2, <1>3, NewestIsAccountable
<1>5. PICK b : b = ExportWorkflow(cooperative, d)
  OBVIOUS
<1>6. BriefIsConsistent(b)
  BY <1>2, <1>5 DEF Export
<1>7. session'[p].brief = [edition |-> e, exported |-> b]
  BY <1>1, <1>2, <1>5, ExportIs
<1>8. IsBuild(cooperative)
  BY <1>3 DEF FinishInv
<1>9. PICK c : c = cooperative
  OBVIOUS
<1>10. IsBuild(c) /\ b = ExportWorkflow(c, d)
  BY <1>5, <1>8, <1>9
<1>11. (\A g \in GatesOf(d) : g.on_approve = "") => Complete \in Follow(b)
  BY ONLY <1>3, <1>4, <1>6, <1>10, ExportFinishes
<1>12. PICK x : x = session'[p].brief /\ x.edition = e /\ x.exported = b
  BY <1>7
<1>13. Finishes(x)
  BY ONLY <1>2, <1>11, <1>12 DEF Finishes
<1> QED BY <1>12, <1>13 DEF Briefing

LEMMA FinishKept ==
    ASSUME TypeInv, FinishInv, [Next]_vars
    PROVE  FinishInv'
<1>1. SessionsGo /\ TablesGo
  BY StepsGo DEF TypeInv, ClimbInv
<1>2. ASSUME NEW p \in Programs PROVE Building(session'[p]) /\ Briefing(session'[p])
  <2>1. CASE session'[p] = session[p]
    BY <2>1 DEF FinishInv
  <2>2. CASE \E approved \in BOOLEAN : Build(p, approved)
    <3>1. Building(session'[p])
      BY <2>2, BuiltIsList
    <3>2. session'[p].at = "store cooperative"
      BY <2>2, BuildIs
    <3> QED BY <3>1, <3>2 DEF Briefing
  <2>3. CASE Export(p)
    <3>1. Briefing(session'[p])
      BY <2>3, ExportedFinishes
    <3>2. session'[p].at = "store brief"
      BY <2>3, ExportIs
    <3> QED BY <3>1, <3>2 DEF Building
  <2>4. CASE session'[p].at \notin Assigns
    BY <2>4 DEF Assigns, Building, Briefing
  <2>5. Assigns \cap (Places \cup Saves) = {}
    BY DEF Assigns, Places, Saves
  <2> QED BY <1>1, <2>1, <2>2, <2>3, <2>4, <2>5 DEF SessionsGo, Went
<1>3. cooperative' # None => IsBuild(cooperative')
  BY <1>1 DEF TablesGo, FinishInv, SaveCooperative, At, Building
<1>4. brief' # None => Finishes(brief')
  BY <1>1 DEF TablesGo, FinishInv, SaveBrief, At, Briefing
<1> QED BY <1>2, <1>3, <1>4 DEF FinishInv, Building, Briefing, Finishes, IsBuild

LEMMA FinishInit == Init => FinishInv
<1>1. Building(Idle) /\ Briefing(Idle)
  BY DEF Building, Briefing, Idle
<1> QED BY <1>1 DEF Init, FinishInv

\* foundry/workflow_export.py, _transitions_for(): the rules refuse a draft
\* none of whose reachable steps ends the work, and the export keeps every
\* route of the draft but a gate's on_approve, so a brief made from a draft
\* without those leads from its first state to the state of finished work.
THEOREM ExportedWorkCanAlwaysFinish == Spec => []ExportedWorkCanFinish
<1>1. TypeInv /\ FinishInv /\ [Next]_vars => FinishInv'
  BY FinishKept
<1>2. FinishInv => ExportedWorkCanFinish
  BY DEF FinishInv, Finishes, ExportedWorkCanFinish
<1>3. Spec => []TypeInv
  BY TypesInit, TypesKept, PTL DEF Spec
<1> QED BY <1>1, <1>2, <1>3, FinishInit, PTL DEF Spec

-----------------------------------------------------------------------------
(* Floored steps wait for a person *)

\* The editions a row may be about: all there are, or the one that stays.
Here == IF "edit" \in Commands THEN Editions ELSE {file.edition}

AgentNames == UNION {{AgentNameFor(id) : id \in StepIds(Content[e])} : e \in Editions}
IsHuman(owner) == owner \notin AgentNames

\* Who acts in a step, or recovers from it, is no agent.
PeopleOwn(s) == IsHuman(s.actor) /\ \A x \in ExceptionsOf(s) : IsHuman(x.owner)

\* Editions that agree on what a step is like, and name no agent.
Agree(H) ==
    /\ H \subseteq Editions
    /\ \A e \in H : \A s \in StepsOf(Content[e]) : PeopleOwn(s)
    /\ \A e, f \in H : \A s \in StepsOf(Content[e]), t \in StepsOf(Content[f]) :
          s.step_id = t.step_id =>
              /\ s.characteristics = t.characteristics
              /\ s.decision_authority = t.decision_authority

TrueRow(H, a, id) ==
    \A e \in H : \A s \in StepsOf(Content[e]) :
        s.step_id = id => a.factors = s.characteristics /\ a.authority = s.decision_authority

TrueRows(H, rows) == \A id \in DOMAIN rows : TrueRow(H, rows[id], id)

\* The work of a floored step is a person's, or waits for one.
TrueAssignment(H, a) ==
    /\ IsHuman(a.human_owner)
    /\ a.executor \in AgentOwned => a.identity \in AgentNames
    /\ \A e \in H : \A s \in StepsOf(Content[e]) :
          s.step_id = a.step_id /\ ApplicableFloors(s.characteristics, s.decision_authority) # {}
              => a.executor \in Gated \/ IsHuman(Worker(a))

TrueBuild(H, c) ==
    /\ IsBuild(c)
    /\ \A i \in DOMAIN c.assignments : TrueAssignment(H, c.assignments[i])

Leaves(m, id) ==
    /\ m.from = StateOf(id) => m.to = WaitingAt(id) \/ IsHuman(m.owner)
    /\ m.from = WaitingAt(id) => m.depth = "CONSCIOUS" /\ IsHuman(m.owner)

Waits(b) ==
    /\ \A a \in b.exported.agents : a.agent_name \in AgentNames
    /\ \A s \in StepsOf(Content[b.edition]) :
          ApplicableFloors(s.characteristics, s.decision_authority) # {} =>
              \A m \in b.exported.transitions : Leaves(m, s.step_id)

LEMMA NobodyIsAnAgent ==
    ASSUME NamesApart, NEW e \in Editions, NEW s \in StepsOf(Content[e])
    PROVE  PeopleOwn(s)
<1>1. ASSUME NEW n \in AgentNames
      PROVE  s.actor # n /\ \A x \in ExceptionsOf(s) : x.owner # n
  <2>1. PICK f \in Editions : \E id \in StepIds(Content[f]) : n = AgentNameFor(id)
    BY DEF AgentNames
  <2>2. PICK id \in StepIds(Content[f]) : n = AgentNameFor(id)
    BY <2>1
  <2> QED BY <2>2 DEF NamesApart
<1> QED BY <1>1 DEF PeopleOwn, IsHuman

LEMMA HereAgrees ==
    ASSUME TypeOK, FactsStand, NamesApart
    PROVE  Agree(Here) /\ file.edition \in Here
<1>1. file.edition \in Editions
  BY DEF TypeOK
<1>2. CASE "edit" \in Commands
  BY <1>1, <1>2, NobodyIsAnAgent DEF Here, Agree, FactsStand
<1>3. CASE "edit" \notin Commands
  <2>1. Here = {file.edition}
    BY <1>3 DEF Here
  <2>2. PICK d : d = Content[file.edition]
    OBVIOUS
  <2>3. IsWorkflow(d)
    BY <1>1, <2>2, ContentIsWorkflows
  <2>4. ASSUME NEW s \in StepsOf(d), NEW t \in StepsOf(d), s.step_id = t.step_id PROVE s = t
    BY <2>3, <2>4, StepOfIs
  <2> QED BY <1>1, <2>1, <2>2, <2>4, NobodyIsAnAgent DEF Agree
<1> QED BY <1>2, <1>3

LEMMA FreshTrue ==
    ASSUME NEW H, Agree(H), NEW e \in H
    PROVE  TrueRows(H, Fresh(Content[e]))
<1>1. PICK d : d = Content[e]
  OBVIOUS
<1>2. ASSUME NEW id \in StepIds(d) PROVE TrueRow(H, Fresh(d)[id], id)
  <2>1. PICK s : s = StepOf(d, id)
    OBVIOUS
  <2>2. s \in StepsOf(d) /\ s.step_id = id
    BY <2>1, StepHasIndex DEF StepsOf
  <2>3. /\ Fresh(d)[id].factors = s.characteristics
        /\ Fresh(d)[id].authority = s.decision_authority
    BY <2>1 DEF Fresh, AssessStep
  <2>4. ASSUME NEW f \in H, NEW t \in StepsOf(Content[f]), t.step_id = id
        PROVE  s.characteristics = t.characteristics /\ s.decision_authority = t.decision_authority
    BY <1>1, <2>2, <2>4 DEF Agree
  <2> QED BY <2>3, <2>4 DEF TrueRow
<1> QED BY <1>1, <1>2, FreshOK DEF TrueRows

LEMMA OverriddenTrue ==
    ASSUME NEW H, NEW a, DOMAIN a = Fields, NEW id, TrueRow(H, a, id), NEW to
    PROVE  TrueRow(H, ApplyOverride(a, to), id)
<1>1. ApplyOverride(a, to).factors = a.factors /\ ApplyOverride(a, to).authority = a.authority
  BY DEF ApplyOverride, Fields
<1> QED BY <1>1 DEF TrueRow

LEMMA FreshOverridden ==
    ASSUME NEW H, Agree(H), NEW e \in H, NEW id \in StepIds(Content[e]), NEW to
    PROVE  /\ TrueRow(H, Fresh(Content[e])[id], id)
           /\ TrueRow(H, ApplyOverride(Fresh(Content[e])[id], to), id)
<1>1. PICK a : a = Fresh(Content[e])[id]
  OBVIOUS
<1>2. TrueRow(H, a, id) /\ DOMAIN a = Fields
  BY <1>1, FreshTrue, FreshOK DEF TrueRows, RowsOK, RowOK
<1>3. TrueRow(H, ApplyOverride(a, to), id)
  BY <1>2, OverriddenTrue
<1> QED BY <1>1, <1>2, <1>3

LEMMA ReassessedTrue ==
    ASSUME NEW H, Agree(H), NEW e \in H, NEW replaced, NEW id \in StepIds(Content[e])
    PROVE  TrueRow(H, Reassessed(Content[e], replaced)[id], id)
<1>1. \/ Reassessed(Content[e], replaced)[id] = Fresh(Content[e])[id]
      \/ Reassessed(Content[e], replaced)[id]
            = ApplyOverride(Fresh(Content[e])[id], assessments[id].override)
  BY DEF Reassessed
<1> QED BY <1>1, FreshOverridden

LEMMA FlooredExecutors ==
    ASSUME NEW a, RowOK(a), ApplicableFloors(a.factors, a.authority) # {}
    PROVE  EffectiveExecutor(a) \in {"NOT_READY_FOR_AUTOMATION", "HUMAN_ONLY",
                                     "HUMAN_LED_AI_ASSISTED", "AGENT_PREPARED_HUMAN_APPROVED"}
<1>1. PICK i \in ApplicableFloors(a.factors, a.authority) : TRUE
  OBVIOUS
<1>2. PICK x : x = EffectiveExecutor(a)
  OBVIOUS
<1>3. i \in 1 .. 5 /\ x \in ExecutorClasses /\ AutonomyRank[x] <= CeilingRank(i)
  BY <1>1, <1>2 DEF ApplicableFloors, RowOK, RespectsFloors
<1>4. CeilingRank(i) <= 3 /\ CeilingRank(i) \in Nat
  BY <1>3, CeilingsAre
<1>5. AutonomyRank[x] <= 3
  BY <1>3, <1>4, ClassesAre
<1> QED BY <1>2, <1>3, <1>5 DEF AutonomyRank, ExecutorClasses

LEMMA AssignmentTrue ==
    ASSUME NEW H, Agree(H), NEW h \in H, NEW s \in StepsOf(Content[h]),
           NEW row, RowOK(row), TrueRow(H, row, s.step_id)
    PROVE  TrueAssignment(H, AssignmentFor(Content[h], s, EffectiveExecutor(row)))
<1>1. PICK x : x = EffectiveExecutor(row)
  OBVIOUS
<1>2. PICK a : a = AssignmentFor(Content[h], s, x)
  OBVIOUS
<1>3. /\ a.step_id = s.step_id /\ a.executor = x /\ a.human_owner = s.actor
      /\ a.identity = IF x = "NOT_READY_FOR_AUTOMATION" THEN Nobody
                      ELSE IF x \in AgentOwned THEN AgentNameFor(s.step_id)
                      ELSE s.actor
  BY <1>2 DEF AssignmentFor
<1>4. IsHuman(s.actor)
  BY DEF Agree, PeopleOwn
<1>6. a.executor \in AgentOwned => a.identity \in AgentNames
  <2>1. s.step_id \in StepIds(Content[h]) /\ h \in Editions
    BY DEF Agree, StepsOf, StepIds
  <2>2. AgentNameFor(s.step_id) \in AgentNames
    BY <2>1 DEF AgentNames
  <2>3. "NOT_READY_FOR_AUTOMATION" \notin AgentOwned
    BY DEF AgentOwned
  <2> QED BY <1>3, <2>2, <2>3
<1>5. ASSUME NEW e \in H, NEW t \in StepsOf(Content[e]), t.step_id = a.step_id,
             ApplicableFloors(t.characteristics, t.decision_authority) # {}
      PROVE  a.executor \in Gated \/ IsHuman(Worker(a))
  <2>1. row.factors = t.characteristics /\ row.authority = t.decision_authority
    BY <1>3, <1>5 DEF TrueRow
  <2>2. x \in {"NOT_READY_FOR_AUTOMATION", "HUMAN_ONLY",
               "HUMAN_LED_AI_ASSISTED", "AGENT_PREPARED_HUMAN_APPROVED"}
    BY <1>1, <1>5, <2>1, FlooredExecutors
  <2>3. CASE x = "AGENT_PREPARED_HUMAN_APPROVED"
    BY <1>3, <2>3 DEF Gated
  <2>4. CASE x \in {"NOT_READY_FOR_AUTOMATION", "HUMAN_ONLY", "HUMAN_LED_AI_ASSISTED"}
    <3>1. x \notin AgentOwned
      BY <2>4 DEF AgentOwned
    <3>2. Worker(a) = s.actor
      BY <1>3, <2>4, <3>1 DEF Worker
    <3> QED BY <1>4, <3>2
  <2> QED BY <2>2, <2>3, <2>4
<1> QED BY <1>1, <1>2, <1>3, <1>4, <1>5, <1>6 DEF TrueAssignment

LEMMA BuildTrue ==
    ASSUME NEW H, Agree(H), NEW h \in H, NEW d, d = Content[h], IsWorkflow(d),
           NEW rows, RowsOK(rows), TrueRows(H, rows), StepIds(d) \subseteq DOMAIN rows,
           NEW approved
    PROVE  TrueBuild(H, BuildCooperative(d, rows, approved))
<1>1. PICK l : l = BuildCooperative(d, rows, approved).assignments
  OBVIOUS
<1>2. l = [i \in DOMAIN d.steps |->
              AssignmentFor(d, d.steps[i], EffectiveExecutor(rows[d.steps[i].step_id]))]
  BY <1>1 DEF BuildCooperative
<1>3. PICK n \in Nat : DOMAIN d.steps = 1 .. n
  BY ListsHave DEF IsWorkflow
<1>4. ASSUME NEW i \in DOMAIN d.steps PROVE TrueAssignment(H, l[i])
  <2>1. PICK s \in StepsOf(Content[h]) : s = d.steps[i] /\ s.step_id \in DOMAIN rows
    BY DEF StepIds, StepsOf
  <2>2. RowOK(rows[s.step_id]) /\ TrueRow(H, rows[s.step_id], s.step_id)
    BY <2>1 DEF RowsOK, TrueRows
  <2>3. TrueAssignment(H, AssignmentFor(Content[h], s, EffectiveExecutor(rows[s.step_id])))
    BY <2>2, AssignmentTrue
  <2> QED BY <1>2, <2>1, <2>3
<1> QED BY <1>1, <1>2, <1>3, <1>4 DEF TrueBuild, IsBuild

LEMMA AssignmentIsListed ==
    ASSUME NEW c, IsBuild(c), NEW id \in AssignedSteps(c)
    PROVE  \E i \in DOMAIN c.assignments :
              c.assignments[i].step_id = id /\ AssignmentOf(c, id) = c.assignments[i]
<1>1. PICK n \in Nat : DOMAIN c.assignments = 1 .. n
  BY DEF IsBuild
<1>2. PICK I : I = {i \in 1 .. n : c.assignments[i].step_id = id}
  OBVIOUS
<1>3. I # {} /\ I \in SUBSET Nat
  BY <1>1, <1>2 DEF AssignedSteps
<1>4. PICK i \in I : \A j \in I : i <= j
  BY ONLY <1>3, LeastNumber
<1>5. ASSUME NEW j \in 1 .. (i - 1) PROVE c.assignments[j].step_id # id
  <2>1. j \in 1 .. n /\ ~(i <= j)
    BY <1>2
  <2> QED BY <1>2, <1>4, <2>1
<1>6. \E k \in DOMAIN c.assignments :
          c.assignments[k].step_id = id /\ \A j \in 1 .. (k - 1) : c.assignments[j].step_id # id
  BY <1>1, <1>2, <1>5
<1> QED BY <1>6 DEF AssignmentOf

LEMMA MovesLeave ==
    ASSUME NEW a, IsHuman(a.human_owner), NEW d, NEW s, PeopleOwn(s),
           NEW m \in MovesUnder(a, d, s),
           NEW id, s.step_id = id => a.executor \in Gated \/ IsHuman(Worker(a))
    PROVE  Leaves(m, id)
<1>1. /\ StateOf(s.step_id) = StateOf(id) => s.step_id = id
      /\ WaitingAt(s.step_id) = WaitingAt(id) => s.step_id = id
      /\ StateOf(s.step_id) # WaitingAt(id)
      /\ WaitingAt(s.step_id) # StateOf(id)
  BY DEF StateOf, WaitingAt
<1>2. CASE m \in Recoveries(d, s)
  <2>1. m.from = StateOf(s.step_id) /\ IsHuman(m.owner)
    BY <1>2 DEF Recoveries, Move, PeopleOwn
  <2> QED BY <1>1, <2>1 DEF Leaves
<1>3. CASE a.executor \in Gated /\ m \notin Recoveries(d, s)
  <2>1. \/ m.from = StateOf(s.step_id) /\ m.to = WaitingAt(s.step_id)
        \/ m.from = WaitingAt(s.step_id) /\ m.depth = "CONSCIOUS" /\ m.owner = a.human_owner
    BY <1>3 DEF MovesUnder, Onward, Move
  <2> QED BY <1>1, <2>1 DEF Leaves
<1>4. CASE a.executor \notin Gated /\ m \notin Recoveries(d, s)
  <2>1. m.from = StateOf(s.step_id) /\ m.owner = Worker(a)
    BY <1>4 DEF MovesUnder, Onward, Move
  <2> QED BY <1>1, <1>4, <2>1 DEF Leaves
<1> QED BY <1>2, <1>3, <1>4

LEMMA ExportWaits ==
    ASSUME NEW H, Agree(H), NEW e \in H, IsWorkflow(Content[e]), NEW c, TrueBuild(H, c),
           Exportable(c, Content[e]), NEW s \in StepsOf(Content[e]),
           ApplicableFloors(s.characteristics, s.decision_authority) # {},
           NEW m \in Transitions(c, Content[e])
    PROVE  Leaves(m, s.step_id)
<1>1. PICK d : d = Content[e]
  OBVIOUS
<1>2. PICK t \in StepsOf(d) : m \in MovesUnder(AssignmentOf(c, t.step_id), d, t)
  BY <1>1, TransitionsAre DEF Emitted
<1>3. t.step_id \in AssignedSteps(c)
  BY <1>1, StepOfIs DEF Exportable
<1>4. PICK i \in DOMAIN c.assignments :
          c.assignments[i].step_id = t.step_id /\ AssignmentOf(c, t.step_id) = c.assignments[i]
  BY <1>3, AssignmentIsListed DEF TrueBuild
<1>5. PICK a : a = c.assignments[i]
  OBVIOUS
<1>6. TrueAssignment(H, a) /\ m \in MovesUnder(a, d, t) /\ a.step_id = t.step_id
  BY <1>2, <1>4, <1>5 DEF TrueBuild
<1>7. IsHuman(a.human_owner)
  BY <1>6 DEF TrueAssignment
<1>8. t.step_id = s.step_id => a.executor \in Gated \/ IsHuman(Worker(a))
  BY <1>6 DEF TrueAssignment
<1>9. PeopleOwn(t)
  BY <1>1, <1>2 DEF Agree
<1> QED BY ONLY <1>6, <1>7, <1>8, <1>9, MovesLeave

\* What a program has worked out agrees with the editions.
Carries(H, s) ==
    /\ s.at \in Places => s.draft.edition \in H
    /\ s.at \in Saves => TrueRows(H, s.rows)
    /\ s.at = "store cooperative" => TrueBuild(H, s.built)
    /\ s.at = "store brief" => Waits(s.brief)

Agreed(H) ==
    /\ \A a \in Elements(artifacts) : a.edition \in H
    /\ TrueRows(H, assessments)
    /\ cooperative # None => TrueBuild(H, cooperative)
    /\ brief # None => Waits(brief)
    /\ \A p \in Programs : Carries(H, session[p])

FlooredInv == Agreed(Here)

LEMMA NewestAgrees ==
    ASSUME TypeInv, NEW H, Agree(H), Agreed(H), artifacts # <<>>
    PROVE  LET e == artifacts[Len(artifacts)].edition
           IN e \in H /\ Newest = Content[e] /\ IsWorkflow(Content[e])
<1>1. IsList(artifacts)
  BY DEF TypeInv, ClimbInv, PromotionInv
<1>2. Len(artifacts) \in DOMAIN artifacts
  BY <1>1 DEF IsList
<1>3. artifacts[Len(artifacts)] \in Elements(artifacts)
  BY <1>2 DEF Elements
<1>4. PICK a \in Elements(artifacts) : a = artifacts[Len(artifacts)] /\ a.edition \in H
  BY <1>3 DEF Agreed
<1>5. a.edition \in Editions
  BY <1>4 DEF Agree
<1> QED BY <1>4, <1>5, ContentIsWorkflows DEF Newest

LEMMA PromoteAgrees ==
    ASSUME TypeInv, NEW H, file.edition \in H, NEW p \in Programs, Promote(p)
    PROVE  session'[p].at = "cite" /\ session'[p].draft.edition \in H
<1>1. PICK draft : draft = AtRecordedMaturity(file)
  OBVIOUS
<1>2. PICK report : report = ReportOn(draft.edition)
  OBVIOUS
<1>3. PICK s : s = [at |-> "cite", draft |-> draft, report |-> report, rows |-> assessments]
  OBVIOUS
<1>4. Begin(p, "promote", s)
  BY <1>1, <1>2, <1>3 DEF Promote
<1>5. session'[p] = s
  BY <1>4, BegunIs
<1>6. draft.edition = file.edition
  BY <1>1 DEF AtRecordedMaturity, TypeInv, TypeOK
<1>7. s.at = "cite" /\ s.draft = draft
  BY ONLY <1>3
<1> QED BY <1>5, <1>6, <1>7

LEMMA CooperateAgrees ==
    ASSUME TypeInv, NEW H, Agree(H), Agreed(H), NEW p \in Programs, Cooperate(p),
           session'[p].at \in Saves
    PROVE  TrueRows(H, session'[p].rows)
<1>1. PICK e : e = artifacts[Len(artifacts)].edition
  OBVIOUS
<1>2. artifacts # <<>> => e \in H /\ Newest = Content[e]
  BY <1>1, NewestAgrees
<1>3. PICK d : d = Newest
  OBVIOUS
<1>4. ASSUME NEW replacing \in Replacements, WorkflowAssessCooperation(p, replacing)
      PROVE  TrueRows(H, session'[p].rows)
  <2>1. PICK rows : rows = [id \in StepIds(d) |->
                               IF id \in DOMAIN replacing
                               THEN ApplyOverride(Fresh(d)[id], replacing[id])
                               ELSE Reassessed(d, DOMAIN replacing)[id]]
    OBVIOUS
  <2>2. PICK s : s = [at |-> "store assessments", rows |-> rows]
    OBVIOUS
  <2>3. Begin(p, "assess", s) /\ artifacts # <<>>
    BY <1>3, <1>4, <2>1, <2>2 DEF WorkflowAssessCooperation
  <2>4. session'[p] = s /\ s.rows = rows
    BY <2>2, <2>3, BegunIs
  <2>5. e \in H /\ d = Content[e]
    BY <1>2, <1>3, <2>3
  <2>6. ASSUME NEW id \in StepIds(d) PROVE TrueRow(H, rows[id], id)
    BY <2>1, <2>5, FreshOverridden, ReassessedTrue
  <2>7. TrueRows(H, rows)
    BY <2>1, <2>6 DEF TrueRows
  <2> QED BY <2>4, <2>7
<1>5. ASSUME artifacts # <<>> PROVE TrueRows(H, Reassessed(Newest, {}))
  <2>1. e \in H /\ d = Content[e]
    BY <1>2, <1>3, <1>5
  <2>2. DOMAIN Reassessed(d, {}) = StepIds(d)
    BY DEF Reassessed
  <2>3. \A id \in StepIds(d) : TrueRow(H, Reassessed(d, {})[id], id)
    BY <2>1, ReassessedTrue
  <2> QED BY <1>3, <2>2, <2>3 DEF TrueRows
<1>6. CASE AssessCooperation(p)
  <2>1. PICK rows : rows = Reassessed(Newest, {})
    OBVIOUS
  <2>2. PICK s : s = [at |-> "store assessments", rows |-> rows]
    OBVIOUS
  <2>3. Begin(p, "assess", s) /\ artifacts # <<>>
    BY <1>6, <2>1, <2>2 DEF AssessCooperation
  <2>4. session'[p] = s /\ s.rows = rows
    BY <2>2, <2>3, BegunIs
  <2> QED BY <1>5, <2>1, <2>3, <2>4
<1>7. ASSUME NEW id \in DOMAIN assessments, NEW to \in Targets, OverrideExecutor(p, id, to)
      PROVE  TrueRows(H, session'[p].rows)
  <2>1. PICK rows : rows = [x \in {id} |-> ApplyOverride(assessments[x], to)]
    OBVIOUS
  <2>2. PICK s : s = [at |-> "store override", rows |-> rows]
    OBVIOUS
  <2>3. Begin(p, "override", s)
    BY <1>7, <2>1, <2>2 DEF OverrideExecutor
  <2>4. session'[p] = s /\ s.rows = rows
    BY <2>2, <2>3, BegunIs
  <2>5. DOMAIN assessments[id] = Fields /\ TrueRow(H, assessments[id], id)
    BY DEF Agreed, TrueRows, TypeInv, ClimbInv, PromotionInv, FloorInv, RowsOK, RowOK
  <2>6. TrueRow(H, ApplyOverride(assessments[id], to), id)
    BY <2>5, OverriddenTrue
  <2>7. TrueRows(H, rows)
    BY <2>1, <2>6 DEF TrueRows
  <2> QED BY <2>4, <2>7
<1>8. DOMAIN session = Programs
  BY DEF TypeInv, ClimbInv, PromotionInv, FloorInv
<1>9. Idle.at \notin Saves
  BY DEF Idle, Saves
<1>10. CASE SaveAssessments(p)
  <2>1. session'[p] = [at |-> "reassess"] \/ session'[p] = Idle
    BY <1>8, <1>10 DEF SaveAssessments, Leave
  <2>2. [at |-> "reassess"].at \notin Saves
    BY DEF Saves
  <2> QED BY <1>9, <2>1, <2>2
<1>11. CASE Reassess(p)
  <2>1. CASE Leave(p)
    <3>1. session'[p] = Idle
      BY <1>8, <2>1 DEF Leave
    <3> QED BY <1>9, <3>1
  <2>2. CASE ~Leave(p)
    <3>1. PICK rows : rows = Reassessed(Newest, {})
      OBVIOUS
    <3>2. artifacts # <<>> /\ session' = [session EXCEPT ![p] =
                [at |-> "store assessments", rows |-> rows]]
      BY <1>11, <2>2, <3>1 DEF Reassess
    <3>3. session'[p].rows = rows
      BY <1>8, <3>2
    <3> QED BY <1>5, <3>1, <3>2, <3>3
  <2> QED BY <2>1, <2>2
<1> QED BY <1>4, <1>6, <1>7, <1>10, <1>11 DEF Cooperate

LEMMA BuildAgrees ==
    ASSUME TypeInv, NEW H, Agree(H), Agreed(H), NEW p \in Programs, NEW approved,
           Build(p, approved)
    PROVE  TrueBuild(H, session'[p].built)
<1>1. PICK d, rows : d = Newest /\ rows = assessments
  OBVIOUS
<1>2. artifacts # <<>> /\ StepIds(d) \subseteq DOMAIN rows
  BY <1>1 DEF Build, Unassessed
<1>3. PICK h \in H : d = Content[h] /\ IsWorkflow(d)
  BY <1>1, <1>2, NewestAgrees
<1>4. RowsOK(rows) /\ TrueRows(H, rows)
  BY <1>1 DEF Agreed, TypeInv, ClimbInv, PromotionInv, FloorInv
<1>5. TrueBuild(H, BuildCooperative(d, rows, approved))
  BY ONLY Agree(H), <1>2, <1>3, <1>4, BuildTrue
<1> QED BY <1>1, <1>5, BuildIs

LEMMA ExportAgrees ==
    ASSUME TypeInv, NEW H, Agree(H), Agreed(H), NEW p \in Programs, Export(p)
    PROVE  Waits(session'[p].brief)
<1>1. PICK e, c : e = artifacts[Len(artifacts)].edition /\ c = cooperative
  OBVIOUS
<1>2. artifacts # <<>> /\ c # None /\ Exportable(c, Newest)
  BY <1>1 DEF Export
<1>3. e \in H /\ Newest = Content[e] /\ IsWorkflow(Content[e])
  BY <1>1, <1>2, NewestAgrees
<1>4. TrueBuild(H, c)
  BY <1>1, <1>2 DEF Agreed
<1>5. PICK b : b = [edition |-> e, exported |-> ExportWorkflow(c, Content[e])]
  OBVIOUS
<1>6. session'[p].brief = b
  BY <1>1, <1>3, <1>5, ExportIs
<1>7. b.edition = e /\ b.exported.transitions = Transitions(c, Content[e])
  BY <1>5 DEF ExportWorkflow
<1>8. ASSUME NEW s \in StepsOf(Content[e]),
             ApplicableFloors(s.characteristics, s.decision_authority) # {},
             NEW m \in Transitions(c, Content[e])
      PROVE  Leaves(m, s.step_id)
  BY <1>2, <1>3, <1>4, <1>8, ExportWaits
<1>9. ASSUME NEW a \in b.exported.agents PROVE a.agent_name \in AgentNames
  <2>1. PICK i \in DOMAIN c.assignments : /\ c.assignments[i].executor \in AgentOwned
                                          /\ a.agent_name = c.assignments[i].identity
    BY <1>5 DEF ExportWorkflow
  <2> QED BY <1>4, <2>1 DEF TrueBuild, TrueAssignment
<1>10. Waits(b)
  BY ONLY <1>7, <1>8, <1>9 DEF Waits
<1> QED BY <1>6, <1>10

LEMMA SavedAgrees ==
    ASSUME NEW H, Agreed(H), NEW p \in Programs, SaveAssessments(p)
    PROVE  TrueRows(H, assessments')
<1>1. PICK rows : rows = session[p].rows
  OBVIOUS
<1>2. TrueRows(H, rows) /\ TrueRows(H, assessments)
  BY <1>1 DEF SaveAssessments, At, Agreed, Carries, Saves
<1>3. assessments' = [id \in DOMAIN rows \cup DOMAIN assessments |->
                         IF id \in DOMAIN rows THEN rows[id] ELSE assessments[id]]
  BY <1>1 DEF SaveAssessments
<1> QED BY <1>2, <1>3 DEF TrueRows

LEMMA InsertedAgrees ==
    ASSUME TypeInv, NEW H, Agreed(H), NEW p \in Programs, InsertArtifact(p),
           NEW a \in Elements(artifacts')
    PROVE  a.edition \in H
<1>1. IsList(artifacts)
  BY DEF TypeInv, ClimbInv, PromotionInv
<1>2. session[p].draft.edition \in H
  BY DEF InsertArtifact, At, Agreed, Carries, Places
<1>3. PICK n : n = Artifact(session[p])
  OBVIOUS
<1>4. n.edition = session[p].draft.edition
  BY <1>3 DEF Artifact
<1>5. n = Artifact(session[p]) /\ n.edition \in H
  BY <1>2, <1>3, <1>4
<1>6. artifacts' = artifacts \/ artifacts' = Append(artifacts, n)
  BY <1>5 DEF InsertArtifact
<1>7. Elements(artifacts') \subseteq Elements(artifacts) \cup {n}
  BY <1>1, <1>6, RowAppended
<1> QED BY <1>5, <1>7 DEF Agreed

LEMMA AgreedKept ==
    ASSUME TypeInv, NEW H, Agree(H), file.edition \in H, Agreed(H), [Next]_vars
    PROVE  Agreed(H)'
<1>1. SessionsGo /\ TablesGo
  BY StepsGo DEF TypeInv, ClimbInv
<1>2. ASSUME NEW p \in Programs PROVE Carries(H, session'[p])
  <2>1. PICK s : s = session'[p]
    OBVIOUS
  <2>2. CASE s = session[p]
    BY <2>1, <2>2 DEF Agreed
  <2>3. CASE s.at \notin Places \cup Saves \cup Assigns
    BY <2>1, <2>3 DEF Carries, Assigns
  <2>4. CASE s.at \in Places
    <3>1. s.at \notin Saves /\ s.at # "store cooperative" /\ s.at # "store brief"
      BY <2>4 DEF Places, Saves
    <3>2. s.draft.edition \in H
      <4>1. CASE s = session[p]
        BY <2>1, <2>4, <4>1 DEF Agreed, Carries
      <4>2. CASE s.draft = session[p].draft /\ session[p].at \in Places
        BY <4>2 DEF Agreed, Carries
      <4>3. CASE Promote(p)
        BY <2>1, <4>3, PromoteAgrees
      <4>4. s = session[p] \/ Went(p, s)
        BY <1>1, <2>1 DEF SessionsGo
      <4> QED BY <2>4, <3>1, <4>1, <4>2, <4>3, <4>4 DEF Went, Assigns
    <3> QED BY <2>1, <3>1, <3>2 DEF Carries
  <2>5. CASE s.at \in Saves /\ s # session[p]
    <3>1. s.at \notin Places /\ s.at # "store cooperative" /\ s.at # "store brief"
      BY <2>5 DEF Places, Saves
    <3>2. Went(p, s)
      BY <1>1, <2>1, <2>5 DEF SessionsGo
    <3>3. Cooperate(p)
      BY <2>5, <3>1, <3>2 DEF Went
    <3>4. TrueRows(H, s.rows)
      BY <2>1, <2>5, <3>3, CooperateAgrees
    <3> QED BY <2>1, <3>1, <3>4 DEF Carries
  <2>6. CASE s.at \in Assigns /\ s # session[p]
    <3>1. s.at \notin Places /\ s.at \notin Saves
      BY <2>6 DEF Places, Saves, Assigns
    <3>2. Went(p, s)
      BY <1>1, <2>1, <2>6 DEF SessionsGo
    <3>3. s.at = "store cooperative" => TrueBuild(H, s.built)
      BY <2>1, <2>6, <3>1, <3>2, BuildAgrees DEF Went
    <3>4. s.at = "store brief" => Waits(s.brief)
      BY <2>1, <2>6, <3>1, <3>2, ExportAgrees DEF Went
    <3> QED BY <2>1, <3>1, <3>3, <3>4 DEF Carries
  <2> QED BY <2>2, <2>3, <2>4, <2>5, <2>6
<1>3. \A a \in Elements(artifacts') : a.edition \in H
  BY <1>1, InsertedAgrees DEF TablesGo, Agreed
<1>4. TrueRows(H, assessments')
  BY <1>1, SavedAgrees DEF TablesGo, Agreed
<1>5. cooperative' # None => TrueBuild(H, cooperative')
  BY <1>1 DEF TablesGo, Agreed, Carries, SaveCooperative, At
<1>6. brief' # None => Waits(brief')
  BY <1>1 DEF TablesGo, Agreed, Carries, SaveBrief, At
<1> QED BY <1>2, <1>3, <1>4, <1>5, <1>6
        DEF Agreed, Carries, TrueRows, TrueRow, TrueBuild, Waits

LEMMA FlooredKept ==
    ASSUME FactsStand, NamesApart, TypeInv, FlooredInv, [Next]_vars
    PROVE  FlooredInv'
<1>1. PICK H : H = Here
  OBVIOUS
<1>2. Agree(H) /\ file.edition \in H
  BY <1>1, HereAgrees DEF TypeInv
<1>3. Agreed(H)'
  BY <1>1, <1>2, AgreedKept DEF FlooredInv
<1>4. Here' = H
  <2>1. TablesGo
    BY TablesFollow
  <2> QED BY <1>1, <2>1 DEF Here, TablesGo
<1> QED BY <1>3, <1>4 DEF FlooredInv, Agreed

LEMMA FlooredInit == Init => FlooredInv
<1>1. Idle.at \notin Places \cup Saves \cup {"store cooperative", "store brief"}
  BY DEF Idle, Places, Saves
<1>2. \A H : Carries(H, Idle)
  BY <1>1 DEF Carries
<1>3. \A H : TrueRows(H, <<>>)
  BY EmptyTable DEF TrueRows
<1> QED BY <1>2, <1>3, EmptyTable DEF Init, FlooredInv, Agreed

\* governance/cooperation.py and foundry/workflow_export.py together: what the
\* floors say of a step reaches the brief.  In every exported brief the work
\* of a floored step is a person's or waits for one, and it is a person who
\* lets it go on; whatever programs overlap, override, re-assess and die, as
\* long as no edit changes what a step is like under the same id and no person
\* bears an agent's name.
THEOREM FlooredStepsAlwaysWait ==
    ASSUME FactsStand, NamesApart
    PROVE  Spec => []FlooredStepsWaitForAPerson
<1>1. TypeInv /\ FlooredInv /\ [Next]_vars => FlooredInv'
  BY FlooredKept
<1>2. FlooredInv => FlooredStepsWaitForAPerson
  <2>1. ASSUME NEW b, Waits(b), NEW owner, IsHuman(owner)
        PROVE  TreatedAsHuman(b.exported, owner)
    BY <2>1 DEF Waits, IsHuman, TreatedAsHuman
  <2> QED BY <2>1 DEF FlooredInv, Agreed, Waits, Leaves, FlooredStepsWaitForAPerson
<1>3. Spec => []TypeInv
  BY TypesInit, TypesKept, PTL DEF Spec
<1> QED BY <1>1, <1>2, <1>3, FlooredInit, PTL DEF Spec
=============================================================================
