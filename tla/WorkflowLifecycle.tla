------------------------- MODULE WorkflowLifecycle -------------------------
(***************************************************************************)
(* A human workflow on its way to a brief: the `fukasawa workflow`         *)
(* commands (cli.py) and the desktop's workflow service                    *)
(* (gui/services/workflow.py) over the ledger's workflow tables            *)
(* (runtime/ledger.py), with the ladder of governance/workflow_promotion.  *)
(*                                                                         *)
(* A command reads first and then writes, each write a transaction of its  *)
(* own; between two writes another program may run, the file may be        *)
(* edited and the program may die.  A command that refuses before its      *)
(* first write changes nothing and is no step here.  Two abstractions: the *)
(* reads a command makes before its first write are one step, and rows are *)
(* ordered by their insertion (the code orders them by a time taken just   *)
(* before it).                                                             *)
(*                                                                         *)
(* What a file can say is one of the Editions; Content gives the draft     *)
(* written in it.  Two editions may carry the same version.                *)
(***************************************************************************)
EXTENDS WorkflowExport

CONSTANTS Terminals,     \* programs of the command line
          Desktops,      \* programs of the desktop app
          Editions,      \* what the draft file may hold
          Content,       \* [Editions -> draft]
          Claims,        \* the maturities a file may claim for itself
          People,        \* who accepts a risk
          Targets,       \* the classes an override may name
          Commands,      \* the commands in use
          MaxCommands,   \* bound: commands begun and edits made
          Overlap,       \* may a command begin while another is running?
          MayDie         \* may a program die between two writes?

Programs == Terminals \cup Desktops

ASSUME SurfacesAreApart == Terminals \cap Desktops = {}
ASSUME TargetsAreClasses == Targets \subseteq ExecutorClasses
ASSUME MaxCommandsAssumption == MaxCommands \in Nat

Elements(s) == {s[i] : i \in DOMAIN s}
IsList(s)   == s \in Seq(Elements(s))

\* What the schema says of a draft, as far as the commands rely on it: it checks
\* lists and scores, and only describes the ids of the steps as unique.
IsWorkflow(d) ==
    /\ IsList(d.steps) /\ IsList(d.gates)
    /\ \A i \in DOMAIN d.steps :
          /\ d.steps[i].characteristics \in Characteristics
          /\ IsList(d.steps[i].next_steps) /\ IsList(d.steps[i].exceptions)
          /\ \A j \in DOMAIN d.steps :
                i # j => d.steps[i].step_id # d.steps[j].step_id

ASSUME ContentIsWorkflows == \A e \in Editions : IsWorkflow(Content[e])

Findings == [e \in Editions |-> ValidateWorkflow(Content[e])]

Ladder == <<"OBSERVED", "MAPPED", "ACCOUNTABLE", "COOPERATION_READY",
            "COOPERATIVE_DESIGN_APPROVED", "RUNTIME_READY", "DEPLOYED", "VALIDATED">>

ASSUME ClaimsAreRungs == Claims \subseteq {Ladder[i] : i \in DOMAIN Ladder}

Rung(maturity) == CHOOSE i \in DOMAIN Ladder : Ladder[i] = maturity
Enforced       == Rung("RUNTIME_READY")

VARIABLES file,          \* the draft file: an edition and the maturity it claims
          drafts,        \* stored drafts, by version
          reports,       \* stored validation reports
          acceptances,   \* accepted risks, oldest first
          promotions,    \* the audit trail of promotions, oldest first
          artifacts,     \* accountable workflows, oldest first
          assessments,   \* the newest cooperation assessment of each step
          cooperative,   \* the newest cooperative workflow
          brief,         \* the exported brief
          session,       \* what each program is in the middle of
          begun,         \* commands begun and edits made
          unvouched      \* history: versions whose file claimed to be further than
                         \* OBSERVED, or whose row to MAPPED a death kept back

ledger == <<drafts, reports, acceptances, promotions, artifacts, assessments,
            cooperative, brief>>
vars == <<file, ledger, session, begun, unvouched>>

None    == [edition |-> "none"]
Idle    == [at |-> "idle"]
Version(e) == Content[e].version
Versions   == {Version(e) : e \in Editions}

\* The version of a file that claims more than every draft starts with.
ClaimedBy(f) == IF f.maturity = "OBSERVED" THEN {} ELSE {Version(f.edition)}

(***************************************************************************)
(* Reports.  A report is the findings of one edition, of which some are    *)
(* accepted.  Re-attaching builds a dictionary from rows sorted newest     *)
(* first, so the oldest acceptance of a finding is the one that stays.     *)
(***************************************************************************)
Advisory(e) == {FindingId(f) : f \in {x \in Findings[e] : ~Blocking(x)}}

Oldest(id) ==
    acceptances[CHOOSE i \in DOMAIN acceptances :
                   /\ acceptances[i].id = id
                   /\ \A j \in 1..(i - 1) : acceptances[j].id # id]

ReportOn(e) ==
    [edition  |-> e,
     accepted |-> {Oldest(id) : id \in
                     Advisory(e) \cap {r.id : r \in Elements(acceptances)}}]

UnresolvedBlocking(r) ==
    {f \in Findings[r.edition] :
        Blocking(f) /\ FindingId(f) \notin {a.id : a \in r.accepted}}

\* at_recorded_maturity: content from the file, progress from whichever of
\* file and ledger claims more.
AtRecordedMaturity(draft) ==
    LET stored == drafts[Version(draft.edition)]
    IN IF stored # None /\ Rung(stored.maturity) > Rung(draft.maturity)
       THEN [draft EXCEPT !.maturity = stored.maturity]
       ELSE draft

(***************************************************************************)
(* The gates of the ladder.                                                *)
(***************************************************************************)
StructuralRules == {"HW-001", "HW-002", "HW-005", "HW-006", "HW-007"}

CriteriaMet(target, d, report, rows) ==
    CASE target = "MAPPED" ->
            /\ \A f \in UnresolvedBlocking(report) : f.rule \notin StructuralRules
            /\ d.steps # <<>>
      [] target = "ACCOUNTABLE" ->
            /\ UnresolvedBlocking(report) = {}
            /\ d.trigger # "" /\ d.claimed_outcome.text # ""
            /\ \A s \in StepsOf(d) : s.actor # ""
      [] target = "COOPERATION_READY" ->
            /\ rows # <<>>
            /\ StepIds(d) \subseteq DOMAIN rows
            /\ \A id \in DOMAIN rows :
                  EffectiveExecutor(rows[id]) # "NOT_READY_FOR_AUTOMATION"
      [] OTHER -> FALSE     \* the later gates are not built yet

\* What the next promotion of a draft comes to once its report is stored.
Verdict(draft, report, rows) ==
    LET next == Rung(draft.maturity) + 1
    IN IF \/ next > Enforced
          \/ ~CriteriaMet(Ladder[next], Content[draft.edition], report, rows)
       THEN "refuse"
       ELSE IF Ladder[next] = "MAPPED" THEN "advance" ELSE "look"

Target(draft) ==
    IF Rung(draft.maturity) = Len(Ladder) THEN ""
    ELSE Ladder[Rung(draft.maturity) + 1]

HasArtifact(version, maturity) ==
    \E a \in Elements(artifacts) :
        Version(a.edition) = version /\ a.maturity = maturity

-----------------------------------------------------------------------------
Init ==
    /\ file \in [edition : Editions, maturity : Claims]
    /\ drafts = [v \in Versions |-> None]
    /\ reports = {}
    /\ acceptances = <<>>
    /\ promotions = <<>>
    /\ artifacts = <<>>
    /\ assessments = <<>>
    /\ cooperative = None
    /\ brief = None
    /\ session = [p \in Programs |-> Idle]
    /\ begun = 0
    /\ unvouched = ClaimedBy(file)

\* A command begins: what it has read and worked out is its session.
Begin(p, command, state) ==
    /\ command \in Commands
    /\ session[p] = Idle
    /\ Overlap \/ \A q \in Programs : session[q] = Idle
    /\ begun < MaxCommands
    /\ begun' = begun + 1
    /\ session' = [session EXCEPT ![p] = state]
    /\ UNCHANGED <<file, ledger, unvouched>>

At(p, place) == session[p].at = place

GoTo(p, place) == session' = [session EXCEPT ![p].at = place]
Leave(p)       == session' = [session EXCEPT ![p] = Idle]

\* The operator edits the file, between commands or under one.
Edit(f) ==
    /\ "edit" \in Commands
    /\ file # f
    /\ begun < MaxCommands
    /\ begun' = begun + 1
    /\ file' = f
    /\ unvouched' = unvouched \cup ClaimedBy(f)
    /\ UNCHANGED <<ledger, session>>

(***************************************************************************)
(* Capture, validation and accepted risks.                                 *)
(***************************************************************************)
ImportDraft(p) ==
    /\ p \in Desktops
    /\ Begin(p, "import", [at |-> "store draft", draft |-> file, report |-> None])

Validate(p) ==
    Begin(p, "validate", [at |-> "store draft", draft |-> file,
                          report |-> ReportOn(file.edition)])

WorkflowValidate(p) == p \in Terminals /\ Validate(p)      \* with --save
ValidateDraft(p)    == p \in Desktops /\ Validate(p)       \* with save=True

\* accept_risk refuses a finding that is blocking or not in the report.
AcceptRisk(p, id, by) ==
    LET fresh == ReportOn(file.edition)
        row == [id |-> id, by |-> by]
    IN /\ id \in Advisory(file.edition)
       /\ Begin(p, "accept",
                [at |-> "store acceptance", row |-> row, draft |-> file,
                 report |-> [fresh EXCEPT !.accepted =
                                {a \in @ : a.id # id} \cup {row}]])

WorkflowAcceptRisk(p, id, by) == p \in Terminals /\ AcceptRisk(p, id, by)
AcceptFinding(p, id, by)      == p \in Desktops /\ AcceptRisk(p, id, by)

SaveRiskAcceptance(p) ==
    /\ At(p, "store acceptance")
    /\ acceptances' = Append(acceptances, session[p].row)
    /\ session' = [session EXCEPT ![p] = [at |-> "store draft", draft |-> @.draft,
                                          report |-> @.report]]
    /\ UNCHANGED <<file, drafts, reports, promotions, artifacts, assessments,
                   cooperative, brief, begun, unvouched>>

\* Mutant: the version is read from the file again.
SaveDraftReread(p) ==
    /\ At(p, "store draft")
    /\ drafts' = [drafts EXCEPT ![Version(file.edition)] = session[p].draft]
    /\ IF session[p].report = None THEN Leave(p) ELSE GoTo(p, "store report")
    /\ UNCHANGED <<file, reports, acceptances, promotions, artifacts, assessments,
                   cooperative, brief, begun, unvouched>>

\* The draft is stored as the file has it, its claimed maturity included.
SaveDraft(p) ==
    /\ At(p, "store draft")
    /\ drafts' = [drafts EXCEPT ![Version(session[p].draft.edition)] = session[p].draft]
    /\ IF session[p].report = None THEN Leave(p) ELSE GoTo(p, "store report")
    /\ UNCHANGED <<file, reports, acceptances, promotions, artifacts, assessments,
                   cooperative, brief, begun, unvouched>>

SaveReport(p) ==
    /\ At(p, "store report")
    /\ reports' = reports \cup {session[p].report}
    /\ Leave(p)
    /\ UNCHANGED <<file, drafts, acceptances, promotions, artifacts, assessments,
                   cooperative, brief, begun, unvouched>>

(***************************************************************************)
(* Promotion.  Both surfaces stop before the first write when a blocking   *)
(* finding is open.                                                        *)
(***************************************************************************)
Promote(p) ==
    LET draft == AtRecordedMaturity(file)
        report == ReportOn(draft.edition)
    IN /\ UnresolvedBlocking(report) = {}
       /\ Begin(p, "promote", [at |-> "cite", draft |-> draft, report |-> report,
                               rows |-> assessments])

WorkflowPromote(p) == p \in Terminals /\ Promote(p)
PromoteDraft(p)    == p \in Desktops /\ Promote(p)

CiteReport(p) ==
    LET s == session[p]
    IN /\ At(p, "cite")
       /\ reports' = reports \cup {s.report}
       /\ GoTo(p, Verdict(s.draft, s.report, s.rows))
       /\ UNCHANGED <<file, drafts, acceptances, promotions, artifacts, assessments,
                      cooperative, brief, begun, unvouched>>

PromotionRow(p, granted) ==
    [from |-> session[p].draft.maturity, to |-> Target(session[p].draft),
     granted |-> granted, report |-> session[p].report]

RecordPromotion(p, granted) ==
    /\ promotions' = Append(promotions, PromotionRow(p, granted))
    /\ Leave(p)
    /\ UNCHANGED <<file, drafts, reports, acceptances, artifacts, assessments,
                   cooperative, brief, begun, unvouched>>

Refuse(p) == At(p, "refuse") /\ RecordPromotion(p, FALSE)
Grant(p)  == At(p, "grant") /\ RecordPromotion(p, TRUE)

\* Mutant: the draft moves and no row says so.
AdvanceDraftSilently(p) ==
    LET draft == session[p].draft
    IN /\ At(p, "advance")
       /\ drafts' = [drafts EXCEPT ![Version(draft.edition)] =
                        [draft EXCEPT !.maturity = "MAPPED"]]
       /\ Leave(p)
       /\ UNCHANGED <<file, reports, acceptances, promotions, artifacts, assessments,
                      cooperative, brief, begun, unvouched>>

\* Reaching MAPPED advances the draft itself, before its row is written.
AdvanceDraft(p) ==
    LET draft == session[p].draft
    IN /\ At(p, "advance")
       /\ drafts' = [drafts EXCEPT ![Version(draft.edition)] =
                        [draft EXCEPT !.maturity = "MAPPED"]]
       /\ GoTo(p, "grant")
       /\ UNCHANGED <<file, reports, acceptances, promotions, artifacts, assessments,
                      cooperative, brief, begun, unvouched>>

\* One artifact per version and maturity: looked up here, inserted later.
LookForArtifact(p) ==
    LET draft == session[p].draft
    IN /\ At(p, "look")
       /\ GoTo(p, IF HasArtifact(Version(draft.edition), Target(draft))
                  THEN "refuse" ELSE "insert")
       /\ UNCHANGED <<file, ledger, begun, unvouched>>

\* Mutant: the content is what the file says by now.
ArtifactOfFile(s) == [edition |-> file.edition, maturity |-> Target(s.draft),
                      accepted_risks |-> s.report.accepted]

Artifact(s) == [edition |-> s.draft.edition, maturity |-> Target(s.draft),
                accepted_risks |-> s.report.accepted]

\* Mutant: a second insert leaves the first artifact and goes on.
InsertArtifactIfAbsent(p) ==
    LET draft == session[p].draft
    IN /\ At(p, "insert")
       /\ Content[draft.edition].steps # <<>>
       /\ IF HasArtifact(Version(draft.edition), Target(draft))
          THEN UNCHANGED artifacts
          ELSE artifacts' = Append(artifacts, Artifact(session[p]))
       /\ GoTo(p, "grant")
       /\ UNCHANGED <<file, drafts, reports, acceptances, promotions, assessments,
                      cooperative, brief, begun, unvouched>>

\* The artifact's schema wants a step, and the table's key turns a second
\* insert into an error: either ends the command.
Uninsertable(draft) ==
    \/ Content[draft.edition].steps = <<>>
    \/ HasArtifact(Version(draft.edition), Target(draft))

InsertArtifact(p) ==
    LET draft == session[p].draft
    IN /\ At(p, "insert")
       /\ IF Uninsertable(draft)
          THEN Leave(p) /\ UNCHANGED artifacts
          ELSE /\ artifacts' = Append(artifacts, Artifact(session[p]))
               /\ GoTo(p, "grant")
       /\ UNCHANGED <<file, drafts, reports, acceptances, promotions, assessments,
                      cooperative, brief, begun, unvouched>>

(***************************************************************************)
(* Cooperation.  Rows belong to a workflow and a step; they name neither   *)
(* the version nor the artifact they were made from.                       *)
(***************************************************************************)
Newest == Content[artifacts[Len(artifacts)].edition]

Fresh(d) ==
    [id \in StepIds(d) |->
        AssessStep(id, StepOf(d, id).characteristics, StepOf(d, id).decision_authority,
                   GatesAt(d, id) # <<>>)]

\* The steps whose recorded override is carried onto a fresh assessment.
Carried(d, replaced) ==
    {id \in (DOMAIN assessments \cap StepIds(d)) \ replaced :
        assessments[id].override # NoOverride}

\* Mutant: a carried override is not judged again.
CarriesOverUnjudged(d, replaced) == TRUE

\* A carried override a floor now forbids refuses the whole command.
CarriesOver(d, replaced) ==
    \A id \in Carried(d, replaced) :
        OverridePermitted(Fresh(d)[id], assessments[id].override)

\* Mutant: the table alone decides.
ReassessedAfresh(d, replaced) == Fresh(d)

Reassessed(d, replaced) ==
    [id \in StepIds(d) |->
        IF id \in Carried(d, replaced)
        THEN ApplyOverride(Fresh(d)[id], assessments[id].override)
        ELSE Fresh(d)[id]]

\* The command line: overrides given with the command replace the stored
\* ones and are judged against the fresh assessment.
WorkflowAssessCooperation(p, replacing) ==
    LET d == Newest
    IN /\ p \in Terminals
       /\ artifacts # <<>>
       /\ DOMAIN replacing \subseteq StepIds(d)
       /\ CarriesOver(d, DOMAIN replacing)
       /\ \A id \in DOMAIN replacing : OverridePermitted(Fresh(d)[id], replacing[id])
       /\ Begin(p, "assess",
                [at |-> "store assessments",
                 rows |-> [id \in StepIds(d) |->
                             IF id \in DOMAIN replacing
                             THEN ApplyOverride(Fresh(d)[id], replacing[id])
                             ELSE Reassessed(d, DOMAIN replacing)[id]]])

AssessCooperation(p) ==
    /\ p \in Desktops
    /\ artifacts # <<>>
    /\ CarriesOver(Newest, {})
    /\ Begin(p, "assess", [at |-> "store assessments", rows |-> Reassessed(Newest, {})])

\* The desktop: an override is judged against the row as it is stored, is
\* saved, and then the whole workflow is assessed again.
OverrideExecutor(p, id, to) ==
    /\ p \in Desktops
    /\ id \in DOMAIN assessments
    /\ OverridePermitted(assessments[id], to)
    /\ Begin(p, "override", [at |-> "store override",
                             rows |-> [x \in {id} |-> ApplyOverride(assessments[x], to)]])

SaveAssessments(p) ==
    /\ At(p, "store assessments") \/ At(p, "store override")
    /\ assessments' = [id \in DOMAIN session[p].rows \cup DOMAIN assessments |->
                          IF id \in DOMAIN session[p].rows THEN session[p].rows[id]
                          ELSE assessments[id]]
    /\ IF At(p, "store override")
       THEN session' = [session EXCEPT ![p] = [at |-> "reassess"]]
       ELSE Leave(p)
    /\ UNCHANGED <<file, drafts, reports, acceptances, promotions, artifacts,
                   cooperative, brief, begun, unvouched>>

\* The second half of the desktop's override: it may be refused, and the
\* saved override stays.
Reassess(p) ==
    /\ At(p, "reassess")
    /\ IF artifacts # <<>> /\ CarriesOver(Newest, {})
       THEN session' = [session EXCEPT ![p] =
                [at |-> "store assessments", rows |-> Reassessed(Newest, {})]]
       ELSE Leave(p)
    /\ UNCHANGED <<file, ledger, begun, unvouched>>

(***************************************************************************)
(* Assignments and the brief.                                              *)
(***************************************************************************)
Build(p, approved) ==
    /\ artifacts # <<>>
    /\ assessments # <<>>
    /\ Unassessed(Newest, assessments) = {}
    /\ Begin(p, "build", [at |-> "store cooperative",
                          built |-> BuildCooperative(Newest, assessments, approved)])

WorkflowBuildCooperative(p, approved) == p \in Terminals /\ Build(p, approved)
BuildCooperativeDraft(p, approved)    == p \in Desktops /\ Build(p, approved)

SaveCooperative(p) ==
    /\ At(p, "store cooperative")
    /\ cooperative' = session[p].built
    /\ Leave(p)
    /\ UNCHANGED <<file, drafts, reports, acceptances, promotions, artifacts,
                   assessments, brief, begun, unvouched>>

\* An export the schema of a brief or a lookup turns down ends in an error
\* before anything is saved, as a refusal does.
Export(p) ==
    LET d == Newest
    IN /\ artifacts # <<>>
       /\ cooperative # None
       /\ Exportable(cooperative, d)
       /\ d.steps # <<>> /\ AgentsHaveSteps(cooperative, d)
       /\ BriefIsConsistent(ExportWorkflow(cooperative, d))
       /\ Begin(p, "export",
                [at |-> "store brief",
                 brief |-> [edition |-> artifacts[Len(artifacts)].edition,
                            exported |-> ExportWorkflow(cooperative, d)]])

WorkflowExportAgentBrief(p) == p \in Terminals /\ Export(p)
ExportBrief(p)              == p \in Desktops /\ Export(p)

SaveBrief(p) ==
    /\ At(p, "store brief")
    /\ brief' = session[p].brief
    /\ Leave(p)
    /\ UNCHANGED <<file, drafts, reports, acceptances, promotions, artifacts,
                   assessments, cooperative, begun, unvouched>>

\* A program dies between two writes of a command.
Die(p) ==
    /\ MayDie
    /\ session[p] # Idle
    /\ Leave(p)
    /\ unvouched' = unvouched \cup
          (IF At(p, "grant") /\ Target(session[p].draft) = "MAPPED"
           THEN {Version(session[p].draft.edition)} ELSE {})
    /\ UNCHANGED <<file, ledger, begun>>

-----------------------------------------------------------------------------
Replacements ==
    {<<>>} \cup UNION {[{id} -> Targets] : id \in UNION {StepIds(Content[e]) : e \in Editions}}

Capture(p) ==
    \/ ImportDraft(p) \/ WorkflowValidate(p) \/ ValidateDraft(p)
    \/ \E id \in UNION {Advisory(e) : e \in Editions}, by \in People :
          WorkflowAcceptRisk(p, id, by) \/ AcceptFinding(p, id, by)
    \/ SaveRiskAcceptance(p) \/ SaveDraft(p) \/ SaveReport(p)

Climb(p) ==
    \/ WorkflowPromote(p) \/ PromoteDraft(p) \/ CiteReport(p) \/ Refuse(p)
    \/ AdvanceDraft(p) \/ LookForArtifact(p) \/ InsertArtifact(p) \/ Grant(p)

Cooperate(p) ==
    \/ \E replacing \in Replacements : WorkflowAssessCooperation(p, replacing)
    \/ AssessCooperation(p)
    \/ \E id \in DOMAIN assessments, to \in Targets : OverrideExecutor(p, id, to)
    \/ SaveAssessments(p) \/ Reassess(p)

Assign(p) ==
    \/ \E approved \in BOOLEAN :
          WorkflowBuildCooperative(p, approved) \/ BuildCooperativeDraft(p, approved)
    \/ SaveCooperative(p) \/ WorkflowExportAgentBrief(p) \/ ExportBrief(p) \/ SaveBrief(p)

Next ==
    \/ \E f \in [edition : Editions, maturity : Claims] : Edit(f)
    \/ \E p \in Programs :
          Capture(p) \/ Climb(p) \/ Cooperate(p) \/ Assign(p) \/ Die(p)

Spec == Init /\ [][Next]_vars

(***************************************************************************)
(* Properties.                                                             *)
(***************************************************************************)
Drafts     == [edition : Editions, maturity : Elements(Ladder)]
FindingIds == UNION {{FindingId(f) : f \in Findings[e]} : e \in Editions}
Acceptance == [id : FindingIds, by : People]
Reports    == [edition : Editions, accepted : SUBSET Acceptance]

\* Every table holds rows of its kind.
TypeOK ==
    /\ file \in [edition : Editions, maturity : Claims]
    /\ \A v \in Versions : drafts[v] # None =>
          drafts[v] \in Drafts /\ Version(drafts[v].edition) = v
    /\ \A r \in reports : r.edition \in Editions /\ r.accepted \subseteq Acceptance
    /\ Elements(acceptances) \subseteq Acceptance
    /\ \A r \in Elements(promotions) : r.report \in reports
    /\ \A a \in Elements(artifacts) :
          a.edition \in Editions /\ a.maturity \in Elements(Ladder)
    /\ \A id \in DOMAIN assessments :
          assessments[id].step_id = id /\ assessments[id].factors \in Characteristics
    /\ begun \in 0..MaxCommands
    /\ unvouched \subseteq Versions

\* "Blocking findings prevent promotion, and cannot be accepted away": the
\* content of every artifact is free of them, and each risk the artifact
\* cites is an advisory finding of that content with its acceptance on record.
ArtifactsAreAccountable ==
    \A a \in Elements(artifacts) :
        /\ \A f \in Findings[a.edition] : ~Blocking(f)
        /\ a.accepted_risks \subseteq Elements(acceptances)
        /\ \A r \in a.accepted_risks : r.id \in Advisory(a.edition)
        /\ \A r, t \in a.accepted_risks : r.id = t.id => r = t

\* The trail is wrong only in the safe direction: a granted row beyond MAPPED
\* has its artifact, made from the content the cited report is about, and no
\* version is granted the same maturity twice, whoever races.
GrantsHaveArtifacts ==
    \A i \in DOMAIN promotions :
        LET row == promotions[i]
        IN row.granted /\ row.to # "MAPPED" =>
            /\ \E a \in Elements(artifacts) :
                  a.edition = row.report.edition /\ a.maturity = row.to
            /\ ~\E j \in 1..(i - 1) :
                  /\ promotions[j].granted /\ promotions[j].to = row.to
                  /\ Version(promotions[j].report.edition) = Version(row.report.edition)

StillToGrant(version, maturity) ==
    \E p \in Programs : /\ At(p, "grant")
                        /\ Target(session[p].draft) = maturity
                        /\ Version(session[p].draft.edition) = version

\* One step at a time: the version of an artifact has been granted MAPPED
\* first, and the artifact is for ACCOUNTABLE, unless its file claimed a rung
\* for itself or a death kept the row back.  (The draft of an accountable
\* workflow stays MAPPED, so no command but an edited file leads further.)
ClimbedStepByStep ==
    \A a \in Elements(artifacts) :
        LET version == Version(a.edition)
        IN version \notin unvouched =>
            /\ a.maturity = "ACCOUNTABLE"
            /\ \/ StillToGrant(version, "MAPPED")
               \/ \E r \in Elements(promotions) :
                     /\ r.granted /\ r.to = "MAPPED"
                     /\ Version(r.report.edition) = version

\* No stored assessment, overridden or not, lets a step run more freely than
\* a floor its own recorded facts trigger.
RowsRespectFloors == \A id \in DOMAIN assessments : RespectsFloors(assessments[id])

\* The worklist finds exactly the least set that holds the entry step and
\* every step a route leads to.
ReachableIsLeast ==
    LET d == Content[file.edition]
        closed == {S \in SUBSET StepIds(d) :
                     /\ d.steps[1].step_id \in S
                     /\ \A id \in S : Elements(Routes(d, id)) \cap StepIds(d) \subseteq S}
    IN d.steps # <<>> =>
        /\ ReachableFromEntry(d) \in closed
        /\ \A S \in closed : ReachableFromEntry(d) \subseteq S

\* In an exported brief a step that hit a floor is left by a person's move,
\* or by an agent's into the state that waits for a person, and that state is
\* left only by moves a person makes consciously.
FlooredStepsWaitForAPerson ==
    brief # None =>
        \A s \in StepsOf(Content[brief.edition]) :
            ApplicableFloors(s.characteristics, s.decision_authority) # {} =>
                \A m \in brief.exported.transitions :
                    /\ m.from = StateOf(s.step_id) =>
                          \/ m.to = WaitingAt(s.step_id)
                          \/ TreatedAsHuman(brief.exported, m.owner)
                    /\ m.from = WaitingAt(s.step_id) =>
                          /\ m.depth = "CONSCIOUS"
                          /\ TreatedAsHuman(brief.exported, m.owner)

\* Only when no edit changes what a step of some name is like, or who has
\* authority over it, can a row, which names a step and no version, be
\* trusted for that step.
FactsStand ==
    "edit" \in Commands =>
        \A e, f \in Editions : \A s \in StepsOf(Content[e]), t \in StepsOf(Content[f]) :
            s.step_id = t.step_id =>
                /\ s.characteristics = t.characteristics
                /\ s.decision_authority = t.decision_authority

\* Nobody who acts or recovers bears the name the export gives an agent: the
\* brief would take the person for that agent, and let it do floored work.
NamesApart ==
    \A e, f \in Editions : \A s \in StepsOf(Content[e]), id \in StepIds(Content[f]) :
        /\ s.actor # AgentNameFor(id)
        /\ \A x \in ExceptionsOf(s) : x.owner # AgentNameFor(id)

\* The states a brief's moves lead to from its first state.
Follow(b) ==
    LET reach[n \in 0..Cardinality(b.states)] ==
            IF n = 0 THEN {b.initial}
            ELSE LET before == reach[n - 1]
                 IN before \cup {m.to : m \in {x \in b.transitions : x.from \in before}}
    IN reach[Cardinality(b.states)]

\* Work that the rules found to reach an end reaches it in the exported brief
\* as well, unless it gets there only by a gate's on_approve, which the
\* export leaves out.
ExportedWorkCanFinish ==
    brief # None /\ (\A g \in GatesOf(Content[brief.edition]) : g.on_approve = "")
        => Complete \in Follow(brief.exported)

\* "Re-assessing must not quietly discard a decision a person already made":
\* a step once overridden stays overridden.
OverridesSurviveReassessment ==
    [][\A id \in DOMAIN assessments :
          assessments[id].override # NoOverride =>
             assessments'[id].override # NoOverride]_vars
=============================================================================
