--------------------------- MODULE AgentMaturity ---------------------------
(***************************************************************************)
(* One agent's package on its way from draft to validated: `maturity       *)
(* promote` (governance/maturity.py), `package generate`, `eval run` and   *)
(* the non-conformance commands (cli.py), over the package's files and the *)
(* ledger's tables (runtime/ledger.py).                                    *)
(*                                                                         *)
(* A promotion assesses, then reads the files again and stages their new   *)
(* text, then records its row, then replaces the files one by one.         *)
(* Generating writes the files in place, one by one.  Programs interleave  *)
(* between these and may die; a rename is whole or not at all, a write     *)
(* that a death interrupts leaves an empty file.  A command that refuses   *)
(* changes nothing and is no step.                                         *)
(***************************************************************************)
EXTENDS GovernanceChecks

CONSTANTS Programs,      \* the commands that may be running at once
          Briefs,        \* what a brief may say of the agent when it generates
          Workspace,     \* where packages are generated
          Cases,         \* the eval cases
          Runs,          \* the recorded runs a case may be run against
          Records,       \* ids of non-conformance records
          Kinds,         \* the kinds a record may be of
          Notes,         \* what a resolution may say
          MaxCommands,   \* bound: promotions and generations begun
          MaxResults,    \* bound: evaluations recorded
          MaxFailing,    \* bound: evaluations recorded that did not pass
          CompleteBefore, \* bound: complete runs of the workflow at first, and at least
          MaxComplete,   \* bound: complete runs of the workflow
          MayDie         \* may a program die between two writes?

Depths == 0..5

ASSUME BoundsAssumption ==
    /\ MaxCommands \in Nat /\ CompleteBefore \in Nat /\ MaxComplete \in Nat
    /\ CompleteBefore <= MaxComplete

\* What the schema of a brief lets through.
ASSUME BriefsAssumption ==
    \A b \in Briefs : /\ b.depth_level \in Depths
                      /\ b.owned \in Seq(STRING)
                      /\ b.escalation_target \in STRING

\* _TESTED_COVERAGE, and the numbers assess() asks for.
TestedCoverage == {"handoff_completeness", "depth_compliance", "escalation_correctness"}
PassingNeeded  == 3
CompleteNeeded == 3

VARIABLES package,      \* the files
          promotions,   \* append-only rows, oldest first
          results,      \* recorded evaluations
          records,      \* non-conformance records, by id
          complete,     \* complete runs of the workflow in the ledger
          session,      \* what each program is in the middle of
          begun,        \* promotions and generations begun
          overlapped    \* history: was a command begun while another was under way?

vars == <<package, promotions, results, records, complete, session, begun, overlapped>>

Idle    == [at |-> "idle"]
Unfiled == [kind |-> "none"]
Filed   == [id \in {x \in Records : records[x] # Unfiled} |-> records[id]]

Init ==
    /\ package = [f \in FileNames |-> Absent]
    /\ promotions = <<>>
    /\ results = {}
    /\ records = [id \in Records |-> Unfiled]
    /\ complete = CompleteBefore
    /\ session = [p \in Programs |-> Idle]
    /\ begun = 0
    /\ overlapped = FALSE

Begin(p, state) ==
    /\ session[p] = Idle
    /\ begun < MaxCommands
    /\ begun' = begun + 1
    /\ session' = [session EXCEPT ![p] = state]
    /\ overlapped' = (overlapped \/ \E q \in Programs : session[q] # Idle)
    /\ UNCHANGED <<package, promotions, results, records, complete>>

At(p, place) == session[p].at = place
Leave(p)     == session' = [session EXCEPT ![p] = Idle]

(***************************************************************************)
(* Evidence.                                                               *)
(***************************************************************************)
\* A result names its run; the model keeps the run where its handoff is judged.
NotJudged == [left_handoff |-> FALSE]
Judged(case, run) ==
    IF "handoff_completeness" \in DOMAIN case.scoring THEN run ELSE NotJudged

\* run_eval_case reads what there is and inserts one result.
EvalRun(case, run, pkg) ==
    LET result == RunEvalCase(case, IF run.left_handoff THEN WriteHandoff(run) ELSE NoHandoff,
                              run.packets, pkg, Filed)
    IN /\ Cardinality(results) < MaxResults
       /\ result.overall # "pass" =>
             Cardinality({r \in results : r[2].overall # "pass"}) < MaxFailing
       /\ ChecksFinish(case, pkg)
       /\ results' = results \cup {<<Judged(case, run), result>>}
       /\ UNCHANGED <<package, promotions, records, complete, session, begun, overlapped>>

NonConformanceCapture(id, kind) ==
    /\ records[id] = Unfiled
    /\ records' = [records EXCEPT ![id] =
            [kind |-> kind, resolution_status |-> "open", resolution_note |-> ""]]
    /\ UNCHANGED <<package, promotions, results, complete, session, begun, overlapped>>

NonConformanceResolve(id, note) ==
    /\ records[id] # Unfiled
    /\ records' = [records EXCEPT ![id].resolution_status = "resolved",
                                  ![id].resolution_note = note]
    /\ UNCHANGED <<package, promotions, results, complete, session, begun, overlapped>>

\* Elsewhere runs of the workflow complete, and `runs block` takes one back.
RunsComplete ==
    /\ complete < MaxComplete
    /\ complete' = complete + 1
    /\ UNCHANGED <<package, promotions, results, records, session, begun, overlapped>>

RunsBlock ==
    /\ complete > CompleteBefore
    /\ complete' = complete - 1
    /\ UNCHANGED <<package, promotions, results, records, session, begun, overlapped>>

PassingCases == {r[2].case_id : r \in {x \in results : x[2].overall = "pass"}}

\* A passing check counts whatever became of the rest of its case.
PassingByCategory ==
    {c \in Categories : \E r \in results : c \in DOMAIN r[2].checks /\ r[2].checks[c] = "pass"}

(***************************************************************************)
(* Promotion.                                                              *)
(***************************************************************************)
NextMaturity(maturity) == IF maturity = "draft" THEN "tested" ELSE "validated"

CriteriaMet(target) ==
    IF target = "tested"
    THEN /\ Cardinality(PassingCases) >= PassingNeeded
         /\ TestedCoverage \subseteq PassingByCategory
    ELSE /\ complete >= CompleteNeeded
         /\ \A id \in DOMAIN Filed : Filed[id].resolution_status # "open"
         /\ "handoff_completeness" \in PassingByCategory

\* promote() up to its refusals: the reviewer is named and, for validated,
\* the rationale is given.
Assess(p) ==
    LET current == package[Manifest].maturity
    IN /\ Readable(package[Manifest])
       /\ current # "validated"
       /\ ValidatePackage(package) = {}
       /\ CriteriaMet(NextMaturity(current))
       /\ Begin(p, [at |-> "stage", from |-> current, to |-> NextMaturity(current)])

\* The declaration is rewritten where the old one stands.
Declared(text, old, new) ==
    IF Readable(text) /\ text.maturity = old THEN [text EXCEPT !.maturity = new] ELSE text

LogEntries(text) == IF Readable(text) THEN text.promotions ELSE <<>>

\* The new text of every file, from what the files say by now.
Staged(old, new) ==
    [f \in FileNames |->
        CASE f \in {Skill, Capsule} -> Declared(package[f], old, new)
          [] f = Evals    -> [package[f] EXCEPT !.overall = "pass"]
          [] f = Log      -> [promotions |-> Append(LogEntries(package[f]), new)]
          [] f = Manifest -> [package[f] EXCEPT !.maturity = new]]

\* Mutant: the manifest is replaced first.
ManifestFirst == <<Manifest, Skill, Capsule, Evals, Log>>

\* _commit_staged_files: the manifest is replaced last.
ReplaceOrder == <<Skill, Capsule, Evals, Log, Manifest>>

\* Mutant: the row is written when the files are in place.
CommitRowLast == ReplaceOrder \o <<"row">>

\* What is still to be written once everything is staged: first the row.
Commit == <<"row">> \o ReplaceOrder

\* Text that cannot be read as JSON or YAML ends the command here.
Stage(p) ==
    LET s == session[p]
    IN /\ At(p, "stage")
       /\ IF Readable(package[Manifest]) /\ Readable(package[Evals])
          THEN session' = [session EXCEPT ![p] =
                  [at |-> "commit", row |-> [from |-> s.from, to |-> s.to],
                   staged |-> Staged(s.from, s.to), todo |-> Commit]]
          ELSE Leave(p)
       /\ UNCHANGED <<package, promotions, results, records, complete, begun, overlapped>>

\* One write is done: the rest remains, or nothing.
Written(p) ==
    IF Len(session[p].todo) = 1 THEN Leave(p)
    ELSE session' = [session EXCEPT ![p].todo = Tail(@)]

RecordPromotion(p) ==
    /\ At(p, "commit") /\ Head(session[p].todo) = "row"
    /\ promotions' = Append(promotions, session[p].row)
    /\ Written(p)
    /\ UNCHANGED <<package, results, records, complete, begun, overlapped>>

Replace(p) ==
    LET file == Head(session[p].todo)
    IN /\ At(p, "commit") /\ file # "row"
       /\ package' = [package EXCEPT ![file] = session[p].staged[file]]
       /\ Written(p)
       /\ UNCHANGED <<promotions, results, records, complete, begun, overlapped>>

(***************************************************************************)
(* Generation, over whatever package is there.                             *)
(***************************************************************************)
PackageGenerate(p, brief) ==
    /\ Buildable(brief, Workspace, Workspace.paths)
    /\ Begin(p, [at |-> "generate", brief |-> brief, todo |-> PackageFiles])

\* Mutant: the file gets the text of another one.
WriteFileMisplaced(p) ==
    LET s == session[p]
    IN /\ At(p, "generate")
       /\ package' = [package EXCEPT ![Head(s.todo)] = Generated(s.brief)[Evals]]
       /\ Written(p)
       /\ UNCHANGED <<promotions, results, records, complete, begun, overlapped>>

WriteFile(p) ==
    LET s == session[p]
    IN /\ At(p, "generate")
       /\ package' = [package EXCEPT ![Head(s.todo)] = Generated(s.brief)[Head(s.todo)]]
       /\ Written(p)
       /\ UNCHANGED <<promotions, results, records, complete, begun, overlapped>>

\* A death between two writes or, when generating, in one.
Die(p) ==
    /\ MayDie
    /\ session[p] # Idle
    /\ Leave(p)
    /\ \/ UNCHANGED package
       \/ /\ At(p, "generate")
          /\ package' = [package EXCEPT ![Head(session[p].todo)] = Truncated]
    /\ UNCHANGED <<promotions, results, records, complete, begun, overlapped>>

-----------------------------------------------------------------------------
Evidence ==
    \/ \E case \in Cases, run \in Runs : EvalRun(case, run, NoPackage)
    \/ \E case \in Cases, run \in Runs : EvalRun(case, run, package)
    \/ \E id \in Records, kind \in Kinds :
          NonConformanceCapture(id, kind)
    \/ \E id \in Records, note \in Notes : NonConformanceResolve(id, note)
    \/ RunsComplete \/ RunsBlock

Next ==
    \/ Evidence
    \/ \E p \in Programs :
          \/ Assess(p) \/ Stage(p) \/ RecordPromotion(p) \/ Replace(p)
          \/ \E brief \in Briefs : PackageGenerate(p, brief)
          \/ WriteFile(p) \/ Die(p)

Spec == Init /\ [][Next]_vars

(***************************************************************************)
(* Properties.                                                             *)
(***************************************************************************)
SkillTexts    == [maturity : {"draft", "tested", "validated"}, depth_level : Depths]
CapsuleTexts  == [maturity : {"draft", "tested", "validated"}, depth_level : Depths,
                  steps : Seq(Depths), targets : SUBSET STRING]
EvalsTexts    == [overall : {"pending", "pass"}]
LogTexts      == [promotions : Seq({"tested", "validated"})]

\* Every file holds a text of its kind, and every row a step of the ladder.
TypeOK ==
    /\ DOMAIN package = FileNames
    /\ package[Skill] \in SkillTexts \cup {Absent, Truncated}
    /\ package[Capsule] \in CapsuleTexts \cup {Absent, Truncated}
    /\ package[Evals] \in EvalsTexts \cup {Absent, Truncated}
    /\ package[Log] \in LogTexts \cup {Absent, Truncated}
    /\ package[Manifest] \in SkillTexts \cup {Absent, Truncated}
    /\ promotions \in Seq([from : {"draft", "tested"}, to : {"tested", "validated"}])
    /\ complete \in CompleteBefore..MaxComplete
    /\ begun \in 0..MaxCommands

Recorded(maturity) == \E i \in DOMAIN promotions : promotions[i].to = maturity

\* The files never silently declare a maturity the audit trail does not
\* record, whichever promotions and generations interleave and wherever they
\* die: what a file claims beyond draft has its row, and the rows climb one
\* step at a time.
FilesFollowTrail ==
    /\ \A f \in {Skill, Capsule, Manifest} :
          Readable(package[f]) /\ package[f].maturity # "draft"
             => Recorded(package[f].maturity)
    /\ Readable(package[Evals]) /\ package[Evals].overall = "pass" => Recorded("tested")
    /\ Readable(package[Log]) =>
          \A i \in DOMAIN package[Log].promotions : Recorded(package[Log].promotions[i])
    /\ \A i \in DOMAIN promotions :
          /\ promotions[i].to = NextMaturity(promotions[i].from)
          /\ promotions[i].from # "draft" =>
                \E j \in 1..(i - 1) : promotions[j].to = promotions[i].from

\* A package is tested only when three different cases passed in earnest,
\* none of them by skipping everything, and the handoff that passed its check
\* was there and had artifacts to go on from.
TestedOnEvidence ==
    Recorded("tested") =>
        LET earnest == {r \in results :
                          /\ \E c \in DOMAIN r[2].checks : r[2].checks[c] = "pass"
                          /\ \A c \in DOMAIN r[2].checks : r[2].checks[c] # "fail"}
        IN /\ Cardinality({r[2].case_id : r \in earnest}) >= 3
           /\ \E r \in results : /\ "handoff_completeness" \in DOMAIN r[2].checks
                                 /\ r[2].checks["handoff_completeness"] = "pass"
                                 /\ r[1].left_handoff /\ r[1].inputs + r[1].outputs > 0

\* The log's last entries are those of the climb to this maturity.
EndsWithClimb(log, maturity) ==
    /\ log # <<>>
    /\ log[Len(log)] = maturity
    /\ maturity = "validated" => Len(log) > 1 /\ log[Len(log) - 1] = "tested"

\* An interrupted swap does not sit silently: a package at rest that claims
\* a maturity beyond draft and validates cleanly has the evals of that claim
\* and a log that ends with that very climb, wherever promotions and
\* generations died before.  (Commands that overlapped can leave less.)
CleanPackagesAreWhole ==
    /\ ~overlapped
    /\ \A p \in Programs : session[p] = Idle
    /\ ValidatePackage(package) = {}
    /\ package[Manifest].maturity # "draft"
    => /\ EndsWithClimb(LogEntries(package[Log]), package[Manifest].maturity)
       /\ package[Evals].overall = "pass"

\* "Only reviewed cases count toward promotion."
OnlyReviewedCasesCount ==
    Recorded("tested") =>
        Cardinality({c.case_id : c \in {x \in Cases : x.reviewed}} \cap PassingCases) >= 3
=============================================================================
