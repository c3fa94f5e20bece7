# Verification of the AgentFoundry runtime

TLA+ models of the runtime in `src/`, the TLC runs that check them on small
instances, and TLAPS proofs of what holds for every instance. Paths below are
relative to the repository (`src/cli.py`) unless they name a module of this
directory.

## The system

A *brief* (YAML) declares the states and transitions of a workflow. A
*capsule* is a piece of work in one of those states. A *run* tracks the work
on one capsule: who operates it, whether it is blocked, at a review gate,
complete or failed. The *ledger*, a SQLite file, holds a row per capsule and
per run, rewritten whole, and append-only tables of what happened. People
drive runs from terminals; the *kernel* drives them through the nodes of a
*graph*.

A brief may be written by hand or *exported* from a human workflow: a draft
is captured, validated by rules, promoted to an accountable artifact; its
steps are assessed for how far a machine may take part, people assign them,
and the result is flattened into a brief. From a brief *packages* are
generated for the agents in it, which are promoted in turn on the evidence of
evaluated runs. A *node store* remembers the computers whose models the
adapters may call. A desktop app offers the same services beside the command
line, over the same ledger and files.

### Inventory

| Component | State it keeps | Operations | Interacts with |
|---|---|---|---|
| State machine `src/runtime/state_machine.py` | none: mutates the capsule and the run it is given | start, advance, review gate, flag, reject, block, resume, artifact, observation | writes the ledger |
| Commands `src/cli.py` | copies of rows for as long as a person answers prompts | run, resume, review, runs block, runs complete; workflow, package, eval, maturity, nonconformance and node commands | every component |
| Kernel `src/kernel/kernel.py`, `src/schemas/graph.py` | a checkpoint (node, attempts, status, hash of the graph) | start, step, decide, resume | state machine, adapters, ledger |
| Run ledger `src/runtime/ledger.py` | the database | one transaction per save or insert, no versions, no locks | everything |
| Brief snapshots and pins (ledger, cli) | the brief in effect, dated snapshots, one pin per run | save_workflow, pin_run_brief, drift check | every command that continues a run |
| Workflow promotion `src/governance/workflow_promotion.py` | drafts, reports, accepted risks, promotion rows, accountable artifacts | validate, accept_risk, promote | drafts on file and in the ledger |
| Workflow rules `src/governance/workflow_rules.py` | none (pure) | sixteen rules over a draft | promotion, the desktop app |
| Cooperation `src/governance/cooperation.py` | append-only assessments, cooperative artifacts | classify, assess, override, build | promotion, export |
| Export `src/foundry/workflow_export.py` | none | accountable and cooperative workflow to brief | cooperation, state machine |
| Agent maturity `src/governance/maturity.py` | files of a package, promotion rows | assess, promote | evals, ledger |
| Checks and evals `src/governance/{checks,evals,smevals_adapter}.py` | eval results | scoring | maturity |
| Foundry generator, validator `src/foundry` | files of a package | generate, validate | maturity |
| Node store `src/nodes/{store,registry,summary}.py` | one YAML file of computers and a consent | load, upsert, forget, mark_silent, set_consent | desktop app and commands at once |
| Discovery, backends, models | none | HTTP probes, model calls | node store, adapters |
| Bundles, signing, trust | a file of trusted keys | export, import, sign, verify | graphs |
| Handoffs, desktop app, schemas, resources | views and files | rendering | all of them |

What makes each of these correct, and what is hard about it:

- **State machine and commands.** A capsule moves only along its brief, with
  the evidence the transition needs, past a person where the transition is
  CONSCIOUS. Every operation is a series of separate transactions, so a
  process may die between any two of them; a person may leave a prompt open
  for a day while another terminal resumes the same run, and whole rows
  overwrite each other. What must survive: the trail is sound, a failure can
  be explained, the capsule's row makes only declared moves.
- **Kernel.** Capsule, run and checkpoint advance separately. They must fit
  whenever no process is between two checkpoints; gates must be asked and
  approvals must precede the moves they allow; retries must run out.
- **Brief pins.** A run continues only under the brief it started with, also
  across a crash between any two of the four writes involved.
- **Promotion.** Nothing becomes an accountable artifact while a blocking
  finding is open, and what was accepted away is advisory and on record; a
  granted row has its artifact and is the only one, whoever races; no rung is
  skipped. Drafts are edited and stored again while promotions run.
- **Cooperation and export.** No assessment, override or exported move lets a
  step run more freely than a floor of its own facts; a person's override
  outlives a re-assessment; what can be finished before the export can be
  finished after it.
- **Agent maturity.** Files and trail may disagree only in the direction the
  docstring of `_commit_staged_files` allows; `tested` rests on evidence; an
  interrupted swap does not pass for a whole package.
- **Node store.** Several programs rewrite one file: a person's declared
  values, names and withdrawal of consent must not be undone by a scan, and
  two computers must not share an address or a name.

`PROJECT.json` lists the hazards of this code one by one, at their lines, with
the properties that cover them or the reason why none does.

## Modules

| Module | Models |
|---|---|
| `WorkflowRuntime` | The operations of `state_machine.py` as functions from a capsule and a run in memory to an *outcome*: the writes in their order, the copies afterwards, whether `NonConformanceError` was raised. No variables. |
| `OperatorSessions` | Terminals running the five commands of `cli.py` over the four tables of the ledger. |
| `GovernedCapsule` | The abstract promise about one capsule. |
| `GraphRunner` | Processes running `graph run` and `graph resume` over the same tables and `graph_runs`. |
| `GraphWalk` | The abstract promise about a checkpoint. |
| `BriefPins` | Saving briefs, snapshots, pins, and the drift check in front of the commands that continue a run. |
| `WorkflowRules` | The sixteen rules of `workflow_rules.py`, the routes and the worklist they share, finding ids and the blocking policy. No variables. |
| `Cooperation` | The decision table, the floors and the overrides of `cooperation.py`, and the building of assignments. No variables. |
| `WorkflowExport` | `workflow_export.py`: what it refuses, and the states and transitions it flattens a workflow into. No variables. |
| `WorkflowLifecycle` | The workflow commands of the command line and the desktop over the ledger's workflow tables and the draft file; `EXTENDS` the three above. |
| `AgentPackages` | The files of a package, what the generator writes and the validator finds. No variables. |
| `GovernanceChecks` | The handoff, the five checks, the evaluation of a case. No variables. |
| `AgentMaturity` | Promotions and generations over one package, file by file, with evals and non-conformance records. |
| `Nodes` | Addresses, candidates, merging a finding into the store, endpoints and summary. No variables. |
| `NodeStore` | The node commands and the Environment tab over `nodes.yaml`. |
| `MCOperatorSessions`, `MCGraphRunner`, `MCBriefPins`, `MCWorkflowPipeline`, `MCWorkflowLifecycle`, `MCAgentMaturity`, `MCNodeStore` | Constants and symmetry for TLC. |
| `Numbers_proofs`, `WorkflowRuntime_proofs`, `OperatorSessions_proofs`, `GraphRunner_proofs`, `BriefPins_proofs`, `WorkflowLifecycle_proofs`, `AgentMaturity_proofs`, `NodeStore_proofs` | Lemmas and theorems. |

### How state and steps correspond to the code

`capsule` and `run` are the rows of `capsules` and `runs` (`None` before they
are saved), `events` the table `ledger`, `records` the table
`non_conformance_records`, `graph` the row of `graph_runs`. One run is
followed: rows are keyed by id and no command touches the rows of two runs.

A process is a record: where it stands (`at`, one value per place in the code
where it waits for a person or is between two reads), the copies it holds, and
`todo`, the writes it has still to make. An operation computes its outcome
from the copies in one step, because the code reads nothing of the ledger
between the writes of an operation; the `Commit` actions then move the writes
to the ledger one at a time, as SQLite commits them, interleaved with whatever
other processes do. Reads of two rows are two steps (`Resume` and
`ResumeCapsule`, `ReloadCapsule` and `ReloadRun`, `LoadCapsule` and
`AdvanceNode`, `Decide` and `Approve`). `Die` may happen at any point: it
drops the memory of a process and keeps what was committed.

Abstractions. Evidence is the number of the transition it was produced for, 0
when blank: this tells apart what `advance()` and `review` do with it. A
passing check is a flag, so is the pointer to the records. Notes, owners,
timestamps, artifact paths and observations (inserted into a table only the
evals read) are left out. The brief is a constant: the drift check in front of
the commands passes, since nobody edits the brief here. Reading it again is
therefore no step. An adapter is a choice between failure and success, with or
without evidence for nodes that may come out blank. Records that agree in kind
and states coincide in `records`, which is a set; the theorems only ask
whether one exists.

`lost` is a history variable: some process died with writes still to make, or
away from its checkpoint. No action reads it. Properties that need `~lost` say
so, and the runs marked *violation* show what happens otherwise.

**`BriefPins`** takes up what the other modules leave constant. `workflow` is
the row `save_workflow()` upserts, `snapshots`, `runs` and `pins` are the
tables beside it; a brief stands for its content hash. Each place of a process
is a point between two transactions: the upsert (`Start`, `Export`), the
comparison with the newest snapshot (`Compare`), its insertion (`Insert`), the
run's row (`OpenRun`; the capsule's row before it plays no part here), the pin
(`Pin`); then the reads of `_refuse_if_brief_drifted` (`ReadPin`, `ReadDated`
for a run without a pin, `MatchCurrent`) and, for `resume`, the brief loaded
after it (`LoadBrief`). `review` loads the brief before the check (`Review`),
and a graph loads it anew for every move (`Move`). `governed` records under
which briefs a run moved and `started` which one it was started with. `torn`,
`crossed` and `hasty` are histories too: a process died inside
`save_workflow()`; a save overlapped another save, a start, a check or a driven
graph; a run was checked by one process before another had pinned it.

**`WorkflowLifecycle`.** The tables are variables under the ledger's names;
`file` is the draft file with the maturity it claims. What a draft says is one
of the `Editions`, and `Content` gives its steps, gates and facts, so that the
rules, the gates of the ladder, the decision table and the export are
evaluated on it and none of their verdicts is an input. A command is a session
that names the write it comes to next: `store draft`, `store report`, `cite`,
`advance`, `look` (the lookup of an artifact), `insert`, `grant`, and so on.
The desktop's override is two commands' worth: the override is stored, then
the workflow assessed again. Abstractions: what a command reads before its
first write is one step; rows are ordered by their insertion, which the code
times just before; the ids of steps are distinct; prose is the set of words
the rules look for; tool lists, rationale texts and the reviewer's name are
left out, and `save_workflow()` at the end of an export is one step
(`BriefPins` has its two). `unvouched` is a history variable: versions whose
file claimed to be past OBSERVED, or whose row to MAPPED a death kept back.

**`AgentMaturity`.** `package` maps five of the ten file names to what is in
them, the five in which a maturity, a depth or an evaluation is written. A
promotion assesses, reads the files again and stages them, inserts its row,
and then replaces the files in the order of the code, the manifest last, one
step each; a rename is whole or not at all. A generation writes in place, so
a death may leave a truncated file. Recording an evaluation is one step: its
reads and its single insert do not interleave with anything it decides.
`overlapped` is a history: a command began while another was under way.

**`NodeStore`.** Every operation of the store loads the file, changes what it
loaded, empties the file (`OpenToWrite`) and writes it (`WriteText`): three
points between which other programs run and load. A command is the sequence
of operations the code strings together around a look at the network
(`Begin` gives it its `todo`); which of the permitted addresses answer, and as
which program, is a choice in `Look`. `told` remembers what people typed last,
`looked` what the last look at an address found, `disturbed` whether commands
overlapped or died; no action's effect depends on them but for the bound. `looked`
forgets a computer that is changed by hand, and one whose check is refused
before it was marked, since nothing new is put on its card
(`UnconfirmedForgotten`).
A file broken by hand is not modelled (every command refuses it); models and
host figures are left out.

## Runs

The constants of the first seven are a brief with three states: a move with
evidence, a move back and a CONSCIOUS or evidenced move to a terminal state; in `OperatorSessions`
two transitions join the same states, so that the first match matters.

| Run | Instance | Properties | Shows |
|---|---|---|---|
| `one_terminal` | 1 terminal, all commands, no attempt once 3 events are on the trail; 4.5 million states | `TypeOK`, `LedgerAgrees`, `CompletionMatchesBrief`, `CapsuleFollowsBrief`, `ConsciousMovesAreApproved` | commands one after another, a death at every point, resumes from every row combination a death leaves |
| `two_terminals` | 2 terminals (symmetric), run and resume, 3 events; 3.5 million states | `GovernedMoves`, `FailureIsExplained`, `RecordFollowsEvent`, `TrailCoversCapsule` | stale copies overwriting rows do not spoil the trail |
| `plain_operation` | 1 terminal, run and resume, 4 events; 0.3 million states | `StatusesAgree`, `ImplementsGovernedCapsule` | without the stand-alone commands the capsule is the abstract one, deaths included |
| `graph_runs` | 1 process, 5 graphs, 6 events, fair; 0.2 million states | `TypeOK`, `CursorFollowsCapsule`, `StatusesFollowGraph`, `ValidatedMovesExist`, `GatesCanBeDecided`, `GateMovesAreApproved`, `ImplementsGraphWalk`, `DrivenGraphRests` | work with retries, a node that does not move, gates first and last, work after the last move, a graph shorter than its brief, two graphs the brief refuses, resumes under any of the graph files |
| `brief_pins` | 2 processes and 2 briefs (symmetric), 1 run, 3 snapshots, one step back of the clock; 2.0 million states | `TypeOK`, `RunsKeepTheirBrief`, `PinNamesTheStart`, `RefusedForAReason`, `SnapshotsFollowBrief` | briefs edited, changed back and exported around a run that is started, resumed and reviewed |
| `review_unfreezes` | as `one_terminal` | `FrozenStaysFrozen` | *violation*, below |
| `graph_resume` | as `graph_runs`, 5 events | `ResumesWhereItStopped` | *violation*, below |
| `workflow_pipeline` | 1 terminal and 1 desktop, one command after the other, 96 drafts; 4 commands; 0.07 million states | `ReachableIsLeast`, `FlooredStepsWaitForAPerson`, `ExportedWorkCanFinish`, `OverridesSurviveReassessment` | every shape of three steps (a chain, a skip, a loop, an end behind a gate) with gates, recoveries and floors, from the draft to the brief |
| `workflow_lifecycle` | 1 terminal and 1 desktop that overlap and die, 3 editions of a file in 2 versions, claiming 3 maturities; 5 commands and edits; 2.7 million states | `TypeOK`, `ArtifactsAreAccountable`, `GrantsHaveArtifacts`, `ClimbedStepByStep`, `RowsRespectFloors` | promotions that race, edits under a promotion, accepted risks carried to a new version, overrides against changed facts |
| `agent_maturity` | 2 programs and 2 records (symmetric), 2 briefs, 3 cases, 3 runs to judge (one to go on from, one that made nothing, one that left no handoff); 3 promotions or generations, 3 evaluations; 2.0 million states | `TypeOK`, `FilesFollowTrail`, `TestedOnEvidence`, `CleanPackagesAreWhole` | swaps and generations that die or cross, evidence that comes and is withdrawn, checks that fail on a kind left open twice or a handoff with nothing in it |
| `unreviewed_evidence` | 1 program, 2 commands | `OnlyReviewedCasesCount` | *violation*, below |
| `node_store` | 2 programs (symmetric), 3 files to begin with (none; one computer; an ambiguous pair beside a computer of the other program), an address with and without a port and one that is refused; 3 commands one by one, 2 if they overlap or one dies; 2.3 million states | `TypeOK`, `ComputersStayApart`, `StoreIsTrue` | scans, confirmations, edits, forgetting and withdrawn consent around one another, a load of the emptied file |

**Bounds.** `MaxEvents` is the only one of the terminals and the graphs: no
attempt, review, start, resume or decision begins once the trail holds that many events; whatever has begun runs
to its end, and may be resumed. Three events are the creation and two moves,
or a move, a refusal and what follows from it; with the move back of the brief
this reaches the terminal state, a refusal after a move, a rejection after a
refusal, and every copy that can be stale about one of these. In the graph
runs six events are a whole walk of the longest graph, with a flag and a
refusal on the way and two deaths. Quantities other than events (attempts,
nodes, states) are small in the instances and unbounded or at the limits of
the schema in the modules.

`MaxSnapshots` of `BriefPins` closes saves of changed content once there is no
room for their snapshots; an unchanged brief may still be saved. Three
snapshots are a brief, an edit and the edit undone, the least in which comparing
with the newest snapshot and comparing with any of them differ. Runs do not
affect each other (they are looked up by id), so one is enough; two processes
are one that continues the run and one that saves. The clock is told once per
row and steps back once, to any earlier time, also before the first row.

`MaxCommands` of the newer modules counts commands begun (and, for the
workflow, edits of the file), each of which then runs to its end. Five let
a draft be promoted to MAPPED and to ACCOUNTABLE, edited, and promoted again
by a program that overlaps the first; in `workflow_pipeline` four are promote, assess, build and
export over a file that claims MAPPED (`Claims`), or an override in place of one of them. In `agent_maturity` three are a generation and the two
promotions; `MaxResults` is the three passing cases the code asks for, of which `MaxFailing` may fail
(one: a check that fails where it should leaves two, and the promotion is refused),
`CompleteBefore` one complete run short of what `validated` needs and
`MaxComplete` what it needs, so that the evidence is withdrawn and comes back.
(`CleanPackagesAreWhole` was also run for one program and five commands, where
an interrupted swap, an interrupted generation and another promotion follow
each other; its theorem has no bound.) `MaxDisturbed` of `NodeStore` replaces
`MaxCommands` once commands overlapped or one died: two commands that cross at
every one of their loads, emptyings and writes.

**Deadlock** is checked for the terminals and the pins: some command is always
possible. It is off elsewhere: after `MaxEvents` or `MaxCommands` nobody may
begin anything.

**Fairness.** `FairSpec` of `GraphRunner` asks weak fairness of what a process
does on its own: its writes, its adapter, its steps. A process is a Python
loop without locks or waits, so the operating system's scheduling is all this
asks; adapters have timeouts. Nothing is asked of people (`Start`, `Resume`,
`Decide`) or of deaths. `DrivenGraphRests` says that a process which drives a
graph comes to its end or to a question. No fairness is assumed elsewhere.

**Restrictions, and why they are there.** `LedgerAgrees`, `StatusesAgree` and
the graph properties are about one process at a time: with two, whole-row
overwrites break all of them (a second `resume` of the same run moves a copy
that is stale). This is what the code does, nothing in the documents promises
otherwise, and `two_terminals` checks what does survive. `graph` properties
that place the cursor assume a graph without cycles: `GraphSpec` refuses only
self-loops, `validate_against_brief()` looks at one lap, and a second lap may
be refused or never end. `StatusesFollowGraph` says nothing of the run of a
complete graph whose last node moves nothing: work after the last move that is
blocked and resumed leaves the run running, over a capsule and a graph that are
complete. `CapsuleFollowsBrief` holds for one terminal at a
time with any deaths; it is false for two. `RunsKeepTheirBrief` and
`SnapshotsFollowBrief` say `~torn /\ ~crossed`, and neither conjunct can be
dropped: TLC then finds an edited brief that governs a run, as described
below. `StoreIsTrue` says `~disturbed`: two programs that load and save one
file without a lock do lose each other's updates, and a load of the emptied
file finds no computers and no consent; `ComputersStayApart` is what survives
even so. `CleanPackagesAreWhole` says `~overlapped`: two promotions at once
may leave the log of one and the manifest of the other.
`OverridesSurviveReassessment` holds for one command after the other only
(`Overlap = FALSE`), since an assessment reads the stored overrides before it writes.
`ClimbedStepByStep` excludes `unvouched` versions, for the reasons given below.
`GatesCanBeDecided` is checked of graphs whose gates have transitions. `ExportedWorkCanFinish` excludes drafts with an
`on_approve` route, which counts as a way on for the rules and is not
exported. `FlooredStepsWaitForAPerson` is checked of a workflow that is not edited and in
which no person bears the name of an agent (`FactsStand`, `NamesApart`).

### What the violations show

1. `review` looks at the state of a capsule and never at its status
   (`src/cli.py:548`): a capsule that a reviewer rejected is reviewed again,
   approved, and moves. `CapsuleStatus` says it is frozen.
2. `_advance` commits the capsule's move before the checkpoint is saved
   (`src/kernel/kernel.py:246`). A process that dies between them resumes at
   the node it has executed; the state machine refuses the move, freezes the
   capsule and fails the graph. The kernel's docstring promises to resume
   exactly where it stopped.
3. `assess()` of `src/governance/maturity.py` counts every case whose recorded
   result passed; the flag by which a person says that a case was reviewed
   (`src/schemas/eval_case.py`) is read nowhere. The schema says that only
   reviewed cases count.

### Met while modelling

No run is about these; they are what the code does, seen while its definitions
were translated.

- **Runs and graphs.** A death between saving a COMPLETE capsule and
  its run strands the run as running for ever, because the loop leaves at once;
  a refusal for missing evidence never saves `non_conformance_path`; `review`
  offers the evidence of the previous transition as that of the next; a process
  that dies inside `save_workflow()`, after the brief is upserted
  (`src/runtime/ledger.py:529`) and before its snapshot is inserted (540), leaves
  an edited brief in effect that the drift check cannot see, because the newest
  snapshot is still the old one: the pin matches, and the run goes on under the
  edited brief. A save that overlaps the check (between `src/cli.py:411` and the
  load) or a graph being driven does the same. Missing evidence raises the same exception as an invalid move and fails the graph
  (`src/kernel/kernel.py:247`), while capsule and run stay open and the comment
  says they are frozen. A gate that performs no transition, which the schema and
  `decide()` allow, pauses the graph at a question `_drive_graph` cannot ask
  (`src/cli.py:896`). A run resumed from another process between its row and its
  pin, after the clock stepped back, is refused as one without a snapshot.
- **Drafts and promotions.** The id of a finding is its rule and its place, so
  an acceptance is carried to a step whose text was edited, against the
  docstring of `reattach_acceptances`. `validate --save`, `accept-risk` and
  import store the file's own maturity: a stored MAPPED draft falls back to
  OBSERVED and is granted MAPPED again. A file that claims ACCOUNTABLE is
  believed: that is the only way to COOPERATION_READY, and it needs no
  artifact of the rung below. A file that claims
  MAPPED and has no step passes every criterion of ACCOUNTABLE (the one that asks for a
  step, `src/governance/workflow_promotion.py:285`, is asked for MAPPED only) and
  ends in an uncaught `ValidationError` of the artifact's schema
  (`src/schemas/human_workflow.py:591`), after its report is stored and before any row
  (`Uninsertable`).
- **Cooperation and export.** Assessments name the workflow and not its
  version: those made of one version assign and export the next, past a floor
  only the new one has, and the newest cooperative workflow may be approved for
  another version. The desktop judges an override against the stored row and
  saves it before the re-assessment that may refuse it; the command line judges
  it against a fresh one. The exception path of a gated step is exported as a
  GUIDED move of the step itself, around the state that waits for a person. An
  actor whose name is that of an agent of the brief (`open-agent` beside a step `open`)
  makes the export raise an uncaught `ValidationError` where the actor's move is CONSCIOUS;
  a GUIDED move is exported as that agent's, past a floor (*Floors reach the brief*
  below). `_undefined()` takes "tbd" for undefined where the gates of
  the ladder only strip blanks.
- **Packages.** `_commit_staged_files` says that a retry after a crash between
  two replacements would put its row on the trail twice; the validator refuses
  that retry, since the files disagree. A row is repeated after a death before
  the first replacement, or by two promotions at once. A swap that dies after
  `evals.yaml` and a generation that dies before it leave a draft with passing
  evals that validates, and a log that names `tested` twice after the next
  promotion. A truncated learning log is not noticed. Evidence gathered before
  a package is generated from another brief still counts. The generator may
  refuse a second agent after it has overwritten the package of the first.
- **Computers.** `upsert` says that two computers never share an address; an
  edit of the program of a record written by hand without a port is not
  compared with the others and may make a pair. An edit of an address keeps
  what the last look at the old one found. A check of a computer at a host
  where the look also finds another program, whose address two records share,
  is refused (`src/gui/services/nodes.py:503`) and marks nothing, although the
  computer it was about did not answer: its card keeps saying that it does.
  `StoreIsTrue` claims nothing of such a computer. A program that loads between the
  emptying and the writing sees no computers and no consent, and what it writes
  back loses everything; the desktop keeps its own writers apart, the command
  line beside it is not kept.

### Mutants

Every property of a passing run has a mutant: a form of an operation that a
plausible slip would give (the run row forgotten, the gate resolved after the
move, a graph accepted without its hash, an attempt not counted, a carried
override not judged again, the manifest replaced first), under which
TLC finds the property violated. They stand beside the operations they change,
marked *Mutant*, and no specification uses them.

## Proofs

Each theorem is about every value of the constants that the named assumptions
allow: any brief and any graphs, any sets of processes, no bound on events,
snapshots or commands. What a theorem assumes beyond that is in the last column.

| Module | Theorem | States | Where |
|---|---|---|---|
| `OperatorSessions_proofs` | `TypeCorrect` | `TypeOK`, `TypeInv` | |
| | `LedgerStaysSound` | the conjunction of the four below | |
| | `MovesAreGoverned` | `GovernedMoves` | |
| | `FailuresAreExplained` | `FailureIsExplained` | |
| | `RecordsFollowEvents` | `RecordFollowsEvent` | |
| | `CompletionFollowsBrief` | `CompletionMatchesBrief` | |
| | `TrailAlwaysCoversCapsule` | `TrailCoversCapsule` | |
| | `LedgerAlwaysAgrees` | `LedgerAgrees` | one terminal |
| | `CapsuleAlwaysFollowsBrief` | `CapsuleFollowsBrief` | one terminal |
| | `ConsciousMovesAlwaysApproved` | `ConsciousMovesAreApproved` | one terminal |
| | `StatusesAlwaysAgree` | `StatusesAgree` | one terminal, `Commands = {}` |
| | `RowsImplementGovernedCapsule` | `ImplementsGovernedCapsule` | one terminal, `Commands = {}` |
| `GraphRunner_proofs` | `TypeCorrect` | `TypeOK` | |
| | `CheckpointsWalkTheGraph` | `ImplementsGraphWalk` | one process |
| | `GatesAreApproved` | `GateMovesAreApproved` | one process |
| | `StatusesStayTogether` | `StatusesFollowGraph` | one process |
| | `CapsuleKeepsUp` | `CursorFollowsCapsule` | one process, graphs without cycles |
| | `ValidatedGraphsMove` | `ValidatedMovesExist` | one process, graphs without cycles |
| | `GatesAreDecidable` | `GatesCanBeDecided` | one process, graphs without cycles whose gates name a transition |
| `BriefPins_proofs` | `PinTypesCorrect` | `TypeOK`, `TypeInv` | |
| | `PinsNameTheStart` | `PinNamesTheStart` | |
| | `RefusalsAreReasoned` | `RefusedForAReason` | |
| | `SnapshotsTrackBrief` | `SnapshotsFollowBrief` | |
| | `RunsStayUnderTheirBrief` | `RunsKeepTheirBrief` | |
| `WorkflowLifecycle_proofs` | `TypeCorrect` | `TypeOK` | |
| | `RowsAlwaysRespectFloors` | `RowsRespectFloors` | |
| | `ArtifactsAlwaysAccountable` | `ArtifactsAreAccountable` | |
| | `GrantsAlwaysHaveArtifacts` | `GrantsHaveArtifacts` | |
| | `AlwaysClimbedStepByStep` | `ClimbedStepByStep` | |
| | `DecisionsAlwaysStand` | `OverridesSurviveReassessment` | `Overlap = FALSE` |
| | `ReachableAlwaysLeast` | `ReachableIsLeast` | |
| | `ExportedWorkCanAlwaysFinish` | `ExportedWorkCanFinish` | |
| | `FlooredStepsAlwaysWait` | `FlooredStepsWaitForAPerson` | `FactsStand`: no edit changes what a step of some name is like; `NamesApart`: no person bears an agent's name |
| `AgentMaturity_proofs` | `TypeCorrect` | `TypeOK` | |
| | `FilesAlwaysFollowTrail` | `FilesFollowTrail` | |
| | `TestedAlwaysOnEvidence` | `TestedOnEvidence` | |
| | `CleanPackagesAlwaysWhole` | `CleanPackagesAreWhole` | |
| `NodeStore_proofs` | `TypeCorrect` | `TypeOK` | a file that is well kept at first |
| | `ComputersAlwaysApart` | `ComputersStayApart` | a file that is well kept at first |
| | `StoreStaysTrue` | `StoreIsTrue` | a file that is well kept at first |

The restrictions to one process, to commands that do not overlap, to edits
that leave the facts of a step alone, and to people who bear no agent's name are not
for the provers' sake: without them
TLC finds each property violated (see *Restrictions* above, and *Floors reach
the brief* below), and the runs use the same constants. Nor are those on
graphs: where a step of the walk leads back to a node (`Straight` excludes
it), the second lap finds the capsule in another state than the one the check
compared, and TLC finds all three properties violated; and a gate that names no
transition (`GatesMove`) asks a person about nothing. Neither is a fact about
the code, which accepts both: the theorems carry them as hypotheses, and
`GraphsAreStraight` has TLC evaluate them of the graphs of the runs. *Well kept*
(`WellKept`) is what `load()` does not check of a file somebody wrote by hand:
that it does not permit the local network, which no command can ask for, that no address would
have been refused when typed, no id is one the runtime resolves by itself, and
of two computers at one address one names no port. The files the run begins
with are such files, and every file the programs write is.

**Assumptions.** `BriefAssumption` (what the brief's validators check),
`GraphsAssumption` (what the schema of a graph checks), `SessionsAssumption`;
`NoneAssumption`, `GraphNoneAssumption`, `OutlineAssumption`, `PinsAssumption`
(a missing row is no row, nor what an abstract specification sees of one);
`EndpointsAssumption` (the runtime resolves finitely many names by itself),
`StoredAssumption` (what `load()` accepts of a file), `TypedAssumption` (what is
typed parses into a host, a port and a form);
`TargetsAreClasses` (an override names a class), `ContentIsWorkflows` (a draft
is made of lists and scores, which its schema checks, and no two steps have the
same id, which the schema only describes: `WorkflowStep.step_id`, "unique within
the workflow"; the commands take the first step of a name),
`ClaimsAreRungs` (a file claims a rung of the ladder, or its schema refuses
it), `BriefsAssumption` (what the schema of a brief lets through), and the bounds
are numbers (`MaxCommandsAssumption`, `BoundsAssumption`). TLC evaluates all of
them in the runs.

### Runs and capsules

**Types.** `TypeOK` is not inductive: an action that reads the copy of a
terminal needs to know the copy is there. `TypeInv` adds `Loaded`, what a
terminal holds at each place, and `Present`: a capsule is saved before its
run, and until the run is saved only the terminal that starts it is busy.

**Soundness.** The four safety properties speak of rows, and rows come from
copies that may be stale and from series of writes that may be cut anywhere.
The invariant `SoundInv` therefore speaks of each terminal alone: the writes
it has still to make are `Sound` given what the ledger holds, and a failed run
in its memory is explained or will be. `Sound` is a property of a series of
writes and two growing sets. `SoundGrows` says that it survives whatever others
append, `SoundTail` that it survives the commit of its first write, and one
lemma per operation of `WorkflowRuntime` says that the operation's series is
sound. That the rows of a terminal are overwritten by others does not matter,
because no clause compares two rows: this is the reason these four properties
hold with any number of terminals.

**The trail covers the capsule.** The same argument for `TrailCoversCapsule`:
`CoverInv` says that the trail, counting what is still to be written, covers
not the row alone but every copy a terminal holds or is about to save. A copy
was read from a row that was covered, and the trail only grows as long as
nobody dies half way.

**One terminal.** The others compare rows and so need to know what the pending
writes make of them. `OneInv` names the two rows that will be there once the
terminal has written everything (`Sets`, `LeadsTo`), and says what holds of
them: what the terminal remembers is one of them, the capsule now there and the
one to come are the same or one declared move apart, and unless someone died
half way the two rows and the last move tell the same story. A death leaves the
rows at any prefix of the series, so the clauses about what is declared hold
of every prefix, and those about agreement are dropped (`gone`). Each operation
has a lemma that says where its series leads. `ApprovedInv` says that a series
that records a CONSCIOUS move finds the run approved, or writes the approval
before the move.

**The refinement.** `RowsImplementGovernedCapsule` is read off `OneInv`: the
capsule's row changes only when the first write of a series is the capsule's,
and then from the row of the invariant to the next one, which is a creation, a
move, a completion or a freezing of `GovernedCapsule`.

### Graphs

`TypeInv` of `GraphRunner` says for every place of a process what it holds, and
which writes a process that starts a graph has still to make (`Begun`).
`FollowInv` relates the checkpoint in memory to the row: equal while the process
asks a person or is between two nodes; a step of the graph away from it while
the write of the checkpoint is pending; at the same place, and allowed to
pass, while the capsule is being moved. A commit that is not the checkpoint's
stutters, the checkpoint's is the step (`CheckpointsWalkTheGraph`). `Approved`
adds that whoever passes a gate has the approval on record, or writes it before
the move, and `AgreeInv` follows the two statuses through the pending writes
as `OneInv` does. These are proved for one process; `TypeCorrect` for any
number.

**The capsule keeps up.** `validate_against_brief()` follows the graph from its
first node and computes the state it expects of the capsule at each; the runner
follows the same nodes with a capsule, checkpoints, retries and deaths.
`CursorInv` says that the two agree: the capsule as it will be once the pending
writes are made is where the walk has it on arrival at the cursor, or has just
left it while the process is between the move and the next node, or where the
graph is complete; and that no record of a missing move is written or waiting to
be (`Keeps`). While the process is at a node the check has compared, the move of
that node is therefore one the brief has (`Possible`), and the only writes that
could break the agreement are those after a death between the two saves, which
set `lost`. A resume begins at a checkpoint that agreed.

The walk (`Walk`) and the states along it (`Expected`) are recursive functions.
That a recursive function over `1 .. n` is what its definition says is
`RecursionUnfolds` of `Numbers_proofs`, by an induction up to `n` (`UpTo`) that
rests on `LeastNumber`: a set of counterexamples would have a least one. That the
cursor never leaves the part of the graph the check looked at is
`WalkGoesOn`: a straight walk passes no node twice, so by the pigeonhole
principle it has not used up its turns while there is a next node
(`WalksAreShort`); and a node is met at one position only (`WalkMeetsOnce`), so
that *the* state on arrival means something.

### Briefs and pins

`TypeInv` of `BriefPins` adds what a process holds at each place and
`Grounded`: no process stands anywhere and no run has a row before a brief is
in effect, and a run without a row has no pin. `BriefAtType` needs that among
the snapshots dated early enough there is a latest one: `GreatestNumber`, once
for the dates and once for the numbers of those with the greatest date.
`PinNamesTheStart` is not inductive, since `Pin` writes what a process
remembers. `StartedAlone` adds that a run being started belongs to one process,
has no pin yet, and once its row is there was started with that process's
brief; the ids of runs are new, so no second process can start the run.

`DateInv`: as long as the clock only went forward, snapshots and runs are dated
in the order in which they were written, and none later than the clock.
`ReasonInv` says what a process at each place of the check has already learnt;
a date that yields nothing then means a clock that stepped back. `SaveInv`
says, for saves that are neither torn nor crossed, how the brief in effect and
the newest snapshot differ at each place of a save. `KeepInv` says that a run
can be recognised: it has its pin, or its date still finds the snapshot it
began under (`Dated`), and whoever is past the check holds the brief it was
started with.

### Workflows

**Floors.** That a fresh assessment is under every floor it hits is a lemma
about the decision table (`AssessedUnderFloors`, from `BindingFloorBinds`: the
most restrictive floor is there and binds), that a permitted override stays
there another. `FloorInv` adds the rows a program holds between reading and
storing; it needs `TargetsAreClasses`.

**Artifacts and grants.** `PromotionInv` says what a promotion holds at each of
its places: a report on its own draft, free of blocking findings, each cited
risk on record and once. Reports are built from the record of acceptances as
it was then, which is enough because it only grows; that the oldest acceptance
of a finding exists needs `LeastNumber`. Two programs may both find no
artifact; `GrantsAlone` is what the table's key makes of it: a program that
stands before its row has its artifact, is the only one for that version and
rung, and no such row is there. Without it `GrantsHaveArtifacts` is not
inductive, since `Grant` looks at nothing.

**One step at a time.** `ClimbInv` follows a claim from the file through the
drafts and the programs: wherever a draft stands at MAPPED, its version is
*vouched for* by its row, by a program that is about to write that row, or by
its being in `unvouched`. A step keeps what vouches for a version unless it
leaves the place before the row (`VouchingStays`), and then it has written the
row, or died and marked the version. A draft that is stored again as the file
has it is at OBSERVED or marked, so falling back does no harm.

**Decisions.** `DecidedInv` says that rows about to be stored keep every
override on record. They are assessed with the overrides read, or the one
override replaced; the facts of the edition may refuse one, and then the
command stores nothing. Another command's store in between is what
`Overlap = FALSE` excludes.

**Types** follow from `ClimbInv` and what a command holds at each place: that a
row's target is a rung needs that nobody promotes beyond the last one, and that
the draft under promotion stands where its row says.

**Reachable steps.** `ReachableFromEntry` unfolds its worklist over a fixed
number of turns; the theorem is that these are enough and that what they find is
the least set. A turn takes one entry off the list and, when it names a step not
seen before, adds that step's routes, so the entries on the list and the routes
of steps still unseen are together one fewer after each turn (`TurnsTakeEffort`),
and there were no more than `Turns` of them (`WorklistEnds`). What is found is
closed because every route of a step seen is seen or still on the list
(`TurnVisits`), and least because nothing on the list is outside any closed set
that holds the entry (`TurnStaysWithin`). A walk over the numbers from 0 stands in for
induction (`UpFromZero`, from `LeastNumber`). The lists of routes are
flattened; `ListsFlatten` says once what is in such a list.

**The brief leads to its end.** `ExportFinishes` is about one workflow and its
export: the states that can be reached from the first one are closed
under the moves of the export (`EndsFollow`: as many rounds as there are states are
enough, because a round that adds nothing is the last). The moves are, as a set, every
route of the draft but a gate's `on_approve`, by way of the waiting state where a
step has one (`TransitionsAre`). So the steps whose states are reached are closed
under routes (`FollowedStepsAreClosed`) and hold everything the worklist found;
HW-002 found a step there that ends the work (`SomeStepEnds`), and from it the export
moves to the end. `FinishInv` carries this to the brief on file: a program between the
reading of an accountable workflow and the saving of its brief holds an export that
finishes, and the newest artifact has no blocking finding (`PromotionInv`).

**Floors reach the brief.** A row is about a step's name and not about a version of
the workflow. `FlooredInv` says that whatever rows are on file or about to be stored,
and whatever assignments were built of them, are true of every edition a command can
still read: the row has the facts and the authority of the step of that name, in each of
them (`TrueRows`, `TrueAssignment`). Where a floor applies such a row gives the step to
a person or to an agent behind a gate, overridden or not (`FlooredExecutors`), and
every move the export makes of it is that person's, or goes to where the step waits, from
where a person lets it go on (`ExportWaits`). The hypothesis `FactsStand` says that the editions agree about
each step of one name, or that nobody edits the file. It is needed: TLC finds the property
violated when the edited file adds a floor to a step that was given to an agent behind no gate
before, since the old row assigns the new step. `FactsAlwaysStand` has TLC evaluate
it in `workflow_pipeline`, which edits nothing; the theorem also holds of edits that change
routes, gates, owners, actors and texts. A brief tells an agent from a person by name
only: an owner it does not list among its agents is treated as a human
(`TreatedAsHuman`), and the export names the agent of a step after the step. So the
argument carries that agents bear such names (`AgentNames`, in `TrueAssignment` and
`Waits`) and that nobody who acts or recovers does (`PeopleOwn`), which is the hypothesis
`NamesApart`. Nothing in the code ensures it, and it is needed as well: TLC finds the
property violated when the actor of an irreversible step, which an override leaves to
that person with an assistant, is called like the agent of another step.
`NamesAreApart` has TLC evaluate it in `workflow_pipeline`.

### Packages

`TrailInv` adds what each program holds: staged files
claim only what the trail records once the row is in, and a generation claims
nothing. `EvidenceInv` ties the row to `tested` to evaluations that were
there before, which are never taken back, and each to what the checks found: a handoff that passed
was there and had artifacts (`PassedHandoff`). The model keeps the run of a result only where its
handoff is judged (`Judged`), since nothing else is asked of it. `WholeInv` is about commands that do not overlap:
which writes the one under way has made, in the order of the code, and that
until the last of them `SKILL.md`, written first, and the manifest, written
last, disagree, so that the validator speaks up wherever it dies. The types
need it that a staged file is typed because the files it was made from are.

### Node store

**Computers apart.** Programs lose each other's updates, so nothing can be said
about which computers are on file; what can be said is that every list of
computers anywhere is well kept. `StoreInv` says so of the file, of the text
each program is about to write, and of the findings in its list of operations.
A finding names its port, so it is merged into the only computer at its
address or filed under a free id: there is one among as many numbers as there
are ids and one more (`FreshId`, by the pigeonhole principle and
`LeastNumber`). An edit of an address is compared with the others; an edit of the
program moves only a computer that names no port (`EditedOK`). An emptied file
is well kept, and a death changes no list.

**What the store says.** `StoreIsTrue` speaks of moments when nobody is busy;
between them the file lags behind. `TrueInv` says that at most one program is
busy, and what holds of the file as it will be once that program has saved
(`Coming`): what was typed is declared and as it was typed (`KeptIn`), and the
operations still to do are one of the shapes a command can have left
(`PlanOK`). A look leaves at most two findings and a confirmation. As long as they
are on the list, a look is either on the card of its computer, or a finding at
that address is still to be filed, or a confirmation will find the computer not
refreshed (`Owed`); and the confirmation will find it refreshed if it answered
(`Confirms`), because findings carry the time of this look, which no card on
file has. Before the look every card says what the looks found (`Settled`), and
the permission on file is the look's. A claim is made only of a computer that
is alone at its address (`Claimed`), and `ClaimStays` and `OwedOver` carry the
claims over a change of one computer. A finding refused as ambiguous drops the
confirmation, and with it the claim it owed (`RefusalLeaves`).

### Only model-checked

Every invariant of the runs that expect no violation is stated by a theorem.
What is left to TLC:

- `DrivenGraphRests`: liveness under fairness.
- The three violations, which are what the code does.

## Not modelled

See the components of `PROJECT.json` with status `not_modelled` or `partly`.
Rendering (handoffs, tables, the desktop app's views), network probes, model
calls and JSON Schema export are left out for good: they compute text, or talk
to something TLA+ would have to invent. The adapter to the external scorer
turns a report into results of the kind `eval run` stores. Bundles and
signatures refuse before any row is written, so the graph runner stands for a
runtime with enforcement off; a bundle is a copy of files with their digests,
and the keys are one file that a person edits through two commands. A failing
write of a handoff after the rows are saved is a `Die`.

## Plan

1. *done* `WorkflowRuntime`, `OperatorSessions`, `GovernedCapsule` and their
   proofs; `GraphRunner`, `GraphWalk`.
2. *done* `BriefPins`, with its types and `PinNamesTheStart` proved.
3. *done* `WorkflowRules`, `Cooperation`, `WorkflowExport` and
   `WorkflowLifecycle`; floors, artifacts, grants, the ladder, the worklist and
   the export proved.
4. *done* `AgentPackages`, `GovernanceChecks`, `AgentMaturity`; its three
   safety properties proved.
5. *done* `Nodes`, `NodeStore`; its three properties proved.
6. Left to model, if it is wanted: trust and bundles (see above).

Theorems next: abstract specifications of a package's maturity and of a workflow's
ladder, and the steps of `AgentMaturity` and `WorkflowLifecycle` as theirs; more than
one process in `GraphRunner`, as far as anything survives it.
