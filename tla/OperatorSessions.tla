------------------------- MODULE OperatorSessions -------------------------
(***************************************************************************)
(* People driving one run from terminals: the commands `run`, `resume`,    *)
(* `review`, `runs block` and `runs complete` of src/cli.py over the       *)
(* ledger of src/runtime/ledger.py.                                        *)
(*                                                                         *)
(* Each terminal is a process.  A command reads rows into memory, works on *)
(* its copies for as long as the person takes to answer the prompts, and   *)
(* writes whole rows back, one transaction per write.  Nothing locks a run *)
(* and no row carries a version, so the copies of two terminals may both   *)
(* be stale.  A process may die between any two writes; what it wrote      *)
(* stays, what it held in memory is gone.                                  *)
(*                                                                         *)
(* The module follows one run and its capsule: rows are keyed by run id    *)
(* and by capsule id and no command touches the rows of two runs.          *)
(***************************************************************************)
EXTENDS WorkflowRuntime

CONSTANTS
    Sessions,   \* the terminals
    Commands,   \* which of "review", "block" and "complete" people use
    MaxEvents   \* bound: no attempt starts once ledger holds this many

ASSUME SessionsAssumption ==
    /\ Sessions # {}
    /\ Commands \subseteq {"review", "block", "complete"}
    /\ MaxEvents \in Nat

\* Nor is None what a capsule looks like from outside.
ASSUME OutlineAssumption == None \notin [state: States, status: CapsuleStatus]

VARIABLES
    capsule,    \* the row of capsules, or None
    run,        \* the row of runs, or None
    events,     \* ledger, append-only
    records,    \* non_conformance_records; equal breaches coincide
    session,    \* what each terminal holds in memory
    lost        \* history: a process died with writes still to make

rows == <<capsule, run, events, records>>
vars == <<capsule, run, events, records, session, lost>>

\* Where a terminal can stand.  "prompt", "artifact" and "gate" wait for a
\* person; "resuming", "reviewing", "reloading" and "rereading" are between
\* two reads; "leaving" has only its writes left.
Places == {"idle", "prompt", "artifact", "gate", "resuming", "reviewing",
           "reloading", "rereading", "leaving"}

Session == [at: Places, command: {"none", "loop", "review"},
            capsule: ProcessCapsule \cup {None},
            run: RuntimeState \cup {None},
            to: States \cup {None}, evidence: Evidence, todo: Seq(Write)]

Idle == [at |-> "idle", command |-> "none", capsule |-> None, run |-> None,
         to |-> None, evidence |-> 0, todo |-> <<>>]

Init ==
    /\ capsule = None
    /\ run = None
    /\ events = <<>>
    /\ records = {}
    /\ session = [s \in Sessions |-> Idle]
    /\ lost = FALSE

-----------------------------------------------------------------------------
(* Helpers *)

\* Terminal s stands at a place and has nothing left to write.
Ready(s, place) == session[s].at = place /\ session[s].todo = <<>>

\* A process with nothing left to do ends.
Settle(m) == IF m.at = "leaving" /\ m.todo = <<>> THEN Idle ELSE m

\* Mutant: a frozen capsule does not end the loop.
LoopHeadThawed(c) ==
    IF c.status = "COMPLETE" \/ Terminal(c.state) THEN "leaving" ELSE "prompt"

\* The loop goes on until the capsule is complete, frozen or out of moves.
LoopHead(c) ==
    IF c.status \in {"COMPLETE", "NON_CONFORMANCE"} \/ Terminal(c.state)
    THEN "leaving" ELSE "prompt"

\* Terminal s holds m in memory from now on.
Become(s, m) == session' = [session EXCEPT ![s] = m]

\* Where a terminal goes once an attempt has been written down: the loop
\* reloads its copies after a refusal, and a review ends either way.
AfterAttempt(command, raised) ==
    IF command = "review" THEN "leaving"
    ELSE IF raised THEN "reloading" ELSE "artifact"

\* Terminal s takes over the result of an operation and has its writes to make.
Carry(s, out) ==
    Become(s, [session[s] EXCEPT
                   !.at = AfterAttempt(session[s].command, out.raised),
                   !.capsule = out.capsule, !.run = out.run,
                   !.to = None, !.evidence = 0, !.todo = out.writes])

\* A review gate opens over the copy r of the run.
OpenGate(s, r, to, evidence) ==
    Become(s, [session[s] EXCEPT
                   !.at = "gate", !.to = to, !.evidence = evidence,
                   !.run = EnterHumanReview(r),
                   !.todo = <<SaveRun(EnterHumanReview(r))>>])

\* A command that reads the run, changes it and writes it back.
RewriteRun(s, r) ==
    Become(s, [Idle EXCEPT !.at = "leaving", !.todo = <<SaveRun(r)>>])

Bounded == Len(events) < MaxEvents

-----------------------------------------------------------------------------
(* Commits: the first write of a terminal reaches the ledger *)

Committing(s, table) ==
    /\ session[s].todo # <<>>
    /\ Head(session[s].todo).table = table
    /\ Become(s, Settle([session[s] EXCEPT !.todo = Tail(session[s].todo)]))
    /\ UNCHANGED lost

CommitCapsule(s) ==
    /\ Committing(s, "capsules")
    /\ capsule' = Head(session[s].todo).value
    /\ UNCHANGED <<run, events, records>>

CommitRun(s) ==
    /\ Committing(s, "runs")
    /\ run' = Head(session[s].todo).value
    /\ UNCHANGED <<capsule, events, records>>

CommitEvent(s) ==
    /\ Committing(s, "ledger")
    /\ events' = Append(events, Head(session[s].todo).value)
    /\ UNCHANGED <<capsule, run, records>>

CommitRecord(s) ==
    /\ Committing(s, "non_conformance_records")
    /\ records' = records \cup {Head(session[s].todo).value}
    /\ UNCHANGED <<capsule, run, events>>

-----------------------------------------------------------------------------
(* `run` and `resume` *)

\* Mutant: a second start reuses the ids of the first.
StartRunOverRun(s) ==
    /\ \A t \in Sessions : session[t] = Idle
    /\ Become(s, [Idle EXCEPT !.at = LoopHead(NewCapsule), !.command = "loop",
                              !.capsule = NewCapsule, !.run = NewRun,
                              !.todo = StartWrites])
    /\ UNCHANGED <<rows, lost>>

\* A start that dies before the run is saved leaves a capsule nobody can
\* reach; the next start makes a capsule of its own.
StartRun(s) ==
    /\ run = None
    /\ \A t \in Sessions : session[t] = Idle
    /\ Become(s, [Idle EXCEPT !.at = LoopHead(NewCapsule), !.command = "loop",
                              !.capsule = NewCapsule, !.run = NewRun,
                              !.todo = StartWrites])
    /\ UNCHANGED <<rows, lost>>

\* resume_run loads the run first ...
Resume(s) ==
    /\ session[s] = Idle
    /\ run # None
    /\ Become(s, [Idle EXCEPT !.at = "resuming", !.command = "loop", !.run = run])
    /\ UNCHANGED <<rows, lost>>

\* ... then the capsule, and saves the run if it was blocked.  A finished
\* run has nothing to resume.
ResumeCapsule(s) ==
    /\ Ready(s, "resuming")
    /\ LET r == session[s].run
           finished == r.status \in {"complete", "failed"}
       IN  Become(s, Settle([session[s] EXCEPT
               !.at = IF finished THEN "leaving" ELSE LoopHead(capsule),
               !.capsule = capsule, !.run = ResumeRun(r),
               !.todo = IF r.status = "blocked"
                        THEN <<SaveRun(ResumeRun(r))>> ELSE <<>>]))
    /\ UNCHANGED <<rows, lost>>

\* The person picks a next state and types evidence, or leaves it blank.  A
\* CONSCIOUS transition opens a review gate first.
Attempt(s) ==
    /\ Ready(s, "prompt")
    /\ Bounded
    /\ LET m == session[s]
       IN  \E i \in TransitionsFrom(m.capsule.state) :
               LET to == Transitions[i].to
                   governing == Governing(m.capsule.state, to)
               IN  \E evidence \in {0, governing} :
                       IF Transitions[governing].conscious
                       THEN OpenGate(s, m.run, to, evidence)
                       ELSE Carry(s, Advance(m.capsule, m.run, to, evidence))
    /\ UNCHANGED <<rows, lost>>

\* After an attempt that was not refused the person may attach an artifact,
\* which saves the copy of the run once more.
AttachArtifact(s) ==
    /\ Ready(s, "artifact")
    /\ LET m == session[s]
       IN  \E todo \in {<<>>, <<SaveRun(m.run)>>} :
               Become(s, Settle([m EXCEPT !.at = LoopHead(m.capsule), !.todo = todo]))
    /\ UNCHANGED <<rows, lost>>

\* After a refusal the loop reloads the capsule, then the run.
ReloadCapsule(s) ==
    /\ Ready(s, "reloading")
    /\ Become(s, [session[s] EXCEPT !.at = "rereading", !.capsule = capsule])
    /\ UNCHANGED <<rows, lost>>

ReloadRun(s) ==
    /\ Ready(s, "rereading")
    /\ Become(s, Settle([session[s] EXCEPT
           !.at = LoopHead(session[s].capsule), !.run = run]))
    /\ UNCHANGED <<rows, lost>>

Quit(s) ==
    /\ Ready(s, "prompt")
    /\ RewriteRun(s, BlockRun(session[s].run))
    /\ UNCHANGED <<rows, lost>>

-----------------------------------------------------------------------------
(* `review` *)

Review(s) ==
    /\ "review" \in Commands
    /\ session[s] = Idle
    /\ run # None
    /\ Become(s, [Idle EXCEPT !.at = "reviewing", !.command = "review",
                              !.capsule = capsule])
    /\ UNCHANGED <<rows, lost>>

\* The evidence offered is the one the capsule carries; a person is asked for
\* more only when the transition needs some and the capsule carries none.
\* Neither the status of the capsule nor that of the run is looked at.
OfferedEvidence(c, governing) ==
    IF c.evidence = 0 /\ Transitions[governing].evidence
    THEN {0, governing} ELSE {c.evidence}

OpenReview(s) ==
    /\ Ready(s, "reviewing")
    /\ Bounded
    /\ LET c == session[s].capsule
       IN  \E i \in TransitionsFrom(c.state) :
               LET to == Transitions[i].to
               IN  \E evidence \in OfferedEvidence(c, Governing(c.state, to)) :
                       OpenGate(s, run, to, evidence)
    /\ UNCHANGED <<rows, lost>>

NothingToReview(s) ==
    /\ Ready(s, "reviewing")
    /\ Terminal(session[s].capsule.state)
    /\ Become(s, Idle)
    /\ UNCHANGED <<rows, lost>>

\* The decision at a gate, opened by `review` or by the loop.
Decide(s) ==
    /\ Ready(s, "gate")
    /\ LET m == session[s]
       IN  \E decision \in {"APPROVE", "REJECT", "FLAG"} :
               Carry(s, ApplyDecision(m.capsule, m.run, m.to, m.evidence, decision))
    /\ UNCHANGED <<rows, lost>>

-----------------------------------------------------------------------------
(* `runs block`, `runs complete`, and the end of a process *)

RunsBlock(s) ==
    /\ "block" \in Commands
    /\ session[s] = Idle
    /\ run # None
    /\ RewriteRun(s, BlockRun(run))
    /\ UNCHANGED <<rows, lost>>

RunsComplete(s) ==
    /\ "complete" \in Commands
    /\ session[s] = Idle
    /\ run # None
    /\ RewriteRun(s, CompleteRun(run))
    /\ UNCHANGED <<rows, lost>>

\* The window is closed, the machine stops: at any point.
Die(s) ==
    /\ session[s] # Idle
    /\ lost' = (lost \/ session[s].todo # <<>>)
    /\ Become(s, Idle)
    /\ UNCHANGED rows

Commit(s) == CommitCapsule(s) \/ CommitRun(s) \/ CommitEvent(s) \/ CommitRecord(s)

Next ==
    \E s \in Sessions :
        \/ Commit(s)
        \/ StartRun(s) \/ Resume(s) \/ ResumeCapsule(s)
        \/ Attempt(s) \/ AttachArtifact(s) \/ ReloadCapsule(s) \/ ReloadRun(s)
        \/ Quit(s)
        \/ Review(s) \/ OpenReview(s) \/ NothingToReview(s) \/ Decide(s)
        \/ RunsBlock(s) \/ RunsComplete(s)
        \/ Die(s)

Spec == Init /\ [][Next]_vars

-----------------------------------------------------------------------------
(* Properties *)

TypeOK ==
    /\ capsule \in ProcessCapsule \cup {None}
    /\ run \in RuntimeState \cup {None}
    /\ events \in Seq(Event)
    /\ records \subseteq NonConformanceRecord
    /\ session \in [Sessions -> Session]
    /\ lost \in BOOLEAN

\* Whatever terminals do to each other and wherever they die, ledger
\* records as conforming only moves that advance() checked against the brief.
GovernedMoves ==
    \A k \in DOMAIN events : events[k].kind = "moved" => Governed(events[k])

\* A failed run can always be explained: the record of the breach is saved
\* before the run is, and stale copies of other terminals cannot undo that.
FailureIsExplained ==
    (run # None /\ run.status = "failed") =>
        \E n \in records : Stops(n)

\* The mutable record never stands alone: its immutable event is on the
\* ledger first.
RecordFollowsEvent ==
    \A n \in records : \E k \in DOMAIN events : IsBreach(events[k], n)

Pending(s) == {session[s].todo[k] : k \in DOMAIN session[s].todo}

\* Every event recorded, and every event a live process is about to record.
Trail ==
    {events[k] : k \in DOMAIN events}
    \cup {w.value : w \in {v \in UNION {Pending(s) : s \in Sessions} :
                               v.table = "ledger"}}

\* As long as no process died half way, the ledger accounts for the capsule:
\* some event took it to its state, and some event froze it if it is frozen.
\* Holds for any number of terminals overwriting each other's rows.
TrailCoversCapsule ==
    (capsule # None /\ ~lost) => Covers(Trail, capsule)

\* COMPLETE means that the brief declares no way on, IN_PROGRESS that it does.
CompletionMatchesBrief ==
    capsule # None => StatusMatchesBrief(capsule)

\* Nobody is writing.
Quiet == \A s \in Sessions : session[s].todo = <<>>

Moves == {k \in DOMAIN events : events[k].kind \in {"created", "moved"}}

\* The last event that places the capsule.
LastMove == events[CHOOSE k \in Moves : \A j \in Moves : j <= k]

\* One terminal, no death half way: whenever nothing is being written the run,
\* the capsule and the trail tell the same story.
LedgerAgrees ==
    (run # None /\ Quiet /\ ~lost) =>
        /\ run.current_state = capsule.state
        /\ LastMove.to = capsule.state
        /\ run.status = "failed" => Frozen(capsule)

\* One terminal and none of the stand-alone commands: the statuses agree too.
StatusesAgree ==
    (run # None /\ Quiet /\ ~lost) =>
        /\ run.status = "failed" <=> Frozen(capsule)
        /\ run.status = "complete" <=> capsule.status = "COMPLETE"

\* The row of a capsule changes state only along a declared transition, also
\* after a death and from whatever rows the death left behind.
CapsuleFollowsBrief ==
    [][(capsule # None /\ capsule'.state # capsule.state) =>
           Matching(capsule.state, capsule'.state) # {}]_capsule

\* A move along a CONSCIOUS transition reaches the trail only while the run
\* shows the approval of a review gate.
ConsciousMovesAreApproved ==
    [][events' # events =>
           LET e == events'[Len(events')]
           IN  (e.kind = "moved" /\ Transitions[Governing(e.from, e.to)].conscious)
                   => run.gate = "approved"]_events

\* schemas/process_capsule.py: a capsule in NON_CONFORMANCE "is frozen for
\* investigation".
FrozenStaysFrozen ==
    [][(capsule # None /\ Frozen(capsule)) => Frozen(capsule')]_capsule

\* The capsule as the abstract specification sees it.
Item == IF capsule = None THEN None
        ELSE [state |-> capsule.state, status |-> capsule.status]

Abstract == INSTANCE GovernedCapsule WITH
                Moves <- {<<Transitions[i].from, Transitions[i].to>> :
                             i \in DOMAIN Transitions},
                item <- Item

\* One terminal that never uses `review`: the capsule row is a governed capsule.
ImplementsGovernedCapsule == Abstract!Spec
=============================================================================
