-------------------------- MODULE WorkflowRuntime --------------------------
(***************************************************************************)
(* The operations of src/runtime/state_machine.py as functions.            *)
(*                                                                         *)
(* An operation of WorkflowRuntime is called with a capsule and a run that *)
(* the caller already holds in memory; it mutates both and, on the way,    *)
(* issues a fixed series of ledger writes.  Every write is a transaction   *)
(* of its own, and no operation reads the ledger between two writes, so an *)
(* operation is fully described by its Outcome: the writes in order, the   *)
(* capsule and the run as memory holds them afterwards, and whether        *)
(* NonConformanceError was raised.  The modules that EXTEND this one       *)
(* decide who calls the operations and interleave the writes.              *)
(*                                                                         *)
(* Abstractions: a piece of evidence is the number of the transition it    *)
(* was produced for, 0 when it is blank; notes, owners, timestamps and     *)
(* artifact paths are left out.                                            *)
(***************************************************************************)
EXTENDS Naturals, Sequences

CONSTANTS
    States,       \* WorkflowBrief.states
    Initial,      \* WorkflowBrief.initial_state
    Transitions,  \* WorkflowBrief.transitions, in the order of the file
    None          \* Python's None: no row, no from_state

\* What WorkflowBrief validates: the initial state and every end of a
\* transition are declared.  Two transitions may join the same states.
ASSUME BriefAssumption ==
    /\ Initial \in States
    /\ None \notin States
    /\ Transitions \in Seq([from: States, to: States,
                            evidence: BOOLEAN, conscious: BOOLEAN])

-----------------------------------------------------------------------------
(* The rows of the ledger *)

Evidence == 0 .. Len(Transitions)

\* AWAITING_REVIEW is declared in the schema and assigned nowhere.
CapsuleStatus == {"PENDING", "IN_PROGRESS", "COMPLETE", "NON_CONFORMANCE"}

ProcessCapsule == [state: States, status: CapsuleStatus, evidence: Evidence]

RunStatus == {"pending", "running", "blocked", "human_review", "complete", "failed"}

GateStatus == {"not_required", "pending", "approved", "rejected"}

\* passed: completed_checks holds a passing check.
\* pointer: non_conformance_path is set.
RuntimeState == [status: RunStatus, current_state: States, gate: GateStatus,
                 passed: BOOLEAN, pointer: BOOLEAN]

\* An event is conforming when it is a creation, a move or a flag.
Event == [kind: {"created", "moved", "flagged", "refused", "rejected"},
          from: States \cup {None}, to: States, evidence: Evidence]

NonConformanceRecord ==
    [kind: {"NO_VALID_PATH", "MISSING_EVIDENCE", "REVIEW_REJECTED"},
     from: States, attempted: States \cup {None}]

\* Mutant: save_run() upserts into the wrong table.
SaveRunMisplaced(r) == [table |-> "capsules", value |-> r]

\* A missing row is told from every row.
ASSUME NoneAssumption == None \notin ProcessCapsule /\ None \notin RuntimeState

SaveCapsule(c) == [table |-> "capsules", value |-> c]
SaveRun(r)     == [table |-> "runs", value |-> r]
RecordEvent(e) == [table |-> "ledger", value |-> e]
SaveRecord(n)  == [table |-> "non_conformance_records", value |-> n]

Write == [table: {"capsules"}, value: ProcessCapsule]
    \cup [table: {"runs"}, value: RuntimeState]
    \cup [table: {"ledger"}, value: Event]
    \cup [table: {"non_conformance_records"}, value: NonConformanceRecord]

Outcome == [writes: Seq(Write), capsule: ProcessCapsule, run: RuntimeState,
            raised: BOOLEAN]

-----------------------------------------------------------------------------
(* The brief *)

TransitionsFrom(state) == {i \in DOMAIN Transitions : Transitions[i].from = state}

Terminal(state) == TransitionsFrom(state) = {}

Matching(from, to) == {i \in TransitionsFrom(from) : Transitions[i].to = to}

\* The first match wins when two transitions join the same states.
Governing(from, to) ==
    CHOOSE i \in Matching(from, to) : \A j \in Matching(from, to) : i <= j

Frozen(c) == c.status = "NON_CONFORMANCE"

-----------------------------------------------------------------------------
(* Starting *)

Entry(kind, from, to, evidence) ==
    [kind |-> kind, from |-> from, to |-> to, evidence |-> evidence]

NewCapsule == [state |-> Initial, status |-> "PENDING", evidence |-> 0]

NewRun == [status |-> "pending", current_state |-> Initial,
           gate |-> "not_required", passed |-> FALSE, pointer |-> FALSE]

\* The brief's own rows are left to another module.
StartWrites == <<SaveCapsule(NewCapsule), SaveRun(NewRun),
                 RecordEvent(Entry("created", None, Initial, 0))>>

-----------------------------------------------------------------------------
(* Advancing *)

Freeze(c) == [c EXCEPT !.status = "NON_CONFORMANCE"]

Fail(r) == [r EXCEPT !.status = "failed", !.pointer = TRUE]

Breach(kind, from, attempted) ==
    [kind |-> kind, from |-> from, attempted |-> attempted]

\* The capsule freezes, the breach is recorded twice, the run fails.
RefuseInvalidTransition(c, r, to, evidence) ==
    [writes |-> <<SaveCapsule(Freeze(c)),
                  RecordEvent(Entry("refused", c.state, to, evidence)),
                  SaveRecord(Breach("NO_VALID_PATH", c.state, to)),
                  SaveRun(Fail(r))>>,
     capsule |-> Freeze(c), run |-> Fail(r), raised |-> TRUE]

\* The capsule and the run rows are not saved: the attempt can be retried.
\* non_conformance_path changes in memory only.
RefuseMissingEvidence(c, r, to) ==
    [writes |-> <<RecordEvent(Entry("refused", c.state, to, 0)),
                  SaveRecord(Breach("MISSING_EVIDENCE", c.state, to))>>,
     capsule |-> c, run |-> [r EXCEPT !.pointer = TRUE], raised |-> TRUE]

Moved(to, evidence) ==
    [state |-> to, evidence |-> evidence,
     status |-> IF Terminal(to) THEN "COMPLETE" ELSE "IN_PROGRESS"]

Tracked(r, to) ==
    IF Terminal(to)
    THEN [r EXCEPT !.current_state = to, !.passed = TRUE, !.status = "complete"]
    ELSE [r EXCEPT !.current_state = to, !.status = "running"]

\* Mutant: the capsule completes one move late.
PerformTransitionLate(c, r, to, evidence) ==
    LET moved == [Moved(to, evidence) EXCEPT !.status =
                      IF Terminal(c.state) THEN "COMPLETE" ELSE "IN_PROGRESS"]
    IN  [writes |-> <<SaveCapsule(moved),
                      RecordEvent(Entry("moved", c.state, to, evidence)),
                      SaveRun(Tracked(r, to))>>,
         capsule |-> moved, run |-> Tracked(r, to), raised |-> FALSE]

\* Mutant: the run is not told of the move.
PerformTransitionUntracked(c, r, to, evidence) ==
    [writes |-> <<SaveCapsule(Moved(to, evidence)),
                  RecordEvent(Entry("moved", c.state, to, evidence))>>,
     capsule |-> Moved(to, evidence), run |-> r, raised |-> FALSE]

\* Mutant: the move is saved and never recorded.
PerformTransitionUnrecorded(c, r, to, evidence) ==
    [writes |-> <<SaveCapsule(Moved(to, evidence)), SaveRun(Tracked(r, to))>>,
     capsule |-> Moved(to, evidence), run |-> Tracked(r, to), raised |-> FALSE]

\* A state without outgoing transitions completes the capsule and the run.
PerformTransition(c, r, to, evidence) ==
    [writes |-> <<SaveCapsule(Moved(to, evidence)),
                  RecordEvent(Entry("moved", c.state, to, evidence)),
                  SaveRun(Tracked(r, to))>>,
     capsule |-> Moved(to, evidence), run |-> Tracked(r, to), raised |-> FALSE]

\* Mutant: evidence is not asked for.
AdvanceWithoutEvidence(c, r, to, evidence) ==
    IF Matching(c.state, to) = {}
    THEN RefuseInvalidTransition(c, r, to, evidence)
    ELSE PerformTransition(c, r, to, evidence)

\* The status of the capsule is not looked at: only its state is.
Advance(c, r, to, evidence) ==
    IF Matching(c.state, to) = {}
    THEN RefuseInvalidTransition(c, r, to, evidence)
    ELSE IF Transitions[Governing(c.state, to)].evidence /\ evidence = 0
         THEN RefuseMissingEvidence(c, r, to)
         ELSE PerformTransition(c, r, to, evidence)

-----------------------------------------------------------------------------
(* Review gates and pauses *)

EnterHumanReview(r) == [r EXCEPT !.gate = "pending", !.status = "human_review"]

ResolveGate(r, approved) ==
    [r EXCEPT !.gate = IF approved THEN "approved" ELSE "rejected",
              !.status = "running"]

Rejection(c) == RecordEvent(Entry("rejected", c.state, c.state, c.evidence))

RejectionRecord(c) == SaveRecord(Breach("REVIEW_REJECTED", c.state, None))

\* Mutant: the run fails before the breach is written down.
MarkNonConformanceRunFirst(c, r) ==
    [writes |-> <<SaveRun(Fail(r)), SaveCapsule(Freeze(c)),
                  Rejection(c), RejectionRecord(c)>>,
     capsule |-> Freeze(c), run |-> Fail(r), raised |-> FALSE]

\* Mutant: the mutable record is written before the event.
MarkNonConformanceRecordFirst(c, r) ==
    [writes |-> <<SaveCapsule(Freeze(c)), RejectionRecord(c), Rejection(c),
                  SaveRun(Fail(r))>>,
     capsule |-> Freeze(c), run |-> Fail(r), raised |-> FALSE]

\* Mutant: the caller forgets to pass the run.
MarkNonConformanceNoRun(c, r) ==
    [writes |-> <<SaveCapsule(Freeze(c)), Rejection(c), RejectionRecord(c)>>,
     capsule |-> Freeze(c), run |-> r, raised |-> FALSE]

MarkNonConformance(c, r) ==
    [writes |-> <<SaveCapsule(Freeze(c)), Rejection(c), RejectionRecord(c),
                  SaveRun(Fail(r))>>,
     capsule |-> Freeze(c), run |-> Fail(r), raised |-> FALSE]

Flag(c) == RecordEvent(Entry("flagged", c.state, c.state, c.evidence))

BlockRun(r) == [r EXCEPT !.status = "blocked"]

\* A blocked run is running again; any other run is returned as it is.
ResumeRun(r) == IF r.status = "blocked" THEN [r EXCEPT !.status = "running"] ELSE r

CompleteRun(r) == [r EXCEPT !.status = "complete", !.passed = TRUE]

\* Mutant: the gate is resolved after the move instead of before it.
ApplyDecisionGateLast(c, r, to, evidence, decision) ==
    LET resolved == ResolveGate(r, decision # "REJECT")
        rest     == IF decision = "REJECT"
                    THEN MarkNonConformance(c, resolved)
                    ELSE Advance(c, resolved, to, evidence)
    IN  [rest EXCEPT !.writes = rest.writes \o <<SaveRun(resolved)>>]

\* What a reviewer's decision does to the capsule and its run.
ApplyDecision(c, r, to, evidence, decision) ==
    LET resolved == ResolveGate(r, decision # "REJECT")
        flagged  == IF decision = "FLAG" THEN <<Flag(c)>> ELSE <<>>
        rest     == IF decision = "REJECT"
                    THEN MarkNonConformance(c, resolved)
                    ELSE Advance(c, resolved, to, evidence)
    IN  [rest EXCEPT !.writes = flagged \o <<SaveRun(resolved)>> \o rest.writes]

-----------------------------------------------------------------------------
(* What the properties of the other modules ask of rows and events *)

\* The event is a move the brief declares, with the evidence it asks for.
Governed(e) ==
    /\ Matching(e.from, e.to) # {}
    /\ Transitions[Governing(e.from, e.to)].evidence => e.evidence # 0

\* A breach that stops work, as opposed to one that can be retried.
Stops(n) == n.kind \in {"NO_VALID_PATH", "REVIEW_REJECTED"}

\* The event e is the one the record n is about.
IsBreach(e, n) ==
    /\ e.kind \in {"refused", "rejected"}
    /\ e.from = n.from
    /\ n.attempted = IF e.kind = "refused" THEN e.to ELSE None

\* A set of events that brings a capsule to where it is, and freezes it if
\* it is frozen.
Covers(trail, c) ==
    /\ \E e \in trail : e.kind \in {"created", "moved"} /\ e.to = c.state
    /\ Frozen(c) =>
           \E e \in trail : e.kind \in {"refused", "rejected"} /\ e.from = c.state

\* COMPLETE means that the brief declares no way on, IN_PROGRESS that it does.
StatusMatchesBrief(c) ==
    /\ c.status = "COMPLETE" => Terminal(c.state)
    /\ c.status = "IN_PROGRESS" => ~Terminal(c.state)
=============================================================================
