----------------------------- MODULE BriefPins -----------------------------
(***************************************************************************)
(* Which brief a run is governed by: save_workflow() and its snapshots,    *)
(* the pin of a run, and the drift check in front of every command that    *)
(* continues one (src/runtime/ledger.py, src/cli.py).                      *)
(*                                                                         *)
(* The brief in effect is a row that every save rewrites; snapshots and    *)
(* pins are append-only tables beside it.  A command reads and writes them *)
(* by separate transactions, other processes may save an edited brief      *)
(* between any two of them, a process may die there, and the clock that    *)
(* dates snapshots and runs may step back.                                 *)
(*                                                                         *)
(* One workflow id is followed.  A brief stands for its content hash.  A   *)
(* run is only whether it exists and when it was created; moving it is     *)
(* WorkflowRuntime's business, here a move is the brief it was made under. *)
(***************************************************************************)
EXTENDS Naturals, Sequences, FiniteSets

CONSTANTS
    Briefs,         \* the contents the file of the brief may have
    Runs,           \* the ids of runs
    Sessions,       \* the processes
    MaxSnapshots,   \* bound on snapshots
    None

ASSUME PinsAssumption ==
    /\ None \notin Briefs \cup Runs \cup Nat
    /\ MaxSnapshots \in Nat

VARIABLES
    workflow,   \* the row of workflows: the brief in effect, or None
    snapshots,  \* workflow_snapshots, append-only
    runs,       \* created_at of each run, None while it has no row
    pins,       \* run_brief_pins: the brief of each run, or None
    clock,      \* the last time anybody was told
    session,    \* what each process holds in memory
    started,    \* history: the brief each run was started with
    governed,   \* history: the briefs each run was moved under
    stepped,    \* history: the clock stepped back
    torn,       \* history: a process died inside save_workflow()
    crossed,    \* history: a save overlapped what depends on it
    hasty       \* history: a run was taken up before its start was over

rows == <<workflow, snapshots, runs, pins>>
history == <<started, governed>>
vars == <<rows, clock, session, history, stepped, torn, crossed, hasty>>

\* "comparing" and "inserting" are inside save_workflow(), "opening" and
\* "pinning" what follows it; "checking", "dating" and "matching" are the reads
\* of the drift check, "loading" precedes load_workflow(), and "driving" has the
\* run in hand.
Places == {"idle", "comparing", "inserting", "opening", "pinning",
           "checking", "dating", "matching", "loading", "driving", "refused"}

Session == [at: Places, command: {"none", "run", "graph", "review", "export"},
            run: Runs \cup {None}, brief: Briefs \cup {None},
            pinned: Briefs \cup {None}]

Idle == [at |-> "idle", command |-> "none", run |-> None, brief |-> None,
         pinned |-> None]

Init ==
    /\ workflow = None
    /\ snapshots = <<>>
    /\ runs = [r \in Runs |-> None]
    /\ pins = [r \in Runs |-> None]
    /\ clock = 1
    /\ session = [s \in Sessions |-> Idle]
    /\ started = [r \in Runs |-> None]
    /\ governed = [r \in Runs |-> {}]
    /\ stepped = FALSE
    /\ torn = FALSE
    /\ crossed = FALSE
    /\ hasty = FALSE

-----------------------------------------------------------------------------
(* Helpers *)

Become(s, m) == session' = [session EXCEPT ![s] = m]

At(s, place) == session[s].at = place

\* current_brief_hash(): the newest snapshot.
CurrentBrief == IF snapshots = <<>> THEN None ELSE snapshots[Len(snapshots)].brief

\* brief_hash_at(): of the snapshots dated no later, the one dated last, and
\* the newest of those.
BriefAt(time) ==
    LET dated == {k \in DOMAIN snapshots : snapshots[k].saved_at <= time}
        newer(j, k) == \/ snapshots[j].saved_at < snapshots[k].saved_at
                       \/ snapshots[j].saved_at = snapshots[k].saved_at /\ j <= k
    IN  IF dated = {} THEN None
        ELSE snapshots[CHOOSE k \in dated : \A j \in dated : newer(j, k)].brief

-----------------------------------------------------------------------------
(* save_workflow(): the row, then the snapshot if the content is new *)

\* Process s is inside save_workflow().
Saving(s) == session[s].at \in {"comparing", "inserting"}

\* Bound: changed content is saved while there is room for its snapshot.
Savable ==
    LET savers == {t \in Sessions : Saving(t)}
    IN  IF Len(snapshots) + Cardinality(savers) < MaxSnapshots THEN Briefs
        ELSE {b \in Briefs : b = CurrentBrief /\ savers = {}}

\* A run is started with the brief as it is in its file.
Start(s) ==
    /\ At(s, "idle")
    /\ \E b \in Savable, r \in Runs, command \in {"run", "graph"} :
           /\ runs[r] = None /\ \A t \in Sessions : session[t].run # r
           /\ workflow' = b
           /\ Become(s, [Idle EXCEPT !.at = "comparing", !.command = command,
                                     !.run = r, !.brief = b])
    /\ UNCHANGED <<snapshots, runs, pins, clock, history, stepped, torn>>

\* `workflow export` saves a brief and starts nothing.
Export(s) ==
    /\ At(s, "idle")
    /\ \E b \in Savable :
           /\ workflow' = b
           /\ Become(s, [Idle EXCEPT !.at = "comparing", !.command = "export", !.brief = b])
    /\ UNCHANGED <<snapshots, runs, pins, clock, history, stepped, torn>>

\* Where a process goes once its brief is saved.
Saved(m) == IF m.command = "export" THEN Idle ELSE [m EXCEPT !.at = "opening"]

\* Mutant: the content is compared with every snapshot there is.
CompareWithAny(s) ==
    /\ At(s, "comparing")
    /\ LET m == session[s]
       IN  Become(s, IF \E k \in DOMAIN snapshots : snapshots[k].brief = m.brief
                     THEN Saved(m) ELSE [m EXCEPT !.at = "inserting"])
    /\ UNCHANGED <<rows, clock, history, stepped, torn>>

Compare(s) ==
    /\ At(s, "comparing")
    /\ LET m == session[s]
       IN  Become(s, IF CurrentBrief = m.brief
                     THEN Saved(m) ELSE [m EXCEPT !.at = "inserting"])
    /\ UNCHANGED <<rows, clock, history, stepped, torn>>

\* Mutant: a snapshot without its date.
InsertUndated(s) ==
    /\ At(s, "inserting")
    /\ snapshots' = Append(snapshots, [brief |-> session[s].brief, saved_at |-> None])
    /\ Become(s, Saved(session[s]))
    /\ UNCHANGED <<workflow, runs, pins, clock, history, stepped, torn>>

Insert(s) ==
    /\ At(s, "inserting")
    /\ clock' = clock + 1
    /\ snapshots' = Append(snapshots, [brief |-> session[s].brief, saved_at |-> clock'])
    /\ Become(s, Saved(session[s]))
    /\ UNCHANGED <<workflow, runs, pins, history, stepped, torn>>

-----------------------------------------------------------------------------
(* The rest of starting a run *)

OpenRun(s) ==
    /\ At(s, "opening")
    /\ clock' = clock + 1
    /\ runs' = [runs EXCEPT ![session[s].run] = clock']
    /\ started' = [started EXCEPT ![session[s].run] = session[s].brief]
    /\ Become(s, [session[s] EXCEPT !.at = "pinning"])
    /\ UNCHANGED <<workflow, snapshots, pins, governed, stepped, torn>>

\* Mutant: the pin is read back from the ledger.
PinReadBack(s) ==
    /\ At(s, "pinning")
    /\ pins' = [pins EXCEPT ![session[s].run] = CurrentBrief]
    /\ Become(s, [session[s] EXCEPT !.at = "driving"])
    /\ UNCHANGED <<workflow, snapshots, runs, clock, history, stepped, torn>>

\* The pin is the brief object the run was started with.
Pin(s) ==
    /\ At(s, "pinning")
    /\ pins' = [pins EXCEPT ![session[s].run] = session[s].brief]
    /\ Become(s, [session[s] EXCEPT !.at = "driving"])
    /\ UNCHANGED <<workflow, snapshots, runs, clock, history, stepped, torn>>

-----------------------------------------------------------------------------
(* Continuing a run *)

\* `resume` and `graph resume` check first and load the brief afterwards.
Resume(s) ==
    /\ At(s, "idle")
    /\ \E r \in Runs, command \in {"run", "graph"} :
           /\ runs[r] # None
           /\ Become(s, [Idle EXCEPT !.at = "checking", !.command = command, !.run = r])
    /\ UNCHANGED <<rows, clock, history, stepped, torn>>

\* `review` loads the brief first and checks afterwards.
Review(s) ==
    /\ At(s, "idle")
    /\ \E r \in Runs :
           /\ runs[r] # None
           /\ Become(s, [Idle EXCEPT !.at = "checking", !.command = "review",
                                     !.run = r, !.brief = workflow])
    /\ UNCHANGED <<rows, clock, history, stepped, torn>>

\* Mutant: the clock is asked although there is a pin.
ReadPinByClock(s) ==
    /\ At(s, "checking")
    /\ Become(s, [session[s] EXCEPT !.at = "dating"])
    /\ UNCHANGED <<rows, clock, history, stepped, torn>>

\* Mutant: a run without a pin is not looked up.
ReadPinOnly(s) ==
    /\ At(s, "checking")
    /\ Become(s, [session[s] EXCEPT !.at = "matching", !.pinned = pins[session[s].run]])
    /\ UNCHANGED <<rows, clock, history, stepped, torn>>

\* The pin says which brief the run was started under; a run without one is
\* looked up by the time of its start.
ReadPin(s) ==
    /\ At(s, "checking")
    /\ LET pin == pins[session[s].run]
       IN  Become(s, [session[s] EXCEPT !.pinned = pin,
                          !.at = IF pin = None THEN "dating" ELSE "matching"])
    /\ UNCHANGED <<rows, clock, history, stepped, torn>>

ReadDated(s) ==
    /\ At(s, "dating")
    /\ Become(s, [session[s] EXCEPT !.at = "matching",
                                    !.pinned = BriefAt(runs[session[s].run])])
    /\ UNCHANGED <<rows, clock, history, stepped, torn>>

\* Without a provable match the command is refused, and says whether there is
\* another brief to blame or none at all.
MatchCurrent(s) ==
    /\ At(s, "matching")
    /\ LET m == session[s]
       IN  Become(s, IF m.pinned = None \/ m.pinned # CurrentBrief
                     THEN [m EXCEPT !.at = "refused"]
                     ELSE [m EXCEPT !.pinned = None, !.at =
                               IF m.command = "run" THEN "loading" ELSE "driving"])
    /\ UNCHANGED <<rows, clock, history, stepped, torn>>

LoadBrief(s) ==
    /\ At(s, "loading")
    /\ Become(s, [session[s] EXCEPT !.at = "driving", !.brief = workflow])
    /\ UNCHANGED <<rows, clock, history, stepped, torn>>

\* A move is made under the brief in memory; a graph loads it for every move.
Move(s) ==
    /\ At(s, "driving")
    /\ LET m     == session[s]
           brief == IF m.command = "graph" THEN workflow ELSE m.brief
       IN  governed' = [governed EXCEPT ![m.run] = @ \cup {brief}]
    /\ UNCHANGED <<rows, clock, session, started, stepped, torn>>

Leave(s) ==
    /\ session[s].at \in {"driving", "refused"}
    /\ Become(s, Idle)
    /\ UNCHANGED <<rows, clock, history, stepped, torn>>

-----------------------------------------------------------------------------
(* Deaths and the clock *)

\* Process s depends on the brief in effect staying what it is.
Exposed(s) ==
    \/ session[s].at \in {"opening", "pinning", "checking", "dating", "matching", "loading"}
    \/ At(s, "driving") /\ session[s].command = "graph"

Die(s) ==
    /\ session[s] # Idle
    /\ torn' = (torn \/ Saving(s))
    /\ Become(s, Idle)
    /\ UNCHANGED <<rows, clock, history, stepped>>

\* Once, to any earlier time; otherwise every reading is later than the last.
StepBack ==
    /\ ~stepped
    /\ stepped' = TRUE
    /\ clock' \in 0 .. clock - 1
    /\ UNCHANGED <<rows, session, history, torn>>

Crossing == \E s, t \in Sessions : s # t /\ Saving(s) /\ (Saving(t) \/ Exposed(t))

\* A run is checked between its row and its pin.
Hasty == \E s, t \in Sessions :
             /\ At(s, "pinning") /\ session[t].run = session[s].run
             /\ session[t].at \in {"checking", "dating", "matching", "refused"}

Step(s) ==
    \/ Start(s) \/ Export(s) \/ Compare(s) \/ Insert(s) \/ OpenRun(s) \/ Pin(s)
    \/ Resume(s) \/ Review(s) \/ ReadPin(s) \/ ReadDated(s) \/ MatchCurrent(s)
    \/ LoadBrief(s) \/ Move(s) \/ Leave(s) \/ Die(s)

Next ==
    /\ StepBack \/ \E s \in Sessions : Step(s)
    /\ crossed' = (crossed \/ Crossing')
    /\ hasty' = (hasty \/ Hasty')

Spec == Init /\ [][Next]_vars

-----------------------------------------------------------------------------
(* Properties *)

TypeOK ==
    /\ workflow \in Briefs \cup {None}
    /\ snapshots \in Seq([brief: Briefs, saved_at: Nat])
    /\ runs \in [Runs -> Nat \cup {None}]
    /\ pins \in [Runs -> Briefs \cup {None}]
    /\ clock \in Nat
    /\ session \in [Sessions -> Session]
    /\ started \in [Runs -> Briefs \cup {None}]
    /\ governed \in [Runs -> SUBSET Briefs]
    /\ stepped \in BOOLEAN /\ torn \in BOOLEAN
    /\ crossed \in BOOLEAN /\ hasty \in BOOLEAN

\* A run moves only under the brief it was started with, however often the
\* brief is edited while the run is paused or in a person's hands.  Said of
\* saves that are whole and overlap nothing that depends on them; a step of
\* the clock is harmless to a run that has its pin.
RunsKeepTheirBrief ==
    (~torn /\ ~crossed) =>
        \A r \in Runs : (stepped => pins[r] # None) => governed[r] \subseteq {started[r]}

\* No save of another process, at whatever moment, can choose what a run is
\* pinned to.
PinNamesTheStart == \A r \in Runs : pins[r] \in {None, started[r]}

\* A refusal is right about its reason.  "The brief has changed" is only said
\* when some snapshot differs from the brief the run was started with; "no brief
\* snapshot is pinned" only when the clock went back, and of a run that lost its
\* pin to a death or was taken up before it had one.
RefusedForAReason ==
    \A s \in Sessions : At(s, "refused") =>
        LET r == session[s].run
        IN  IF session[s].pinned = None
            THEN stepped /\ (pins[r] = None \/ hasty)
            ELSE \E k \in DOMAIN snapshots : snapshots[k].brief # started[r]

\* The newest snapshot is the brief in effect whenever nobody is saving, and a
\* snapshot is only taken of a change.
SnapshotsFollowBrief ==
    (~torn /\ ~crossed) =>
        /\ (\A s \in Sessions : ~Saving(s)) => workflow = CurrentBrief
        /\ \A k \in 2 .. Len(snapshots) : snapshots[k].brief # snapshots[k - 1].brief
=============================================================================
