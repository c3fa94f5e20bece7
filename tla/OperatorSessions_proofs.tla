----------------------- MODULE OperatorSessions_proofs ----------------------
(***************************************************************************)
(* What holds of terminals sharing a run, for any number of terminals, any *)
(* brief and any length of the ledger.                                     *)
(***************************************************************************)
EXTENDS OperatorSessions, WorkflowRuntime_proofs

-----------------------------------------------------------------------------
(* Type correctness *)

\* What a terminal has loaded where it stands.
Loaded(m) ==
    /\ m.at \in {"prompt", "artifact", "gate"} =>
           m.capsule \in ProcessCapsule /\ m.run \in RuntimeState
    /\ m.at = "gate" => m.to \in States
    /\ m.at = "resuming" => m.run \in RuntimeState
    /\ m.at \in {"reviewing", "rereading"} => m.capsule \in ProcessCapsule

\* The rows are there when a command needs them: a capsule is saved before its
\* run, and until the run is saved only the terminal that starts it is busy.
Present ==
    /\ run = None =>
           \A s \in Sessions : session[s] = Idle \/
               \E k \in 1 .. Len(session[s].todo) : session[s].todo[k].table = "runs"
    /\ capsule = None =>
           /\ run = None
           /\ \A s \in Sessions : session[s] = Idle \/
                  /\ session[s].todo # <<>>
                  /\ Head(session[s].todo).table = "capsules"

TypeInv == TypeOK /\ Present /\ \A s \in Sessions : Loaded(session[s])

LEMMA IdleOK == Idle \in Session /\ Loaded(Idle)
<1>1. 0 \in Evidence
  BY StartTypes DEF NewCapsule, ProcessCapsule
<1>2. <<>> \in Seq(Write)
  BY EmptySeq
<1> QED BY <1>1, <1>2 DEF Idle, Session, Places, Loaded

LEMMA SettleOK ==
    ASSUME NEW m \in Session, Loaded(m)
    PROVE  Settle(m) \in Session /\ Loaded(Settle(m))
BY IdleOK DEF Settle

\* A terminal that is not idle and has nothing to write finds both rows.
LEMMA RowsFound ==
    ASSUME TypeInv, NEW s \in Sessions, session[s] # Idle, session[s].todo = <<>>
    PROVE  /\ run # None /\ run \in RuntimeState
           /\ capsule # None /\ capsule \in ProcessCapsule
<1>1. Len(session[s].todo) = 0
  BY EmptySeq
<1> QED BY <1>1 DEF TypeInv, TypeOK, Present

\* A step of one terminal that leaves the rows alone.
LEMMA SessionStep ==
    ASSUME TypeInv, NEW s \in Sessions,
           NEW m \in Session, Loaded(m), run # None \/ m = Idle,
           session' = [session EXCEPT ![s] = m],
           UNCHANGED rows, lost' \in BOOLEAN
    PROVE  TypeInv'
<1>1. TypeOK'
  BY DEF TypeInv, TypeOK, rows
<1>2. Present'
  BY DEF TypeInv, TypeOK, Present, rows
<1>3. (\A t \in Sessions : Loaded(session[t]))'
  BY DEF TypeInv, TypeOK
<1> QED BY <1>1, <1>2, <1>3 DEF TypeInv

LEMMA AfterAttemptPlaces ==
    \A command, raised :
        AfterAttempt(command, raised) \in {"leaving", "reloading", "artifact"}
BY DEF AfterAttempt

LEMMA LoopHeadPlaces == \A c : LoopHead(c) \in {"leaving", "prompt"}
BY DEF LoopHead

\* A terminal that takes over an outcome is well typed.
LEMMA CarryTypes ==
    ASSUME TypeInv, NEW s \in Sessions, run # None, NEW out \in Outcome,
           Carry(s, out), UNCHANGED <<rows, lost>>
    PROVE  TypeInv'
<1> DEFINE m == [session[s] EXCEPT
                    !.at = AfterAttempt(session[s].command, out.raised),
                    !.capsule = out.capsule, !.run = out.run,
                    !.to = None, !.evidence = 0, !.todo = out.writes]
<1>1. session[s] \in Session /\ 0 \in Evidence
  BY IdleOK DEF TypeInv, TypeOK, Idle, Session
<1>2. m \in Session
  BY <1>1, AfterAttemptPlaces DEF Session, Places, Outcome
<1>3. Loaded(m)
  BY <1>1, AfterAttemptPlaces DEF Session, Loaded, Outcome
<1>4. session' = [session EXCEPT ![s] = m]
  BY DEF Carry, Become
<1>5. lost' \in BOOLEAN
  BY DEF TypeInv, TypeOK
<1> QED BY <1>2, <1>3, <1>4, <1>5, SessionStep

\* A command that rewrites the run and leaves.
LEMMA RewriteTypes ==
    ASSUME TypeInv, NEW s \in Sessions, run # None, NEW r \in RuntimeState,
           RewriteRun(s, r), UNCHANGED <<rows, lost>>
    PROVE  TypeInv'
<1> DEFINE m == [Idle EXCEPT !.at = "leaving", !.todo = <<SaveRun(r)>>]
<1>1. <<SaveRun(r)>> \in Seq(Write)
  BY WriteTypes, SeriesTypes
<1>2. m \in Session /\ Loaded(m)
  BY <1>1, IdleOK DEF Idle, Session, Places, Loaded
<1>3. session' = [session EXCEPT ![s] = m]
  BY DEF RewriteRun, Become
<1>4. lost' \in BOOLEAN
  BY DEF TypeInv, TypeOK
<1> QED BY <1>2, <1>3, <1>4, SessionStep

\* One write reaches the ledger.
LEMMA CommitTypes ==
    ASSUME TypeInv, NEW s \in Sessions, Commit(s)
    PROVE  TypeInv'
<1> DEFINE ws == session[s].todo
           w  == Head(ws)
           m0 == [session[s] EXCEPT !.todo = Tail(session[s].todo)]
           m  == Settle(m0)
<1>1. /\ session[s] \in Session /\ Loaded(session[s])
      /\ ws \in Seq(Write) /\ ws # <<>>
      /\ session' = [session EXCEPT ![s] = m]
      /\ UNCHANGED lost
  <2>1. PICK table : Committing(s, table)
    BY DEF Commit, CommitCapsule, CommitRun, CommitEvent, CommitRecord
  <2>2. session[s] \in Session /\ Loaded(session[s])
    BY DEF TypeInv, TypeOK
  <2>3. ws \in Seq(Write)
    BY <2>2 DEF Session
  <2>4. ws # <<>> /\ session' = [session EXCEPT ![s] = m] /\ UNCHANGED lost
    BY <2>1 DEF Committing, Become
  <2> QED BY <2>2, <2>3, <2>4
<1>2. /\ w \in Write /\ w = ws[1] /\ Tail(ws) \in Seq(Write)
      /\ Len(ws) \in Nat \ {0} /\ Len(Tail(ws)) = Len(ws) - 1
      /\ \A i \in 1 .. Len(Tail(ws)) : Tail(ws)[i] = ws[i + 1]
  BY <1>1, HeadTailProperties, EmptySeq
<1>3. m \in Session /\ Loaded(m)
  <2>1. m0 \in Session /\ Loaded(m0)
    BY <1>1, <1>2 DEF Session, Loaded
  <2> QED BY <2>1, SettleOK
<1>4. m = Idle \/ m.todo = Tail(ws)
  BY <1>1 DEF Settle, Session
<1>5. (\A t \in Sessions : Loaded(session[t]))'
  BY <1>1, <1>3 DEF TypeInv, TypeOK
<1>6. session' \in [Sessions -> Session] /\ lost' \in BOOLEAN
  BY <1>1, <1>3 DEF TypeInv, TypeOK
<1>7. session[s] # Idle
  BY <1>1 DEF Idle
<1>8. session'[s] = m /\ \A t \in Sessions \ {s} : session'[t] = session[t]
  BY <1>1 DEF TypeInv, TypeOK
<1> HIDE DEF m0, m
\* A start still has the run to save after another write of it.
<1>9. ASSUME w.table # "runs", run = None, NEW t \in Sessions, session'[t] # Idle
      PROVE  \E k \in 1 .. Len(session'[t].todo) : session'[t].todo[k].table = "runs"
  <2>1. CASE t = s
    <3>1. PICK k \in 1 .. Len(ws) : ws[k].table = "runs"
      BY <1>9, <1>7 DEF TypeInv, Present
    <3>2. k - 1 \in 1 .. Len(Tail(ws)) /\ Tail(ws)[k - 1].table = "runs"
      BY <3>1, <1>9, <1>2
    <3> QED BY <3>2, <2>1, <1>9, <1>4, <1>8
  <2> QED BY <2>1, <1>9, <1>8 DEF TypeInv, Present
<1>10. CASE CommitCapsule(s)
  <2>1. /\ w.table = "capsules" /\ capsule' = w.value
        /\ UNCHANGED <<run, events, records>>
    BY <1>10 DEF CommitCapsule, Committing
  <2>2. capsule' \in ProcessCapsule
    BY <2>1, <1>2, WriteTables
  <2>3. TypeOK'
    BY <2>1, <2>2, <1>6 DEF TypeInv, TypeOK
  <2>4. capsule' # None
    BY <2>2, NoneAssumption
  <2>5. Present'
    BY <2>1, <2>4, <1>9 DEF Present
  <2> QED BY <2>3, <2>5, <1>5 DEF TypeInv
<1>11. CASE CommitRun(s)
  <2>1. /\ w.table = "runs" /\ run' = w.value
        /\ UNCHANGED <<capsule, events, records>>
    BY <1>11 DEF CommitRun, Committing
  <2>2. run' \in RuntimeState /\ run' # None
    BY <2>1, <1>2, WriteTables, NoneAssumption
  <2>3. TypeOK'
    BY <2>1, <2>2, <1>6 DEF TypeInv, TypeOK
  <2>4. capsule # None
    BY <2>1, <1>7 DEF TypeInv, Present
  <2> QED BY <2>1, <2>2, <2>3, <2>4, <1>5 DEF TypeInv, Present
<1>12. CASE CommitEvent(s) \/ CommitRecord(s)
  <2>1. /\ w.table \in {"ledger", "non_conformance_records"}
        /\ UNCHANGED <<capsule, run>>
    BY <1>12 DEF CommitEvent, CommitRecord, Committing
  <2>2. events' \in Seq(Event) /\ records' \subseteq NonConformanceRecord
    <3>1. CASE CommitEvent(s)
      <4>1. /\ w.table = "ledger" /\ UNCHANGED records
            /\ events' = Append(events, w.value)
        BY <3>1 DEF CommitEvent, Committing
      <4>2. w.value \in Event
        BY <4>1, <1>2, WriteTables
      <4> QED BY <4>1, <4>2, AppendProperties DEF TypeInv, TypeOK
    <3>2. CASE CommitRecord(s)
      <4>1. /\ w.table = "non_conformance_records" /\ UNCHANGED events
            /\ records' = records \cup {w.value}
        BY <3>2 DEF CommitRecord, Committing
      <4> QED BY <4>1, <1>2, WriteTables DEF TypeInv, TypeOK
    <3> QED BY <1>12, <3>1, <3>2
  <2>3. TypeOK'
    BY <2>1, <2>2, <1>6 DEF TypeInv, TypeOK
  <2>4. capsule # None
    BY <2>1, <1>7 DEF TypeInv, Present
  <2>5. Present'
    BY <2>1, <2>4, <1>9 DEF Present
  <2> QED BY <2>3, <2>5, <1>5 DEF TypeInv
<1> QED BY <1>10, <1>11, <1>12 DEF Commit

LEMMA StartRunTypes ==
    ASSUME TypeInv, NEW s \in Sessions, StartRun(s)
    PROVE  TypeInv'
<1> DEFINE m == [Idle EXCEPT !.at = LoopHead(NewCapsule), !.command = "loop",
                             !.capsule = NewCapsule, !.run = NewRun,
                             !.todo = StartWrites]
<1>1. /\ session' = [session EXCEPT ![s] = m] /\ UNCHANGED <<rows, lost>>
      /\ run = None /\ \A t \in Sessions : session[t] = Idle
  BY DEF StartRun, Become
<1>2. m \in Session /\ Loaded(m)
  BY IdleOK, StartTypes, LoopHeadPlaces DEF Idle, Session, Places, Loaded
<1>3. /\ m.todo # <<>> /\ Head(m.todo).table = "capsules"
      /\ Len(m.todo) = 3 /\ m.todo[2].table = "runs"
  BY DEF Idle, StartWrites, SaveCapsule, SaveRun
<1>4. TypeOK'
  BY <1>1, <1>2 DEF TypeInv, TypeOK, rows
<1>5. session' = [t \in Sessions |-> IF t = s THEN m ELSE Idle]
  BY <1>1 DEF TypeInv, TypeOK
<1> HIDE DEF m
<1>6. Present'
  BY <1>1, <1>3, <1>5 DEF Present, rows
<1>7. (\A t \in Sessions : Loaded(session[t]))'
  BY <1>2, <1>5, IdleOK
<1> QED BY <1>4, <1>6, <1>7 DEF TypeInv

LEMMA OpenGateTypes ==
    ASSUME TypeInv, NEW s \in Sessions, run # None, NEW r \in RuntimeState,
           NEW to \in States, NEW evidence \in Evidence,
           session[s].capsule \in ProcessCapsule,
           OpenGate(s, r, to, evidence), UNCHANGED <<rows, lost>>
    PROVE  TypeInv'
<1> DEFINE m == [session[s] EXCEPT
                    !.at = "gate", !.to = to, !.evidence = evidence,
                    !.run = EnterHumanReview(r),
                    !.todo = <<SaveRun(EnterHumanReview(r))>>]
<1>1. session[s] \in Session /\ lost' \in BOOLEAN
  BY DEF TypeInv, TypeOK
<1>2. /\ EnterHumanReview(r) \in RuntimeState
      /\ <<SaveRun(EnterHumanReview(r))>> \in Seq(Write)
  BY RunTypes, WriteTypes, SeriesTypes
<1>3. m \in Session /\ Loaded(m)
  BY <1>1, <1>2 DEF Session, Places, Loaded
<1>4. session' = [session EXCEPT ![s] = m]
  BY DEF OpenGate, Become
<1> QED BY <1>1, <1>3, <1>4, SessionStep

\* Every step that is neither a commit, a start nor an attempt.
LEMMA LoopTypes ==
    ASSUME TypeInv, NEW s \in Sessions,
           \/ Resume(s) \/ ResumeCapsule(s) \/ AttachArtifact(s)
           \/ ReloadCapsule(s) \/ ReloadRun(s) \/ Quit(s)
           \/ Review(s) \/ NothingToReview(s)
           \/ RunsBlock(s) \/ RunsComplete(s) \/ Die(s)
    PROVE  TypeInv'
<1>1. session[s] \in Session /\ Loaded(session[s]) /\ lost \in BOOLEAN
  BY DEF TypeInv, TypeOK
<1>2. ASSUME NEW place, place # "idle", Ready(s, place)
      PROVE  /\ session[s] # Idle
             /\ run # None /\ run \in RuntimeState
             /\ capsule # None /\ capsule \in ProcessCapsule
  <2>1. session[s] # Idle /\ session[s].todo = <<>>
    BY <1>2 DEF Ready, Idle
  <2> QED BY <2>1, RowsFound
<1>3. run # None => /\ run \in RuntimeState
                    /\ capsule # None /\ capsule \in ProcessCapsule
  BY DEF TypeInv, TypeOK, Present
<1>4. CASE Resume(s)
  <2> DEFINE m == [Idle EXCEPT !.at = "resuming", !.command = "loop", !.run = run]
  <2>1. run # None /\ session' = [session EXCEPT ![s] = m] /\ UNCHANGED <<rows, lost>>
    BY <1>4 DEF Resume, Become
  <2>2. m \in Session /\ Loaded(m)
    BY <2>1, <1>3, IdleOK DEF Idle, Session, Places, Loaded
  <2> QED BY <1>1, <2>1, <2>2, SessionStep
<1>5. CASE ResumeCapsule(s)
  <2> DEFINE r == session[s].run
             todo == IF r.status = "blocked" THEN <<SaveRun(ResumeRun(r))>> ELSE <<>>
             at == IF r.status \in {"complete", "failed"}
                   THEN "leaving" ELSE LoopHead(capsule)
             m == [session[s] EXCEPT !.at = at, !.capsule = capsule,
                                     !.run = ResumeRun(r), !.todo = todo]
  <2>1. /\ Ready(s, "resuming") /\ session' = [session EXCEPT ![s] = Settle(m)]
        /\ UNCHANGED <<rows, lost>>
    BY <1>5 DEF ResumeCapsule, Become
  <2>2. r \in RuntimeState
    BY <2>1, <1>1 DEF Ready, Loaded
  <2>3. ResumeRun(r) \in RuntimeState /\ todo \in Seq(Write)
    BY <2>2, RunTypes, WriteTypes, SeriesTypes, EmptySeq
  <2>4. at \in {"leaving", "prompt"}
    BY LoopHeadPlaces
  <2>5. m \in Session /\ Loaded(m)
    <3> HIDE DEF todo, at, r
    <3> QED BY <2>1, <2>3, <2>4, <1>1, <1>2 DEF Session, Places, Loaded
  <2> HIDE DEF m
  <2> QED BY <1>1, <1>2, <2>1, <2>5, SettleOK, SessionStep
<1>6. CASE AttachArtifact(s)
  <2>1. PICK todo \in {<<>>, <<SaveRun(session[s].run)>>} :
            session' = [session EXCEPT ![s] =
                Settle([session[s] EXCEPT !.at = LoopHead(session[s].capsule),
                                          !.todo = todo])]
    BY <1>6 DEF AttachArtifact, Become
  <2> DEFINE m == [session[s] EXCEPT !.at = LoopHead(session[s].capsule), !.todo = todo]
  <2>2. Ready(s, "artifact") /\ UNCHANGED <<rows, lost>>
    BY <1>6 DEF AttachArtifact
  <2>3. /\ session[s].run \in RuntimeState
        /\ session[s].capsule \in ProcessCapsule
    BY <2>2, <1>1 DEF Ready, Loaded
  <2>4. todo \in Seq(Write)
    BY <2>3, WriteTypes, SeriesTypes, EmptySeq
  <2>5. m \in Session /\ Loaded(m)
    BY <2>3, <2>4, <1>1, LoopHeadPlaces DEF Session, Places, Loaded
  <2> HIDE DEF m
  <2> QED BY <1>1, <1>2, <2>1, <2>2, <2>5, SettleOK, SessionStep DEF m
<1>7. CASE ReloadCapsule(s)
  <2> DEFINE m == [session[s] EXCEPT !.at = "rereading", !.capsule = capsule]
  <2>1. /\ Ready(s, "reloading") /\ session' = [session EXCEPT ![s] = m]
        /\ UNCHANGED <<rows, lost>>
    BY <1>7 DEF ReloadCapsule, Become
  <2>2. m \in Session /\ Loaded(m)
    BY <2>1, <1>1, <1>2 DEF Session, Places, Loaded
  <2> QED BY <1>1, <1>2, <2>1, <2>2, SessionStep
<1>8. CASE ReloadRun(s)
  <2> DEFINE m == [session[s] EXCEPT !.at = LoopHead(session[s].capsule), !.run = run]
  <2>1. /\ Ready(s, "rereading") /\ session' = [session EXCEPT ![s] = Settle(m)]
        /\ UNCHANGED <<rows, lost>>
    BY <1>8 DEF ReloadRun, Become
  <2>2. session[s].capsule \in ProcessCapsule
    BY <2>1, <1>1 DEF Ready, Loaded
  <2>3. m \in Session /\ Loaded(m)
    BY <2>1, <2>2, <1>1, <1>2, LoopHeadPlaces DEF Session, Places, Loaded
  <2> HIDE DEF m
  <2> QED BY <1>1, <1>2, <2>1, <2>3, SettleOK, SessionStep
<1>9. CASE Quit(s)
  <2>1. /\ Ready(s, "prompt") /\ RewriteRun(s, BlockRun(session[s].run))
        /\ UNCHANGED <<rows, lost>>
    BY <1>9 DEF Quit
  <2>2. BlockRun(session[s].run) \in RuntimeState
    BY <2>1, <1>1, RunTypes DEF Ready, Loaded
  <2> QED BY <1>2, <2>1, <2>2, RewriteTypes
<1>10. CASE Review(s)
  <2> DEFINE m == [Idle EXCEPT !.at = "reviewing", !.command = "review",
                               !.capsule = capsule]
  <2>1. run # None /\ session' = [session EXCEPT ![s] = m] /\ UNCHANGED <<rows, lost>>
    BY <1>10 DEF Review, Become
  <2>2. m \in Session /\ Loaded(m)
    BY <2>1, <1>3, IdleOK DEF Idle, Session, Places, Loaded
  <2> QED BY <1>1, <2>1, <2>2, SessionStep
<1>11. CASE NothingToReview(s)
  BY <1>1, <1>11, IdleOK, SessionStep DEF NothingToReview, Become
<1>12. CASE RunsBlock(s)
  <2>1. BlockRun(run) \in RuntimeState
    BY <1>3, <1>12, RunTypes DEF RunsBlock
  <2> QED BY <2>1, <1>12, RewriteTypes DEF RunsBlock
<1>13. CASE RunsComplete(s)
  <2>1. CompleteRun(run) \in RuntimeState
    BY <1>3, <1>13, RunTypes DEF RunsComplete
  <2> QED BY <2>1, <1>13, RewriteTypes DEF RunsComplete
<1>14. CASE Die(s)
  <2>1. /\ session' = [session EXCEPT ![s] = Idle] /\ UNCHANGED rows
        /\ lost' \in BOOLEAN
    BY <1>1, <1>14 DEF Die, Become
  <2> QED BY <2>1, IdleOK, SessionStep
<1> QED BY <1>4, <1>5, <1>6, <1>7, <1>8, <1>9, <1>10, <1>11, <1>12, <1>13, <1>14

\* The steps in which a person answers: a choice, a gate, a decision.
LEMMA AnswerTypes ==
    ASSUME TypeInv, NEW s \in Sessions,
           Attempt(s) \/ OpenReview(s) \/ Decide(s)
    PROVE  TypeInv'
<1>1. session[s] \in Session /\ Loaded(session[s])
  BY DEF TypeInv, TypeOK
<1>2. ASSUME NEW place, place # "idle", Ready(s, place)
      PROVE  run # None /\ run \in RuntimeState
  <2>1. session[s] # Idle /\ session[s].todo = <<>>
    BY <1>2 DEF Ready, Idle
  <2> QED BY <2>1, RowsFound
<1>3. \A state \in States : \A i \in TransitionsFrom(state) :
          /\ Transitions[i].to \in States
          /\ Governing(state, Transitions[i].to) \in Evidence
          /\ 0 \in Evidence
  <2>1. ASSUME NEW state \in States, NEW i \in TransitionsFrom(state)
        PROVE  /\ Transitions[i].to \in States
               /\ Governing(state, Transitions[i].to) \in Evidence
    <3>1. i \in DOMAIN Transitions /\ i \in Matching(state, Transitions[i].to)
      BY DEF TransitionsFrom, Matching
    <3> QED BY <3>1, TransitionFields, GoverningMatches
  <2>2. 0 \in Evidence
    BY IdleOK DEF Idle, Session
  <2> QED BY <2>1, <2>2
<1>4. CASE Attempt(s)
  <2> DEFINE m == session[s]
  <2>1. Ready(s, "prompt") /\ UNCHANGED <<rows, lost>>
    BY <1>4 DEF Attempt
  <2>2. m.capsule \in ProcessCapsule /\ m.run \in RuntimeState
    BY <1>1, <2>1 DEF Ready, Loaded
  <2>3. PICK i \in TransitionsFrom(m.capsule.state) :
            \E evidence \in {0, Governing(m.capsule.state, Transitions[i].to)} :
                IF Transitions[Governing(m.capsule.state, Transitions[i].to)].conscious
                THEN OpenGate(s, m.run, Transitions[i].to, evidence)
                ELSE Carry(s, Advance(m.capsule, m.run, Transitions[i].to, evidence))
    BY <1>4 DEF Attempt
  <2>4. PICK evidence \in {0, Governing(m.capsule.state, Transitions[i].to)} :
            \/ OpenGate(s, m.run, Transitions[i].to, evidence)
            \/ Carry(s, Advance(m.capsule, m.run, Transitions[i].to, evidence))
    BY <2>3
  <2>5. Transitions[i].to \in States /\ evidence \in Evidence
    BY <2>2, <2>4, <1>3, CapsuleTypes
  <2>6. Advance(m.capsule, m.run, Transitions[i].to, evidence) \in Outcome
    BY <2>2, <2>5, AdvanceType
  <2> QED BY <1>2, <2>1, <2>2, <2>4, <2>5, <2>6, CarryTypes, OpenGateTypes
<1>5. CASE OpenReview(s)
  <2> DEFINE c == session[s].capsule
  <2>1. Ready(s, "reviewing") /\ UNCHANGED <<rows, lost>>
    BY <1>5 DEF OpenReview
  <2>2. c \in ProcessCapsule
    BY <1>1, <2>1 DEF Ready, Loaded
  <2>3. PICK i \in TransitionsFrom(c.state) :
            \E evidence \in OfferedEvidence(c, Governing(c.state, Transitions[i].to)) :
                OpenGate(s, run, Transitions[i].to, evidence)
    BY <1>5 DEF OpenReview
  <2>4. PICK evidence \in OfferedEvidence(c, Governing(c.state, Transitions[i].to)) :
            OpenGate(s, run, Transitions[i].to, evidence)
    BY <2>3
  <2>5. Transitions[i].to \in States /\ evidence \in Evidence
    BY <2>2, <2>4, <1>3, CapsuleTypes DEF OfferedEvidence
  <2> QED BY <1>2, <2>1, <2>2, <2>4, <2>5, OpenGateTypes
<1>6. CASE Decide(s)
  <2> DEFINE m == session[s]
  <2>1. Ready(s, "gate") /\ UNCHANGED <<rows, lost>>
    BY <1>6 DEF Decide
  <2>2. /\ m.capsule \in ProcessCapsule /\ m.run \in RuntimeState
        /\ m.to \in States /\ m.evidence \in Evidence
    BY <1>1, <2>1 DEF Ready, Loaded, Session
  <2>3. PICK decision \in {"APPROVE", "REJECT", "FLAG"} :
            Carry(s, ApplyDecision(m.capsule, m.run, m.to, m.evidence, decision))
    BY <1>6 DEF Decide
  <2>4. ApplyDecision(m.capsule, m.run, m.to, m.evidence, decision) \in Outcome
    BY <2>2, ApplyDecisionType
  <2> QED BY <1>2, <2>1, <2>3, <2>4, CarryTypes
<1> QED BY <1>4, <1>5, <1>6

LEMMA InitTypes == Init => TypeInv
<1> SUFFICES ASSUME Init PROVE TypeInv
  OBVIOUS
<1>1. TypeOK
  BY IdleOK, EmptySeq DEF Init, TypeOK
<1>2. Present
  BY DEF Init, Present
<1>3. \A s \in Sessions : Loaded(session[s])
  BY IdleOK DEF Init
<1> QED BY <1>1, <1>2, <1>3 DEF TypeInv

LEMMA NextTypes == TypeInv /\ [Next]_vars => TypeInv'
<1> SUFFICES ASSUME TypeInv, [Next]_vars PROVE TypeInv'
  OBVIOUS
<1>1. CASE Next
  BY <1>1, CommitTypes, StartRunTypes, LoopTypes, AnswerTypes DEF Next
<1>2. CASE UNCHANGED vars
  BY <1>2 DEF vars, TypeInv, TypeOK, Present
<1> QED BY <1>1, <1>2

\* The rows of the ledger and what every terminal holds stay well formed, and
\* a command that reads a row finds it: save_capsule() comes before save_run()
\* in start(), so no terminal loads a run whose capsule is missing.
THEOREM TypeCorrect == Spec => [](TypeOK /\ TypeInv)
<1>1. TypeInv => TypeOK
  BY DEF TypeInv
<1> QED BY <1>1, InitTypes, NextTypes, PTL DEF Spec

-----------------------------------------------------------------------------
(* The ledger is sound *)

Recorded == {events[k] : k \in DOMAIN events}

\* What a terminal is about to write is sound given what the ledger holds, and
\* a failed run it holds is explained or will be.
SessionSound(m) ==
    /\ Sound(m.todo, Recorded, records)
    /\ m.capsule # None => StatusMatchesBrief(m.capsule)
    /\ (m.run # None /\ m.run.status = "failed") =>
           (\E n \in records : Stops(n)) \/ HasStop(m.todo)

LedgerSound == GovernedMoves /\ FailureIsExplained /\ RecordFollowsEvent
               /\ CompletionMatchesBrief

SoundInv == LedgerSound /\ \A s \in Sessions : SessionSound(session[s])

LEMMA IdleSound == SessionSound(Idle)
BY SoundEmpty DEF SessionSound, Idle

LEMMA SettleSound ==
    ASSUME NEW m, SessionSound(m)
    PROVE  SessionSound(Settle(m))
BY IdleSound DEF Settle

\* A step of one terminal that leaves the rows alone.
LEMMA SoundStep ==
    ASSUME TypeInv, SoundInv, NEW s \in Sessions, NEW m, SessionSound(m),
           session' = [session EXCEPT ![s] = m], UNCHANGED rows
    PROVE  SoundInv'
<1>1. /\ capsule' = capsule /\ run' = run /\ events' = events /\ records' = records
      /\ \A t \in Sessions : session'[t] = IF t = s THEN m ELSE session[t]
  BY DEF rows, TypeInv, TypeOK
<1>2. LedgerSound'
  BY <1>1 DEF SoundInv, LedgerSound, GovernedMoves, FailureIsExplained,
              RecordFollowsEvent, CompletionMatchesBrief
<1>3. ASSUME NEW t \in Sessions PROVE SessionSound(session[t])'
  BY <1>1 DEF SoundInv, SessionSound, Recorded
<1> QED BY <1>2, <1>3 DEF SoundInv

LEMMA CarrySound ==
    ASSUME TypeInv, SoundInv, NEW s \in Sessions, session[s].todo = <<>>,
           session[s].run \in RuntimeState,
           NEW out \in Outcome, SoundOutcome(out, session[s].run),
           Carry(s, out), UNCHANGED rows
    PROVE  SoundInv'
<1> DEFINE m == [session[s] EXCEPT
                    !.at = AfterAttempt(session[s].command, out.raised),
                    !.capsule = out.capsule, !.run = out.run,
                    !.to = None, !.evidence = 0, !.todo = out.writes]
<1>1. session[s] \in Session /\ SessionSound(session[s])
  BY DEF TypeInv, TypeOK, SoundInv
<1>2. m.todo = out.writes /\ m.capsule = out.capsule /\ m.run = out.run
  BY <1>1 DEF Session
<1>3. ~HasStop(<<>>)
  BY DEF HasStop
<1>4. Sound(out.writes, Recorded, records)
  BY SoundGrows DEF SoundOutcome
<1>5. session[s].run.status = "failed" => \E n \in records : Stops(n)
  BY <1>1, <1>3, NoneAssumption DEF SessionSound
<1>6. SessionSound(m)
  <2> HIDE DEF m
  <2> QED BY <1>2, <1>4, <1>5 DEF SessionSound, SoundOutcome
<1>7. session' = [session EXCEPT ![s] = m]
  BY DEF Carry, Become
<1> QED BY <1>6, <1>7, SoundStep

\* One write of a run that has not failed is sound.
LEMMA SaveRunSound ==
    ASSUME NEW r, r.status # "failed"
    PROVE  Sound(<<SaveRun(r)>>, Recorded, records)
<1>1. /\ WriteSound(SaveRun(r)) /\ ~IsFailure(SaveRun(r)) /\ ~IsRecord(SaveRun(r))
  BY DEF SaveRun, WriteSound, IsEvent, IsFailure, IsRecord
<1> QED BY <1>1, SoundSingle

LEMMA RewriteSound ==
    ASSUME TypeInv, SoundInv, NEW s \in Sessions, NEW r, r.status # "failed",
           RewriteRun(s, r), UNCHANGED rows
    PROVE  SoundInv'
<1> DEFINE m == [Idle EXCEPT !.at = "leaving", !.todo = <<SaveRun(r)>>]
<1>1. m.todo = <<SaveRun(r)>> /\ m.capsule = None /\ m.run = None
  BY DEF Idle
<1>2. SessionSound(m)
  <2> HIDE DEF m
  <2> QED BY <1>1, SaveRunSound DEF SessionSound
<1>3. session' = [session EXCEPT ![s] = m]
  BY DEF RewriteRun, Become
<1> QED BY <1>2, <1>3, SoundStep

LEMMA OpenGateSound ==
    ASSUME TypeInv, SoundInv, NEW s \in Sessions, NEW r \in RuntimeState,
           NEW to, NEW evidence, OpenGate(s, r, to, evidence), UNCHANGED rows
    PROVE  SoundInv'
<1> DEFINE r2 == EnterHumanReview(r)
           m == [session[s] EXCEPT !.at = "gate", !.to = to, !.evidence = evidence,
                                   !.run = r2, !.todo = <<SaveRun(r2)>>]
<1>1. session[s] \in Session /\ SessionSound(session[s])
  BY DEF TypeInv, TypeOK, SoundInv
<1>2. r2.status = "human_review"
  BY DEF EnterHumanReview, RuntimeState
<1> HIDE DEF r2
<1>3. m.todo = <<SaveRun(r2)>> /\ m.capsule = session[s].capsule /\ m.run = r2
  BY <1>1 DEF Session
<1>4. SessionSound(m)
  <2> HIDE DEF m
  <2> QED BY <1>1, <1>2, <1>3, SaveRunSound DEF SessionSound
<1>5. session' = [session EXCEPT ![s] = m]
  BY DEF OpenGate, Become, r2
<1> QED BY <1>4, <1>5, SoundStep

\* One write reaches the ledger: by soundness of what was left to write it
\* leaves the ledger sound, and what others have left to write too.
LEMMA CommitSound ==
    ASSUME TypeInv, SoundInv, NEW s \in Sessions, Commit(s)
    PROVE  SoundInv'
<1> DEFINE ws == session[s].todo
           w  == Head(ws)
           m0 == [session[s] EXCEPT !.todo = Tail(session[s].todo)]
           m  == Settle(m0)
<1>1. /\ session[s] \in Session /\ SessionSound(session[s])
      /\ ws \in Seq(Write) /\ events \in Seq(Event)
  BY DEF TypeInv, TypeOK, Session, SoundInv
<1>2. ws # <<>> /\ session' = [session EXCEPT ![s] = m]
  <2>1. PICK table : Committing(s, table)
    BY DEF Commit, CommitCapsule, CommitRun, CommitEvent, CommitRecord
  <2> QED BY <2>1 DEF Committing, Become
<1>3. /\ w \in Write /\ w = ws[1] /\ 1 \in 1 .. Len(ws)
      /\ Len(ws) \in Nat \ {0} /\ Len(Tail(ws)) = Len(ws) - 1
      /\ \A i \in 1 .. Len(Tail(ws)) : Tail(ws)[i] = ws[i + 1]
  BY <1>1, <1>2, HeadTailProperties, EmptySeq
<1>4. m0.todo = Tail(ws) /\ m0.capsule = session[s].capsule /\ m0.run = session[s].run
  BY <1>1 DEF Session
<1>5. \A t \in Sessions : session'[t] = IF t = s THEN m ELSE session[t]
  BY <1>2 DEF TypeInv, TypeOK
\* What soundness says of the write that comes first.
<1>6. /\ WriteSound(w)
      /\ IsFailure(w) => \E n \in records : Stops(n)
      /\ IsRecord(w) => \E e \in Recorded : IsBreach(e, w.value)
  BY <1>1, <1>3 DEF SessionSound, Sound, StopBefore, BreachBefore
<1> HIDE DEF m0
<1>7. ASSUME Recorded \subseteq Recorded', records \subseteq records',
             IsEvent(w) => w.value \in Recorded',
             IsRecord(w) => w.value \in records'
      PROVE  \A t \in Sessions : SessionSound(session[t])'
  <2>1. Sound(m0.todo, Recorded', records')
    BY <1>1, <1>2, <1>4, <1>7, SoundTail DEF SessionSound
  <2>2. HasStop(ws) => HasStop(m0.todo) \/ \E n \in records' : Stops(n)
    <3> SUFFICES ASSUME NEW j \in 1 .. Len(ws), IsStop(ws[j])
                 PROVE  HasStop(m0.todo) \/ \E n \in records' : Stops(n)
      BY DEF HasStop
    <3>1. CASE j = 1
      BY <3>1, <1>3, <1>7 DEF IsStop
    <3>2. CASE j # 1
      <4>1. j - 1 \in 1 .. Len(Tail(ws)) /\ Tail(ws)[j - 1] = ws[j]
        BY <3>2, <1>3
      <4> QED BY <4>1, <1>4 DEF HasStop
    <3> QED BY <3>1, <3>2
  <2>3. /\ Sound(m.todo, Recorded', records')
        /\ m.capsule # None => StatusMatchesBrief(m.capsule)
        /\ (m.run # None /\ m.run.status = "failed") =>
               (\E n \in records' : Stops(n)) \/ HasStop(m.todo)
    <3>1. CASE m = m0
      BY <3>1, <2>1, <2>2, <1>1, <1>4, <1>7 DEF SessionSound
    <3>2. CASE m = Idle
      BY <3>2, SoundEmpty DEF Idle
    <3> QED BY <3>1, <3>2 DEF Settle
  <2>4. ASSUME NEW t \in Sessions, t # s
        PROVE  /\ SessionSound(session[t]) /\ session'[t] = session[t]
               /\ Sound(session[t].todo, Recorded', records')
    <3>1. SessionSound(session[t]) /\ session'[t] = session[t]
      BY <2>4, <1>5 DEF SoundInv
    <3> QED BY <3>1, <1>7, SoundGrows DEF SessionSound
  <2>5. ASSUME NEW t \in Sessions PROVE SessionSound(session[t])'
    <3>1. CASE t = s
      BY <3>1, <2>3, <1>5 DEF SessionSound
    <3>2. CASE t # s
      BY <3>2, <2>4, <1>7 DEF SessionSound
    <3> QED BY <3>1, <3>2
  <2> QED BY <2>5
<1> HIDE DEF m
<1>8. CASE CommitCapsule(s)
  <2>1. /\ w.table = "capsules" /\ capsule' = w.value
        /\ UNCHANGED <<run, events, records>>
    BY <1>8 DEF CommitCapsule, Committing
  <2>2. LedgerSound'
    BY <2>1, <1>6 DEF SoundInv, LedgerSound, GovernedMoves, FailureIsExplained,
                      RecordFollowsEvent, CompletionMatchesBrief, WriteSound
  <2>3. \A t \in Sessions : SessionSound(session[t])'
    BY <2>1, <1>7 DEF IsEvent, IsRecord, Recorded
  <2> QED BY <2>2, <2>3 DEF SoundInv
<1>9. CASE CommitRun(s)
  <2>1. /\ w.table = "runs" /\ run' = w.value
        /\ UNCHANGED <<capsule, events, records>>
    BY <1>9 DEF CommitRun, Committing
  <2>2. LedgerSound'
    BY <2>1, <1>6 DEF SoundInv, LedgerSound, GovernedMoves, FailureIsExplained,
                      RecordFollowsEvent, CompletionMatchesBrief, IsFailure
  <2>3. \A t \in Sessions : SessionSound(session[t])'
    BY <2>1, <1>7 DEF IsEvent, IsRecord, Recorded
  <2> QED BY <2>2, <2>3 DEF SoundInv
<1>10. CASE CommitEvent(s)
  <2>1. /\ w.table = "ledger" /\ events' = Append(events, w.value)
        /\ UNCHANGED <<capsule, run, records>>
    BY <1>10 DEF CommitEvent, Committing
  <2>2. w.value \in Event
    BY <2>1, <1>3, WriteTables
  <2>3. /\ Len(events) \in Nat /\ DOMAIN events = 1 .. Len(events)
        /\ DOMAIN events' = 1 .. Len(events) + 1
        /\ \A k \in DOMAIN events : events'[k] = events[k]
        /\ events'[Len(events) + 1] = w.value
    BY <2>1, <2>2, <1>1, AppendProperties, LenProperties
  <2>4. \A k \in DOMAIN events' : k \in DOMAIN events \/ events'[k] = w.value
    BY <2>3
  <2>5. GovernedMoves'
    BY <2>1, <2>3, <2>4, <1>6
    DEF SoundInv, LedgerSound, GovernedMoves, WriteSound, IsEvent
  <2>6. RecordFollowsEvent'
    BY <2>1, <2>3 DEF SoundInv, LedgerSound, RecordFollowsEvent
  <2>7. FailureIsExplained' /\ CompletionMatchesBrief'
    BY <2>1 DEF SoundInv, LedgerSound, FailureIsExplained, CompletionMatchesBrief
  <2>8. Recorded \subseteq Recorded' /\ w.value \in Recorded'
    BY <2>3 DEF Recorded
  <2>9. \A t \in Sessions : SessionSound(session[t])'
    BY <2>1, <2>8, <1>7 DEF IsRecord
  <2> QED BY <2>5, <2>6, <2>7, <2>9 DEF SoundInv, LedgerSound
<1>11. CASE CommitRecord(s)
  <2>1. /\ w.table = "non_conformance_records" /\ records' = records \cup {w.value}
        /\ UNCHANGED <<capsule, run, events>>
    BY <1>11 DEF CommitRecord, Committing
  <2>2. \E k \in DOMAIN events : IsBreach(events[k], w.value)
    BY <2>1, <1>6 DEF IsRecord, Recorded
  <2>3. LedgerSound'
    BY <2>1, <2>2 DEF SoundInv, LedgerSound, GovernedMoves, FailureIsExplained,
                      RecordFollowsEvent, CompletionMatchesBrief
  <2>4. \A t \in Sessions : SessionSound(session[t])'
    BY <2>1, <1>7 DEF IsEvent, Recorded
  <2> QED BY <2>3, <2>4 DEF SoundInv
<1> QED BY <1>8, <1>9, <1>10, <1>11 DEF Commit

LEMMA StartRunSound ==
    ASSUME TypeInv, SoundInv, NEW s \in Sessions, StartRun(s)
    PROVE  SoundInv'
<1> DEFINE m == [Idle EXCEPT !.at = LoopHead(NewCapsule), !.command = "loop",
                             !.capsule = NewCapsule, !.run = NewRun,
                             !.todo = StartWrites]
<1>1. session' = [session EXCEPT ![s] = m] /\ UNCHANGED rows
  BY DEF StartRun, Become
<1>2. m.todo = StartWrites /\ m.capsule = NewCapsule /\ m.run = NewRun
  BY DEF Idle
<1>3. StatusMatchesBrief(NewCapsule)
  BY DEF StatusMatchesBrief, NewCapsule
<1>4. Sound(StartWrites, Recorded, records)
  <2>1. /\ WriteSound(SaveCapsule(NewCapsule)) /\ ~IsFailure(SaveCapsule(NewCapsule))
        /\ ~IsRecord(SaveCapsule(NewCapsule))
    BY <1>3 DEF SaveCapsule, WriteSound, IsEvent, IsFailure, IsRecord
  <2>2. /\ WriteSound(SaveRun(NewRun)) /\ ~IsFailure(SaveRun(NewRun))
        /\ ~IsRecord(SaveRun(NewRun))
    BY DEF SaveRun, NewRun, WriteSound, IsEvent, IsFailure, IsRecord
  <2> DEFINE e == RecordEvent(Entry("created", None, Initial, 0))
  <2>3. WriteSound(e) /\ ~IsFailure(e) /\ ~IsRecord(e)
    BY DEF RecordEvent, Entry, WriteSound, IsEvent, IsFailure, IsRecord
  <2>4. /\ Len(StartWrites) = 3 /\ StartWrites[1] = SaveCapsule(NewCapsule)
        /\ StartWrites[2] = SaveRun(NewRun) /\ StartWrites[3] = e
    BY DEF StartWrites
  <2> HIDE DEF e
  <2> QED BY <2>1, <2>2, <2>3, <2>4 DEF Sound
<1>5. SessionSound(m)
  <2> HIDE DEF m
  <2>1. NewRun.status # "failed"
    BY DEF NewRun
  <2> QED BY <2>1, <1>2, <1>3, <1>4 DEF SessionSound
<1> QED BY <1>1, <1>5, SoundStep

\* Every step that is neither a commit, a start nor an answer.
LEMMA LoopSound ==
    ASSUME TypeInv, SoundInv, NEW s \in Sessions,
           \/ Resume(s) \/ ResumeCapsule(s) \/ AttachArtifact(s)
           \/ ReloadCapsule(s) \/ ReloadRun(s) \/ Quit(s)
           \/ Review(s) \/ NothingToReview(s)
           \/ RunsBlock(s) \/ RunsComplete(s) \/ Die(s)
    PROVE  SoundInv'
<1>1. session[s] \in Session /\ SessionSound(session[s]) /\ Loaded(session[s])
  BY DEF TypeInv, TypeOK, SoundInv
<1>2. capsule # None => StatusMatchesBrief(capsule)
  BY DEF SoundInv, LedgerSound, CompletionMatchesBrief
<1>3. (run # None /\ run.status = "failed") => \E n \in records : Stops(n)
  BY DEF SoundInv, LedgerSound, FailureIsExplained
<1>4. \A r \in RuntimeState : BlockRun(r).status = "blocked"
                             /\ CompleteRun(r).status = "complete"
  BY DEF RuntimeState, BlockRun, CompleteRun
<1>5. run # None => run \in RuntimeState
  BY DEF TypeInv, TypeOK
<1>6. CASE Resume(s)
  <2> DEFINE m == [Idle EXCEPT !.at = "resuming", !.command = "loop", !.run = run]
  <2>1. session' = [session EXCEPT ![s] = m] /\ UNCHANGED rows
    BY <1>6 DEF Resume, Become
  <2>2. SessionSound(m)
    BY <1>3, SoundEmpty DEF SessionSound, Idle
  <2> QED BY <2>1, <2>2, SoundStep
<1>7. CASE ResumeCapsule(s)
  <2> DEFINE r == session[s].run
             todo == IF r.status = "blocked" THEN <<SaveRun(ResumeRun(r))>> ELSE <<>>
             at == IF r.status \in {"complete", "failed"}
                   THEN "leaving" ELSE LoopHead(capsule)
             m == [session[s] EXCEPT !.at = at, !.capsule = capsule,
                                     !.run = ResumeRun(r), !.todo = todo]
  <2>1. /\ Ready(s, "resuming") /\ session' = [session EXCEPT ![s] = Settle(m)]
        /\ UNCHANGED rows
    BY <1>7 DEF ResumeCapsule, Become
  <2>2. r \in RuntimeState /\ session[s].todo = <<>>
    BY <2>1, <1>1 DEF Ready, Loaded
  <2>3. Sound(todo, Recorded, records)
    <3>1. r.status = "blocked" => ResumeRun(r).status = "running"
      BY <2>2 DEF ResumeRun, RuntimeState
    <3> HIDE DEF r
    <3> QED BY <3>1, SaveRunSound, SoundEmpty
  <2>4. ResumeRun(r).status = "failed" => \E n \in records : Stops(n)
    <3>1. ResumeRun(r).status = "failed" => r.status = "failed"
      BY <2>2 DEF ResumeRun, RuntimeState
    <3>2. ~HasStop(<<>>)
      BY DEF HasStop
    <3> QED BY <3>1, <3>2, <2>2, <1>1, NoneAssumption DEF SessionSound
  <2>5. m.todo = todo /\ m.capsule = capsule /\ m.run = ResumeRun(r)
    BY <1>1 DEF Session
  <2>6. SessionSound(m)
    <3> HIDE DEF m, todo, r
    <3> QED BY <2>3, <2>4, <2>5, <1>2 DEF SessionSound
  <2> HIDE DEF m
  <2> QED BY <2>1, <2>6, SettleSound, SoundStep
<1>8. CASE AttachArtifact(s)
  <2>1. PICK todo \in {<<>>, <<SaveRun(session[s].run)>>} :
            session' = [session EXCEPT ![s] =
                Settle([session[s] EXCEPT !.at = LoopHead(session[s].capsule),
                                          !.todo = todo])]
    BY <1>8 DEF AttachArtifact, Become
  <2> DEFINE m == [session[s] EXCEPT !.at = LoopHead(session[s].capsule), !.todo = todo]
  <2>2. session[s].todo = <<>> /\ session[s].run \in RuntimeState /\ UNCHANGED rows
    BY <1>1, <1>8 DEF AttachArtifact, Ready, Loaded
  <2>3. session[s].run.status = "failed" => \E n \in records : Stops(n)
    <3>1. ~HasStop(<<>>)
      BY DEF HasStop
    <3> QED BY <3>1, <2>2, <1>1, NoneAssumption DEF SessionSound
  <2>4. Sound(todo, Recorded, records)
    <3>1. CASE todo = <<>>
      BY <3>1, SoundEmpty
    <3>2. CASE todo = <<SaveRun(session[s].run)>>
      <4> DEFINE w == SaveRun(session[s].run)
      <4>1. /\ WriteSound(w) /\ ~IsRecord(w)
            /\ IsFailure(w) => \E n \in records : Stops(n)
        BY <2>3 DEF SaveRun, WriteSound, IsEvent, IsRecord, IsFailure
      <4>2. todo = <<w>>
        BY <3>2
      <4> HIDE DEF w
      <4> QED BY <4>1, <4>2 DEF Sound, StopBefore
    <3> QED BY <2>1, <3>1, <3>2
  <2>5. m.todo = todo /\ m.capsule = session[s].capsule /\ m.run = session[s].run
    BY <1>1 DEF Session
  <2>6. SessionSound(m)
    <3> HIDE DEF m
    <3> QED BY <1>1, <2>3, <2>4, <2>5 DEF SessionSound
  <2>7. session' = [session EXCEPT ![s] = Settle(m)]
    BY <2>1
  <2> HIDE DEF m
  <2> QED BY <2>2, <2>6, <2>7, SettleSound, SoundStep
<1>9. CASE ReloadCapsule(s)
  <2> DEFINE m == [session[s] EXCEPT !.at = "rereading", !.capsule = capsule]
  <2>1. session' = [session EXCEPT ![s] = m] /\ UNCHANGED rows
    BY <1>9 DEF ReloadCapsule, Become
  <2>2. m.todo = session[s].todo /\ m.capsule = capsule /\ m.run = session[s].run
    BY <1>1 DEF Session
  <2>3. SessionSound(m)
    <3> HIDE DEF m
    <3> QED BY <1>1, <1>2, <2>2 DEF SessionSound
  <2> QED BY <2>1, <2>3, SoundStep
<1>10. CASE ReloadRun(s)
  <2> DEFINE m == [session[s] EXCEPT !.at = LoopHead(session[s].capsule), !.run = run]
  <2>1. session' = [session EXCEPT ![s] = Settle(m)] /\ UNCHANGED rows
    BY <1>10 DEF ReloadRun, Become
  <2>2. m.todo = session[s].todo /\ m.capsule = session[s].capsule /\ m.run = run
    BY <1>1 DEF Session
  <2>3. SessionSound(m)
    <3> HIDE DEF m
    <3> QED BY <1>1, <1>3, <2>2 DEF SessionSound
  <2> HIDE DEF m
  <2> QED BY <2>1, <2>3, SettleSound, SoundStep
<1>11. CASE Quit(s)
  <2>1. session[s].run \in RuntimeState /\ UNCHANGED rows
    BY <1>1, <1>11 DEF Quit, Ready, Loaded
  <2>2. BlockRun(session[s].run).status # "failed"
    BY <2>1, <1>4
  <2> QED BY <2>1, <2>2, <1>11, RewriteSound DEF Quit
<1>12. CASE Review(s)
  <2> DEFINE m == [Idle EXCEPT !.at = "reviewing", !.command = "review",
                               !.capsule = capsule]
  <2>1. session' = [session EXCEPT ![s] = m] /\ UNCHANGED rows
    BY <1>12 DEF Review, Become
  <2>2. SessionSound(m)
    BY <1>2, SoundEmpty DEF SessionSound, Idle
  <2> QED BY <2>1, <2>2, SoundStep
<1>13. CASE NothingToReview(s)
  BY <1>13, IdleSound, SoundStep DEF NothingToReview, Become
<1>14. CASE RunsBlock(s)
  <2>1. BlockRun(run).status # "failed"
    BY <1>4, <1>5, <1>14 DEF RunsBlock
  <2> QED BY <2>1, <1>14, RewriteSound DEF RunsBlock
<1>15. CASE RunsComplete(s)
  <2>1. CompleteRun(run).status # "failed"
    BY <1>4, <1>5, <1>15 DEF RunsComplete
  <2> QED BY <2>1, <1>15, RewriteSound DEF RunsComplete
<1>16. CASE Die(s)
  BY <1>16, IdleSound, SoundStep DEF Die, Become
<1> QED BY <1>6, <1>7, <1>8, <1>9, <1>10, <1>11, <1>12, <1>13, <1>14, <1>15, <1>16

\* The steps in which a person answers.
LEMMA AnswerSound ==
    ASSUME TypeInv, SoundInv, NEW s \in Sessions,
           Attempt(s) \/ OpenReview(s) \/ Decide(s)
    PROVE  SoundInv'
<1>1. session[s] \in Session /\ SessionSound(session[s]) /\ Loaded(session[s])
  BY DEF TypeInv, TypeOK, SoundInv
<1> DEFINE m == session[s]
<1>2. ASSUME m.capsule \in ProcessCapsule PROVE StatusMatchesBrief(m.capsule)
  BY <1>1, <1>2, NoneAssumption DEF SessionSound
<1>3. CASE Attempt(s)
  <2>1. m.todo = <<>> /\ UNCHANGED rows
    BY <1>3 DEF Attempt, Ready
  <2>2. m.capsule \in ProcessCapsule /\ m.run \in RuntimeState
    BY <1>1, <1>3 DEF Attempt, Ready, Loaded
  <2>3. PICK i \in TransitionsFrom(m.capsule.state) :
            \E evidence \in {0, Governing(m.capsule.state, Transitions[i].to)} :
                \/ OpenGate(s, m.run, Transitions[i].to, evidence)
                \/ Carry(s, Advance(m.capsule, m.run, Transitions[i].to, evidence))
    BY <1>3 DEF Attempt
  <2>4. PICK evidence \in {0, Governing(m.capsule.state, Transitions[i].to)} :
            \/ OpenGate(s, m.run, Transitions[i].to, evidence)
            \/ Carry(s, Advance(m.capsule, m.run, Transitions[i].to, evidence))
    BY <2>3
  <2>5. i \in DOMAIN Transitions /\ i \in Matching(m.capsule.state, Transitions[i].to)
    BY DEF TransitionsFrom, Matching
  <2>6. Transitions[i].to \in States /\ evidence \in Evidence
    BY <2>4, <2>5, TransitionFields, GoverningMatches, IdleOK DEF Idle, Session
  <2>7. /\ Advance(m.capsule, m.run, Transitions[i].to, evidence) \in Outcome
        /\ SoundOutcome(Advance(m.capsule, m.run, Transitions[i].to, evidence), m.run)
    BY <2>2, <2>6, <1>2, AdvanceType, AdvanceSound
  <2> QED BY <2>1, <2>2, <2>4, <2>7, CarrySound, OpenGateSound
<1>4. CASE OpenReview(s)
  <2>1. UNCHANGED rows /\ session[s] # Idle /\ session[s].todo = <<>>
    BY <1>4 DEF OpenReview, Ready, Idle
  <2>2. run \in RuntimeState
    BY <2>1, RowsFound
  <2>3. \E to, evidence : OpenGate(s, run, to, evidence)
    BY <1>4 DEF OpenReview
  <2> QED BY <2>1, <2>2, <2>3, OpenGateSound
<1>5. CASE Decide(s)
  <2>1. /\ m.todo = <<>> /\ UNCHANGED rows
        /\ m.capsule \in ProcessCapsule /\ m.run \in RuntimeState
        /\ m.to \in States /\ m.evidence \in Evidence
    BY <1>1, <1>5 DEF Decide, Ready, Loaded, Session
  <2>2. PICK decision \in {"APPROVE", "REJECT", "FLAG"} :
            Carry(s, ApplyDecision(m.capsule, m.run, m.to, m.evidence, decision))
    BY <1>5 DEF Decide
  <2> DEFINE out == ApplyDecision(m.capsule, m.run, m.to, m.evidence, decision)
  <2>3. out \in Outcome /\ SoundOutcome(out, m.run)
    BY <2>1, <1>2, ApplyDecisionType, ApplyDecisionSound
  <2> HIDE DEF out
  <2> QED BY <2>1, <2>2, <2>3, CarrySound DEF out
<1> QED BY <1>3, <1>4, <1>5

LEMMA InitSound == Init => SoundInv
<1> SUFFICES ASSUME Init PROVE SoundInv
  OBVIOUS
<1>1. LedgerSound
  BY DEF Init, LedgerSound, GovernedMoves, FailureIsExplained, RecordFollowsEvent,
         CompletionMatchesBrief
<1>2. \A s \in Sessions : SessionSound(session[s])
  BY IdleSound DEF Init
<1> QED BY <1>1, <1>2 DEF SoundInv

LEMMA NextSound == TypeInv /\ SoundInv /\ [Next]_vars => SoundInv'
<1> SUFFICES ASSUME TypeInv, SoundInv, [Next]_vars PROVE SoundInv'
  OBVIOUS
<1>1. CASE Next
  BY <1>1, CommitSound, StartRunSound, LoopSound, AnswerSound DEF Next
<1>2. CASE UNCHANGED vars
  <2>1. LedgerSound'
    BY <1>2 DEF vars, SoundInv, LedgerSound, GovernedMoves, FailureIsExplained,
                RecordFollowsEvent, CompletionMatchesBrief
  <2>2. ASSUME NEW t \in Sessions PROVE SessionSound(session[t])'
    BY <1>2 DEF vars, SoundInv, SessionSound, Recorded
  <2> QED BY <2>1, <2>2 DEF SoundInv
<1> QED BY <1>1, <1>2

\* However many terminals overwrite each other's rows, and wherever they die,
\* the ledger stays sound.
THEOREM LedgerStaysSound == Spec => []LedgerSound
<1>1. SoundInv => LedgerSound
  BY DEF SoundInv
<1>2. TypeInv /\ [Next]_vars => TypeInv'
  BY NextTypes
<1> QED BY <1>1, <1>2, InitTypes, InitSound, NextSound, PTL DEF Spec

\* A move reaches ledger as conforming only if advance() found it in the
\* brief and with the evidence it needs.
THEOREM MovesAreGoverned == Spec => []GovernedMoves
<1>1. LedgerSound => GovernedMoves
  BY DEF LedgerSound
<1> QED BY <1>1, LedgerStaysSound, PTL

\* A run that failed has a non-conformance record that says why: the breach is
\* saved before the run is.
THEOREM FailuresAreExplained == Spec => []FailureIsExplained
<1>1. LedgerSound => FailureIsExplained
  BY DEF LedgerSound
<1> QED BY <1>1, LedgerStaysSound, PTL

\* A non-conformance record has its immutable event on the ledger.
THEOREM RecordsFollowEvents == Spec => []RecordFollowsEvent
<1>1. LedgerSound => RecordFollowsEvent
  BY DEF LedgerSound
<1> QED BY <1>1, LedgerStaysSound, PTL

\* The status of a capsule is the one its state has in the brief.
THEOREM CompletionFollowsBrief == Spec => []CompletionMatchesBrief
<1>1. LedgerSound => CompletionMatchesBrief
  BY DEF LedgerSound
<1> QED BY <1>1, LedgerStaysSound, PTL

-----------------------------------------------------------------------------
(* The trail covers the capsule *)

\* The events a series of writes will record.
Entries(ws) == {ws[k].value : k \in {j \in DOMAIN ws : ws[j].table = "ledger"}}

\* The trail covers every capsule that memory m holds or is about to save.
CoversSession(trail, m) ==
    /\ m.capsule # None => Covers(trail, m.capsule)
    /\ \A k \in DOMAIN m.todo :
           m.todo[k].table = "capsules" => Covers(trail, m.todo[k].value)

\* A copy of the capsule, however stale, was once accounted for, and the trail
\* only grows as long as no process dies half way.
CoverInv ==
    ~lost => /\ capsule # None => Covers(Trail, capsule)
             /\ \A s \in Sessions : CoversSession(Trail, session[s])

TrailOf(evs, held) ==
    {evs[k] : k \in DOMAIN evs} \cup UNION {Entries(held[s].todo) : s \in Sessions}

LEMMA TrailReads ==
    Trail = TrailOf(events, session) /\ Trail' = TrailOf(events', session')
<1>1. Trail = TrailOf(events, session)
  <2>1. ASSUME NEW e PROVE e \in Trail <=> e \in TrailOf(events, session)
    BY DEF Trail, TrailOf, Entries, Pending
  <2> QED BY <2>1 DEF Trail, TrailOf
<1>2. Trail' = TrailOf(events', session')
  <2>1. ASSUME NEW e PROVE e \in Trail' <=> e \in TrailOf(events', session')
    BY DEF Trail, TrailOf, Entries, Pending
  <2> QED BY <2>1 DEF Trail, TrailOf
<1> QED BY <1>1, <1>2

LEMMA CoversGrows ==
    ASSUME NEW trail, NEW wider, trail \subseteq wider
    PROVE  /\ \A c : Covers(trail, c) => Covers(wider, c)
           /\ \A m : CoversSession(trail, m) => CoversSession(wider, m)
<1>1. \A c : Covers(trail, c) => Covers(wider, c)
  BY DEF Covers
<1> QED BY <1>1 DEF CoversSession

LEMMA NothingToCover ==
    ASSUME NEW trail
    PROVE  CoversSession(trail, Idle)
BY DEF CoversSession, Idle

\* What an outcome saves and keeps is covered by the trail it starts from and
\* the events it records.
CoversOutcome(c, out) ==
    \A trail : Covers(trail, c) =>
        /\ Covers(trail \cup Entries(out.writes), out.capsule)
        /\ \A k \in DOMAIN out.writes : out.writes[k].table = "capsules" =>
               Covers(trail \cup Entries(out.writes), out.writes[k].value)

\* The tables tell the writes apart.
LEMMA Tables ==
    /\ \A c : SaveCapsule(c).table = "capsules" /\ SaveCapsule(c).value = c
    /\ \A r : SaveRun(r).table = "runs" /\ SaveRun(r).value = r
    /\ \A e : RecordEvent(e).table = "ledger" /\ RecordEvent(e).value = e
    /\ \A n : SaveRecord(n).table = "non_conformance_records"
              /\ SaveRecord(n).value = n
BY DEF SaveCapsule, SaveRun, RecordEvent, SaveRecord

\* A frozen capsule is covered by what covers the capsule and the event that
\* froze it.
LEMMA FreezeCovered ==
    ASSUME NEW c \in ProcessCapsule, NEW trail, Covers(trail, c),
           NEW e \in trail, e.kind \in {"refused", "rejected"}, e.from = c.state
    PROVE  Covers(trail, Freeze(c))
<1>1. Freeze(c).state = c.state
  BY DEF Freeze, ProcessCapsule
<1> QED BY <1>1 DEF Covers

LEMMA AdvanceCovers ==
    ASSUME NEW c \in ProcessCapsule, NEW r \in RuntimeState,
           NEW to \in States, NEW ev \in Evidence
    PROVE  CoversOutcome(c, Advance(c, r, to, ev))
<1> PICK out : out = Advance(c, r, to, ev)
  OBVIOUS
<1> SUFFICES ASSUME NEW trail, Covers(trail, c)
             PROVE  /\ Covers(trail \cup Entries(out.writes), out.capsule)
                    /\ \A k \in DOMAIN out.writes : out.writes[k].table = "capsules" =>
                           Covers(trail \cup Entries(out.writes), out.writes[k].value)
  BY DEF CoversOutcome
<1>1. Covers(trail \cup Entries(out.writes), c)
  BY CoversGrows
<1>2. CASE out = RefuseInvalidTransition(c, r, to, ev)
  <2> DEFINE e == Entry("refused", c.state, to, ev)
             n == SaveRecord(Breach("NO_VALID_PATH", c.state, to))
  <2>1. out.writes = <<SaveCapsule(Freeze(c)), RecordEvent(e), n, SaveRun(Fail(r))>>
        /\ out.capsule = Freeze(c)
    BY <1>2 DEF RefuseInvalidTransition
  <2>2. n.table = "non_conformance_records"
    BY Tables
  <2>3. e.kind = "refused" /\ e.from = c.state
    BY DEF Entry
  <2> HIDE DEF e, n
  <2>4. e \in Entries(out.writes)
    BY <2>1, Tables DEF Entries
  <2>5. Covers(trail \cup Entries(out.writes), Freeze(c))
    BY <1>1, <2>3, <2>4, FreezeCovered
  <2>6. \A k \in DOMAIN out.writes :
            out.writes[k].table = "capsules" => out.writes[k].value = Freeze(c)
    BY <2>1, <2>2, Tables
  <2> QED BY <2>1, <2>5, <2>6
<1>3. CASE out = RefuseMissingEvidence(c, r, to)
  <2>1. \A k \in DOMAIN out.writes : out.writes[k].table # "capsules"
    BY <1>3, Tables DEF RefuseMissingEvidence
  <2>2. out.capsule = c
    BY <1>3 DEF RefuseMissingEvidence
  <2> QED BY <1>1, <2>1, <2>2
<1>4. CASE out = PerformTransition(c, r, to, ev)
  <2> DEFINE e == Entry("moved", c.state, to, ev)
             d == Moved(to, ev)
  <2>1. out.writes = <<SaveCapsule(d), RecordEvent(e), SaveRun(Tracked(r, to))>>
        /\ out.capsule = d
    BY <1>4 DEF PerformTransition
  <2>2. e.kind = "moved" /\ e.to = to /\ d.state = to /\ ~Frozen(d)
    BY DEF Entry, Moved, Frozen
  <2> HIDE DEF e, d
  <2>3. e \in Entries(out.writes)
    BY <2>1, Tables DEF Entries
  <2>4. Covers(trail \cup Entries(out.writes), d)
    BY <2>2, <2>3 DEF Covers
  <2>5. \A k \in DOMAIN out.writes :
            out.writes[k].table = "capsules" => out.writes[k].value = d
    BY <2>1, Tables
  <2> QED BY <2>1, <2>4, <2>5
<1> QED BY <1>2, <1>3, <1>4 DEF Advance

LEMMA RejectionCovers ==
    ASSUME NEW c \in ProcessCapsule, NEW r \in RuntimeState
    PROVE  CoversOutcome(c, MarkNonConformance(c, r))
<1> PICK out : out = MarkNonConformance(c, r)
  OBVIOUS
<1> SUFFICES ASSUME NEW trail, Covers(trail, c)
             PROVE  /\ Covers(trail \cup Entries(out.writes), out.capsule)
                    /\ \A k \in DOMAIN out.writes : out.writes[k].table = "capsules" =>
                           Covers(trail \cup Entries(out.writes), out.writes[k].value)
  BY DEF CoversOutcome
<1> DEFINE e == Entry("rejected", c.state, c.state, c.evidence)
           n == RejectionRecord(c)
<1>1. out.writes = <<SaveCapsule(Freeze(c)), RecordEvent(e), n, SaveRun(Fail(r))>>
      /\ out.capsule = Freeze(c)
  BY DEF MarkNonConformance, Rejection
<1>2. n.table = "non_conformance_records"
  BY Tables DEF RejectionRecord
<1>3. e.kind = "rejected" /\ e.from = c.state
  BY DEF Entry
<1> HIDE DEF e, n
<1>4. e \in Entries(out.writes)
  BY <1>1, Tables DEF Entries
<1>5. Covers(trail \cup Entries(out.writes), c)
  BY CoversGrows
<1>6. Covers(trail \cup Entries(out.writes), Freeze(c))
  BY <1>3, <1>4, <1>5, FreezeCovered
<1>7. \A k \in DOMAIN out.writes :
          out.writes[k].table = "capsules" => out.writes[k].value = Freeze(c)
  BY <1>1, <1>2, Tables
<1> QED BY <1>1, <1>6, <1>7

\* One series after another that saves no capsule.
LEMMA EntriesOn ==
    ASSUME NEW ws \in Seq(Write), NEW vs \in Seq(Write),
           NEW xs, xs = ws \o vs,
           \A k \in DOMAIN ws : ws[k].table # "capsules"
    PROVE  /\ Entries(vs) \subseteq Entries(xs)
           /\ \A k \in DOMAIN xs : xs[k].table = "capsules" =>
                  \E j \in DOMAIN vs : vs[j] = xs[k]
<1>2. /\ Len(ws) \in Nat /\ DOMAIN ws = 1 .. Len(ws)
      /\ Len(vs) \in Nat /\ DOMAIN vs = 1 .. Len(vs)
      /\ xs \in Seq(Write) /\ DOMAIN xs = 1 .. Len(ws) + Len(vs)
      /\ \A k \in 1 .. Len(ws) + Len(vs) :
             xs[k] = IF k <= Len(ws) THEN ws[k] ELSE vs[k - Len(ws)]
  BY ConcatProperties, LenProperties
<1>3. \A k \in DOMAIN vs : k + Len(ws) \in DOMAIN xs /\ xs[k + Len(ws)] = vs[k]
  BY <1>2
<1>4. \A k \in DOMAIN xs : xs[k].table = "capsules" =>
          k - Len(ws) \in DOMAIN vs /\ xs[k] = vs[k - Len(ws)]
  BY <1>2
<1>5. Entries(vs) \subseteq Entries(xs)
  BY <1>3 DEF Entries
<1> QED BY <1>4, <1>5

LEMMA ApplyDecisionCovers ==
    ASSUME NEW c \in ProcessCapsule, NEW r \in RuntimeState,
           NEW to \in States, NEW ev \in Evidence, NEW decision
    PROVE  CoversOutcome(c, ApplyDecision(c, r, to, ev, decision))
<1> PICK rejected \in BOOLEAN : rejected = (decision = "REJECT")
  OBVIOUS
<1> PICK resolved : resolved = ResolveGate(r, ~rejected)
  OBVIOUS
<1> PICK flagged : flagged = IF decision = "FLAG" THEN <<Flag(c)>> ELSE <<>>
  OBVIOUS
<1> PICK rest : rest = IF decision = "REJECT" THEN MarkNonConformance(c, resolved)
                       ELSE Advance(c, resolved, to, ev)
  OBVIOUS
<1> PICK prefix : prefix = flagged \o <<SaveRun(resolved)>>
  OBVIOUS
<1> PICK out : out = ApplyDecision(c, r, to, ev, decision)
  OBVIOUS
<1>1. resolved \in RuntimeState
  BY RunTypes
<1>2. rest \in Outcome /\ CoversOutcome(c, rest)
  BY <1>1, AdvanceType, MarkNonConformanceType, AdvanceCovers, RejectionCovers
<1>3. flagged \in Seq(Write) /\ <<SaveRun(resolved)>> \in Seq(Write)
  BY <1>1, FlagType, WriteTypes, SeriesTypes, EmptySeq
<1>4. out = [rest EXCEPT !.writes = flagged \o <<SaveRun(resolved)>> \o rest.writes]
  BY DEF ApplyDecision
<1>5. prefix \in Seq(Write)
  BY <1>3, ConcatProperties
<1>6. rest.writes \in Seq(Write)
  BY <1>2 DEF Outcome
<1>7. out.writes = prefix \o rest.writes /\ out.capsule = rest.capsule
  BY <1>2, <1>3, <1>4, <1>6 DEF Outcome
<1>8. \A k \in DOMAIN prefix : prefix[k].table # "capsules"
  <2> DEFINE S == {w \in Write : w.table # "capsules"}
  <2>1. Flag(c) \in S /\ SaveRun(resolved) \in S
    BY <1>1, FlagType, WriteTypes, Tables DEF Flag
  <2>2. flagged \in Seq(S) /\ <<SaveRun(resolved)>> \in Seq(S)
    <3> HIDE DEF S
    <3> QED BY <2>1, SeriesTypes, EmptySeq
  <2>3. prefix \in Seq(S)
    <3> HIDE DEF S
    <3> QED BY <2>2, ConcatProperties
  <2>4. \A k \in DOMAIN prefix : prefix[k] \in S
    <3> HIDE DEF S
    <3> QED BY <2>3, ElementOfSeq, LenProperties
  <2> QED BY <2>4
<1> SUFFICES ASSUME NEW trail, Covers(trail, c)
             PROVE  /\ Covers(trail \cup Entries(out.writes), out.capsule)
                    /\ \A k \in DOMAIN out.writes : out.writes[k].table = "capsules" =>
                           Covers(trail \cup Entries(out.writes), out.writes[k].value)
  BY DEF CoversOutcome
<1>9. /\ Covers(trail \cup Entries(rest.writes), rest.capsule)
      /\ \A k \in DOMAIN rest.writes : rest.writes[k].table = "capsules" =>
             Covers(trail \cup Entries(rest.writes), rest.writes[k].value)
  BY <1>2 DEF CoversOutcome
<1> PICK T1 : T1 = trail \cup Entries(rest.writes)
  OBVIOUS
<1> PICK T2 : T2 = trail \cup Entries(out.writes)
  OBVIOUS
<1>10. T1 \subseteq T2
  <2>1. Entries(rest.writes) \subseteq Entries(out.writes)
    BY <1>5, <1>6, <1>7, <1>8, EntriesOn
  <2> QED BY <2>1
<1>11. \A k \in DOMAIN out.writes : out.writes[k].table = "capsules" =>
           \E j \in DOMAIN rest.writes : rest.writes[j] = out.writes[k]
  <2>1. PICK vs : vs = rest.writes
    OBVIOUS
  <2>2. vs \in Seq(Write) /\ out.writes = prefix \o vs
    BY <1>6, <1>7, <2>1
  <2>3. \A k \in DOMAIN out.writes : out.writes[k].table = "capsules" =>
            \E j \in DOMAIN vs : vs[j] = out.writes[k]
    BY <1>5, <1>8, <2>2, EntriesOn
  <2> QED BY <2>1, <2>3
<1>12. Covers(T2, rest.capsule)
  <2>1. Covers(T1, rest.capsule)
    BY <1>9
  <2> QED BY <1>10, <2>1, CoversGrows
<1>13. ASSUME NEW k \in DOMAIN out.writes, out.writes[k].table = "capsules"
       PROVE  Covers(T2, out.writes[k].value)
  <2>1. PICK j \in DOMAIN rest.writes : rest.writes[j] = out.writes[k]
    BY <1>11, <1>13
  <2>2. Covers(T1, out.writes[k].value)
    BY <1>9, <1>13, <2>1
  <2> QED BY <1>10, <2>2, CoversGrows
<1> QED BY <1>7, <1>12, <1>13

\* A terminal with nothing left to write takes over m.
LEMMA CoverStep ==
    ASSUME TypeInv, CoverInv, NEW s \in Sessions, NEW m,
           session' = [session EXCEPT ![s] = m], session[s].todo = <<>>, UNCHANGED rows,
           ~lost' => ~lost,
           ~lost => CoversSession(Trail \cup Entries(m.todo), m)
    PROVE  CoverInv'
<1> SUFFICES ASSUME ~lost'
             PROVE  /\ capsule' # None => Covers(Trail', capsule')
                    /\ \A t \in Sessions : CoversSession(Trail', session'[t])
  BY DEF CoverInv, CoversSession
<1>1. /\ capsule' = capsule /\ events' = events
      /\ \A t \in Sessions : session'[t] = IF t = s THEN m ELSE session[t]
  BY DEF rows, TypeInv, TypeOK
<1>2. Trail \subseteq Trail' /\ Entries(m.todo) \subseteq Trail'
  <2>1. Entries(session[s].todo) = {}
    BY DEF Entries
  <2>2. TrailOf(events, session) \subseteq TrailOf(events', session')
    BY <1>1, <2>1 DEF TrailOf
  <2>3. Entries(m.todo) \subseteq TrailOf(events', session')
    BY <1>1 DEF TrailOf
  <2> QED BY <2>2, <2>3, TrailReads
<1>3. capsule' # None => Covers(Trail', capsule')
  BY <1>1, <1>2, CoversGrows DEF CoverInv
<1>4. ASSUME NEW t \in Sessions PROVE CoversSession(Trail', session'[t])
  <2>1. CASE t = s
    <3>1. Trail \cup Entries(m.todo) \subseteq Trail'
      BY <1>2
    <3> QED BY <1>1, <2>1, <3>1, CoversGrows
  <2>2. CASE t # s
    BY <1>1, <1>2, <2>2, CoversGrows DEF CoverInv
  <2> QED BY <2>1, <2>2
<1> QED BY <1>3, <1>4

\* What memory m holds besides its writes.
LEMMA CoversKept ==
    ASSUME NEW trail, NEW m, \A k \in DOMAIN m.todo : m.todo[k].table # "capsules",
           m.capsule # None => Covers(trail, m.capsule)
    PROVE  CoversSession(trail \cup Entries(m.todo), m) /\ CoversSession(trail, m)
<1>1. trail \subseteq trail \cup Entries(m.todo)
  OBVIOUS
<1>2. CoversSession(trail, m)
  BY DEF CoversSession
<1> QED BY <1>1, <1>2, CoversGrows

LEMMA SettleCovers ==
    ASSUME NEW trail, NEW m, CoversSession(trail \cup Entries(m.todo), m)
    PROVE  CoversSession(trail \cup Entries(Settle(m).todo), Settle(m))
BY NothingToCover DEF Settle

LEMMA CarryCovers ==
    ASSUME TypeInv, CoverInv, NEW s \in Sessions, session[s].todo = <<>>,
           session[s].capsule \in ProcessCapsule, NEW out \in Outcome,
           CoversOutcome(session[s].capsule, out),
           Carry(s, out), UNCHANGED <<rows, lost>>
    PROVE  CoverInv'
<1> PICK m : m = [session[s] EXCEPT
                    !.at = AfterAttempt(session[s].command, out.raised),
                    !.capsule = out.capsule, !.run = out.run,
                    !.to = None, !.evidence = 0, !.todo = out.writes]
  OBVIOUS
<1>1. session' = [session EXCEPT ![s] = m]
  BY DEF Carry, Become
<1>2. session[s] \in Session
  BY DEF TypeInv, TypeOK
<1>3. m.todo = out.writes /\ m.capsule = out.capsule
  BY <1>2 DEF Session
<1>4. ASSUME ~lost PROVE CoversSession(Trail \cup Entries(m.todo), m)
  <2>1. Covers(Trail, session[s].capsule)
    BY <1>4, NoneAssumption DEF CoverInv, CoversSession
  <2>2. PICK T : T = Trail
    OBVIOUS
  <2>3. /\ Covers(T \cup Entries(out.writes), out.capsule)
        /\ \A k \in DOMAIN out.writes : out.writes[k].table = "capsules" =>
               Covers(T \cup Entries(out.writes), out.writes[k].value)
    BY <2>1, <2>2 DEF CoversOutcome
  <2> QED BY <1>3, <2>2, <2>3 DEF CoversSession
<1> QED BY <1>1, <1>4, CoverStep

\* A step that saves no capsule and takes its copy from what is there.
LEMMA KeepCovers ==
    ASSUME TypeInv, CoverInv, NEW s \in Sessions, session[s].todo = <<>>, NEW m,
           session' = [session EXCEPT ![s] = Settle(m)], UNCHANGED <<rows, lost>>,
           m.capsule \in {None, capsule, session[s].capsule},
           \A k \in DOMAIN m.todo : m.todo[k].table # "capsules"
    PROVE  CoverInv'
<1>1. ASSUME ~lost
      PROVE  CoversSession(Trail \cup Entries(Settle(m).todo), Settle(m))
  <2>1. m.capsule # None => Covers(Trail, m.capsule)
    BY <1>1 DEF CoverInv, CoversSession
  <2> QED BY <2>1, CoversKept, SettleCovers
<1> QED BY <1>1, CoverStep

\* One write reaches the ledger: the trail is what it was.
LEMMA CommitCovers ==
    ASSUME TypeInv, CoverInv, NEW s \in Sessions, Commit(s)
    PROVE  CoverInv'
<1> PICK ws : ws = session[s].todo
  OBVIOUS
<1> PICK w : w = Head(ws)
  OBVIOUS
<1> PICK vs : vs = Tail(ws)
  OBVIOUS
<1> PICK m0 : m0 = [session[s] EXCEPT !.todo = vs]
  OBVIOUS
<1> PICK m : m = Settle(m0)
  OBVIOUS
<1>1. session[s] \in Session /\ ws \in Seq(Write) /\ events \in Seq(Event)
  BY DEF TypeInv, TypeOK, Session
<1>2. ws # <<>> /\ session' = [session EXCEPT ![s] = m] /\ UNCHANGED lost
  <2>1. PICK table : Committing(s, table)
    BY DEF Commit, CommitCapsule, CommitRun, CommitEvent, CommitRecord
  <2> QED BY <2>1 DEF Committing, Become
<1>3. /\ w \in Write /\ w = ws[1] /\ Len(ws) \in Nat \ {0} /\ DOMAIN ws = 1 .. Len(ws)
      /\ DOMAIN vs = 1 .. Len(ws) - 1
      /\ \A k \in 1 .. Len(ws) - 1 : vs[k] = ws[k + 1]
  BY <1>1, <1>2, HeadTailProperties, EmptySeq, LenProperties
<1>4. m0.todo = vs /\ m0.capsule = session[s].capsule
  BY <1>1 DEF Session
<1>5. \A t \in Sessions : session'[t] = IF t = s THEN m ELSE session[t]
  BY <1>2 DEF TypeInv, TypeOK
<1>6. (m = m0 \/ m = Idle) /\ m.todo = vs
  BY <1>4 DEF Settle, Idle
<1>7. \A e \in Entries(ws) : e \in Entries(m.todo) \/ (w.table = "ledger" /\ e = w.value)
  <2>1. ASSUME NEW e \in Entries(ws)
        PROVE  e \in Entries(m.todo) \/ (w.table = "ledger" /\ e = w.value)
    <3>1. PICK k \in DOMAIN ws : ws[k].table = "ledger" /\ e = ws[k].value
      BY DEF Entries
    <3>2. CASE k = 1
      BY <1>3, <3>1, <3>2
    <3>3. CASE k # 1
      <4>1. k - 1 \in DOMAIN vs /\ vs[k - 1] = ws[k]
        BY <1>3, <3>3
      <4>2. m.todo[k - 1].table = "ledger" /\ e = m.todo[k - 1].value
        BY <1>6, <3>1, <4>1
      <4> QED BY <1>6, <4>1, <4>2 DEF Entries
    <3> QED BY <3>2, <3>3
  <2> QED BY <2>1
<1>8. /\ events' = IF w.table = "ledger" THEN Append(events, w.value) ELSE events
      /\ capsule' = IF w.table = "capsules" THEN w.value ELSE capsule
  BY DEF Commit, CommitCapsule, CommitRun, CommitEvent, CommitRecord, Committing
<1>9. Trail \subseteq Trail'
  <2>1. /\ {events[k] : k \in DOMAIN events} \subseteq {events'[k] : k \in DOMAIN events'}
        /\ w.table = "ledger" => w.value \in {events'[k] : k \in DOMAIN events'}
    <3>1. CASE w.table = "ledger"
      <4>1. w.value \in Event
        BY <1>3, <3>1, WriteTables
      <4>2. /\ Len(events) \in Nat /\ DOMAIN events = 1 .. Len(events)
            /\ DOMAIN events' = 1 .. Len(events) + 1
            /\ \A k \in DOMAIN events : events'[k] = events[k]
            /\ events'[Len(events) + 1] = w.value
        BY <1>1, <1>8, <3>1, <4>1, AppendProperties, LenProperties
      <4> QED BY <4>2
    <3>2. CASE w.table # "ledger"
      BY <1>8, <3>2
    <3> QED BY <3>1, <3>2
  <2>2. ASSUME NEW t \in Sessions, NEW e \in Entries(session[t].todo)
        PROVE  e \in TrailOf(events', session')
    <3>1. CASE t = s
      BY <1>5, <1>7, <2>1, <2>2, <3>1 DEF TrailOf
    <3>2. CASE t # s
      BY <1>5, <2>2, <3>2 DEF TrailOf
    <3> QED BY <3>1, <3>2
  <2>3. TrailOf(events, session) \subseteq TrailOf(events', session')
    BY <2>1, <2>2 DEF TrailOf
  <2> QED BY <2>3, TrailReads
<1> SUFFICES ASSUME ~lost'
             PROVE  /\ capsule' # None => Covers(Trail', capsule')
                    /\ \A t \in Sessions : CoversSession(Trail', session'[t])
  BY DEF CoverInv, CoversSession
<1>10. /\ capsule # None => Covers(Trail', capsule)
       /\ \A t \in Sessions : CoversSession(Trail', session[t])
  BY <1>2, <1>9, CoversGrows DEF CoverInv
<1>11. /\ session[s].capsule # None => Covers(Trail', session[s].capsule)
       /\ \A k \in DOMAIN ws : ws[k].table = "capsules" => Covers(Trail', ws[k].value)
  BY <1>10 DEF CoversSession
<1>12. capsule' # None => Covers(Trail', capsule')
  BY <1>3, <1>8, <1>10, <1>11
<1>13. CoversSession(Trail', m)
  <2>1. CASE m = m0
    <3>1. \A k \in DOMAIN vs : vs[k].table = "capsules" => Covers(Trail', vs[k].value)
      <4>1. \A k \in DOMAIN vs : k + 1 \in DOMAIN ws /\ vs[k] = ws[k + 1]
        BY <1>3
      <4> QED BY <1>11, <4>1
    <3>2. PICK T : T = Trail'
      OBVIOUS
    <3>3. CoversSession(T, m)
      BY <1>4, <1>6, <1>11, <2>1, <3>1, <3>2 DEF CoversSession
    <3> QED BY <3>2, <3>3
  <2>2. CASE m = Idle
    BY <2>2, NothingToCover
  <2> QED BY <1>6, <2>1, <2>2
<1>14. \A t \in Sessions : CoversSession(Trail', session'[t])
  BY <1>5, <1>10, <1>13
<1> QED BY <1>12, <1>14

LEMMA StartRunCovers ==
    ASSUME TypeInv, CoverInv, NEW s \in Sessions, StartRun(s)
    PROVE  CoverInv'
<1> PICK m : m = [Idle EXCEPT !.at = LoopHead(NewCapsule), !.command = "loop",
                              !.capsule = NewCapsule, !.run = NewRun,
                              !.todo = StartWrites]
  OBVIOUS
<1>1. /\ session' = [session EXCEPT ![s] = m] /\ UNCHANGED <<rows, lost>>
      /\ session[s].todo = <<>>
  BY DEF StartRun, Become, Idle
<1>2. m.todo = StartWrites /\ m.capsule = NewCapsule
  BY DEF Idle
<1> DEFINE e == Entry("created", None, Initial, 0)
<1>3. e.kind = "created" /\ e.to = Initial
  BY DEF Entry
<1>4. StartWrites = <<SaveCapsule(NewCapsule), SaveRun(NewRun), RecordEvent(e)>>
  BY DEF StartWrites
<1> HIDE DEF e
<1>5. e \in Entries(m.todo)
  BY <1>2, <1>4, Tables DEF Entries
<1>6. NewCapsule.state = Initial /\ ~Frozen(NewCapsule)
  BY DEF NewCapsule, Frozen
<1> PICK trail : trail = Trail \cup Entries(m.todo)
  OBVIOUS
<1>7. Covers(trail, NewCapsule)
  BY <1>3, <1>5, <1>6 DEF Covers
<1>8. \A k \in DOMAIN m.todo :
          m.todo[k].table = "capsules" => m.todo[k].value = NewCapsule
  BY <1>2, <1>4, Tables
<1>9. CoversSession(trail, m)
  BY <1>2, <1>7, <1>8 DEF CoversSession
<1> QED BY <1>1, <1>9, CoverStep

\* Every step that is neither a commit, a start nor an attempt.
LEMMA LoopCovers ==
    ASSUME TypeInv, CoverInv, NEW s \in Sessions,
           \/ Resume(s) \/ ResumeCapsule(s) \/ AttachArtifact(s)
           \/ ReloadCapsule(s) \/ ReloadRun(s) \/ Quit(s)
           \/ Review(s) \/ NothingToReview(s)
           \/ RunsBlock(s) \/ RunsComplete(s) \/ Die(s)
    PROVE  CoverInv'
<1>1. session[s] \in Session
  BY DEF TypeInv, TypeOK
<1>2. \A r : \A k \in DOMAIN <<SaveRun(r)>> : <<SaveRun(r)>>[k].table # "capsules"
  BY Tables
<1>3. CASE Die(s)
  <2>1. session' = [session EXCEPT ![s] = Idle] /\ UNCHANGED rows
        /\ (~lost' => ~lost /\ session[s].todo = <<>>)
    BY <1>3 DEF Die, Become
  <2>2. CASE ~lost'
    <3>1. CoversSession(Trail \cup Entries(Idle.todo), Idle)
      BY NothingToCover
    <3> QED BY <2>1, <2>2, <3>1, CoverStep
  <2>3. CASE lost'
    BY <2>3 DEF CoverInv
  <2> QED BY <2>2, <2>3
<1>4. CASE ~Die(s)
  <2>1. session[s].todo = <<>> /\ UNCHANGED <<rows, lost>>
    BY <1>4 DEF Resume, ResumeCapsule, AttachArtifact, ReloadCapsule, ReloadRun, Quit,
                Review, NothingToReview, RunsBlock, RunsComplete, Ready, Idle
  <2>2. CASE Resume(s)
    <3>1. PICK m : m = [Idle EXCEPT !.at = "resuming", !.command = "loop", !.run = run]
      OBVIOUS
    <3>2. m.capsule = None /\ m.todo = <<>> /\ Settle(m) = m
      BY <3>1 DEF Idle, Settle
    <3>3. session' = [session EXCEPT ![s] = m]
      BY <2>2, <3>1 DEF Resume, Become
    <3>4. \A k \in DOMAIN m.todo : m.todo[k].table # "capsules"
      BY <1>2, <3>2, <3>3
    <3> QED BY <2>1, <3>4, <3>2, <3>3, KeepCovers
  <2>3. CASE ResumeCapsule(s)
    <3>1. PICK todo : /\ session' = [session EXCEPT ![s] = Settle([session[s] EXCEPT
                             !.at = IF session[s].run.status \in {"complete", "failed"}
                                    THEN "leaving" ELSE LoopHead(capsule),
                             !.capsule = capsule, !.run = ResumeRun(session[s].run),
                             !.todo = todo])]
                      /\ todo \in {<<>>, <<SaveRun(ResumeRun(session[s].run))>>}
      BY <2>3 DEF ResumeCapsule, Become
    <3>2. PICK m : m = [session[s] EXCEPT
                             !.at = IF session[s].run.status \in {"complete", "failed"}
                                    THEN "leaving" ELSE LoopHead(capsule),
                             !.capsule = capsule, !.run = ResumeRun(session[s].run),
                             !.todo = todo]
      OBVIOUS
    <3>3. m.capsule = capsule /\ m.todo = todo
      BY <1>1, <3>2 DEF Session
    <3>4. \A k \in DOMAIN m.todo : m.todo[k].table # "capsules"
      BY <1>2, <3>1, <3>2, <3>3
    <3> QED BY <2>1, <3>4, <3>1, <3>2, <3>3, KeepCovers
  <2>4. CASE AttachArtifact(s)
    <3>1. PICK todo \in {<<>>, <<SaveRun(session[s].run)>>} :
              session' = [session EXCEPT ![s] =
                  Settle([session[s] EXCEPT !.at = LoopHead(session[s].capsule),
                                            !.todo = todo])]
      BY <2>4 DEF AttachArtifact, Become
    <3>2. PICK m : m = [session[s] EXCEPT !.at = LoopHead(session[s].capsule),
                                          !.todo = todo]
      OBVIOUS
    <3>3. m.capsule = session[s].capsule /\ m.todo = todo
      BY <1>1, <3>2 DEF Session
    <3>4. \A k \in DOMAIN m.todo : m.todo[k].table # "capsules"
      BY <1>2, <3>1, <3>2, <3>3
    <3> QED BY <2>1, <3>4, <3>1, <3>2, <3>3, KeepCovers
  <2>5. CASE ReloadCapsule(s)
    <3>1. PICK m : m = [session[s] EXCEPT !.at = "rereading", !.capsule = capsule]
      OBVIOUS
    <3>2. m.capsule = capsule /\ m.todo = <<>> /\ Settle(m) = m
      BY <1>1, <2>5, <3>1 DEF Session, Settle, ReloadCapsule, Ready
    <3>3. session' = [session EXCEPT ![s] = m]
      BY <2>5, <3>1 DEF ReloadCapsule, Become
    <3>4. \A k \in DOMAIN m.todo : m.todo[k].table # "capsules"
      BY <1>2, <3>2, <3>3
    <3> QED BY <2>1, <3>4, <3>2, <3>3, KeepCovers
  <2>6. CASE ReloadRun(s)
    <3>1. PICK m : m = [session[s] EXCEPT !.at = LoopHead(session[s].capsule),
                                          !.run = run]
      OBVIOUS
    <3>2. m.capsule = session[s].capsule /\ m.todo = <<>>
      BY <1>1, <2>6, <3>1 DEF Session, ReloadRun, Ready
    <3>3. session' = [session EXCEPT ![s] = Settle(m)]
      BY <2>6, <3>1 DEF ReloadRun, Become
    <3>4. \A k \in DOMAIN m.todo : m.todo[k].table # "capsules"
      BY <1>2, <3>2, <3>3
    <3> QED BY <2>1, <3>4, <3>2, <3>3, KeepCovers
  <2>7. CASE Quit(s) \/ RunsBlock(s) \/ RunsComplete(s)
    <3>1. PICK r : RewriteRun(s, r)
      BY <2>7 DEF Quit, RunsBlock, RunsComplete
    <3>2. PICK m : m = [Idle EXCEPT !.at = "leaving", !.todo = <<SaveRun(r)>>]
      OBVIOUS
    <3>3. m.capsule = None /\ m.todo = <<SaveRun(r)>> /\ Settle(m) = m
      BY <3>2 DEF Idle, Settle
    <3>4. session' = [session EXCEPT ![s] = m]
      BY <3>1, <3>2 DEF RewriteRun, Become
    <3>5. \A k \in DOMAIN m.todo : m.todo[k].table # "capsules"
      BY <1>2, <3>3, <3>4
    <3> QED BY <2>1, <3>5, <3>3, <3>4, KeepCovers
  <2>8. CASE Review(s)
    <3>1. PICK m : m = [Idle EXCEPT !.at = "reviewing", !.command = "review",
                                    !.capsule = capsule]
      OBVIOUS
    <3>2. m.capsule = capsule /\ m.todo = <<>> /\ Settle(m) = m
      BY <3>1 DEF Idle, Settle
    <3>3. session' = [session EXCEPT ![s] = m]
      BY <2>8, <3>1 DEF Review, Become
    <3>4. \A k \in DOMAIN m.todo : m.todo[k].table # "capsules"
      BY <1>2, <3>2, <3>3
    <3> QED BY <2>1, <3>4, <3>2, <3>3, KeepCovers
  <2>9. CASE NothingToReview(s)
    <3>1. Idle.capsule = None /\ Idle.todo = <<>> /\ Settle(Idle) = Idle
      BY DEF Idle, Settle
    <3>2. session' = [session EXCEPT ![s] = Idle]
      BY <2>9 DEF NothingToReview, Become
    <3>3. \A k \in DOMAIN Idle.todo : Idle.todo[k].table # "capsules"
      BY <1>2, <3>1, <3>2
    <3> QED BY <2>1, <3>3, <3>1, <3>2, KeepCovers
  <2> QED BY <1>4, <2>2, <2>3, <2>4, <2>5, <2>6, <2>7, <2>8, <2>9
<1> QED BY <1>3, <1>4

\* The steps in which a person answers.
LEMMA AnswerCovers ==
    ASSUME TypeInv, CoverInv, NEW s \in Sessions,
           Attempt(s) \/ OpenReview(s) \/ Decide(s)
    PROVE  CoverInv'
<1>1. /\ session[s] \in Session /\ Loaded(session[s]) /\ session[s].todo = <<>>
      /\ session[s].capsule \in ProcessCapsule /\ UNCHANGED <<rows, lost>>
  BY DEF TypeInv, TypeOK, Loaded, Attempt, OpenReview, Decide, Ready
<1> PICK c : c = session[s].capsule
  OBVIOUS
<1>2. ASSUME NEW r, NEW to, NEW ev, OpenGate(s, r, to, ev)
      PROVE  CoverInv'
  <2>1. PICK q : q = EnterHumanReview(r)
    OBVIOUS
  <2>2. PICK m : m = [session[s] EXCEPT !.at = "gate", !.to = to, !.evidence = ev,
                                        !.run = q, !.todo = <<SaveRun(q)>>]
    OBVIOUS
  <2>3. m.capsule = c /\ m.todo = <<SaveRun(q)>> /\ m.at = "gate"
    BY <1>1, <2>2 DEF Session
  <2>4. session' = [session EXCEPT ![s] = Settle(m)]
    BY <1>2, <2>1, <2>2, <2>3 DEF OpenGate, Become, Settle
  <2>5. \A k \in DOMAIN m.todo : m.todo[k].table # "capsules"
    BY <2>3, Tables
  <2> QED BY <1>1, <2>3, <2>4, <2>5, KeepCovers
<1>3. CASE OpenReview(s)
  <2>1. \E r, to, ev : OpenGate(s, r, to, ev)
    BY <1>3 DEF OpenReview
  <2> QED BY <1>2, <2>1
<1>4. CASE Attempt(s)
  <2>1. PICK i \in TransitionsFrom(c.state) :
            \E ev \in {0, Governing(c.state, Transitions[i].to)} :
                \/ OpenGate(s, session[s].run, Transitions[i].to, ev)
                \/ Carry(s, Advance(c, session[s].run, Transitions[i].to, ev))
    BY <1>4 DEF Attempt
  <2>2. PICK ev \in {0, Governing(c.state, Transitions[i].to)} :
            \/ OpenGate(s, session[s].run, Transitions[i].to, ev)
            \/ Carry(s, Advance(c, session[s].run, Transitions[i].to, ev))
    BY <2>1
  <2>3. i \in DOMAIN Transitions /\ i \in Matching(c.state, Transitions[i].to)
    BY DEF TransitionsFrom, Matching
  <2>4. Transitions[i].to \in States /\ ev \in Evidence
    BY <2>2, <2>3, TransitionFields, GoverningMatches, IdleOK DEF Idle, Session
  <2>5. session[s].run \in RuntimeState
    BY <1>1, <1>4 DEF Attempt, Ready, Loaded
  <2>6. PICK out : out = Advance(c, session[s].run, Transitions[i].to, ev)
    OBVIOUS
  <2>7. out \in Outcome /\ CoversOutcome(c, out)
    BY <1>1, <2>4, <2>5, <2>6, AdvanceType, AdvanceCovers
  <2>8. CASE Carry(s, out)
    BY <1>1, <2>7, <2>8, CarryCovers
  <2> QED BY <1>2, <2>2, <2>6, <2>8
<1>5. CASE Decide(s)
  <2>1. /\ session[s].run \in RuntimeState
        /\ session[s].to \in States /\ session[s].evidence \in Evidence
    BY <1>1, <1>5 DEF Decide, Ready, Loaded, Session
  <2>2. PICK decision \in {"APPROVE", "REJECT", "FLAG"} :
            Carry(s, ApplyDecision(c, session[s].run, session[s].to,
                                   session[s].evidence, decision))
    BY <1>5 DEF Decide
  <2>3. PICK out : out = ApplyDecision(c, session[s].run, session[s].to,
                                       session[s].evidence, decision)
    OBVIOUS
  <2>4. out \in Outcome /\ CoversOutcome(c, out)
    BY <1>1, <2>1, <2>3, ApplyDecisionType, ApplyDecisionCovers
  <2> QED BY <1>1, <2>2, <2>3, <2>4, CarryCovers
<1> QED BY <1>3, <1>4, <1>5

LEMMA InitCovers == Init => CoverInv
<1> SUFFICES ASSUME Init PROVE CoverInv
  OBVIOUS
<1>1. \A s \in Sessions : CoversSession(Trail, session[s])
  BY NothingToCover DEF Init
<1> QED BY <1>1 DEF Init, CoverInv

LEMMA NextCovers == TypeInv /\ CoverInv /\ [Next]_vars => CoverInv'
<1> SUFFICES ASSUME TypeInv, CoverInv, [Next]_vars PROVE CoverInv'
  OBVIOUS
<1>1. CASE Next
  BY <1>1, CommitCovers, StartRunCovers, LoopCovers, AnswerCovers DEF Next
<1>2. CASE UNCHANGED vars
  <2>1. Trail' = Trail /\ capsule' = capsule /\ session' = session /\ lost' = lost
    BY <1>2, TrailReads DEF vars
  <2> QED BY <2>1 DEF CoverInv, CoversSession
<1> QED BY <1>1, <1>2

\* As long as no process died half way the ledger accounts for the capsule,
\* however many terminals overwrite each other's rows with stale copies: some
\* event took it to its state, and some event froze it if it is frozen.
THEOREM TrailAlwaysCoversCapsule == Spec => []TrailCoversCapsule
<1>1. CoverInv => TrailCoversCapsule
  BY DEF CoverInv, TrailCoversCapsule
<1>2. TypeInv /\ [Next]_vars => TypeInv'
  BY NextTypes
<1> QED BY <1>1, <1>2, InitTypes, InitCovers, NextCovers, PTL DEF Spec

-----------------------------------------------------------------------------
(* One terminal: what its writes will leave in the rows *)

\* Every row that ws writes to the table is v, and v is there if it writes none.
Sets(ws, table, row, v) ==
    /\ \A k \in DOMAIN ws : ws[k].table = table => ws[k].value = v
    /\ ~WritesTo(ws, table) => row = v

Placing(e) == e.kind \in {"created", "moved"}

IsPlacing(w) == w.table = "ledger" /\ Placing(w.value)

\* The last event that places the capsule puts it in this state.
LastTo(evs, state) ==
    \E k \in DOMAIN evs :
        /\ Placing(evs[k]) /\ evs[k].to = state
        /\ \A j \in DOMAIN evs : Placing(evs[j]) => j <= k

\* ... once ws is committed.
Placed(ws, evs, state) ==
    /\ \A k \in DOMAIN ws : IsPlacing(ws[k]) => ws[k].value.to = state
    /\ (\A k \in DOMAIN ws : ~IsPlacing(ws[k])) => LastTo(evs, state)

\* ws takes the capsule from c to d, and the row of the run from r to s.
Brings(ws, c, r, evs, d, s) ==
    /\ Sets(ws, "capsules", c, d)
    /\ LeadsTo(ws, "runs", r, s)
    /\ LastTo(evs, c.state) => Placed(ws, evs, d.state)

LEMMA BringsNothing ==
    ASSUME NEW c, NEW r, NEW evs
    PROVE  Brings(<<>>, c, r, evs, c, r)
BY LeadsNowhere DEF Brings, Sets, Placed

\* A single write of the run.
LEMMA BringsRun ==
    ASSUME NEW c, NEW r, NEW evs, NEW s
    PROVE  Brings(<<SaveRun(s)>>, c, r, evs, c, s)
<1> PICK w : w = SaveRun(s)
  OBVIOUS
<1>1. w.table = "runs" /\ w.value = s
  BY Tables
<1>2. Sets(<<w>>, "capsules", c, c) /\ LeadsTo(<<w>>, "runs", r, s)
  BY <1>1 DEF Sets, LeadsTo
<1>3. LastTo(evs, c.state) => Placed(<<w>>, evs, c.state)
  BY <1>1 DEF Placed, IsPlacing
<1> QED BY <1>2, <1>3 DEF Brings

\* A row of the table, and the ledger, once the write w is made.
After(w, table, row) == IF w.table = table THEN w.value ELSE row
Grown(w, evs) == IF w.table = "ledger" THEN Append(evs, w.value) ELSE evs

\* The first write of a series has been committed.
LEMMA SetsAfterFirst ==
    ASSUME NEW ws \in Seq(Write), ws # <<>>, NEW w, w = Head(ws), NEW vs, vs = Tail(ws),
           NEW table, NEW row, NEW v, Sets(ws, table, row, v)
    PROVE  /\ Sets(vs, table, After(w, table, row), v)
           /\ w.table = table => w.value = v
<1>1. /\ Len(ws) \in Nat \ {0} /\ DOMAIN ws = 1 .. Len(ws)
      /\ w = ws[1] /\ vs \in Seq(Write) /\ DOMAIN vs = 1 .. Len(ws) - 1
      /\ \A k \in 1 .. Len(ws) - 1 : vs[k] = ws[k + 1]
  BY HeadTailProperties, EmptySeq, LenProperties
<1>2. \A k \in DOMAIN vs : k + 1 \in DOMAIN ws /\ vs[k] = ws[k + 1]
  BY <1>1
<1>3. w.table = table => w.value = v
  BY <1>1 DEF Sets
<1>4. \A k \in DOMAIN vs : vs[k].table = table => vs[k].value = v
  BY <1>2 DEF Sets
<1>5. WritesTo(ws, table) <=> w.table = table \/ WritesTo(vs, table)
  BY LeadsAfterFirst
<1> QED BY <1>3, <1>4, <1>5 DEF Sets, After

LEMMA PlacedAfterFirst ==
    ASSUME NEW ws \in Seq(Write), ws # <<>>, NEW w, w = Head(ws), NEW vs, vs = Tail(ws),
           NEW evs \in Seq(Event), NEW state, Placed(ws, evs, state)
    PROVE  Placed(vs, Grown(w, evs), state)
<1> PICK evs2 : evs2 = Grown(w, evs)
  OBVIOUS
<1>1. /\ Len(ws) \in Nat \ {0} /\ DOMAIN ws = 1 .. Len(ws)
      /\ w \in Write /\ w = ws[1] /\ vs \in Seq(Write) /\ DOMAIN vs = 1 .. Len(ws) - 1
      /\ \A k \in 1 .. Len(ws) - 1 : vs[k] = ws[k + 1]
  BY HeadTailProperties, EmptySeq, LenProperties
<1>2. \A k \in DOMAIN vs : k + 1 \in DOMAIN ws /\ vs[k] = ws[k + 1]
  BY <1>1
<1>3. \A k \in DOMAIN vs : IsPlacing(vs[k]) => vs[k].value.to = state
  BY <1>2 DEF Placed
<1> SUFFICES ASSUME \A k \in DOMAIN vs : ~IsPlacing(vs[k])
             PROVE  LastTo(evs2, state)
  BY <1>3 DEF Placed
<1>4. \A k \in DOMAIN ws : k # 1 => k - 1 \in DOMAIN vs /\ ws[k] = vs[k - 1]
  BY <1>1
<1>5. CASE w.table = "ledger"
  <2>1. w.value \in Event
    BY <1>1, <1>5, WriteTables
  <2>2. /\ Len(evs) \in Nat /\ DOMAIN evs = 1 .. Len(evs)
        /\ DOMAIN evs2 = 1 .. Len(evs) + 1
        /\ \A k \in DOMAIN evs : evs2[k] = evs[k]
        /\ evs2[Len(evs) + 1] = w.value
    BY <1>5, <2>1, AppendProperties, LenProperties DEF Grown
  <2>3. CASE Placing(w.value)
    <3>1. w.value.to = state
      BY <1>1, <1>5, <2>3 DEF Placed, IsPlacing
    <3>2. Len(evs) + 1 \in DOMAIN evs2 /\ \A j \in DOMAIN evs2 : j <= Len(evs) + 1
      BY <2>2
    <3> QED BY <2>2, <2>3, <3>1, <3>2 DEF LastTo
  <2>4. CASE ~Placing(w.value)
    <3>1. \A k \in DOMAIN ws : ~IsPlacing(ws[k])
      BY <1>1, <1>4, <2>4 DEF IsPlacing
    <3>2. PICK k \in DOMAIN evs :
              /\ Placing(evs[k]) /\ evs[k].to = state
              /\ \A j \in DOMAIN evs : Placing(evs[j]) => j <= k
      BY <3>1 DEF Placed, LastTo
    <3>3. k \in DOMAIN evs2 /\ evs2[k] = evs[k]
      BY <2>2
    <3>4. \A j \in DOMAIN evs2 : Placing(evs2[j]) => j <= k
      <4>1. \A j \in DOMAIN evs2 : j \in DOMAIN evs \/ evs2[j] = w.value
        BY <2>2
      <4> QED BY <2>2, <2>4, <3>2, <4>1
    <3> QED BY <3>2, <3>3, <3>4 DEF LastTo
  <2> QED BY <2>3, <2>4
<1>6. CASE w.table # "ledger"
  <2>1. \A k \in DOMAIN ws : ~IsPlacing(ws[k])
    BY <1>1, <1>4, <1>6 DEF IsPlacing
  <2>2. evs2 = evs
    BY <1>6 DEF Grown
  <2> QED BY <2>1, <2>2 DEF Placed
<1> QED BY <1>5, <1>6

\* A series that neither saves a capsule nor places one.
Harmless(ws) == \A k \in DOMAIN ws : ws[k].table # "capsules" /\ ~IsPlacing(ws[k])

\* One series after another that is harmless.
LEMMA BringsOn ==
    ASSUME NEW ws \in Seq(Write), NEW vs \in Seq(Write), NEW xs, xs = ws \o vs,
           Harmless(ws),
           NEW r, NEW q, LeadsTo(ws, "runs", r, q),
           NEW c, NEW d, NEW s, NEW evs, Brings(vs, c, q, evs, d, s)
    PROVE  Brings(xs, c, r, evs, d, s)
<1>1. /\ Len(ws) \in Nat /\ DOMAIN ws = 1 .. Len(ws)
      /\ Len(vs) \in Nat /\ DOMAIN vs = 1 .. Len(vs)
      /\ xs \in Seq(Write) /\ DOMAIN xs = 1 .. Len(ws) + Len(vs)
      /\ \A k \in 1 .. Len(ws) + Len(vs) :
             xs[k] = IF k <= Len(ws) THEN ws[k] ELSE vs[k - Len(ws)]
  BY ConcatProperties, LenProperties
<1>2. \A k \in DOMAIN vs : k + Len(ws) \in DOMAIN xs /\ xs[k + Len(ws)] = vs[k]
  BY <1>1
<1>3. \A k \in DOMAIN xs :
          \/ k \in DOMAIN ws /\ xs[k] = ws[k]
          \/ k - Len(ws) \in DOMAIN vs /\ xs[k] = vs[k - Len(ws)]
  BY <1>1
<1>4. LeadsTo(xs, "runs", r, s)
  BY LeadsOn DEF Brings
<1>5. Sets(xs, "capsules", c, d)
  <2>1. \A k \in DOMAIN xs : xs[k].table = "capsules" => xs[k].value = d
    BY <1>3 DEF Brings, Sets, Harmless
  <2>2. WritesTo(vs, "capsules") => WritesTo(xs, "capsules")
    BY <1>2 DEF WritesTo
  <2> QED BY <2>1, <2>2 DEF Brings, Sets
<1>6. ASSUME LastTo(evs, c.state) PROVE Placed(xs, evs, d.state)
  <2>1. Placed(vs, evs, d.state)
    BY <1>6 DEF Brings
  <2>2. \A k \in DOMAIN xs : IsPlacing(xs[k]) => xs[k].value.to = d.state
    BY <1>3, <2>1 DEF Placed, Harmless
  <2>3. (\A k \in DOMAIN xs : ~IsPlacing(xs[k])) => \A k \in DOMAIN vs : ~IsPlacing(vs[k])
    BY <1>2
  <2> QED BY <2>1, <2>2, <2>3 DEF Placed
<1> QED BY <1>4, <1>5, <1>6 DEF Brings

\* What an attempt makes of the capsule c and the run r: nothing, a breach, or
\* a move.
Shifts(c, r, d, s) ==
    \/ d = c /\ s = r
    \/ d = Freeze(c) /\ s = Fail(r)
    \/ \E to \in States, ev \in Evidence :
           Matching(c.state, to) # {} /\ d = Moved(to, ev) /\ s = Tracked(r, to)

\* An attempt over the run q, from the row r of the run, answered by out.
Answers(out, c, r, q, evs) ==
    \E s : /\ Brings(out.writes, c, r, evs, out.capsule, s)
           /\ Shifts(c, q, out.capsule, s)
           /\ out.raised \/ s = out.run

LEMMA AdvanceBrings ==
    ASSUME NEW c \in ProcessCapsule, NEW r \in RuntimeState,
           NEW to \in States, NEW ev \in Evidence, NEW evs,
           NEW out, out = Advance(c, r, to, ev)
    PROVE  Answers(out, c, r, r, evs)
<1>1. CASE out = RefuseInvalidTransition(c, r, to, ev)
  <2> DEFINE a == SaveCapsule(Freeze(c))
             b == RecordEvent(Entry("refused", c.state, to, ev))
             n == SaveRecord(Breach("NO_VALID_PATH", c.state, to))
             e == SaveRun(Fail(r))
  <2>1. /\ a.table = "capsules" /\ a.value = Freeze(c)
        /\ b.table = "ledger" /\ b.value.kind = "refused"
        /\ n.table = "non_conformance_records"
        /\ e.table = "runs" /\ e.value = Fail(r)
    BY Tables DEF Entry
  <2>2. out.writes = <<a, b, n, e>> /\ out.capsule = Freeze(c) /\ out.raised
    BY <1>1 DEF RefuseInvalidTransition
  <2>3. Freeze(c).state = c.state
    BY DEF Freeze, ProcessCapsule
  <2> HIDE DEF a, b, n, e
  <2>4. Sets(<<a, b, n, e>>, "capsules", c, Freeze(c))
    <3>1. WritesTo(<<a, b, n, e>>, "capsules")
      BY <2>1 DEF WritesTo
    <3>2. \A k \in DOMAIN <<a, b, n, e>> : <<a, b, n, e>>[k].table = "capsules" =>
              <<a, b, n, e>>[k].value = Freeze(c)
      BY <2>1
    <3> QED BY <3>1, <3>2 DEF Sets
  <2>5. LeadsTo(<<a, b, n, e>>, "runs", r, Fail(r))
    BY <2>1 DEF LeadsTo
  <2>6. \A k \in DOMAIN <<a, b, n, e>> : ~IsPlacing(<<a, b, n, e>>[k])
    BY <2>1 DEF IsPlacing, Placing
  <2>7. Brings(out.writes, c, r, evs, Freeze(c), Fail(r))
    BY <2>2, <2>3, <2>4, <2>5, <2>6 DEF Brings, Placed
  <2> QED BY <2>2, <2>7 DEF Shifts, Answers
<1>2. CASE out = RefuseMissingEvidence(c, r, to)
  <2> DEFINE a == RecordEvent(Entry("refused", c.state, to, 0))
             b == SaveRecord(Breach("MISSING_EVIDENCE", c.state, to))
  <2>1. /\ a.table = "ledger" /\ a.value.kind = "refused"
        /\ b.table = "non_conformance_records"
    BY Tables DEF Entry
  <2>2. out.writes = <<a, b>> /\ out.capsule = c /\ out.raised
    BY <1>2 DEF RefuseMissingEvidence
  <2> HIDE DEF a, b
  <2>3. Sets(<<a, b>>, "capsules", c, c) /\ LeadsTo(<<a, b>>, "runs", r, r)
    BY <2>1 DEF Sets, LeadsTo
  <2>4. \A k \in DOMAIN <<a, b>> : ~IsPlacing(<<a, b>>[k])
    BY <2>1 DEF IsPlacing, Placing
  <2>5. Brings(out.writes, c, r, evs, c, r)
    BY <2>2, <2>3, <2>4 DEF Brings, Placed
  <2> QED BY <2>2, <2>5 DEF Shifts, Answers
<1>3. CASE Matching(c.state, to) # {} /\ out = PerformTransition(c, r, to, ev)
  <2> DEFINE a == SaveCapsule(Moved(to, ev))
             b == RecordEvent(Entry("moved", c.state, to, ev))
             e == SaveRun(Tracked(r, to))
  <2>1. /\ a.table = "capsules" /\ a.value = Moved(to, ev)
        /\ b.table = "ledger" /\ b.value.kind = "moved" /\ b.value.to = to
        /\ e.table = "runs" /\ e.value = Tracked(r, to)
    BY Tables DEF Entry
  <2>2. /\ out.writes = <<a, b, e>> /\ out.capsule = Moved(to, ev)
        /\ out.run = Tracked(r, to)
    BY <1>3 DEF PerformTransition
  <2>3. Moved(to, ev).state = to
    BY DEF Moved
  <2> HIDE DEF a, b, e
  <2>4. Sets(<<a, b, e>>, "capsules", c, Moved(to, ev))
    <3>1. WritesTo(<<a, b, e>>, "capsules")
      BY <2>1 DEF WritesTo
    <3>2. \A k \in DOMAIN <<a, b, e>> : <<a, b, e>>[k].table = "capsules" =>
              <<a, b, e>>[k].value = Moved(to, ev)
      BY <2>1
    <3> QED BY <3>1, <3>2 DEF Sets
  <2>5. LeadsTo(<<a, b, e>>, "runs", r, Tracked(r, to))
    BY <2>1 DEF LeadsTo
  <2>6. Placed(<<a, b, e>>, evs, to)
    <3>1. IsPlacing(<<a, b, e>>[2]) /\ 2 \in DOMAIN <<a, b, e>>
      BY <2>1 DEF IsPlacing, Placing
    <3>2. \A k \in DOMAIN <<a, b, e>> : IsPlacing(<<a, b, e>>[k]) =>
              <<a, b, e>>[k].value.to = to
      BY <2>1 DEF IsPlacing
    <3> QED BY <3>1, <3>2 DEF Placed
  <2>7. Brings(out.writes, c, r, evs, Moved(to, ev), Tracked(r, to))
    BY <2>2, <2>3, <2>4, <2>5, <2>6 DEF Brings
  <2> QED BY <1>3, <2>2, <2>7 DEF Shifts, Answers
<1> QED BY <1>1, <1>2, <1>3 DEF Advance

LEMMA RejectionBrings ==
    ASSUME NEW c \in ProcessCapsule, NEW r \in RuntimeState, NEW evs,
           NEW out, out = MarkNonConformance(c, r)
    PROVE  Answers(out, c, r, r, evs)
<1> DEFINE a == SaveCapsule(Freeze(c))
           b == Rejection(c)
           n == RejectionRecord(c)
           e == SaveRun(Fail(r))
<1>1. /\ a.table = "capsules" /\ a.value = Freeze(c)
      /\ b.table = "ledger" /\ b.value.kind = "rejected"
      /\ n.table = "non_conformance_records"
      /\ e.table = "runs" /\ e.value = Fail(r)
  BY Tables DEF Entry, Rejection, RejectionRecord
<1>2. out.writes = <<a, b, n, e>> /\ out.capsule = Freeze(c) /\ out.run = Fail(r)
  BY DEF MarkNonConformance
<1>3. Freeze(c).state = c.state
  BY DEF Freeze, ProcessCapsule
<1> HIDE DEF a, b, n, e
<1>4. Sets(<<a, b, n, e>>, "capsules", c, Freeze(c))
  <2>1. WritesTo(<<a, b, n, e>>, "capsules")
    BY <1>1 DEF WritesTo
  <2>2. \A k \in DOMAIN <<a, b, n, e>> : <<a, b, n, e>>[k].table = "capsules" =>
            <<a, b, n, e>>[k].value = Freeze(c)
    BY <1>1
  <2> QED BY <2>1, <2>2 DEF Sets
<1>5. LeadsTo(<<a, b, n, e>>, "runs", r, Fail(r))
  BY <1>1 DEF LeadsTo
<1>6. \A k \in DOMAIN <<a, b, n, e>> : ~IsPlacing(<<a, b, n, e>>[k])
  BY <1>1 DEF IsPlacing, Placing
<1>7. Brings(out.writes, c, r, evs, Freeze(c), Fail(r))
  BY <1>2, <1>3, <1>4, <1>5, <1>6 DEF Brings, Placed
<1> QED BY <1>2, <1>7 DEF Shifts, Answers

\* An answer carries over to a longer series of writes.
LEMMA AnswersOn ==
    ASSUME NEW ws \in Seq(Write), Harmless(ws), NEW r, NEW q, LeadsTo(ws, "runs", r, q),
           NEW c, NEW evs, NEW rest, rest.writes \in Seq(Write), Answers(rest, c, q, q, evs),
           NEW out, out.writes = ws \o rest.writes, out.capsule = rest.capsule,
           out.run = rest.run, out.raised = rest.raised
    PROVE  Answers(out, c, r, q, evs)
<1> PICK s : /\ Brings(rest.writes, c, q, evs, rest.capsule, s)
             /\ Shifts(c, q, rest.capsule, s)
             /\ rest.raised \/ s = rest.run
  BY DEF Answers
<1> PICK vs \in Seq(Write) : vs = rest.writes
  OBVIOUS
<1> PICK d : d = rest.capsule
  OBVIOUS
<1> PICK xs : xs = ws \o vs
  OBVIOUS
<1>1. Brings(vs, c, q, evs, d, s)
  OBVIOUS
<1>2. Brings(xs, c, r, evs, d, s)
  BY ONLY <1>1, BringsOn, Harmless(ws), LeadsTo(ws, "runs", r, q), xs = ws \o vs,
          ws \in Seq(Write), vs \in Seq(Write)
<1>3. Brings(out.writes, c, r, evs, out.capsule, s)
  BY <1>2
<1> QED BY <1>3 DEF Answers

\* A decision resolves the gate first, and flags the capsule before that.
LEMMA ApplyDecisionBrings ==
    ASSUME NEW c \in ProcessCapsule, NEW r \in RuntimeState,
           NEW to \in States, NEW ev \in Evidence, NEW decision, NEW evs,
           NEW out, out = ApplyDecision(c, r, to, ev, decision)
    PROVE  \E q \in RuntimeState : /\ q.status = "running"
                                   /\ q.current_state = r.current_state
                                   /\ Answers(out, c, r, q, evs)
<1> PICK rejected \in BOOLEAN : rejected = (decision = "REJECT")
  OBVIOUS
<1> PICK q : q = ResolveGate(r, ~rejected)
  OBVIOUS
<1> PICK flagged : flagged = IF decision = "FLAG" THEN <<Flag(c)>> ELSE <<>>
  OBVIOUS
<1> PICK rest : rest = IF decision = "REJECT" THEN MarkNonConformance(c, q)
                       ELSE Advance(c, q, to, ev)
  OBVIOUS
<1> PICK save : save = <<SaveRun(q)>>
  OBVIOUS
<1> PICK prefix : prefix = flagged \o save
  OBVIOUS
<1>1. q \in RuntimeState /\ q.status = "running" /\ q.current_state = r.current_state
  BY RunTypes DEF ResolveGate, RuntimeState
<1>2. Answers(rest, c, q, q, evs)
  <2>1. CASE decision = "REJECT"
    <3>1. rest = MarkNonConformance(c, q)
      BY <2>1
    <3> QED BY <1>1, <3>1, RejectionBrings
  <2>2. CASE decision # "REJECT"
    <3>1. rest = Advance(c, q, to, ev)
      BY <2>2
    <3> QED BY <1>1, <3>1, AdvanceBrings
  <2> QED BY <2>1, <2>2
<1>3. rest \in Outcome
  BY <1>1, AdvanceType, MarkNonConformanceType
<1>4. flagged \in Seq(Write) /\ save \in Seq(Write)
  BY <1>1, FlagType, WriteTypes, SeriesTypes, EmptySeq
<1>5. out = [rest EXCEPT !.writes = flagged \o save \o rest.writes]
  BY DEF ApplyDecision
<1>6. prefix \in Seq(Write) /\ rest.writes \in Seq(Write)
  BY <1>3, <1>4, ConcatProperties DEF Outcome
<1>7. /\ out.writes = prefix \o rest.writes /\ out.capsule = rest.capsule
      /\ out.run = rest.run /\ out.raised = rest.raised
  BY <1>3, <1>4, <1>5, <1>6 DEF Outcome
<1>8. Harmless(prefix)
  <2> DEFINE S == {w \in Write : w.table # "capsules" /\ ~IsPlacing(w)}
  <2>1. Flag(c) \in S /\ SaveRun(q) \in S
    <3>1. Flag(c).table = "ledger" /\ Flag(c).value.kind = "flagged"
      BY Tables DEF Flag, Entry
    <3> QED BY <1>1, <3>1, FlagType, WriteTypes, Tables DEF IsPlacing, Placing
  <2>2. flagged \in Seq(S) /\ save \in Seq(S)
    <3> HIDE DEF S
    <3> QED BY <2>1, SeriesTypes, EmptySeq
  <2>3. prefix \in Seq(S)
    <3> HIDE DEF S
    <3> QED BY <2>2, ConcatProperties
  <2>4. \A k \in DOMAIN prefix : prefix[k] \in S
    <3> HIDE DEF S
    <3> QED BY <2>3, ElementOfSeq, LenProperties
  <2> QED BY <2>4 DEF Harmless
<1>9. LeadsTo(prefix, "runs", r, q)
  <2>1. LeadsTo(flagged, "runs", r, r)
    <3>1. CASE decision = "FLAG"
      <4>1. Flag(c).table = "ledger"
        BY Tables DEF Flag
      <4> QED BY <3>1, <4>1 DEF LeadsTo
    <3>2. CASE decision # "FLAG"
      BY <3>2, LeadsNowhere
    <3> QED BY <3>1, <3>2
  <2>2. LeadsTo(save, "runs", r, q)
    BY BringsRun DEF Brings
  <2> QED BY <1>4, <2>1, <2>2, LeadsOn
<1>10. Answers(out, c, r, q, evs)
  BY ONLY <1>2, <1>6, <1>7, <1>8, <1>9, AnswersOn
<1> QED BY <1>1, <1>10

-----------------------------------------------------------------------------
(* One terminal: rows and memory tell the same story *)

Plain == Commands = {}

IsOpen(c) == c.status \in {"PENDING", "IN_PROGRESS"}

\* The row a may become the row c: along the brief, and without the stand-alone
\* commands only while it is open.
Declared(a, c) ==
    /\ a = None \/ c.state = a.state \/ Matching(a.state, c.state) # {}
    /\ Plain =>
           \/ c = a
           \/ a = None /\ c = NewCapsule
           \/ a # None /\ IsOpen(a) /\ c.state = a.state /\ Frozen(c)
           \/ /\ a # None /\ IsOpen(a) /\ Matching(a.state, c.state) # {}
              /\ c.status = IF Terminal(c.state) THEN "COMPLETE" ELSE "IN_PROGRESS"

\* Memory m holds what the rows will be, c and r.
Remembers(m, c, r) ==
    /\ m.at \in {"prompt", "artifact", "gate"} => m.capsule = c /\ m.run = r
    /\ m.at \in {"reviewing", "rereading"} => m.capsule = c
    /\ m.at = "resuming" => m.run = r
    /\ Plain => /\ m.at # "reviewing"
                /\ m.at \in {"prompt", "gate"} => IsOpen(c)

\* The capsule and the run tell the same story.
Tells(c, r) ==
    /\ r.current_state = c.state
    /\ r.status = "failed" => Frozen(c)
    /\ Plain => /\ Frozen(c) => r.status = "failed"
                /\ r.status = "complete" <=> c.status = "COMPLETE"

\* Once the writes of memory m are made, the rows are c and r; after a death
\* half way they may tell different stories, but the capsule is still declared.
Foresees(m, cap, rn, evs, gone, c, r) ==
    /\ Sets(m.todo, "capsules", cap, c)
    /\ LeadsTo(m.todo, "runs", rn, r)
    /\ Declared(cap, c)
    /\ rn = None => {cap, c} \subseteq {None, NewCapsule}
    /\ r # None => c \in ProcessCapsule /\ r \in RuntimeState
    /\ Remembers(m, c, r)
    /\ ~gone /\ r # None => Tells(c, r) /\ Placed(m.todo, evs, c.state)

OneInv(p) ==
    /\ TypeInv
    /\ \E c, r : Foresees(session[p], capsule, run, events, lost, c, r)

\* With nothing left to write the rows are what memory holds.
LEMMA RestReads ==
    ASSUME NEW m, m.todo = <<>>, NEW cap, NEW rn, NEW evs, NEW gone, NEW c, NEW r
    PROVE  Foresees(m, cap, rn, evs, gone, c, r) <=>
               /\ c = cap /\ r = rn
               /\ rn = None => cap \in {None, NewCapsule}
               /\ rn # None => cap \in ProcessCapsule /\ rn \in RuntimeState
               /\ Remembers(m, cap, rn)
               /\ ~gone /\ rn # None => Tells(cap, rn) /\ LastTo(evs, cap.state)
<1>1. Sets(m.todo, "capsules", cap, c) <=> c = cap
  BY LeadsNowhere DEF Sets
<1>2. LeadsTo(m.todo, "runs", rn, r) <=> r = rn
  BY LeadsNowhere
<1>3. \A state : Placed(m.todo, evs, state) <=> LastTo(evs, state)
  BY DEF Placed
<1>4. Declared(cap, cap)
  BY DEF Declared
<1> QED BY <1>1, <1>2, <1>3, <1>4 DEF Foresees

\* A terminal at rest reads, or ends.
LEMMA RestStep ==
    ASSUME NEW p, Sessions = {p}, OneInv(p), TypeInv', UNCHANGED <<rows, lost>>,
           NEW m, m = session[p], m.todo = <<>>,
           NEW n, n = session'[p], n.todo = <<>>, Remembers(n, capsule, run)
    PROVE  OneInv(p)'
<1>1. PICK c, r : Foresees(m, capsule, run, events, lost, c, r)
  BY DEF OneInv
<1>2. Foresees(n, capsule, run, events, lost, capsule, run)
  BY <1>1, RestReads
<1>3. capsule' = capsule /\ run' = run /\ events' = events /\ lost' = lost
  BY DEF rows
<1>4. Foresees(n, capsule', run', events', lost', capsule', run')
  BY <1>2, <1>3
<1> QED BY <1>4 DEF OneInv

\* A terminal at rest rewrites the run.
LEMMA SaveStep ==
    ASSUME NEW p, Sessions = {p}, OneInv(p), TypeInv', UNCHANGED <<rows, lost>>,
           NEW m, m = session[p], m.todo = <<>>, run # None,
           NEW q \in RuntimeState, NEW n, n = session'[p], n.todo = <<SaveRun(q)>>,
           Remembers(n, capsule, q),
           Tells(capsule, run) => Tells(capsule, q)
    PROVE  OneInv(p)'
<1>1. PICK c, r : Foresees(m, capsule, run, events, lost, c, r)
  BY DEF OneInv
<1>2. /\ capsule \in ProcessCapsule
      /\ ~lost => Tells(capsule, run) /\ LastTo(events, capsule.state)
  BY <1>1, RestReads
<1>3. Brings(n.todo, capsule, run, events, capsule, q)
  BY BringsRun
<1>4. Declared(capsule, capsule)
  BY DEF Declared
<1>5. Foresees(n, capsule, run, events, lost, capsule, q)
  BY <1>2, <1>3, <1>4 DEF Foresees, Brings
<1>6. capsule' = capsule /\ run' = run /\ events' = events /\ lost' = lost
  BY DEF rows
<1>7. Foresees(n, capsule', run', events', lost', capsule', q)
  BY <1>5, <1>6
<1> QED BY <1>7 DEF OneInv

LEMMA ShiftTells ==
    ASSUME NEW c \in ProcessCapsule, NEW q \in RuntimeState, NEW d, NEW s,
           Shifts(c, q, d, s)
    PROVE  /\ Plain /\ IsOpen(c) => Declared(c, d)
           /\ ~Plain => Declared(c, d)
           /\ Tells(c, q) => Tells(d, s)
           /\ s \in RuntimeState
<1>1. CASE d = c /\ s = q
  BY <1>1 DEF Declared
<1>2. CASE d = Freeze(c) /\ s = Fail(q)
  <2>1. /\ d.state = c.state /\ d.status = "NON_CONFORMANCE"
        /\ s.current_state = q.current_state /\ s.status = "failed"
    BY <1>2 DEF Freeze, Fail, ProcessCapsule, RuntimeState
  <2>2. s \in RuntimeState
    BY <1>2, RunTypes
  <2>3. c # None
    BY NoneAssumption
  <2> QED BY <2>1, <2>2, <2>3 DEF Declared, Tells, Frozen
<1>3. CASE \E to \in States, ev \in Evidence :
               Matching(c.state, to) # {} /\ d = Moved(to, ev) /\ s = Tracked(q, to)
  <2>1. PICK to \in States, ev \in Evidence :
            Matching(c.state, to) # {} /\ d = Moved(to, ev) /\ s = Tracked(q, to)
    BY <1>3
  <2>2. d.state = to /\ d.status = IF Terminal(to) THEN "COMPLETE" ELSE "IN_PROGRESS"
    BY <2>1 DEF Moved
  <2>3. /\ s.current_state = to
        /\ s.status = IF Terminal(to) THEN "complete" ELSE "running"
    BY <2>1 DEF Tracked, RuntimeState
  <2>4. s \in RuntimeState
    BY <2>1, RunTypes
  <2>5. c # None
    BY NoneAssumption
  <2> QED BY <2>1, <2>2, <2>3, <2>4, <2>5 DEF Declared, Tells, Frozen
<1> QED BY <1>1, <1>2, <1>3 DEF Shifts

\* A terminal at rest takes over the outcome of an attempt.
LEMMA CarryStep ==
    ASSUME NEW p, Sessions = {p}, OneInv(p), TypeInv', UNCHANGED <<rows, lost>>,
           NEW m, m = session[p], m.todo = <<>>, run # None,
           Plain => IsOpen(capsule),
           NEW out \in Outcome, NEW q \in RuntimeState,
           Answers(out, capsule, run, q, events),
           Tells(capsule, run) => Tells(capsule, q),
           Carry(p, out)
    PROVE  OneInv(p)'
<1>1. PICK c, r : Foresees(m, capsule, run, events, lost, c, r)
  BY DEF OneInv
<1>2. /\ capsule \in ProcessCapsule
      /\ ~lost => Tells(capsule, run) /\ LastTo(events, capsule.state)
  BY <1>1, RestReads
<1> PICK s : /\ Brings(out.writes, capsule, run, events, out.capsule, s)
             /\ Shifts(capsule, q, out.capsule, s)
             /\ out.raised \/ s = out.run
  BY DEF Answers
<1>3. PICK n : n = session'[p]
  OBVIOUS
<1>4. PICK d : d = out.capsule
  OBVIOUS
<1>5. m \in Session
  BY DEF OneInv, TypeInv, TypeOK
<1>6. /\ n.at = AfterAttempt(m.command, out.raised)
      /\ n.capsule = d /\ n.run = out.run /\ n.todo = out.writes
  <2>1. n = [m EXCEPT !.at = AfterAttempt(m.command, out.raised),
                      !.capsule = out.capsule, !.run = out.run,
                      !.to = None, !.evidence = 0, !.todo = out.writes]
    BY <1>3 DEF Carry, Become, OneInv, TypeInv, TypeOK
  <2> QED BY <1>4, <1>5, <2>1 DEF Session
<1>7. n.at \in {"leaving", "reloading", "artifact"} /\ (n.at = "artifact" => ~out.raised)
  BY <1>6 DEF AfterAttempt
<1>8. Remembers(n, d, s)
  BY <1>6, <1>7 DEF Remembers
<1>9. /\ Declared(capsule, d) /\ s \in RuntimeState
      /\ Tells(capsule, q) => Tells(d, s)
  BY <1>2, <1>4, ShiftTells
<1>10. d \in ProcessCapsule
  BY <1>4 DEF Outcome
<1>11. Foresees(n, capsule, run, events, lost, d, s)
  BY <1>2, <1>4, <1>6, <1>8, <1>9, <1>10 DEF Foresees, Brings
<1>12. capsule' = capsule /\ run' = run /\ events' = events /\ lost' = lost
  BY DEF rows
<1>13. Foresees(n, capsule', run', events', lost', d, s)
  BY <1>11, <1>12
<1> QED BY <1>3, <1>13 DEF OneInv
\* The rows once the first write of a terminal is made.
LEMMA CommitRows ==
    ASSUME TypeInv, NEW s \in Sessions, Commit(s),
           NEW m, m = session[s], NEW w, w = Head(m.todo), NEW n, n = session'[s]
    PROVE  /\ m \in Session /\ m.todo \in Seq(Write) /\ m.todo # <<>> /\ w \in Write
           /\ n.todo = Tail(m.todo)
           /\ \/ n.at = m.at /\ n.capsule = m.capsule /\ n.run = m.run
              \/ n.at = "idle"
           /\ capsule' = After(w, "capsules", capsule)
           /\ run' = After(w, "runs", run)
           /\ events' = Grown(w, events)
           /\ lost' = lost
<1>1. m \in Session /\ m.todo \in Seq(Write)
  BY DEF TypeInv, TypeOK, Session
<1>2. PICK table : Committing(s, table)
  BY DEF Commit, CommitCapsule, CommitRun, CommitEvent, CommitRecord
<1>3. m.todo # <<>> /\ lost' = lost
  BY <1>2 DEF Committing
<1>4. w \in Write
  BY <1>1, <1>3, HeadTailProperties
<1> PICK n0 : n0 = [m EXCEPT !.todo = Tail(m.todo)]
  OBVIOUS
<1>5. n = Settle(n0)
  BY <1>2 DEF Committing, Become, TypeInv, TypeOK
<1>6. /\ n0.at = m.at /\ n0.capsule = m.capsule /\ n0.run = m.run
      /\ n0.todo = Tail(m.todo)
  BY <1>1 DEF Session
<1>7. /\ n.todo = Tail(m.todo)
      /\ \/ n.at = m.at /\ n.capsule = m.capsule /\ n.run = m.run
         \/ n.at = "idle"
  <2>1. n = n0 \/ (n = Idle /\ n0.todo = <<>>)
    BY <1>5 DEF Settle
  <2>2. Idle.at = "idle" /\ Idle.todo = <<>>
    BY DEF Idle
  <2> QED BY <1>6, <2>1, <2>2
<1>8. /\ capsule' = After(w, "capsules", capsule)
      /\ run' = After(w, "runs", run)
      /\ events' = Grown(w, events)
  BY DEF After, Grown, Commit, CommitCapsule, CommitRun, CommitEvent, CommitRecord, Committing
<1> QED BY <1>1, <1>3, <1>4, <1>7, <1>8

\* What memory foresees does not change by making its first write.
LEMMA ForeseesOn ==
    ASSUME NEW m, m.todo \in Seq(Write), m.todo # <<>>, NEW w, w = Head(m.todo),
           w \in Write, NEW n, n.todo = Tail(m.todo),
           NEW cap, NEW rn, NEW evs \in Seq(Event), NEW gone, NEW c, NEW r,
           Foresees(m, cap, rn, evs, gone, c, r), Remembers(n, c, r)
    PROVE  Foresees(n, After(w, "capsules", cap), After(w, "runs", rn), Grown(w, evs),
                    gone, c, r)
<1> PICK cap2, rn2, evs2 : /\ cap2 = After(w, "capsules", cap)
                           /\ rn2 = After(w, "runs", rn) /\ evs2 = Grown(w, evs)
  OBVIOUS
<1> PICK ws \in Seq(Write) : ws = m.todo
  OBVIOUS
<1> PICK vs : vs = Tail(ws)
  OBVIOUS
<1>1. ws # <<>> /\ w = Head(ws) /\ n.todo = vs
  OBVIOUS
<1>2. /\ Sets(ws, "capsules", cap, c) /\ LeadsTo(ws, "runs", rn, r)
      /\ Declared(cap, c)
  BY DEF Foresees
<1>3. /\ Sets(vs, "capsules", cap2, c)
      /\ w.table = "capsules" => w.value = c
  BY ONLY <1>1, <1>2, ws \in Seq(Write), vs = Tail(ws), SetsAfterFirst,
          cap2 = After(w, "capsules", cap)
<1>4. LeadsTo(vs, "runs", rn2, r)
  BY <1>1, <1>2, LeadsAfterFirst DEF After
<1>5. \A state : Placed(ws, evs, state) => Placed(vs, evs2, state)
  <2> TAKE state
  <2> QED BY ONLY <1>1, ws \in Seq(Write), vs = Tail(ws), evs \in Seq(Event), PlacedAfterFirst,
                  evs2 = Grown(w, evs)
<1>6. Declared(cap2, c)
  <2>1. Declared(c, c)
    BY DEF Declared
  <2> QED BY <1>2, <1>3, <2>1 DEF After
<1>7. rn2 = None => {cap2, c} \subseteq {None, NewCapsule}
  <2>1. rn2 = None => rn = None
    BY WriteTables, NoneAssumption DEF After
  <2> QED BY <1>3, <2>1 DEF Foresees, After
<1> QED BY <1>1, <1>3, <1>4, <1>5, <1>6, <1>7 DEF Foresees

LEMMA CommitOne ==
    ASSUME NEW p, Sessions = {p}, OneInv(p), TypeInv', Commit(p)
    PROVE  OneInv(p)'
<1> PICK m : m = session[p]
  OBVIOUS
<1> PICK w : w = Head(m.todo)
  OBVIOUS
<1> PICK n : n = session'[p]
  OBVIOUS
<1> PICK c, r : Foresees(m, capsule, run, events, lost, c, r)
  BY DEF OneInv
<1>1. TypeInv /\ p \in Sessions /\ events \in Seq(Event)
  BY DEF OneInv, TypeInv, TypeOK
<1>2. /\ m.todo \in Seq(Write) /\ m.todo # <<>> /\ w \in Write
      /\ n.todo = Tail(m.todo)
      /\ \/ n.at = m.at /\ n.capsule = m.capsule /\ n.run = m.run
         \/ n.at = "idle"
      /\ capsule' = After(w, "capsules", capsule) /\ run' = After(w, "runs", run)
      /\ events' = Grown(w, events)
      /\ lost' = lost
  BY <1>1, CommitRows
<1>3. Remembers(m, c, r)
  BY DEF Foresees
<1>4. Remembers(n, c, r)
  BY <1>2, <1>3 DEF Remembers
<1> PICK cap, rn, evs : cap = capsule /\ rn = run /\ evs = events
  OBVIOUS
<1>5. Foresees(m, cap, rn, evs, lost, c, r) /\ evs \in Seq(Event)
  BY <1>1
<1>6. m.todo \in Seq(Write) /\ m.todo # <<>> /\ w \in Write /\ n.todo = Tail(m.todo)
  BY <1>2
<1>7. Foresees(n, After(w, "capsules", cap), After(w, "runs", rn), Grown(w, evs),
               lost, c, r)
  BY ONLY <1>4, <1>5, <1>6, w = Head(m.todo), ForeseesOn
<1>8. Foresees(n, capsule', run', events', lost', c, r)
  BY <1>2, <1>7
<1> QED BY <1>8 DEF OneInv

LEMMA StartOne ==
    ASSUME NEW p, Sessions = {p}, OneInv(p), TypeInv', StartRun(p)
    PROVE  OneInv(p)'
<1> DEFINE a == SaveCapsule(NewCapsule)
           b == SaveRun(NewRun)
           e == RecordEvent(Entry("created", None, Initial, 0))
<1>1. /\ a.table = "capsules" /\ a.value = NewCapsule
      /\ b.table = "runs" /\ b.value = NewRun
      /\ e.table = "ledger" /\ e.value.kind = "created" /\ e.value.to = Initial
  BY Tables DEF Entry
<1>2. StartWrites = <<a, b, e>>
  BY DEF StartWrites
<1>3. run = None /\ session[p] = Idle /\ UNCHANGED <<rows, lost>>
  BY DEF StartRun
<1> PICK n : n = session'[p]
  OBVIOUS
<1>4. /\ n.at = LoopHead(NewCapsule) /\ n.todo = <<a, b, e>>
      /\ n.capsule = NewCapsule /\ n.run = NewRun
  <2>1. n = [Idle EXCEPT !.at = LoopHead(NewCapsule), !.command = "loop",
                         !.capsule = NewCapsule, !.run = NewRun, !.todo = StartWrites]
    BY DEF StartRun, Become, OneInv, TypeInv, TypeOK
  <2> QED BY <1>2, <2>1 DEF Idle
<1> HIDE DEF a, b, e
<1>5. capsule \in {None, NewCapsule}
  <2>1. PICK c, r : Foresees(session[p], capsule, run, events, lost, c, r)
    BY DEF OneInv
  <2> QED BY <1>3, <2>1 DEF Foresees
<1>6. Sets(n.todo, "capsules", capsule, NewCapsule)
  <2>1. WritesTo(<<a, b, e>>, "capsules")
    BY <1>1 DEF WritesTo
  <2>2. \A k \in DOMAIN <<a, b, e>> : <<a, b, e>>[k].table = "capsules" =>
            <<a, b, e>>[k].value = NewCapsule
    BY <1>1
  <2> QED BY <1>4, <2>1, <2>2 DEF Sets
<1>7. LeadsTo(n.todo, "runs", run, NewRun)
  BY <1>1, <1>4 DEF LeadsTo
<1>8. Declared(capsule, NewCapsule)
  BY <1>5 DEF Declared
<1>9. NewCapsule \in ProcessCapsule /\ NewRun \in RuntimeState
  BY StartTypes
<1>10. Remembers(n, NewCapsule, NewRun)
  <2>1. n.at \in {"leaving", "prompt"}
    BY <1>4, LoopHeadPlaces
  <2>2. IsOpen(NewCapsule)
    BY DEF IsOpen, NewCapsule
  <2> QED BY <1>4, <2>1, <2>2 DEF Remembers
<1>11. Tells(NewCapsule, NewRun)
  BY DEF Tells, NewCapsule, NewRun, Frozen
<1>12. Placed(n.todo, events, NewCapsule.state)
  <2>1. IsPlacing(<<a, b, e>>[3]) /\ 3 \in DOMAIN <<a, b, e>>
    BY <1>1 DEF IsPlacing, Placing
  <2>2. \A k \in DOMAIN <<a, b, e>> : IsPlacing(<<a, b, e>>[k]) =>
            <<a, b, e>>[k].value.to = NewCapsule.state
    BY <1>1 DEF IsPlacing, NewCapsule
  <2> QED BY <1>4, <2>1, <2>2 DEF Placed
<1>13. Foresees(n, capsule, run, events, lost, NewCapsule, NewRun)
  BY <1>5, <1>6, <1>7, <1>8, <1>9, <1>10, <1>11, <1>12 DEF Foresees
<1>14. capsule' = capsule /\ run' = run /\ events' = events /\ lost' = lost
  BY <1>3 DEF rows
<1>15. Foresees(n, capsule', run', events', lost', NewCapsule, NewRun)
  BY <1>13, <1>14
<1> QED BY <1>15 DEF OneInv

\* A death half way leaves rows that may tell different stories.
LEMMA DieOne ==
    ASSUME NEW p, Sessions = {p}, OneInv(p), TypeInv', Die(p)
    PROVE  OneInv(p)'
<1>1. /\ lost' = (lost \/ session[p].todo # <<>>) /\ session'[p] = Idle
      /\ UNCHANGED rows
  BY DEF Die, Become, OneInv, TypeInv, TypeOK
<1>2. Idle.todo = <<>> /\ \A c, r : Remembers(Idle, c, r)
  BY DEF Idle, Remembers
<1>3. CASE session[p].todo = <<>>
  <2>1. lost' = lost
    BY <1>1, <1>3 DEF OneInv, TypeInv, TypeOK
  <2> QED BY <1>1, <1>2, <1>3, <2>1, RestStep
<1>4. CASE session[p].todo # <<>>
  <2>1. PICK c, r : Foresees(session[p], capsule, run, events, lost, c, r)
    BY DEF OneInv
  <2>2. run = None => capsule \in {None, NewCapsule}
    BY <2>1 DEF Foresees
  <2>3. run # None => capsule \in ProcessCapsule /\ run \in RuntimeState
    BY DEF OneInv, TypeInv, TypeOK, Present
  <2> PICK i : i = Idle
    OBVIOUS
  <2>4. Foresees(i, capsule, run, events, TRUE, capsule, run)
    BY <1>2, <2>2, <2>3, RestReads
  <2>5. capsule' = capsule /\ run' = run /\ events' = events /\ lost' = TRUE
    BY <1>1, <1>4 DEF rows
  <2>6. Foresees(session'[p], capsule', run', events', lost', capsule', run')
    BY <1>1, <2>4, <2>5
  <2> QED BY <2>6 DEF OneInv
<1> QED BY <1>3, <1>4
\* A terminal at rest knows the rows it has read.
LEMMA AtRest ==
    ASSUME NEW p, Sessions = {p}, OneInv(p), NEW m, m = session[p], m.todo = <<>>
    PROVE  /\ TypeInv /\ m \in Session /\ Remembers(m, capsule, run)
           /\ m # Idle => run \in RuntimeState /\ capsule \in ProcessCapsule
           /\ run # None => run \in RuntimeState /\ capsule \in ProcessCapsule
<1>1. PICK c, r : Foresees(m, capsule, run, events, lost, c, r)
  BY DEF OneInv
<1>2. TypeInv /\ m \in Session
  BY DEF OneInv, TypeInv, TypeOK
<1>3. Remembers(m, capsule, run)
  BY <1>1, RestReads
<1>4. m # Idle => run \in RuntimeState /\ capsule \in ProcessCapsule
  BY <1>2, RowsFound
<1>5. run # None => run \in RuntimeState /\ capsule \in ProcessCapsule
  BY <1>2 DEF TypeInv, TypeOK, Present
<1> QED BY <1>2, <1>3, <1>4, <1>5

LEMMA SettleRemembers ==
    ASSUME NEW m, NEW c, NEW r, Remembers(m, c, r)
    PROVE  Remembers(Settle(m), c, r) /\ Settle(m).todo = m.todo
<1>1. CASE Settle(m) = m
  BY <1>1
<1>2. CASE Settle(m) = Idle /\ m.todo = <<>>
  <2>1. Idle.at = "idle" /\ Idle.todo = <<>>
    BY DEF Idle
  <2> QED BY <1>2, <2>1 DEF Remembers
<1> QED BY <1>1, <1>2 DEF Settle

LEMMA LoopHeadOpen ==
    \A c \in ProcessCapsule : LoopHead(c) = "prompt" => IsOpen(c)
BY DEF LoopHead, IsOpen, ProcessCapsule, CapsuleStatus

\* What the commands make of a run that tells the story of the capsule.
LEMMA RunTells ==
    ASSUME NEW c, NEW r \in RuntimeState, Plain => IsOpen(c), Tells(c, r)
    PROVE  /\ Tells(c, BlockRun(r)) /\ Tells(c, EnterHumanReview(r))
           /\ ~Plain => Tells(c, CompleteRun(r))
<1>1. /\ BlockRun(r).current_state = r.current_state /\ BlockRun(r).status = "blocked"
      /\ EnterHumanReview(r).current_state = r.current_state
      /\ EnterHumanReview(r).status = "human_review"
      /\ CompleteRun(r).current_state = r.current_state
      /\ CompleteRun(r).status = "complete"
  BY DEF BlockRun, EnterHumanReview, CompleteRun, RuntimeState
<1> QED BY <1>1 DEF Tells, IsOpen, Frozen

\* Starting a loop over the rows, and the reads of `resume`.
LEMMA ResumeOne ==
    ASSUME NEW p, Sessions = {p}, OneInv(p), TypeInv', Resume(p) \/ ResumeCapsule(p)
    PROVE  OneInv(p)'
<1> PICK m : m = session[p]
  OBVIOUS
<1> PICK n : n = session'[p]
  OBVIOUS
<1>1. m.todo = <<>> /\ UNCHANGED <<rows, lost>>
  BY DEF Resume, ResumeCapsule, Ready, Idle
<1>2. /\ TypeInv /\ m \in Session /\ Remembers(m, capsule, run)
      /\ m # Idle => run \in RuntimeState /\ capsule \in ProcessCapsule
  BY <1>1, AtRest
<1>3. CASE Resume(p)
  <2>1. n = [Idle EXCEPT !.at = "resuming", !.command = "loop", !.run = run]
    BY <1>2, <1>3 DEF Resume, Become, TypeInv, TypeOK
  <2>2. n.todo = <<>> /\ n.at = "resuming" /\ n.run = run
    BY <2>1 DEF Idle
  <2>3. Remembers(n, capsule, run)
    BY <2>2 DEF Remembers
  <2> QED BY <1>1, <2>2, <2>3, RestStep
<1>4. CASE ResumeCapsule(p)
  <2>1. m.at = "resuming" /\ m # Idle
    BY <1>4 DEF ResumeCapsule, Ready, Idle
  <2>2. m.run = run /\ run \in RuntimeState /\ run # None /\ capsule \in ProcessCapsule
    BY <1>2, <2>1, NoneAssumption DEF Remembers
  <2> PICK q : q = ResumeRun(run)
    OBVIOUS
  <2> PICK at : at = IF run.status \in {"complete", "failed"}
                     THEN "leaving" ELSE LoopHead(capsule)
    OBVIOUS
  <2> PICK todo : todo = IF run.status = "blocked" THEN <<SaveRun(q)>> ELSE <<>>
    OBVIOUS
  <2> PICK x : x = [m EXCEPT !.at = at, !.capsule = capsule, !.run = q, !.todo = todo]
    OBVIOUS
  <2>3. n = Settle(x)
    BY <1>2, <1>4, <2>2 DEF ResumeCapsule, Become, TypeInv, TypeOK
  <2>4. x.at = at /\ x.capsule = capsule /\ x.run = q /\ x.todo = todo
    BY <1>2 DEF Session
  <2>5. at \in {"leaving", "prompt"} /\ (at = "prompt" => IsOpen(capsule))
    BY <2>2, LoopHeadOpen, LoopHeadPlaces
  <2>6. Remembers(x, capsule, q)
    BY <2>4, <2>5 DEF Remembers
  <2>7. Remembers(n, capsule, q) /\ n.todo = todo
    BY ONLY <2>3, <2>4, <2>6, SettleRemembers
  <2>8. CASE run.status = "blocked"
    <3>1. q = [run EXCEPT !.status = "running"]
      BY <2>8 DEF ResumeRun
    <3>2. q.current_state = run.current_state /\ q.status = "running"
      BY <2>2, <3>1 DEF RuntimeState
    <3>3. Tells(capsule, run) => Tells(capsule, q)
      BY <2>8, <3>2 DEF Tells
    <3>4. q \in RuntimeState /\ n.todo = <<SaveRun(q)>>
      BY <2>2, <2>7, <2>8, RunTypes
    <3> QED BY <1>1, <2>2, <2>7, <3>3, <3>4, SaveStep
  <2>9. CASE run.status # "blocked"
    <3>1. q = run /\ n.todo = <<>>
      BY <2>7, <2>9 DEF ResumeRun
    <3> QED BY <1>1, <2>7, <3>1, RestStep
  <2> QED BY <2>8, <2>9
<1> QED BY <1>3, <1>4

\* An artifact is attached, or the loop reads its rows again.
LEMMA LoopOne ==
    ASSUME NEW p, Sessions = {p}, OneInv(p), TypeInv',
           AttachArtifact(p) \/ ReloadCapsule(p) \/ ReloadRun(p)
    PROVE  OneInv(p)'
<1> PICK m : m = session[p]
  OBVIOUS
<1> PICK n : n = session'[p]
  OBVIOUS
<1>1. m.todo = <<>> /\ m.at # "idle" /\ UNCHANGED <<rows, lost>>
  BY DEF AttachArtifact, ReloadCapsule, ReloadRun, Ready
<1>2. /\ TypeInv /\ m \in Session /\ Remembers(m, capsule, run)
      /\ run \in RuntimeState /\ run # None /\ capsule \in ProcessCapsule
  BY <1>1, AtRest, NoneAssumption DEF Idle
<1> PICK at : at = LoopHead(capsule)
  OBVIOUS
<1>3. at \in {"leaving", "prompt"} /\ (at = "prompt" => IsOpen(capsule))
  BY <1>2, LoopHeadOpen, LoopHeadPlaces
<1>4. CASE AttachArtifact(p)
  <2>1. m.at = "artifact"
    BY <1>4 DEF AttachArtifact, Ready
  <2>2. m.capsule = capsule /\ m.run = run
    BY <1>2, <2>1 DEF Remembers
  <2>3. PICK todo \in {<<>>, <<SaveRun(run)>>} :
            n = Settle([m EXCEPT !.at = at, !.todo = todo])
    BY <1>2, <1>4, <2>2 DEF AttachArtifact, Become, TypeInv, TypeOK
  <2> PICK x : x = [m EXCEPT !.at = at, !.todo = todo]
    OBVIOUS
  <2>4. x.at = at /\ x.capsule = capsule /\ x.run = run /\ x.todo = todo
    BY <1>2, <2>2 DEF Session
  <2>5. Remembers(x, capsule, run)
    BY <1>3, <2>4 DEF Remembers
  <2>6. Remembers(n, capsule, run) /\ n.todo = todo
    <3>1. n = Settle(x)
      BY <2>3
    <3> QED BY ONLY <2>4, <2>5, <3>1, SettleRemembers
  <2>7. CASE todo = <<>>
    BY <1>1, <2>6, <2>7, RestStep
  <2>8. CASE todo = <<SaveRun(run)>>
    BY <1>1, <1>2, <2>6, <2>8, SaveStep
  <2> QED BY <2>3, <2>7, <2>8
<1>5. CASE ReloadCapsule(p)
  <2>1. n = [m EXCEPT !.at = "rereading", !.capsule = capsule]
    BY <1>2, <1>5 DEF ReloadCapsule, Become, TypeInv, TypeOK
  <2>2. n.todo = <<>> /\ n.at = "rereading" /\ n.capsule = capsule
    BY <1>1, <1>2, <2>1 DEF Session
  <2>3. Remembers(n, capsule, run)
    BY <2>2 DEF Remembers
  <2> QED BY <1>1, <2>2, <2>3, RestStep
<1>6. CASE ReloadRun(p)
  <2>1. m.at = "rereading"
    BY <1>6 DEF ReloadRun, Ready
  <2>2. m.capsule = capsule
    BY <1>2, <2>1 DEF Remembers
  <2> PICK x : x = [m EXCEPT !.at = at, !.run = run]
    OBVIOUS
  <2>3. n = Settle(x)
    BY <1>2, <1>6, <2>2 DEF ReloadRun, Become, TypeInv, TypeOK
  <2>4. x.at = at /\ x.capsule = capsule /\ x.run = run /\ x.todo = <<>>
    BY <1>1, <1>2, <2>2 DEF Session
  <2>5. Remembers(x, capsule, run)
    BY <1>3, <2>4 DEF Remembers
  <2>6. Remembers(n, capsule, run) /\ n.todo = <<>>
    BY ONLY <2>3, <2>4, <2>5, SettleRemembers
  <2> QED BY <1>1, <2>6, RestStep
<1> QED BY <1>4, <1>5, <1>6

\* The person stops, or uses a stand-alone command.
LEMMA CommandOne ==
    ASSUME NEW p, Sessions = {p}, OneInv(p), TypeInv',
           Quit(p) \/ RunsBlock(p) \/ RunsComplete(p) \/ Review(p) \/ NothingToReview(p)
    PROVE  OneInv(p)'
<1> PICK m : m = session[p]
  OBVIOUS
<1> PICK n : n = session'[p]
  OBVIOUS
<1>1. m.todo = <<>> /\ UNCHANGED <<rows, lost>>
  BY DEF Quit, RunsBlock, RunsComplete, Review, NothingToReview, Ready, Idle
<1>2. /\ TypeInv /\ m \in Session /\ Remembers(m, capsule, run)
      /\ m # Idle => run \in RuntimeState /\ capsule \in ProcessCapsule
      /\ run # None => run \in RuntimeState /\ capsule \in ProcessCapsule
  BY <1>1, AtRest
<1>3. ASSUME NEW q \in RuntimeState, RewriteRun(p, q), run # None,
             Tells(capsule, run) => Tells(capsule, q)
      PROVE  OneInv(p)'
  <2>1. n = [Idle EXCEPT !.at = "leaving", !.todo = <<SaveRun(q)>>]
    BY <1>2, <1>3 DEF RewriteRun, Become, TypeInv, TypeOK
  <2>2. n.at = "leaving" /\ n.todo = <<SaveRun(q)>>
    BY <2>1 DEF Idle
  <2>3. Remembers(n, capsule, q)
    BY <2>2 DEF Remembers
  <2> QED BY <1>1, <1>3, <2>2, <2>3, SaveStep
<1>4. CASE Quit(p)
  <2>1. m.at = "prompt" /\ m # Idle /\ RewriteRun(p, BlockRun(m.run))
    BY <1>4 DEF Quit, Ready, Idle
  <2>2. /\ m.run = run /\ run \in RuntimeState /\ run # None
        /\ Plain => IsOpen(capsule)
    BY <1>2, <2>1, NoneAssumption DEF Remembers
  <2>3. BlockRun(run) \in RuntimeState /\ RewriteRun(p, BlockRun(run))
    BY <2>1, <2>2, RunTypes
  <2>4. Tells(capsule, run) => Tells(capsule, BlockRun(run))
    BY <2>2, RunTells
  <2> QED BY <1>3, <2>2, <2>3, <2>4
<1>5. CASE RunsBlock(p) \/ RunsComplete(p)
  <2>1. run # None /\ ~Plain
    BY <1>5 DEF RunsBlock, RunsComplete, Plain
  <2>2. /\ BlockRun(run) \in RuntimeState /\ CompleteRun(run) \in RuntimeState
        /\ Tells(capsule, run) => /\ Tells(capsule, BlockRun(run))
                                  /\ Tells(capsule, CompleteRun(run))
    BY <1>2, <2>1, RunTells, RunTypes
  <2>3. RewriteRun(p, BlockRun(run)) \/ RewriteRun(p, CompleteRun(run))
    BY <1>5 DEF RunsBlock, RunsComplete
  <2> QED BY <1>3, <2>1, <2>2, <2>3
<1>6. CASE Review(p)
  <2>1. ~Plain
    BY <1>6 DEF Review, Plain
  <2>2. n = [Idle EXCEPT !.at = "reviewing", !.command = "review", !.capsule = capsule]
    BY <1>2, <1>6 DEF Review, Become, TypeInv, TypeOK
  <2>3. n.at = "reviewing" /\ n.todo = <<>> /\ n.capsule = capsule
    BY <2>2 DEF Idle
  <2>4. Remembers(n, capsule, run)
    BY <2>1, <2>3 DEF Remembers
  <2> QED BY <1>1, <2>3, <2>4, RestStep
<1>7. CASE NothingToReview(p)
  <2>1. n = Idle
    BY <1>2, <1>7 DEF NothingToReview, Become, TypeInv, TypeOK
  <2>2. n.todo = <<>> /\ n.at = "idle"
    BY <2>1 DEF Idle
  <2>3. Remembers(n, capsule, run)
    BY <2>2 DEF Remembers
  <2> QED BY <1>1, <2>2, <2>3, RestStep
<1> QED BY <1>4, <1>5, <1>6, <1>7

\* A review gate opens over the rows.
LEMMA OpenGateOne ==
    ASSUME NEW p, Sessions = {p}, OneInv(p), TypeInv', UNCHANGED <<rows, lost>>,
           NEW m, m = session[p], m.todo = <<>>, run # None, m.capsule = capsule,
           Plain => IsOpen(capsule),
           NEW to, NEW ev, OpenGate(p, run, to, ev)
    PROVE  OneInv(p)'
<1> PICK n : n = session'[p]
  OBVIOUS
<1> PICK q : q = EnterHumanReview(run)
  OBVIOUS
<1>1. TypeInv /\ m \in Session /\ run \in RuntimeState
  BY AtRest
<1>2. n = [m EXCEPT !.at = "gate", !.to = to, !.evidence = ev,
                    !.run = q, !.todo = <<SaveRun(q)>>]
  BY <1>1 DEF OpenGate, Become, TypeInv, TypeOK
<1>3. n.at = "gate" /\ n.capsule = capsule /\ n.run = q /\ n.todo = <<SaveRun(q)>>
  BY <1>1, <1>2 DEF Session
<1>4. Remembers(n, capsule, q)
  BY <1>3 DEF Remembers
<1>5. q \in RuntimeState /\ (Tells(capsule, run) => Tells(capsule, q))
  BY <1>1, RunTells, RunTypes
<1> QED BY <1>3, <1>4, <1>5, SaveStep

LEMMA AnswerOne ==
    ASSUME NEW p, Sessions = {p}, OneInv(p), TypeInv',
           Attempt(p) \/ OpenReview(p) \/ Decide(p)
    PROVE  OneInv(p)'
<1> PICK m : m = session[p]
  OBVIOUS
<1>1. m.todo = <<>> /\ m.at # "idle" /\ UNCHANGED <<rows, lost>>
  BY DEF Attempt, OpenReview, Decide, Ready
<1>2. /\ TypeInv /\ m \in Session /\ Remembers(m, capsule, run) /\ p \in Sessions
      /\ run \in RuntimeState /\ run # None /\ capsule \in ProcessCapsule
  BY <1>1, AtRest, NoneAssumption DEF Idle
<1>3. CASE OpenReview(p)
  <2>1. m.at = "reviewing"
    BY <1>3 DEF OpenReview, Ready
  <2>2. m.capsule = capsule /\ ~Plain
    BY <1>2, <2>1 DEF Remembers
  <2>3. \E to, ev : OpenGate(p, run, to, ev)
    BY <1>3 DEF OpenReview
  <2> QED BY <1>1, <1>2, <2>2, <2>3, OpenGateOne
<1>4. CASE Attempt(p)
  <2>1. m.at = "prompt"
    BY <1>4 DEF Attempt, Ready
  <2>2. m.capsule = capsule /\ m.run = run /\ (Plain => IsOpen(capsule))
    BY <1>2, <2>1 DEF Remembers
  <2>3. PICK i \in TransitionsFrom(capsule.state) :
            \E ev \in {0, Governing(capsule.state, Transitions[i].to)} :
                \/ OpenGate(p, run, Transitions[i].to, ev)
                \/ Carry(p, Advance(capsule, run, Transitions[i].to, ev))
    BY <1>4, <2>2 DEF Attempt
  <2>4. PICK ev \in {0, Governing(capsule.state, Transitions[i].to)} :
            \/ OpenGate(p, run, Transitions[i].to, ev)
            \/ Carry(p, Advance(capsule, run, Transitions[i].to, ev))
    BY <2>3
  <2>5. i \in DOMAIN Transitions /\ i \in Matching(capsule.state, Transitions[i].to)
    BY DEF TransitionsFrom, Matching
  <2>6. Transitions[i].to \in States /\ ev \in Evidence
    BY <2>4, <2>5, TransitionFields, GoverningMatches, IdleOK DEF Idle, Session
  <2> PICK out : out = Advance(capsule, run, Transitions[i].to, ev)
    OBVIOUS
  <2>7. out \in Outcome /\ Answers(out, capsule, run, run, events)
    BY <1>2, <2>6, AdvanceType, AdvanceBrings
  <2>8. CASE OpenGate(p, run, Transitions[i].to, ev)
    BY <1>1, <1>2, <2>2, <2>8, OpenGateOne
  <2>9. CASE Carry(p, out)
    BY <1>1, <1>2, <2>2, <2>7, <2>9, CarryStep
  <2> QED BY <2>4, <2>8, <2>9
<1>5. CASE Decide(p)
  <2>1. m.at = "gate"
    BY <1>5 DEF Decide, Ready
  <2>2. m.capsule = capsule /\ m.run = run /\ (Plain => IsOpen(capsule))
    BY <1>2, <2>1 DEF Remembers
  <2>3. m.to \in States /\ m.evidence \in Evidence
    BY <1>2, <2>1 DEF TypeInv, Loaded, Session
  <2>4. PICK decision \in {"APPROVE", "REJECT", "FLAG"} :
            Carry(p, ApplyDecision(capsule, run, m.to, m.evidence, decision))
    BY <1>5, <2>2 DEF Decide
  <2> PICK out : out = ApplyDecision(capsule, run, m.to, m.evidence, decision)
    OBVIOUS
  <2>5. out \in Outcome
    BY <1>2, <2>3, ApplyDecisionType
  <2>6. PICK q \in RuntimeState : /\ q.status = "running"
                                  /\ q.current_state = run.current_state
                                  /\ Answers(out, capsule, run, q, events)
    BY <1>2, <2>3, ApplyDecisionBrings
  <2>7. Tells(capsule, run) => Tells(capsule, q)
    BY <2>2, <2>6 DEF Tells, IsOpen, Frozen
  <2>8. Carry(p, out)
    BY <2>4
  <2> QED BY <1>1, <1>2, <2>2, <2>5, <2>6, <2>7, <2>8, CarryStep
<1> QED BY <1>3, <1>4, <1>5

LEMMA InitOne ==
    ASSUME NEW p, Sessions = {p}, Init
    PROVE  OneInv(p)
<1> PICK i : i = Idle
  OBVIOUS
<1>1. i.todo = <<>> /\ i.at = "idle"
  BY DEF Idle
<1>2. Remembers(i, None, None)
  BY <1>1 DEF Remembers
<1>3. Foresees(i, None, None, <<>>, FALSE, None, None)
  BY <1>1, <1>2, RestReads
<1>4. /\ session[p] = i /\ capsule = None /\ run = None
      /\ events = <<>> /\ lost = FALSE
  BY DEF Init
<1>5. Foresees(session[p], capsule, run, events, lost, None, None)
  BY <1>3, <1>4
<1>6. TypeInv
  BY InitTypes
<1> QED BY <1>5, <1>6 DEF OneInv

LEMMA NextOne ==
    ASSUME NEW p, Sessions = {p}, OneInv(p), [Next]_vars
    PROVE  OneInv(p)'
<1>1. TypeInv'
  BY NextTypes DEF OneInv
<1>2. CASE Next
  BY <1>1, <1>2, CommitOne, StartOne, DieOne, ResumeOne, LoopOne, CommandOne, AnswerOne
     DEF Next
<1>3. CASE UNCHANGED vars
  BY <1>3 DEF vars, OneInv, TypeInv, TypeOK, Present
<1> QED BY <1>2, <1>3

LEMMA OneInvariant ==
    ASSUME NEW p, Sessions = {p}
    PROVE  Spec => []OneInv(p)
<1>1. Init => OneInv(p)
  BY InitOne
<1>2. OneInv(p) /\ [Next]_vars => OneInv(p)'
  BY NextOne
<1> QED BY <1>1, <1>2, PTL DEF Spec
-----------------------------------------------------------------------------
(* One terminal: theorems *)

\* The last event that places the capsule is the one LastMove chooses.
LEMMA LastMoveReads ==
    ASSUME events \in Seq(Event), NEW state, LastTo(events, state)
    PROVE  LastMove.to = state
<1>1. DOMAIN events \subseteq Nat
  <2>1. Len(events) \in Nat /\ DOMAIN events = 1 .. Len(events)
    BY LenProperties
  <2> QED BY <2>1
<1>2. \A k \in DOMAIN events : k \in Moves <=> Placing(events[k])
  BY DEF Moves, Placing
<1>3. PICK k \in DOMAIN events :
          /\ Placing(events[k]) /\ events[k].to = state
          /\ \A j \in DOMAIN events : Placing(events[j]) => j <= k
  BY DEF LastTo
<1>4. k \in Moves /\ \A j \in Moves : j <= k
  BY <1>2, <1>3 DEF Moves
<1> PICK i : i = CHOOSE n \in Moves : \A j \in Moves : j <= n
  OBVIOUS
<1>5. i \in Moves /\ \A j \in Moves : j <= i
  BY <1>4
<1>6. i = k
  BY <1>1, <1>4, <1>5 DEF Moves
<1> QED BY <1>3, <1>6 DEF LastMove

\* With nothing being written the rows tell the same story.
LEMMA QuietTells ==
    ASSUME NEW p, Sessions = {p}, OneInv(p), Quiet, run # None, ~lost
    PROVE  /\ run \in RuntimeState /\ capsule \in ProcessCapsule
           /\ Tells(capsule, run) /\ LastTo(events, capsule.state)
<1> PICK m : m = session[p]
  OBVIOUS
<1>1. m.todo = <<>>
  BY DEF Quiet
<1>2. PICK c, r : Foresees(m, capsule, run, events, lost, c, r)
  BY DEF OneInv
<1> QED BY <1>1, <1>2, RestReads

\* One terminal that never dies half way: whenever nothing is being written the
\* run stands where the capsule stands, the ledger's last move led there, and a
\* failed run has a frozen capsule, whichever commands the person uses.
THEOREM LedgerAlwaysAgrees ==
    ASSUME NEW p, Sessions = {p}
    PROVE  Spec => []LedgerAgrees
<1>1. OneInv(p) => LedgerAgrees
  <2> SUFFICES ASSUME OneInv(p), run # None, Quiet, ~lost
               PROVE  /\ run.current_state = capsule.state
                      /\ LastMove.to = capsule.state
                      /\ run.status = "failed" => Frozen(capsule)
    BY DEF LedgerAgrees
  <2>1. Tells(capsule, run) /\ LastTo(events, capsule.state)
    BY QuietTells
  <2>2. events \in Seq(Event)
    BY DEF OneInv, TypeInv, TypeOK
  <2> QED BY <2>1, <2>2, LastMoveReads DEF Tells
<1> QED BY <1>1, OneInvariant, PTL

\* ... and a person who keeps to `run` and `resume` also finds that the run has
\* failed exactly when the capsule is frozen, and is complete when it is.
THEOREM StatusesAlwaysAgree ==
    ASSUME NEW p, Sessions = {p}, Commands = {}
    PROVE  Spec => []StatusesAgree
<1>1. OneInv(p) => StatusesAgree
  <2> SUFFICES ASSUME OneInv(p), run # None, Quiet, ~lost
               PROVE  /\ run.status = "failed" <=> Frozen(capsule)
                      /\ run.status = "complete" <=> capsule.status = "COMPLETE"
    BY DEF StatusesAgree
  <2>1. Tells(capsule, run)
    BY QuietTells
  <2> QED BY <2>1 DEF Tells, Plain
<1> QED BY <1>1, OneInvariant, PTL

\* The row of the capsule changes only to what a terminal foresaw.
LEMMA CapsuleStep ==
    ASSUME NEW p, Sessions = {p}, OneInv(p), [Next]_vars, capsule' # capsule
    PROVE  Declared(capsule, capsule') /\ capsule' \in ProcessCapsule
<1> PICK m : m = session[p]
  OBVIOUS
<1>1. Commit(p)
  <2>1. CASE Next
    BY <2>1 DEF Next, rows, StartRun, Resume, ResumeCapsule, Attempt, AttachArtifact,
       ReloadCapsule, ReloadRun, Quit, Review, OpenReview, NothingToReview, Decide,
       RunsBlock, RunsComplete, Die
  <2> QED BY <2>1 DEF vars
<1> PICK w : w = Head(m.todo)
  OBVIOUS
<1>2. /\ m.todo \in Seq(Write) /\ m.todo # <<>> /\ w \in Write
      /\ capsule' = After(w, "capsules", capsule)
  BY <1>1, CommitRows DEF OneInv
<1>3. w.table = "capsules" /\ capsule' = w.value
  BY <1>2 DEF After
<1> PICK c, r : Foresees(m, capsule, run, events, lost, c, r)
  BY DEF OneInv
<1> PICK ws \in Seq(Write) : ws = m.todo
  BY <1>2
<1> PICK cap : cap = capsule
  OBVIOUS
<1>4. Sets(ws, "capsules", cap, c) /\ Declared(capsule, c)
  BY DEF Foresees
<1>5. w = Head(ws) /\ ws # <<>>
  BY <1>2
<1> PICK vs : vs = Tail(ws)
  OBVIOUS
<1>6. w.value = c
  BY ONLY <1>3, <1>4, <1>5, ws \in Seq(Write), vs = Tail(ws), SetsAfterFirst
<1> QED BY <1>2, <1>3, <1>4, <1>6, WriteTables

\* However often the one terminal dies, and from whatever rows a death left
\* behind, the row of the capsule changes state only along the brief.
THEOREM CapsuleAlwaysFollowsBrief ==
    ASSUME NEW p, Sessions = {p}
    PROVE  Spec => CapsuleFollowsBrief
<1>1. OneInv(p) /\ [Next]_vars =>
          [(capsule # None /\ capsule'.state # capsule.state) =>
               Matching(capsule.state, capsule'.state) # {}]_capsule
  BY CapsuleStep DEF Declared
<1> QED BY <1>1, OneInvariant, PTL DEF Spec, CapsuleFollowsBrief

\* The abstract brief joins the states the transitions join.
LEMMA AbstractMoves ==
    /\ \A from, to : Matching(from, to) # {} <=>
           <<from, to>> \in {<<Transitions[i].from, Transitions[i].to>> :
                                i \in DOMAIN Transitions}
    /\ \A state : Abstract!Last(state) <=> Terminal(state)
<1>1. ASSUME NEW from, NEW to
      PROVE  Matching(from, to) # {} <=>
                 \E i \in DOMAIN Transitions :
                     Transitions[i].from = from /\ Transitions[i].to = to
  BY DEF Matching, TransitionsFrom
<1>2. ASSUME NEW state PROVE Abstract!Last(state) <=> Terminal(state)
  <2>1. \A i \in DOMAIN Transitions : Transitions[i].to \in States
    BY TransitionFields
  <2>2. Terminal(state) <=> \A i \in DOMAIN Transitions : Transitions[i].from # state
    BY DEF Terminal, TransitionsFrom
  <2>3. Abstract!Last(state) <=>
            ~ \E t \in States : \E i \in DOMAIN Transitions :
                  Transitions[i].from = state /\ Transitions[i].to = t
    BY DEF Abstract!Last
  <2> QED BY <2>1, <2>2, <2>3
<1> QED BY <1>1, <1>2

\* A change of the capsule's row is a step of the governed capsule.
LEMMA CapsuleImplements ==
    ASSUME NEW p, Sessions = {p}, Commands = {}, OneInv(p), [Next]_vars
    PROVE  [Abstract!Next]_Item
<1>1. CASE capsule' = capsule
  BY <1>1 DEF Item
<1>2. CASE capsule' # capsule
  <2>1. Declared(capsule, capsule') /\ capsule' \in ProcessCapsule
    BY <1>2, CapsuleStep
  <2>2. capsule' # None /\ (capsule # None => capsule \in ProcessCapsule)
    BY <2>1, NoneAssumption DEF OneInv, TypeInv, TypeOK
  <2>3. Item' = [state |-> capsule'.state, status |-> capsule'.status]
    BY <2>2 DEF Item
  <2>4. ASSUME capsule # None, IsOpen(capsule)
        PROVE  /\ Abstract!Open
               /\ Item = [state |-> capsule.state, status |-> capsule.status]
    <3>1. Item = [state |-> capsule.state, status |-> capsule.status]
      BY <2>4 DEF Item
    <3>2. Item \in [state: States, status: CapsuleStatus]
      BY <2>2, <2>4, <3>1, CapsuleTypes
    <3>3. Item # None
      BY <3>2, OutlineAssumption
    <3> QED BY <2>4, <3>1, <3>3 DEF Abstract!Open, IsOpen
  <2>5. CASE capsule = None /\ capsule' = NewCapsule
    <3>1. Item = None /\ Item' = [state |-> Initial, status |-> "PENDING"]
      BY <2>3, <2>5 DEF Item, NewCapsule
    <3> QED BY <3>1 DEF Abstract!Next, Abstract!Create
  <2>6. CASE /\ capsule # None /\ IsOpen(capsule)
             /\ capsule'.state = capsule.state /\ Frozen(capsule')
    <3>1. Item' = [Item EXCEPT !.status = "NON_CONFORMANCE"]
      BY <2>3, <2>4, <2>6 DEF Frozen
    <3> QED BY <2>4, <2>6, <3>1 DEF Abstract!Next, Abstract!Freeze
  <2>7. CASE /\ capsule # None /\ IsOpen(capsule)
             /\ Matching(capsule.state, capsule'.state) # {}
             /\ capsule'.status = IF Terminal(capsule'.state)
                                  THEN "COMPLETE" ELSE "IN_PROGRESS"
    <3>1. capsule'.state \in States
      BY <2>1, CapsuleTypes
    <3>2. Item' = [state |-> capsule'.state,
                   status |-> IF Abstract!Last(capsule'.state)
                              THEN "COMPLETE" ELSE "IN_PROGRESS"]
      BY <2>3, <2>7, AbstractMoves
    <3>3. <<Item.state, capsule'.state>> \in
              {<<Transitions[i].from, Transitions[i].to>> : i \in DOMAIN Transitions}
      BY <2>4, <2>7, AbstractMoves
    <3> QED BY <2>4, <2>7, <3>1, <3>2, <3>3 DEF Abstract!Next, Abstract!Move
  <2> QED BY <1>2, <2>1, <2>5, <2>6, <2>7 DEF Declared, Plain
<1> QED BY <1>1, <1>2

\* A person at one terminal who keeps to `run` and `resume` drives a governed
\* capsule: created once, moved along the brief while it is open, complete
\* where the brief ends, and left alone once it is complete or frozen.
THEOREM RowsImplementGovernedCapsule ==
    ASSUME NEW p, Sessions = {p}, Commands = {}
    PROVE  Spec => ImplementsGovernedCapsule
<1>1. Init => Abstract!Init
  BY DEF Init, Abstract!Init, Item
<1>2. OneInv(p) /\ [Next]_vars => [Abstract!Next]_Item
  BY CapsuleImplements
<1> QED BY <1>1, <1>2, OneInvariant, PTL DEF Spec, ImplementsGovernedCapsule, Abstract!Spec
-----------------------------------------------------------------------------
(* One terminal: a CONSCIOUS move finds its approval on the run *)

IsConscious(w) ==
    /\ w.table = "ledger" /\ w.value.kind = "moved"
    /\ Transitions[Governing(w.value.from, w.value.to)].conscious

\* When a series records a CONSCIOUS move the run shows an approval: it does now
\* and no write before the move takes it away, or a write before it brings it.
Approves(ws, r) ==
    \A k \in DOMAIN ws : IsConscious(ws[k]) =>
        /\ r.gate = "approved" \/ \E j \in DOMAIN ws : j < k /\ ws[j].table = "runs"
        /\ \A j \in DOMAIN ws : (j < k /\ ws[j].table = "runs") =>
               ws[j].value.gate = "approved"

ApprovedInv(p) == TypeInv /\ Approves(session[p].todo, run)

\* A series that records no such move.
Unconscious(ws) == \A k \in DOMAIN ws : ~IsConscious(ws[k])

LEMMA UnconsciousApproves ==
    ASSUME NEW ws, Unconscious(ws)
    PROVE  \A r : Approves(ws, r)
BY DEF Unconscious, Approves

LEMMA ApprovesAfterFirst ==
    ASSUME NEW ws \in Seq(Write), ws # <<>>, NEW w, w = Head(ws), NEW vs, vs = Tail(ws),
           NEW r, Approves(ws, r)
    PROVE  /\ Approves(vs, After(w, "runs", r))
           /\ IsConscious(w) => r.gate = "approved"
<1>1. /\ Len(ws) \in Nat \ {0} /\ DOMAIN ws = 1 .. Len(ws)
      /\ w = ws[1] /\ vs \in Seq(Write) /\ DOMAIN vs = 1 .. Len(ws) - 1
      /\ \A k \in 1 .. Len(ws) - 1 : vs[k] = ws[k + 1]
  BY HeadTailProperties, EmptySeq, LenProperties
<1> PICK q : q = After(w, "runs", r)
  OBVIOUS
<1>2. IsConscious(w) => r.gate = "approved"
  BY <1>1 DEF Approves
<1>3. ASSUME NEW k \in DOMAIN vs, IsConscious(vs[k])
      PROVE  /\ q.gate = "approved" \/ \E j \in DOMAIN vs : j < k /\ vs[j].table = "runs"
             /\ \A j \in DOMAIN vs : (j < k /\ vs[j].table = "runs") =>
                    vs[j].value.gate = "approved"
  <2> PICK i : i = k + 1
    OBVIOUS
  <2>1. i \in DOMAIN ws /\ ws[i] = vs[k] /\ i > 1 /\ IsConscious(ws[i])
    BY <1>1, <1>3
  <2>2. /\ r.gate = "approved" \/ \E j \in DOMAIN ws : j < i /\ ws[j].table = "runs"
        /\ \A j \in DOMAIN ws : (j < i /\ ws[j].table = "runs") =>
               ws[j].value.gate = "approved"
    BY <2>1 DEF Approves
  <2>3. \A j \in DOMAIN vs : (j < k /\ vs[j].table = "runs") =>
            vs[j].value.gate = "approved"
    <3> SUFFICES ASSUME NEW j \in DOMAIN vs, j < k, vs[j].table = "runs"
                 PROVE  vs[j].value.gate = "approved"
      OBVIOUS
    <3>1. j + 1 \in DOMAIN ws /\ j + 1 < i /\ ws[j + 1] = vs[j]
      BY <1>1
    <3> QED BY <2>2, <3>1
  <2>4. w.table = "runs" => q.gate = "approved"
    BY <1>1, <2>1, <2>2 DEF After
  <2>5. ASSUME w.table # "runs"
        PROVE  q.gate = "approved" \/ \E j \in DOMAIN vs : j < k /\ vs[j].table = "runs"
    <3>1. CASE r.gate = "approved"
      BY <2>5, <3>1 DEF After
    <3>2. CASE \E j \in DOMAIN ws : j < i /\ ws[j].table = "runs"
      <4>1. PICK j \in DOMAIN ws : j < i /\ ws[j].table = "runs"
        BY <3>2
      <4>2. j # 1 /\ j - 1 \in DOMAIN vs /\ j - 1 < k /\ vs[j - 1] = ws[j]
        BY <1>1, <2>5, <4>1
      <4> QED BY <4>1, <4>2
    <3> QED BY <2>2, <3>1, <3>2
  <2> QED BY <2>3, <2>4, <2>5
<1> QED BY <1>2, <1>3 DEF Approves

\* After an approval has been saved.
LEMMA ApprovesOn ==
    ASSUME NEW ws \in Seq(Write), Unconscious(ws), WritesTo(ws, "runs"),
           \A k \in DOMAIN ws : ws[k].table = "runs" => ws[k].value.gate = "approved",
           NEW vs \in Seq(Write), NEW q, Approves(vs, q),
           NEW xs, xs = ws \o vs
    PROVE  \A r : Approves(xs, r)
<1>1. /\ Len(ws) \in Nat /\ DOMAIN ws = 1 .. Len(ws)
      /\ Len(vs) \in Nat /\ DOMAIN vs = 1 .. Len(vs)
      /\ xs \in Seq(Write) /\ DOMAIN xs = 1 .. Len(ws) + Len(vs)
      /\ \A k \in 1 .. Len(ws) + Len(vs) :
             xs[k] = IF k <= Len(ws) THEN ws[k] ELSE vs[k - Len(ws)]
  BY ConcatProperties, LenProperties
<1>2. \A k \in DOMAIN xs :
          \/ k \in DOMAIN ws /\ xs[k] = ws[k]
          \/ k > Len(ws) /\ k - Len(ws) \in DOMAIN vs /\ xs[k] = vs[k - Len(ws)]
  BY <1>1
<1> SUFFICES ASSUME NEW k \in DOMAIN xs, IsConscious(xs[k])
             PROVE  /\ \E j \in DOMAIN xs : j < k /\ xs[j].table = "runs"
                    /\ \A j \in DOMAIN xs : (j < k /\ xs[j].table = "runs") =>
                           xs[j].value.gate = "approved"
  BY DEF Approves
<1>3. k > Len(ws) /\ k - Len(ws) \in DOMAIN vs /\ xs[k] = vs[k - Len(ws)]
  BY <1>2 DEF Unconscious
<1>4. \E j \in DOMAIN xs : j < k /\ xs[j].table = "runs"
  <2>1. PICK j \in DOMAIN ws : ws[j].table = "runs"
    BY DEF WritesTo
  <2>2. j \in DOMAIN xs /\ j < k /\ xs[j] = ws[j]
    BY <1>1, <1>3
  <2> QED BY <2>1, <2>2
<1>5. ASSUME NEW j \in DOMAIN xs, j < k, xs[j].table = "runs"
      PROVE  xs[j].value.gate = "approved"
  <2>1. CASE j \in DOMAIN ws /\ xs[j] = ws[j]
    BY <1>5, <2>1
  <2>2. CASE j > Len(ws) /\ j - Len(ws) \in DOMAIN vs /\ xs[j] = vs[j - Len(ws)]
    <3>1. j - Len(ws) < k - Len(ws)
      BY <1>1, <1>5
    <3> QED BY <1>3, <1>5, <2>2, <3>1 DEF Approves
  <2> QED BY <1>2, <2>1, <2>2
<1> QED BY <1>4, <1>5

\* An attempt moves along a CONSCIOUS transition only with an approval in hand.
LEMMA AdvanceApproves ==
    ASSUME NEW c, NEW r, NEW to, NEW ev, NEW x,
           x.gate = "approved" \/ ~Transitions[Governing(c.state, to)].conscious
    PROVE  Approves(Advance(c, r, to, ev).writes, x)
<1> PICK out : out = Advance(c, r, to, ev)
  OBVIOUS
<1>1. CASE out = RefuseInvalidTransition(c, r, to, ev)
  <2> DEFINE a == SaveCapsule(Freeze(c))
             b == RecordEvent(Entry("refused", c.state, to, ev))
             n == SaveRecord(Breach("NO_VALID_PATH", c.state, to))
             e == SaveRun(Fail(r))
  <2>1. /\ a.table = "capsules" /\ b.table = "ledger" /\ b.value.kind = "refused"
        /\ n.table = "non_conformance_records" /\ e.table = "runs"
    BY Tables DEF Entry
  <2>2. out.writes = <<a, b, n, e>>
    BY <1>1 DEF RefuseInvalidTransition
  <2> HIDE DEF a, b, n, e
  <2>3. Unconscious(<<a, b, n, e>>)
    BY <2>1 DEF Unconscious, IsConscious
  <2> QED BY <2>2, <2>3, UnconsciousApproves
<1>2. CASE out = RefuseMissingEvidence(c, r, to)
  <2> DEFINE a == RecordEvent(Entry("refused", c.state, to, 0))
             b == SaveRecord(Breach("MISSING_EVIDENCE", c.state, to))
  <2>1. /\ a.table = "ledger" /\ a.value.kind = "refused"
        /\ b.table = "non_conformance_records"
    BY Tables DEF Entry
  <2>2. out.writes = <<a, b>>
    BY <1>2 DEF RefuseMissingEvidence
  <2> HIDE DEF a, b
  <2>3. Unconscious(<<a, b>>)
    BY <2>1 DEF Unconscious, IsConscious
  <2> QED BY <2>2, <2>3, UnconsciousApproves
<1>3. CASE out = PerformTransition(c, r, to, ev)
  <2> DEFINE a == SaveCapsule(Moved(to, ev))
             b == RecordEvent(Entry("moved", c.state, to, ev))
             e == SaveRun(Tracked(r, to))
  <2>1. /\ a.table = "capsules" /\ b.table = "ledger" /\ e.table = "runs"
        /\ b.value.from = c.state /\ b.value.to = to
    BY Tables DEF Entry
  <2>2. out.writes = <<a, b, e>>
    BY <1>3 DEF PerformTransition
  <2> HIDE DEF a, b, e
  <2>3. IsConscious(b) => x.gate = "approved"
    BY <2>1 DEF IsConscious
  <2>4. \A k \in DOMAIN <<a, b, e>> : IsConscious(<<a, b, e>>[k]) => k = 2
    BY <2>1 DEF IsConscious
  <2>5. \A j \in DOMAIN <<a, b, e>> : j < 2 => <<a, b, e>>[j].table # "runs"
    BY <2>1
  <2>6. <<a, b, e>>[2] = b
    OBVIOUS
  <2>7. Approves(<<a, b, e>>, x)
    BY <2>3, <2>4, <2>5, <2>6 DEF Approves
  <2> QED BY <2>2, <2>7
<1> QED BY <1>1, <1>2, <1>3 DEF Advance

LEMMA ApplyDecisionApproves ==
    ASSUME NEW c \in ProcessCapsule, NEW r \in RuntimeState,
           NEW to \in States, NEW ev \in Evidence, NEW decision,
           NEW out, out = ApplyDecision(c, r, to, ev, decision)
    PROVE  \A x : Approves(out.writes, x)
<1> PICK rejected \in BOOLEAN : rejected = (decision = "REJECT")
  OBVIOUS
<1> PICK q : q = ResolveGate(r, ~rejected)
  OBVIOUS
<1> PICK flagged : flagged = IF decision = "FLAG" THEN <<Flag(c)>> ELSE <<>>
  OBVIOUS
<1> PICK rest : rest = IF decision = "REJECT" THEN MarkNonConformance(c, q)
                       ELSE Advance(c, q, to, ev)
  OBVIOUS
<1> PICK save : save = <<SaveRun(q)>>
  OBVIOUS
<1> PICK prefix : prefix = flagged \o save
  OBVIOUS
<1>1. /\ q \in RuntimeState
      /\ q.gate = IF rejected THEN "rejected" ELSE "approved"
  BY RunTypes DEF ResolveGate, RuntimeState
<1>2. rest \in Outcome
  BY <1>1, AdvanceType, MarkNonConformanceType
<1>3. flagged \in Seq(Write) /\ save \in Seq(Write)
  BY <1>1, FlagType, WriteTypes, SeriesTypes, EmptySeq
<1>4. prefix \in Seq(Write) /\ rest.writes \in Seq(Write)
  BY <1>2, <1>3, ConcatProperties DEF Outcome
<1>5. out.writes = prefix \o rest.writes
  <2>1. out = [rest EXCEPT !.writes = flagged \o save \o rest.writes]
    BY DEF ApplyDecision
  <2> QED BY <1>2, <1>3, <1>4, <2>1 DEF Outcome
<1>6. /\ Flag(c).table = "ledger" /\ Flag(c).value.kind = "flagged" /\ Flag(c) \in Write
      /\ SaveRun(q).table = "runs" /\ SaveRun(q).value = q /\ SaveRun(q) \in Write
  BY <1>1, FlagType, WriteTypes, Tables DEF Flag, Entry
<1>7. Unconscious(prefix) /\ \A k \in DOMAIN prefix :
                                 prefix[k].table = "runs" => prefix[k].value = q
  <2> DEFINE S == {w \in Write : ~IsConscious(w) /\ (w.table = "runs" => w.value = q)}
  <2>1. Flag(c) \in S /\ SaveRun(q) \in S
    BY <1>6 DEF IsConscious
  <2> HIDE DEF S
  <2>2. flagged \in Seq(S) /\ save \in Seq(S)
    BY <2>1, SeriesTypes, EmptySeq
  <2>3. prefix \in Seq(S)
    BY <2>2, ConcatProperties
  <2>4. \A k \in DOMAIN prefix : prefix[k] \in S
    BY <2>3, ElementOfSeq, LenProperties
  <2> QED BY <2>4 DEF S, Unconscious
<1>8. WritesTo(prefix, "runs")
  <2>1. WritesTo(save, "runs")
    BY <1>6 DEF WritesTo
  <2> QED BY <1>3, <2>1, WritesOn
<1> PICK vs : vs = rest.writes
  OBVIOUS
<1> PICK xs : xs = out.writes
  OBVIOUS
<1>9. CASE decision # "REJECT"
  <2>1. q.gate = "approved" /\ rest = Advance(c, q, to, ev)
    BY <1>1, <1>9
  <2>2. Approves(vs, q)
    BY <2>1, AdvanceApproves
  <2>3. \A k \in DOMAIN prefix : prefix[k].table = "runs" => prefix[k].value.gate = "approved"
    BY <1>7, <2>1
  <2>4. xs = prefix \o vs /\ vs \in Seq(Write) /\ prefix \in Seq(Write)
    BY <1>4, <1>5
  <2>5. \A x : Approves(xs, x)
    BY ONLY <1>7, <1>8, <2>2, <2>3, <2>4, ApprovesOn
  <2> QED BY <2>5
<1>10. CASE decision = "REJECT"
  <2> DEFINE a == SaveCapsule(Freeze(c))
             b == Rejection(c)
             n == RejectionRecord(c)
             e == SaveRun(Fail(q))
  <2>1. /\ a.table = "capsules" /\ b.table = "ledger" /\ b.value.kind = "rejected"
        /\ n.table = "non_conformance_records" /\ e.table = "runs"
    BY Tables DEF Entry, Rejection, RejectionRecord
  <2>2. vs = <<a, b, n, e>>
    BY <1>10 DEF MarkNonConformance
  <2> HIDE DEF a, b, n, e
  <2>3. Unconscious(vs)
    BY <2>1, <2>2 DEF Unconscious, IsConscious
  <2>4. \A k \in DOMAIN xs : ~IsConscious(xs[k])
    <3>1. /\ xs = prefix \o vs /\ vs \in Seq(Write) /\ prefix \in Seq(Write)
      BY <1>4, <1>5
    <3>2. \A k \in DOMAIN xs :
              \/ k \in DOMAIN prefix /\ xs[k] = prefix[k]
              \/ k - Len(prefix) \in DOMAIN vs /\ xs[k] = vs[k - Len(prefix)]
      <4>1. /\ Len(prefix) \in Nat /\ DOMAIN prefix = 1 .. Len(prefix)
            /\ Len(vs) \in Nat /\ DOMAIN vs = 1 .. Len(vs)
            /\ DOMAIN xs = 1 .. Len(prefix) + Len(vs)
            /\ \A k \in 1 .. Len(prefix) + Len(vs) :
                   xs[k] = IF k <= Len(prefix) THEN prefix[k] ELSE vs[k - Len(prefix)]
        BY ONLY <3>1, ConcatProperties, LenProperties
      <4> QED BY ONLY <4>1
    <3> QED BY <1>7, <2>3, <3>2 DEF Unconscious
  <2> QED BY <2>4, UnconsciousApproves DEF Unconscious
<1> QED BY <1>9, <1>10


\* The terminal takes over m and the rows stay as they are.
LEMMA ApprovedStep ==
    ASSUME NEW p, Sessions = {p}, ApprovedInv(p), TypeInv', UNCHANGED rows,
           NEW n, n = session'[p], Approves(n.todo, run)
    PROVE  ApprovedInv(p)'
<1>1. run' = run
  BY DEF rows
<1>2. Approves(n.todo, run')
  BY <1>1
<1> QED BY <1>2 DEF ApprovedInv

LEMMA NextApproved ==
    ASSUME NEW p, Sessions = {p}, ApprovedInv(p), [Next]_vars
    PROVE  ApprovedInv(p)'
<1> PICK m : m = session[p]
  OBVIOUS
<1> PICK n : n = session'[p]
  OBVIOUS
<1>1. TypeInv /\ TypeInv' /\ m \in Session /\ p \in Sessions
  BY NextTypes DEF ApprovedInv, TypeInv, TypeOK
<1>2. ASSUME NEW q PROVE Unconscious(<<SaveRun(q)>>)
  <2> PICK w : w = SaveRun(q)
    OBVIOUS
  <2>1. w.table = "runs"
    BY Tables
  <2>2. Unconscious(<<w>>)
    BY <2>1 DEF Unconscious, IsConscious
  <2> QED BY <2>2
<1>3. Unconscious(<<>>)
  BY DEF Unconscious
<1>4. ASSUME UNCHANGED rows, Unconscious(n.todo)
      PROVE  ApprovedInv(p)'
  BY <1>1, <1>4, UnconsciousApproves, ApprovedStep
<1>5. ASSUME UNCHANGED rows, NEW x, x.todo = <<>> \/ \E q : x.todo = <<SaveRun(q)>>,
             n = x \/ n = Settle(x)
      PROVE  ApprovedInv(p)'
  <2>1. n.todo = x.todo
    BY <1>5 DEF Settle, Idle
  <2> QED BY <1>2, <1>3, <1>4, <1>5, <2>1
<1>6. CASE UNCHANGED vars
  BY <1>1, <1>6 DEF vars, ApprovedInv
<1>7. CASE Commit(p)
  <2> PICK w : w = Head(m.todo)
    OBVIOUS
  <2>1. /\ m.todo \in Seq(Write) /\ m.todo # <<>> /\ n.todo = Tail(m.todo)
        /\ run' = After(w, "runs", run)
    BY <1>1, <1>7, CommitRows
  <2> PICK ws \in Seq(Write) : ws = m.todo
    BY <2>1
  <2> PICK r : r = run
    OBVIOUS
  <2>2. Approves(ws, r) /\ ws # <<>> /\ w = Head(ws)
    BY <2>1 DEF ApprovedInv
  <2> PICK vs : vs = Tail(ws)
    OBVIOUS
  <2>3. Approves(vs, After(w, "runs", r))
    BY ONLY <2>2, ws \in Seq(Write), vs = Tail(ws), ApprovesAfterFirst
  <2>4. Approves(n.todo, run')
    BY <2>1, <2>3
  <2> QED BY <1>1, <2>4 DEF ApprovedInv
<1>8. CASE StartRun(p)
  <2> DEFINE a == SaveCapsule(NewCapsule)
             b == SaveRun(NewRun)
             e == RecordEvent(Entry("created", None, Initial, 0))
  <2>1. /\ a.table = "capsules" /\ b.table = "runs"
        /\ e.table = "ledger" /\ e.value.kind = "created"
    BY Tables DEF Entry
  <2>2. n.todo = StartWrites /\ UNCHANGED rows
    BY <1>1, <1>8 DEF StartRun, Become, TypeInv, TypeOK, Idle
  <2>3. StartWrites = <<a, b, e>>
    BY DEF StartWrites
  <2> HIDE DEF a, b, e
  <2>4. Unconscious(<<a, b, e>>)
    BY <2>1 DEF Unconscious, IsConscious
  <2> QED BY <1>4, <2>2, <2>3, <2>4
<1>9. CASE Attempt(p)
  <2>1. PICK i \in TransitionsFrom(m.capsule.state) :
            \E ev \in {0, Governing(m.capsule.state, Transitions[i].to)} :
                IF Transitions[Governing(m.capsule.state, Transitions[i].to)].conscious
                THEN OpenGate(p, m.run, Transitions[i].to, ev)
                ELSE Carry(p, Advance(m.capsule, m.run, Transitions[i].to, ev))
    BY <1>9 DEF Attempt
  <2> PICK to : to = Transitions[i].to
    OBVIOUS
  <2>2. PICK ev \in {0, Governing(m.capsule.state, to)} :
            IF Transitions[Governing(m.capsule.state, to)].conscious
            THEN OpenGate(p, m.run, to, ev)
            ELSE Carry(p, Advance(m.capsule, m.run, to, ev))
    BY <2>1
  <2>3. UNCHANGED rows
    BY <1>9 DEF Attempt
  <2>4. CASE OpenGate(p, m.run, to, ev)
    <3>1. n.todo = <<SaveRun(EnterHumanReview(m.run))>>
      BY <1>1, <2>4 DEF OpenGate, Become, TypeInv, TypeOK, Session
    <3> QED BY <1>2, <1>4, <2>3, <3>1
  <2>5. CASE /\ ~Transitions[Governing(m.capsule.state, to)].conscious
             /\ Carry(p, Advance(m.capsule, m.run, to, ev))
    <3> PICK out : out = Advance(m.capsule, m.run, to, ev)
      OBVIOUS
    <3>1. n.todo = out.writes
      BY <1>1, <2>5 DEF Carry, Become, TypeInv, TypeOK, Session
    <3>2. Approves(out.writes, run)
      BY <2>5, AdvanceApproves
    <3> QED BY <1>1, <2>3, <3>1, <3>2, ApprovedStep
  <2> QED BY <2>2, <2>4, <2>5
<1>10. CASE Decide(p)
  <2>1. /\ UNCHANGED rows /\ m.at = "gate"
        /\ m.capsule \in ProcessCapsule /\ m.run \in RuntimeState
        /\ m.to \in States /\ m.evidence \in Evidence
    BY <1>1, <1>10 DEF Decide, Ready, TypeInv, Loaded, Session
  <2>2. PICK decision \in {"APPROVE", "REJECT", "FLAG"} :
            Carry(p, ApplyDecision(m.capsule, m.run, m.to, m.evidence, decision))
    BY <1>10 DEF Decide
  <2> PICK out : out = ApplyDecision(m.capsule, m.run, m.to, m.evidence, decision)
    OBVIOUS
  <2>3. n.todo = out.writes
    BY <1>1, <2>2 DEF Carry, Become, TypeInv, TypeOK, Session
  <2>4. Approves(out.writes, run)
    BY <2>1, ApplyDecisionApproves
  <2> QED BY <1>1, <2>1, <2>3, <2>4, ApprovedStep
<1>11. CASE OpenReview(p)
  <2>1. PICK to, ev : OpenGate(p, run, to, ev)
    BY <1>11 DEF OpenReview
  <2>2. n.todo = <<SaveRun(EnterHumanReview(run))>> /\ UNCHANGED rows
    BY <1>1, <1>11, <2>1 DEF OpenReview, OpenGate, Become, TypeInv, TypeOK, Session
  <2> QED BY <1>2, <1>4, <2>2
<1>12. CASE ResumeCapsule(p)
  <2> DEFINE r == m.run
             todo == IF r.status = "blocked" THEN <<SaveRun(ResumeRun(r))>> ELSE <<>>
             x == [m EXCEPT !.at = IF r.status \in {"complete", "failed"}
                                   THEN "leaving" ELSE LoopHead(capsule),
                            !.capsule = capsule, !.run = ResumeRun(r), !.todo = todo]
  <2>1. n = Settle(x) /\ UNCHANGED rows
    BY <1>1, <1>12 DEF ResumeCapsule, Become, TypeInv, TypeOK
  <2>2. x.todo = todo
    BY <1>1 DEF Session
  <2> HIDE DEF x
  <2> QED BY <1>5, <2>1, <2>2
<1>13. CASE AttachArtifact(p)
  <2>1. PICK todo \in {<<>>, <<SaveRun(m.run)>>} :
            n = Settle([m EXCEPT !.at = LoopHead(m.capsule), !.todo = todo])
    BY <1>1, <1>13 DEF AttachArtifact, Become, TypeInv, TypeOK
  <2> PICK x : x = [m EXCEPT !.at = LoopHead(m.capsule), !.todo = todo]
    OBVIOUS
  <2>2. x.todo = todo /\ n = Settle(x) /\ UNCHANGED rows
    BY <1>1, <1>13, <2>1 DEF AttachArtifact, Session
  <2> QED BY <1>5, <2>1, <2>2
<1>14. CASE ReloadCapsule(p) \/ ReloadRun(p)
  <2>1. m.todo = <<>> /\ UNCHANGED rows
    BY <1>14 DEF ReloadCapsule, ReloadRun, Ready
  <2>2. PICK x : /\ n = x \/ n = Settle(x)
                 /\ \/ x = [m EXCEPT !.at = "rereading", !.capsule = capsule]
                    \/ x = [m EXCEPT !.at = LoopHead(m.capsule), !.run = run]
    BY <1>1, <1>14 DEF ReloadCapsule, ReloadRun, Become, TypeInv, TypeOK
  <2>3. x.todo = <<>>
    BY <1>1, <2>1, <2>2 DEF Session
  <2> QED BY <1>5, <2>1, <2>2, <2>3
<1>15. CASE Quit(p) \/ RunsBlock(p) \/ RunsComplete(p)
  <2>1. PICK q : RewriteRun(p, q)
    BY <1>15 DEF Quit, RunsBlock, RunsComplete
  <2>2. n.todo = <<SaveRun(q)>> /\ UNCHANGED rows
    BY <1>1, <1>15, <2>1
       DEF Quit, RunsBlock, RunsComplete, RewriteRun, Become, TypeInv, TypeOK, Idle
  <2> QED BY <1>2, <1>4, <2>2
<1>16. CASE Resume(p) \/ Review(p) \/ NothingToReview(p) \/ Die(p)
  <2>1. UNCHANGED rows
    BY <1>16 DEF Resume, Review, NothingToReview, Die
  <2>2. CASE Resume(p)
    <3>1. n = [Idle EXCEPT !.at = "resuming", !.command = "loop", !.run = run]
      BY <1>1, <2>2 DEF Resume, Become, TypeInv, TypeOK
    <3>2. n.todo = <<>>
      BY <3>1 DEF Idle
    <3> QED BY <1>3, <1>4, <2>1, <3>2
  <2>3. CASE Review(p)
    <3>1. n = [Idle EXCEPT !.at = "reviewing", !.command = "review", !.capsule = capsule]
      BY <1>1, <2>3 DEF Review, Become, TypeInv, TypeOK
    <3>2. n.todo = <<>>
      BY <3>1 DEF Idle
    <3> QED BY <1>3, <1>4, <2>1, <3>2
  <2>4. CASE NothingToReview(p) \/ Die(p)
    <3>1. n = Idle
      BY <1>1, <2>4 DEF NothingToReview, Die, Become, TypeInv, TypeOK
    <3>2. n.todo = <<>>
      BY <3>1 DEF Idle
    <3> QED BY <1>3, <1>4, <2>1, <3>2
  <2> QED BY <1>16, <2>2, <2>3, <2>4
<1> QED BY <1>6, <1>7, <1>8, <1>9, <1>10, <1>11, <1>12, <1>13, <1>14, <1>15, <1>16 DEF Next

\* cli.py and state_machine.py open a review gate before a CONSCIOUS move: with
\* one terminal such a move is recorded only while the run's row shows the gate
\* approved, also after the terminal died half way through a decision.
THEOREM ConsciousMovesAlwaysApproved ==
    ASSUME NEW p, Sessions = {p}
    PROVE  Spec => ConsciousMovesAreApproved
<1>1. Init => ApprovedInv(p)
  <2> SUFFICES ASSUME Init PROVE ApprovedInv(p)
    OBVIOUS
  <2>1. session[p].todo = <<>> /\ TypeInv
    BY InitTypes DEF Init, Idle
  <2>2. Unconscious(<<>>)
    BY DEF Unconscious
  <2> QED BY <2>1, <2>2, UnconsciousApproves DEF ApprovedInv
<1>2. ApprovedInv(p) /\ [Next]_vars => ApprovedInv(p)'
  BY NextApproved
<1>3. ApprovedInv(p) /\ [Next]_vars =>
          [events' # events =>
               LET e == events'[Len(events')]
               IN  (e.kind = "moved" /\ Transitions[Governing(e.from, e.to)].conscious)
                       => run.gate = "approved"]_events
  <2> SUFFICES ASSUME ApprovedInv(p), [Next]_vars, events' # events,
                      NEW e, e = events'[Len(events')], e.kind = "moved",
                      Transitions[Governing(e.from, e.to)].conscious
               PROVE  run.gate = "approved"
    OBVIOUS
  <2> PICK m : m = session[p]
    OBVIOUS
  <2> PICK w : w = Head(m.todo)
    OBVIOUS
  <2>1. Commit(p)
    <3>1. CASE Next
      BY <3>1 DEF Next, rows, StartRun, Resume, ResumeCapsule, Attempt, AttachArtifact,
         ReloadCapsule, ReloadRun, Quit, Review, OpenReview, NothingToReview, Decide,
         RunsBlock, RunsComplete, Die
    <3> QED BY <3>1 DEF vars
  <2>2. /\ m.todo \in Seq(Write) /\ m.todo # <<>> /\ w \in Write
        /\ events' = Grown(w, events)
    BY <2>1, CommitRows DEF ApprovedInv
  <2>3. w.table = "ledger" /\ events' = Append(events, w.value)
    BY <2>2 DEF Grown
  <2>4. e = w.value
    <3>1. events \in Seq(Event) /\ w.value \in Event
      BY <2>2, <2>3, WriteTables DEF ApprovedInv, TypeInv, TypeOK
    <3> QED BY <2>3, <3>1, AppendProperties
  <2>5. IsConscious(w)
    BY <2>3, <2>4 DEF IsConscious
  <2> PICK ws \in Seq(Write) : ws = m.todo
    BY <2>2
  <2> PICK r : r = run
    OBVIOUS
  <2>6. Approves(ws, r) /\ ws # <<>> /\ w = Head(ws)
    BY <2>2 DEF ApprovedInv
  <2> PICK vs : vs = Tail(ws)
    OBVIOUS
  <2>7. IsConscious(w) => r.gate = "approved"
    BY ONLY <2>6, ws \in Seq(Write), vs = Tail(ws), ApprovesAfterFirst
  <2> QED BY <2>5, <2>7
<1> QED BY <1>1, <1>2, <1>3, PTL DEF Spec, ConsciousMovesAreApproved
=============================================================================
