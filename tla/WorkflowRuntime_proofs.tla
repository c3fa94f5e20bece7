----------------------- MODULE WorkflowRuntime_proofs -----------------------
(***************************************************************************)
(* Facts about the operations of the runtime: the types of what they       *)
(* return, and what the series of their writes guarantees about itself.    *)
(***************************************************************************)
EXTENDS WorkflowRuntime, Numbers_proofs, FiniteSetTheorems, SequenceTheorems, TLAPS

-----------------------------------------------------------------------------
(* The brief *)

\* What BriefAssumption says of one transition.
LEMMA TransitionFields ==
    ASSUME NEW i \in DOMAIN Transitions
    PROVE  /\ i \in Nat \ {0} /\ i \in Evidence
           /\ Transitions[i].from \in States
           /\ Transitions[i].to \in States
<1> DEFINE T == [from: States, to: States, evidence: BOOLEAN, conscious: BOOLEAN]
<1>1. Transitions \in Seq(T)
  BY BriefAssumption
<1>2. Len(Transitions) \in Nat /\ DOMAIN Transitions = 1 .. Len(Transitions)
  <2> HIDE DEF T
  <2> QED BY <1>1, LenProperties
<1>3. Transitions[i] \in T
  <2> HIDE DEF T
  <2> QED BY <1>1, <1>2, ElementOfSeq
<1> QED BY <1>2, <1>3 DEF Evidence

\* The transition that governs a move is one that matches it.
LEMMA GoverningMatches ==
    ASSUME NEW from, NEW to, Matching(from, to) # {}
    PROVE  /\ Governing(from, to) \in Matching(from, to)
           /\ Governing(from, to) \in DOMAIN Transitions
           /\ Governing(from, to) \in Evidence \ {0}
<1>1. Matching(from, to) \in SUBSET (DOMAIN Transitions)
  BY DEF Matching, TransitionsFrom
<1>2. Matching(from, to) \in SUBSET Nat
  BY <1>1, TransitionFields
<1>3. \E i \in Matching(from, to) : \A j \in Matching(from, to) : i <= j
  BY <1>2, LeastNumber
<1>4. Governing(from, to) \in Matching(from, to)
  BY <1>3 DEF Governing
<1> QED BY <1>1, <1>4, TransitionFields

-----------------------------------------------------------------------------
(* Types of rows and writes *)

LEMMA WriteTypes ==
    /\ \A c \in ProcessCapsule : SaveCapsule(c) \in Write
    /\ \A r \in RuntimeState : SaveRun(r) \in Write
    /\ \A e \in Event : RecordEvent(e) \in Write
    /\ \A n \in NonConformanceRecord : SaveRecord(n) \in Write
BY DEF SaveCapsule, SaveRun, RecordEvent, SaveRecord, Write

\* The table of a write tells the type of its value.
LEMMA WriteTables ==
    ASSUME NEW w \in Write
    PROVE  /\ w.table \in {"capsules", "runs", "ledger",
                           "non_conformance_records"}
           /\ w.table = "capsules" => w.value \in ProcessCapsule
           /\ w.table = "runs" => w.value \in RuntimeState
           /\ w.table = "ledger" => w.value \in Event
           /\ w.table = "non_conformance_records" => w.value \in NonConformanceRecord
BY DEF Write

\* Series of writes, up to the length the operations use.
LEMMA SeriesTypes ==
    ASSUME NEW S
    PROVE  /\ \A a \in S : <<a>> \in Seq(S)
           /\ \A a, b \in S : <<a, b>> \in Seq(S)
           /\ \A a, b, c \in S : <<a, b, c>> \in Seq(S)
           /\ \A a, b, c, d \in S : <<a, b, c, d>> \in Seq(S)
OBVIOUS

LEMMA StartTypes ==
    /\ NewCapsule \in ProcessCapsule
    /\ NewRun \in RuntimeState
    /\ StartWrites \in Seq(Write)
<1>1. NewCapsule \in ProcessCapsule
  BY BriefAssumption DEF NewCapsule, ProcessCapsule, CapsuleStatus, Evidence
<1>2. NewRun \in RuntimeState
  BY BriefAssumption DEF NewRun, RuntimeState, RunStatus, GateStatus
<1>3. Entry("created", None, Initial, 0) \in Event
  BY BriefAssumption DEF Entry, Event, Evidence
<1> QED BY <1>1, <1>2, <1>3, WriteTypes DEF StartWrites

LEMMA CapsuleTypes ==
    ASSUME NEW c \in ProcessCapsule
    PROVE  /\ c.state \in States /\ c.evidence \in Evidence
           /\ c.status \in CapsuleStatus
           /\ Freeze(c) \in ProcessCapsule
BY DEF ProcessCapsule, Freeze, CapsuleStatus

LEMMA MovedTypes ==
    ASSUME NEW to \in States, NEW evidence \in Evidence
    PROVE  Moved(to, evidence) \in ProcessCapsule
BY DEF ProcessCapsule, Moved, CapsuleStatus

LEMMA RunTypes ==
    ASSUME NEW r \in RuntimeState
    PROVE  /\ Fail(r) \in RuntimeState
           /\ [r EXCEPT !.pointer = TRUE] \in RuntimeState
           /\ \A to \in States : Tracked(r, to) \in RuntimeState
           /\ EnterHumanReview(r) \in RuntimeState
           /\ \A approved \in BOOLEAN : ResolveGate(r, approved) \in RuntimeState
           /\ BlockRun(r) \in RuntimeState
           /\ ResumeRun(r) \in RuntimeState
           /\ CompleteRun(r) \in RuntimeState
BY DEF RuntimeState, RunStatus, GateStatus, Fail, Tracked, EnterHumanReview,
       ResolveGate, BlockRun, ResumeRun, CompleteRun

LEMMA EntryTypes ==
    ASSUME NEW from \in States, NEW to \in States, NEW evidence \in Evidence,
           NEW kind \in {"created", "moved", "flagged", "refused", "rejected"}
    PROVE  Entry(kind, from, to, evidence) \in Event
BY DEF Entry, Event

LEMMA BreachTypes ==
    ASSUME NEW from \in States, NEW attempted \in States \cup {None},
           NEW kind \in {"NO_VALID_PATH", "MISSING_EVIDENCE", "REVIEW_REJECTED"}
    PROVE  Breach(kind, from, attempted) \in NonConformanceRecord
BY DEF Breach, NonConformanceRecord

-----------------------------------------------------------------------------
(* Types of outcomes *)

LEMMA AdvanceType ==
    ASSUME NEW c \in ProcessCapsule, NEW r \in RuntimeState,
           NEW to \in States, NEW evidence \in Evidence
    PROVE  Advance(c, r, to, evidence) \in Outcome
<1>1. RefuseInvalidTransition(c, r, to, evidence) \in Outcome
  <2> DEFINE ws == RefuseInvalidTransition(c, r, to, evidence).writes
  <2>1. /\ Entry("refused", c.state, to, evidence) \in Event
        /\ Breach("NO_VALID_PATH", c.state, to) \in NonConformanceRecord
    BY CapsuleTypes, EntryTypes, BreachTypes
  <2>2. ws \in Seq(Write)
    BY <2>1, CapsuleTypes, RunTypes, WriteTypes, SeriesTypes
    DEF RefuseInvalidTransition
  <2> QED BY <2>2, CapsuleTypes, RunTypes DEF RefuseInvalidTransition, Outcome
<1>2. RefuseMissingEvidence(c, r, to) \in Outcome
  <2> DEFINE ws == RefuseMissingEvidence(c, r, to).writes
  <2>1. 0 \in Evidence
    BY StartTypes DEF NewCapsule, ProcessCapsule
  <2>2. /\ Entry("refused", c.state, to, 0) \in Event
        /\ Breach("MISSING_EVIDENCE", c.state, to) \in NonConformanceRecord
    BY <2>1, CapsuleTypes, EntryTypes, BreachTypes
  <2>3. ws \in Seq(Write)
    BY <2>2, WriteTypes, SeriesTypes DEF RefuseMissingEvidence
  <2> QED BY <2>3, RunTypes DEF RefuseMissingEvidence, Outcome
<1>3. PerformTransition(c, r, to, evidence) \in Outcome
  <2> DEFINE ws == PerformTransition(c, r, to, evidence).writes
  <2>1. Entry("moved", c.state, to, evidence) \in Event
    BY CapsuleTypes, EntryTypes
  <2>2. ws \in Seq(Write)
    BY <2>1, MovedTypes, RunTypes, WriteTypes, SeriesTypes DEF PerformTransition
  <2> QED BY <2>2, MovedTypes, RunTypes DEF PerformTransition, Outcome
<1> QED BY <1>1, <1>2, <1>3 DEF Advance

LEMMA MarkNonConformanceType ==
    ASSUME NEW c \in ProcessCapsule, NEW r \in RuntimeState
    PROVE  MarkNonConformance(c, r) \in Outcome
<1>1. Entry("rejected", c.state, c.state, c.evidence) \in Event
  BY CapsuleTypes, EntryTypes
<1>2. Breach("REVIEW_REJECTED", c.state, None) \in NonConformanceRecord
  BY CapsuleTypes, BreachTypes
<1>3. MarkNonConformance(c, r).writes \in Seq(Write)
  BY <1>1, <1>2, CapsuleTypes, RunTypes, WriteTypes, SeriesTypes
  DEF MarkNonConformance, Rejection, RejectionRecord
<1> QED BY <1>3, CapsuleTypes, RunTypes DEF MarkNonConformance, Outcome

LEMMA FlagType ==
    ASSUME NEW c \in ProcessCapsule
    PROVE  Flag(c) \in Write
BY CapsuleTypes, EntryTypes, WriteTypes DEF Flag

LEMMA ApplyDecisionType ==
    ASSUME NEW c \in ProcessCapsule, NEW r \in RuntimeState,
           NEW to \in States, NEW evidence \in Evidence, NEW decision
    PROVE  ApplyDecision(c, r, to, evidence, decision) \in Outcome
<1> DEFINE resolved == ResolveGate(r, decision # "REJECT")
           flagged  == IF decision = "FLAG" THEN <<Flag(c)>> ELSE <<>>
           rest     == IF decision = "REJECT"
                       THEN MarkNonConformance(c, resolved)
                       ELSE Advance(c, resolved, to, evidence)
<1>1. resolved \in RuntimeState
  BY RunTypes
<1>2. rest \in Outcome
  <2> HIDE DEF resolved
  <2> QED BY <1>1, AdvanceType, MarkNonConformanceType
<1>3. flagged \in Seq(Write) /\ <<SaveRun(resolved)>> \in Seq(Write)
  <2> HIDE DEF resolved
  <2> QED BY <1>1, FlagType, WriteTypes
<1>4. flagged \o <<SaveRun(resolved)>> \o rest.writes \in Seq(Write)
  <2> HIDE DEF resolved, flagged, rest
  <2>1. flagged \o <<SaveRun(resolved)>> \in Seq(Write)
    BY <1>3, ConcatProperties
  <2>2. rest.writes \in Seq(Write)
    BY <1>2 DEF Outcome
  <2> QED BY <2>1, <2>2, ConcatProperties
<1>5. ApplyDecision(c, r, to, evidence, decision) =
          [rest EXCEPT !.writes = flagged \o <<SaveRun(resolved)>> \o rest.writes]
  BY DEF ApplyDecision
<1> HIDE DEF resolved, flagged, rest
<1> QED BY <1>2, <1>4, <1>5 DEF Outcome

-----------------------------------------------------------------------------
(* Sound series of writes: what a series guarantees about itself, given the *)
(* events evs and the records recs the ledger holds before it is written.   *)

IsEvent(w)  == w.table = "ledger"
IsRecord(w) == w.table = "non_conformance_records"
IsFailure(w) == w.table = "runs" /\ w.value.status = "failed"
IsStop(w)   == IsRecord(w) /\ Stops(w.value)

\* An event is governed and a capsule's status is right by itself.
WriteSound(w) ==
    /\ (IsEvent(w) /\ w.value.kind = "moved") => Governed(w.value)
    /\ w.table = "capsules" => StatusMatchesBrief(w.value)

\* A stopping record is there before the k-th write of ws.
StopBefore(ws, k, recs) ==
    \/ \E n \in recs : Stops(n)
    \/ \E j \in 1 .. k - 1 : IsStop(ws[j])

\* The event of the breach n is there before the k-th write of ws.
BreachBefore(ws, k, n, evs) ==
    \/ \E e \in evs : IsBreach(e, n)
    \/ \E j \in 1 .. k - 1 : IsEvent(ws[j]) /\ IsBreach(ws[j].value, n)

Sound(ws, evs, recs) ==
    \A k \in 1 .. Len(ws) :
        /\ WriteSound(ws[k])
        /\ IsFailure(ws[k]) => StopBefore(ws, k, recs)
        /\ IsRecord(ws[k]) => BreachBefore(ws, k, ws[k].value, evs)

LEMMA SoundEmpty == \A evs, recs : Sound(<<>>, evs, recs)
BY DEF Sound

\* Soundness survives whatever else reaches the ledger.
LEMMA SoundGrows ==
    ASSUME NEW ws, NEW evs, NEW recs, Sound(ws, evs, recs),
           NEW evs2, evs \subseteq evs2, NEW recs2, recs \subseteq recs2
    PROVE  Sound(ws, evs2, recs2)
BY DEF Sound, StopBefore, BreachBefore

\* Writing the first of a sound series leaves a sound series.
LEMMA SoundTail ==
    ASSUME NEW ws \in Seq(Write), ws # <<>>, NEW evs, NEW recs,
           Sound(ws, evs, recs),
           NEW evs2, evs \subseteq evs2, NEW recs2, recs \subseteq recs2,
           IsEvent(Head(ws)) => Head(ws).value \in evs2,
           IsRecord(Head(ws)) => Head(ws).value \in recs2
    PROVE  Sound(Tail(ws), evs2, recs2)
<1> DEFINE t == Tail(ws)
<1>1. /\ Len(ws) \in Nat \ {0} /\ Len(t) = Len(ws) - 1
      /\ \A i \in 1 .. Len(t) : t[i] = ws[i + 1]
      /\ Head(ws) = ws[1]
  BY HeadTailProperties, EmptySeq, LenProperties
<1> SUFFICES ASSUME NEW k \in 1 .. Len(t)
             PROVE  /\ WriteSound(t[k])
                    /\ IsFailure(t[k]) => StopBefore(t, k, recs2)
                    /\ IsRecord(t[k]) => BreachBefore(t, k, t[k].value, evs2)
  BY DEF Sound
<1>2. /\ k + 1 \in 1 .. Len(ws) /\ t[k] = ws[k + 1]
      /\ WriteSound(ws[k + 1])
      /\ IsFailure(ws[k + 1]) => StopBefore(ws, k + 1, recs)
      /\ IsRecord(ws[k + 1]) => BreachBefore(ws, k + 1, ws[k + 1].value, evs)
  BY <1>1 DEF Sound
<1>3. \A j \in 1 .. (k + 1) - 1 : j = 1 \/ (j - 1 \in 1 .. k - 1 /\ t[j - 1] = ws[j])
  BY <1>1
<1> HIDE DEF t
<1>4. StopBefore(ws, k + 1, recs) => StopBefore(t, k, recs2)
  BY <1>1, <1>3 DEF StopBefore, IsStop
<1>5. \A n : BreachBefore(ws, k + 1, n, evs) => BreachBefore(t, k, n, evs2)
  BY <1>1, <1>3 DEF BreachBefore
<1> QED BY <1>2, <1>4, <1>5

LEMMA SoundConcat ==
    ASSUME NEW a \in Seq(Write), NEW b \in Seq(Write), NEW evs, NEW recs,
           Sound(a, evs, recs), Sound(b, evs, recs)
    PROVE  Sound(a \o b, evs, recs)
<1> DEFINE ab == a \o b
<1>1. /\ Len(a) \in Nat /\ Len(b) \in Nat /\ Len(ab) = Len(a) + Len(b)
      /\ \A i \in 1 .. Len(a) + Len(b) :
             ab[i] = IF i <= Len(a) THEN a[i] ELSE b[i - Len(a)]
  BY ConcatProperties, LenProperties
<1> HIDE DEF ab
<1> SUFFICES ASSUME NEW k \in 1 .. Len(ab)
             PROVE  /\ WriteSound(ab[k])
                    /\ IsFailure(ab[k]) => StopBefore(ab, k, recs)
                    /\ IsRecord(ab[k]) => BreachBefore(ab, k, ab[k].value, evs)
  BY DEF Sound, ab
<1>2. CASE k <= Len(a)
  <2>1. k \in 1 .. Len(a) /\ ab[k] = a[k] /\ \A j \in 1 .. k - 1 : ab[j] = a[j]
    BY <1>1, <1>2
  <2> QED BY <2>1 DEF Sound, StopBefore, BreachBefore
<1>3. CASE k > Len(a)
  <2> DEFINE i == k - Len(a)
  <2>1. /\ i \in 1 .. Len(b) /\ ab[k] = b[i]
        /\ \A j \in 1 .. i - 1 : j + Len(a) \in 1 .. k - 1 /\ ab[j + Len(a)] = b[j]
    <3>1. k \in Nat /\ k <= Len(a) + Len(b)
      BY <1>1
    <3> QED BY <1>1, <1>3, <3>1
  <2> HIDE DEF i
  <2> QED BY <2>1 DEF Sound, StopBefore, BreachBefore
<1> QED BY <1>1, <1>2, <1>3

\* A write that neither fails the run nor records a breach.
LEMMA SoundSingle ==
    ASSUME NEW w, WriteSound(w), ~IsFailure(w), ~IsRecord(w), NEW evs, NEW recs
    PROVE  Sound(<<w>>, evs, recs)
BY DEF Sound

-----------------------------------------------------------------------------
(* The operations write sound series *)

HasStop(ws) == \E j \in 1 .. Len(ws) : IsStop(ws[j])

\* A sound outcome: its writes are sound from nothing, its capsule's status is
\* right, and it fails the run only with a stopping record among its writes.
SoundOutcome(out, r) ==
    /\ Sound(out.writes, {}, {})
    /\ StatusMatchesBrief(out.capsule)
    /\ out.run.status = "failed" => (r.status = "failed" \/ HasStop(out.writes))

LEMMA RefuseInvalidTransitionSound ==
    ASSUME NEW c \in ProcessCapsule, NEW r \in RuntimeState,
           NEW to \in States, NEW evidence \in Evidence
    PROVE  SoundOutcome(RefuseInvalidTransition(c, r, to, evidence), r)
<1> DEFINE ws == RefuseInvalidTransition(c, r, to, evidence).writes
<1>1. Len(ws) = 4
  BY DEF RefuseInvalidTransition
<1>2. ws[1] = SaveCapsule(Freeze(c)) /\ WriteSound(ws[1])
      /\ ~IsFailure(ws[1]) /\ ~IsRecord(ws[1])
  BY DEF RefuseInvalidTransition, SaveCapsule, WriteSound, IsEvent, IsFailure,
         IsRecord, StatusMatchesBrief, Freeze, ProcessCapsule
<1>3. ws[2].table = "ledger" /\ WriteSound(ws[2])
      /\ ~IsFailure(ws[2]) /\ ~IsRecord(ws[2])
  BY DEF RefuseInvalidTransition, RecordEvent, Entry, WriteSound, IsEvent,
         IsFailure, IsRecord
<1>4. WriteSound(ws[3]) /\ ~IsFailure(ws[3]) /\ IsStop(ws[3])
  BY DEF RefuseInvalidTransition, SaveRecord, Breach, WriteSound, IsEvent,
         IsFailure, IsRecord, IsStop, Stops
<1>5. WriteSound(ws[4]) /\ ~IsRecord(ws[4])
  BY DEF RefuseInvalidTransition, SaveRun, WriteSound, IsEvent, IsRecord
<1>6. IsEvent(ws[2]) /\ IsBreach(ws[2].value, ws[3].value)
  BY DEF RefuseInvalidTransition, RecordEvent, SaveRecord, Entry, Breach,
         IsEvent, IsBreach
<1>7. Sound(ws, {}, {}) /\ HasStop(ws)
  <2> HIDE DEF ws
  <2> QED BY <1>1, <1>2, <1>3, <1>4, <1>5, <1>6
          DEF Sound, HasStop, StopBefore, BreachBefore
<1>8. StatusMatchesBrief(Freeze(c))
  BY DEF StatusMatchesBrief, Freeze, ProcessCapsule
<1> QED BY <1>7, <1>8 DEF SoundOutcome, RefuseInvalidTransition

LEMMA RefuseMissingEvidenceSound ==
    ASSUME NEW c \in ProcessCapsule, NEW r \in RuntimeState, NEW to \in States,
           StatusMatchesBrief(c)
    PROVE  SoundOutcome(RefuseMissingEvidence(c, r, to), r)
<1> DEFINE ws == RefuseMissingEvidence(c, r, to).writes
<1>1. Len(ws) = 2
  BY DEF RefuseMissingEvidence
<1>2. WriteSound(ws[1]) /\ ~IsFailure(ws[1]) /\ ~IsRecord(ws[1])
  BY DEF RefuseMissingEvidence, RecordEvent, Entry, WriteSound, IsEvent,
         IsFailure, IsRecord
<1>3. WriteSound(ws[2]) /\ ~IsFailure(ws[2])
  BY DEF RefuseMissingEvidence, SaveRecord, Breach, WriteSound, IsEvent, IsFailure
<1>4. IsEvent(ws[1]) /\ IsBreach(ws[1].value, ws[2].value)
  BY DEF RefuseMissingEvidence, RecordEvent, SaveRecord, Entry, Breach,
         IsEvent, IsBreach
<1>5. Sound(ws, {}, {})
  <2> HIDE DEF ws
  <2> QED BY <1>1, <1>2, <1>3, <1>4 DEF Sound, BreachBefore
<1>6. [r EXCEPT !.pointer = TRUE].status = r.status
  BY DEF RuntimeState
<1> QED BY <1>5, <1>6 DEF SoundOutcome, RefuseMissingEvidence

\* The premise is what advance() has checked.
LEMMA PerformTransitionSound ==
    ASSUME NEW c \in ProcessCapsule, NEW r \in RuntimeState,
           NEW to \in States, NEW evidence \in Evidence,
           Matching(c.state, to) # {},
           Transitions[Governing(c.state, to)].evidence => evidence # 0
    PROVE  SoundOutcome(PerformTransition(c, r, to, evidence), r)
<1> DEFINE ws == PerformTransition(c, r, to, evidence).writes
<1>1. Len(ws) = 3
  BY DEF PerformTransition
<1>2. StatusMatchesBrief(Moved(to, evidence))
  BY DEF StatusMatchesBrief, Moved
<1>3. WriteSound(ws[1]) /\ ~IsFailure(ws[1]) /\ ~IsRecord(ws[1])
  BY <1>2 DEF PerformTransition, SaveCapsule, WriteSound, IsEvent, IsFailure,
              IsRecord
<1>4. Governed(Entry("moved", c.state, to, evidence))
  BY DEF Governed, Entry
<1>5. WriteSound(ws[2]) /\ ~IsFailure(ws[2]) /\ ~IsRecord(ws[2])
  BY <1>4 DEF PerformTransition, RecordEvent, WriteSound, IsEvent, IsFailure,
              IsRecord
<1>6. Tracked(r, to).status # "failed"
  BY DEF Tracked, RuntimeState
<1>7. WriteSound(ws[3]) /\ ~IsFailure(ws[3]) /\ ~IsRecord(ws[3])
  BY <1>6 DEF PerformTransition, SaveRun, WriteSound, IsEvent, IsFailure, IsRecord
<1>8. Sound(ws, {}, {})
  <2> HIDE DEF ws
  <2> QED BY <1>1, <1>3, <1>5, <1>7 DEF Sound
<1> QED BY <1>2, <1>6, <1>8 DEF SoundOutcome, PerformTransition

LEMMA AdvanceSound ==
    ASSUME NEW c \in ProcessCapsule, NEW r \in RuntimeState,
           NEW to \in States, NEW evidence \in Evidence,
           StatusMatchesBrief(c)
    PROVE  SoundOutcome(Advance(c, r, to, evidence), r)
BY RefuseInvalidTransitionSound, RefuseMissingEvidenceSound,
   PerformTransitionSound DEF Advance

LEMMA MarkNonConformanceSound ==
    ASSUME NEW c \in ProcessCapsule, NEW r \in RuntimeState
    PROVE  SoundOutcome(MarkNonConformance(c, r), r)
<1> DEFINE ws == MarkNonConformance(c, r).writes
<1>1. Len(ws) = 4
  BY DEF MarkNonConformance
<1>2. WriteSound(ws[1]) /\ ~IsFailure(ws[1]) /\ ~IsRecord(ws[1])
  BY DEF MarkNonConformance, SaveCapsule, WriteSound, IsEvent, IsFailure,
         IsRecord, StatusMatchesBrief, Freeze, ProcessCapsule
<1>3. WriteSound(ws[2]) /\ ~IsFailure(ws[2]) /\ ~IsRecord(ws[2])
  BY DEF MarkNonConformance, Rejection, RecordEvent, Entry, WriteSound, IsEvent,
         IsFailure, IsRecord
<1>4. WriteSound(ws[3]) /\ ~IsFailure(ws[3]) /\ IsStop(ws[3])
  BY DEF MarkNonConformance, RejectionRecord, SaveRecord, Breach, WriteSound,
         IsEvent, IsFailure, IsRecord, IsStop, Stops
<1>5. WriteSound(ws[4]) /\ ~IsRecord(ws[4])
  BY DEF MarkNonConformance, SaveRun, WriteSound, IsEvent, IsRecord
<1>6. IsEvent(ws[2]) /\ IsBreach(ws[2].value, ws[3].value)
  BY DEF MarkNonConformance, Rejection, RejectionRecord, RecordEvent, SaveRecord,
         Entry, Breach, IsEvent, IsBreach
<1>7. Sound(ws, {}, {}) /\ HasStop(ws)
  <2> HIDE DEF ws
  <2> QED BY <1>1, <1>2, <1>3, <1>4, <1>5, <1>6
          DEF Sound, HasStop, StopBefore, BreachBefore
<1>8. StatusMatchesBrief(Freeze(c))
  BY DEF StatusMatchesBrief, Freeze, ProcessCapsule
<1> QED BY <1>7, <1>8 DEF SoundOutcome, MarkNonConformance

LEMMA ApplyDecisionSound ==
    ASSUME NEW c \in ProcessCapsule, NEW r \in RuntimeState,
           NEW to \in States, NEW evidence \in Evidence, NEW decision,
           StatusMatchesBrief(c)
    PROVE  SoundOutcome(ApplyDecision(c, r, to, evidence, decision), r)
<1> DEFINE resolved == ResolveGate(r, decision # "REJECT")
           flagged  == IF decision = "FLAG" THEN <<Flag(c)>> ELSE <<>>
           rest     == IF decision = "REJECT"
                       THEN MarkNonConformance(c, resolved)
                       ELSE Advance(c, resolved, to, evidence)
           head     == flagged \o <<SaveRun(resolved)>>
           out      == ApplyDecision(c, r, to, evidence, decision)
<1>1. resolved \in RuntimeState /\ resolved.status = "running"
  BY RunTypes DEF ResolveGate, RuntimeState
<1>2. SoundOutcome(rest, resolved) /\ rest \in Outcome
  <2> HIDE DEF resolved
  <2> QED BY <1>1, AdvanceSound, MarkNonConformanceSound, AdvanceType,
             MarkNonConformanceType
<1>3. flagged \in Seq(Write) /\ <<SaveRun(resolved)>> \in Seq(Write)
  <2> HIDE DEF resolved
  <2> QED BY <1>1, FlagType, WriteTypes
<1>4. Sound(flagged, {}, {})
  <2>1. WriteSound(Flag(c)) /\ ~IsFailure(Flag(c)) /\ ~IsRecord(Flag(c))
    BY DEF Flag, RecordEvent, Entry, WriteSound, IsEvent, IsFailure, IsRecord
  <2> QED BY <2>1, SoundSingle, SoundEmpty
<1>5. Sound(<<SaveRun(resolved)>>, {}, {})
  <2> HIDE DEF resolved
  <2>1. /\ WriteSound(SaveRun(resolved)) /\ ~IsFailure(SaveRun(resolved))
        /\ ~IsRecord(SaveRun(resolved))
    BY <1>1 DEF SaveRun, WriteSound, IsEvent, IsFailure, IsRecord
  <2> QED BY <2>1, SoundSingle
<1>6. out = [rest EXCEPT !.writes = head \o rest.writes]
  BY DEF ApplyDecision
<1>7. rest.writes \in Seq(Write)
  BY <1>2 DEF Outcome
<1> HIDE DEF resolved, flagged, rest, out
<1>8. head \in Seq(Write) /\ Sound(head, {}, {})
  BY <1>3, <1>4, <1>5, SoundConcat, ConcatProperties
<1> HIDE DEF head
<1>9. /\ out.writes = head \o rest.writes
      /\ out.capsule = rest.capsule /\ out.run = rest.run
  BY <1>2, <1>6 DEF Outcome
<1>10. Sound(out.writes, {}, {})
  BY <1>2, <1>7, <1>8, <1>9, SoundConcat DEF SoundOutcome
<1>11. HasStop(rest.writes) => HasStop(out.writes)
  <2> SUFFICES ASSUME NEW j \in 1 .. Len(rest.writes), IsStop(rest.writes[j])
               PROVE  HasStop(out.writes)
    BY DEF HasStop
  <2>1. /\ Len(head) \in Nat /\ Len(rest.writes) \in Nat
        /\ Len(out.writes) = Len(head) + Len(rest.writes)
        /\ \A i \in 1 .. Len(head) + Len(rest.writes) :
               out.writes[i] = IF i <= Len(head) THEN head[i]
                               ELSE rest.writes[i - Len(head)]
    BY <1>7, <1>8, <1>9, ConcatProperties, LenProperties
  <2>2. /\ Len(head) + j \in 1 .. Len(out.writes)
        /\ out.writes[Len(head) + j] = rest.writes[j]
    BY <2>1
  <2> QED BY <2>2 DEF HasStop
<1> QED BY <1>1, <1>2, <1>9, <1>10, <1>11 DEF SoundOutcome, out

-----------------------------------------------------------------------------
(* What a series of writes leaves in a table *)

\* Once ws is committed, a row of the table that is `row` now is `last`.
LeadsTo(ws, table, row, last) ==
    \/ row = last /\ \A k \in DOMAIN ws : ws[k].table # table
    \/ \E k \in DOMAIN ws :
           /\ ws[k].table = table /\ ws[k].value = last
           /\ \A j \in DOMAIN ws : j > k => ws[j].table # table

WritesTo(ws, table) == \E k \in DOMAIN ws : ws[k].table = table

LEMMA LeadsNowhere ==
    ASSUME NEW table, NEW row, NEW last
    PROVE  /\ LeadsTo(<<>>, table, row, last) <=> row = last
           /\ ~WritesTo(<<>>, table)
BY DEF LeadsTo, WritesTo

\* One series after the other.
LEMMA LeadsOn ==
    ASSUME NEW S, NEW ws \in Seq(S), NEW vs \in Seq(S),
           NEW table, NEW row, NEW middle, NEW last,
           LeadsTo(ws, table, row, middle), LeadsTo(vs, table, middle, last)
    PROVE  LeadsTo(ws \o vs, table, row, last)
<1>1. PICK xs : xs = ws \o vs
  OBVIOUS
<1>2. /\ Len(ws) \in Nat /\ DOMAIN ws = 1 .. Len(ws)
      /\ Len(vs) \in Nat /\ DOMAIN vs = 1 .. Len(vs)
      /\ xs \in Seq(S) /\ DOMAIN xs = 1 .. Len(ws) + Len(vs)
      /\ \A k \in 1 .. Len(ws) + Len(vs) :
             xs[k] = IF k <= Len(ws) THEN ws[k] ELSE vs[k - Len(ws)]
  BY <1>1, ConcatProperties, LenProperties
<1>3. \A k \in DOMAIN xs : k > Len(ws) => k - Len(ws) \in DOMAIN vs
  BY <1>2
<1>4. CASE middle = last /\ \A k \in DOMAIN vs : vs[k].table # table
  <2>1. \A k \in DOMAIN xs : k > Len(ws) => xs[k].table # table
    BY <1>2, <1>3, <1>4
  <2>2. CASE row = middle /\ \A k \in DOMAIN ws : ws[k].table # table
    <3>1. \A k \in DOMAIN xs : xs[k].table # table
      BY <1>2, <2>1, <2>2
    <3> QED BY <1>1, <1>4, <2>2, <3>1 DEF LeadsTo
  <2>3. CASE \E k \in DOMAIN ws :
                 /\ ws[k].table = table /\ ws[k].value = middle
                 /\ \A j \in DOMAIN ws : j > k => ws[j].table # table
    <3>1. PICK k \in DOMAIN ws :
              /\ ws[k].table = table /\ ws[k].value = middle
              /\ \A j \in DOMAIN ws : j > k => ws[j].table # table
      BY <2>3
    <3>2. k \in DOMAIN xs /\ xs[k] = ws[k]
      BY <1>2
    <3>3. \A j \in DOMAIN xs : j > k => xs[j].table # table
      BY <1>2, <2>1, <3>1
    <3> QED BY <1>1, <1>4, <3>1, <3>2, <3>3 DEF LeadsTo
  <2> QED BY <2>2, <2>3 DEF LeadsTo
<1>5. CASE \E k \in DOMAIN vs :
               /\ vs[k].table = table /\ vs[k].value = last
               /\ \A j \in DOMAIN vs : j > k => vs[j].table # table
  <2>1. PICK k \in DOMAIN vs :
            /\ vs[k].table = table /\ vs[k].value = last
            /\ \A j \in DOMAIN vs : j > k => vs[j].table # table
    BY <1>5
  <2>2. k + Len(ws) \in DOMAIN xs /\ xs[k + Len(ws)] = vs[k]
    BY <1>2
  <2>3. \A j \in DOMAIN xs : j > k + Len(ws) => xs[j].table # table
    <3> SUFFICES ASSUME NEW j \in DOMAIN xs, j > k + Len(ws)
                 PROVE  xs[j].table # table
      OBVIOUS
    <3>1. xs[j] = vs[j - Len(ws)] /\ j - Len(ws) \in DOMAIN vs /\ j - Len(ws) > k
      BY <1>2, <1>3
    <3> QED BY <2>1, <3>1
  <2> QED BY <1>1, <2>1, <2>2, <2>3 DEF LeadsTo
<1> QED BY <1>4, <1>5 DEF LeadsTo

LEMMA WritesOn ==
    ASSUME NEW S, NEW ws \in Seq(S), NEW vs \in Seq(S), NEW table
    PROVE  WritesTo(ws \o vs, table) <=> WritesTo(ws, table) \/ WritesTo(vs, table)
<1>1. PICK xs : xs = ws \o vs
  OBVIOUS
<1>2. /\ Len(ws) \in Nat /\ DOMAIN ws = 1 .. Len(ws)
      /\ Len(vs) \in Nat /\ DOMAIN vs = 1 .. Len(vs)
      /\ xs \in Seq(S) /\ DOMAIN xs = 1 .. Len(ws) + Len(vs)
      /\ \A k \in 1 .. Len(ws) + Len(vs) :
             xs[k] = IF k <= Len(ws) THEN ws[k] ELSE vs[k - Len(ws)]
  BY <1>1, ConcatProperties, LenProperties
<1>3. ASSUME WritesTo(ws, table) PROVE WritesTo(xs, table)
  <2>1. PICK k \in DOMAIN ws : ws[k].table = table
    BY <1>3 DEF WritesTo
  <2>2. k \in DOMAIN xs /\ xs[k] = ws[k]
    BY <1>2
  <2> QED BY <2>1, <2>2 DEF WritesTo
<1>4. ASSUME WritesTo(vs, table) PROVE WritesTo(xs, table)
  <2>1. PICK k \in DOMAIN vs : vs[k].table = table
    BY <1>4 DEF WritesTo
  <2>2. k + Len(ws) \in DOMAIN xs /\ xs[k + Len(ws)] = vs[k]
    BY <1>2
  <2> QED BY <2>1, <2>2 DEF WritesTo
<1>5. ASSUME WritesTo(xs, table) PROVE WritesTo(ws, table) \/ WritesTo(vs, table)
  <2>1. PICK k \in DOMAIN xs : xs[k].table = table
    BY <1>5 DEF WritesTo
  <2>2. \/ k \in DOMAIN ws /\ xs[k] = ws[k]
        \/ k - Len(ws) \in DOMAIN vs /\ xs[k] = vs[k - Len(ws)]
    BY <1>2
  <2> QED BY <2>1, <2>2 DEF WritesTo
<1> QED BY <1>1, <1>3, <1>4, <1>5

\* The first write of a series has been committed.
LEMMA LeadsAfterFirst ==
    ASSUME NEW S, NEW ws \in Seq(S), ws # <<>>, NEW w, w = Head(ws),
           NEW vs, vs = Tail(ws), NEW table
    PROVE  /\ \A row, last : LeadsTo(ws, table, row, last) =>
                  LeadsTo(vs, table, IF w.table = table THEN w.value ELSE row, last)
           /\ WritesTo(ws, table) <=> w.table = table \/ WritesTo(vs, table)
<1>1. /\ Len(ws) \in Nat \ {0} /\ DOMAIN ws = 1 .. Len(ws)
      /\ w = ws[1] /\ vs \in Seq(S) /\ DOMAIN vs = 1 .. Len(ws) - 1
      /\ \A k \in 1 .. Len(ws) - 1 : vs[k] = ws[k + 1]
  BY HeadTailProperties, EmptySeq, LenProperties
<1>2. \A k \in DOMAIN ws : k # 1 => k - 1 \in DOMAIN vs /\ ws[k] = vs[k - 1]
  BY <1>1
<1>3. \A k \in DOMAIN vs : k + 1 \in DOMAIN ws /\ vs[k] = ws[k + 1]
  BY <1>1
<1>4. ASSUME NEW row, NEW last, LeadsTo(ws, table, row, last)
      PROVE  LeadsTo(vs, table, IF w.table = table THEN w.value ELSE row, last)
  <2>1. CASE row = last /\ \A k \in DOMAIN ws : ws[k].table # table
    <3>1. w.table # table /\ \A k \in DOMAIN vs : vs[k].table # table
      BY <1>1, <1>3, <2>1
    <3> QED BY <2>1, <3>1 DEF LeadsTo
  <2>2. CASE \E k \in DOMAIN ws :
                 /\ ws[k].table = table /\ ws[k].value = last
                 /\ \A j \in DOMAIN ws : j > k => ws[j].table # table
    <3>1. PICK k \in DOMAIN ws :
              /\ ws[k].table = table /\ ws[k].value = last
              /\ \A j \in DOMAIN ws : j > k => ws[j].table # table
      BY <2>2
    <3>2. CASE k = 1
      <4>1. w.table = table /\ w.value = last
        BY <1>1, <3>1, <3>2
      <4>2. \A j \in DOMAIN vs : vs[j].table # table
        BY <1>1, <1>3, <3>1, <3>2
      <4> QED BY <4>1, <4>2 DEF LeadsTo
    <3>3. CASE k # 1
      <4>1. k - 1 \in DOMAIN vs /\ vs[k - 1].table = table /\ vs[k - 1].value = last
        BY <1>2, <3>1, <3>3
      <4>2. \A j \in DOMAIN vs : j > k - 1 => vs[j].table # table
        BY <1>1, <1>3, <3>1, <3>3
      <4> QED BY <4>1, <4>2 DEF LeadsTo
    <3> QED BY <3>2, <3>3
  <2> QED BY <1>4, <2>1, <2>2 DEF LeadsTo
<1>5. WritesTo(ws, table) <=> w.table = table \/ WritesTo(vs, table)
  <2>1. WritesTo(ws, table) => w.table = table \/ WritesTo(vs, table)
    BY <1>1, <1>2 DEF WritesTo
  <2>2. w.table = table => WritesTo(ws, table)
    BY <1>1 DEF WritesTo
  <2>3. WritesTo(vs, table) => WritesTo(ws, table)
    BY <1>3 DEF WritesTo
  <2> QED BY <2>1, <2>2, <2>3
<1> QED BY <1>4, <1>5
=============================================================================
