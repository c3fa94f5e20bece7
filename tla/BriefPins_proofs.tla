-------------------------- MODULE BriefPins_proofs --------------------------
(***************************************************************************)
(* What holds of pins for any number of briefs, runs and processes.        *)
(***************************************************************************)
EXTENDS BriefPins, Numbers_proofs, SequenceTheorems

Snapshot == [brief: Briefs, saved_at: Nat]

-----------------------------------------------------------------------------
(* Type correctness *)

\* What a process holds where it stands.
Holds(m) ==
    /\ m.at \in {"comparing", "inserting", "opening", "pinning"} =>
           /\ m.brief \in Briefs /\ m.command \in {"run", "graph", "export"}
           /\ m.command # "export" => m.run \in Runs
    /\ m.at \in {"opening", "pinning"} => m.command # "export"
    /\ m.at \in {"checking", "dating", "matching", "loading", "driving",
               "refused"} =>
           m.run \in Runs /\ m.command \in {"run", "graph", "review"}
    /\ m.command = "review" => m.brief \in Briefs
    /\ m.at = "driving" /\ m.command # "graph" => m.brief \in Briefs

\* Process m has in hand a run that has a row.
InHand(m) == m.at \in {"pinning", "checking", "dating", "matching", "loading",
                      "driving", "refused"}

\* A run has a brief in effect and a row before it has anything else.
Grounded ==
    /\ workflow = None =>
           (\A s \in Sessions : session[s] = Idle) /\ \A r \in Runs : runs[r] = None
    /\ \A r \in Runs : runs[r] = None => pins[r] = None

TypeInv ==
    /\ TypeOK
    /\ Grounded
    /\ \A s \in Sessions : Holds(session[s])
    /\ \A s \in Sessions : InHand(session[s]) => runs[session[s].run] # None

LEMMA IdleOK == Idle \in Session /\ Holds(Idle) /\ ~InHand(Idle)
BY DEF Idle, Session, Places, Holds, InHand

\* Snapshots hold briefs.
LEMMA CurrentBriefType == ASSUME TypeOK PROVE CurrentBrief \in Briefs \cup {None}
<1>1. snapshots \in Seq(Snapshot)
  BY DEF TypeOK, Snapshot
<1>2. CASE snapshots = <<>>
  BY <1>2 DEF CurrentBrief
<1>3. CASE snapshots # <<>>
  <2>1. Len(snapshots) \in 1 .. Len(snapshots)
    BY <1>1, <1>3, EmptySeq, LenProperties
  <2>2. snapshots[Len(snapshots)] \in Snapshot
    BY <1>1, <2>1, ElementOfSeq
  <2> QED BY <1>3, <2>2 DEF CurrentBrief, Snapshot
<1> QED BY <1>2, <1>3

\* Of the snapshots that are dated early enough there is a latest: among those
\* with the greatest date, the one with the greatest number.
LEMMA BriefAtNewest ==
    ASSUME TypeOK, NEW time \in Nat
    PROVE  IF \A k \in DOMAIN snapshots : ~ (snapshots[k].saved_at <= time)
           THEN BriefAt(time) = None
           ELSE \E k \in DOMAIN snapshots :
                    /\ snapshots[k].saved_at <= time
                    /\ BriefAt(time) = snapshots[k].brief /\ snapshots[k].brief \in Briefs
                    /\ \A j \in DOMAIN snapshots : snapshots[j].saved_at <= time =>
                           \/ snapshots[j].saved_at < snapshots[k].saved_at
                           \/ snapshots[j].saved_at = snapshots[k].saved_at /\ j <= k
<1> DEFINE dated == {k \in DOMAIN snapshots : snapshots[k].saved_at <= time}
           newer(j, k) == \/ snapshots[j].saved_at < snapshots[k].saved_at
                          \/ snapshots[j].saved_at = snapshots[k].saved_at /\ j <= k
           latest == CHOOSE k \in dated : \A j \in dated : newer(j, k)
<1>1. snapshots \in Seq(Snapshot)
  BY DEF TypeOK, Snapshot
<1>2. Len(snapshots) \in Nat /\ DOMAIN snapshots = 1 .. Len(snapshots)
  BY <1>1, LenProperties
<1>3. \A k \in DOMAIN snapshots :
          snapshots[k].brief \in Briefs /\ snapshots[k].saved_at \in Nat
  <2> SUFFICES ASSUME NEW k \in DOMAIN snapshots
               PROVE  snapshots[k] \in Snapshot
    BY DEF Snapshot
  <2> QED BY <1>1, <1>2, ElementOfSeq
<1>4. CASE dated = {}
  BY <1>4 DEF BriefAt
<1>5. CASE dated # {}
  <2> DEFINE times == {snapshots[k].saved_at : k \in dated}
  <2>1. times \in SUBSET Nat /\ times # {} /\ \A i \in times : i <= time
    BY <1>3, <1>5
  <2>2. PICK t \in times : \A i \in times : i <= t
    <3> HIDE DEF times
    <3> QED BY <2>1, GreatestNumber
  <2> DEFINE last == {k \in dated : snapshots[k].saved_at = t}
  <2>3. last \in SUBSET Nat /\ last # {} /\ \A k \in last : k <= Len(snapshots)
    BY <1>2, <2>2
  <2>4. PICK k \in last : \A j \in last : j <= k
    <3> HIDE DEF last
    <3> QED BY <1>2, <2>3, GreatestNumber
  <2>5. k \in dated /\ \A j \in dated : newer(j, k)
    <3>1. ASSUME NEW j \in dated PROVE newer(j, k)
      <4>1. snapshots[j].saved_at <= t /\ snapshots[j].saved_at \in Nat /\ t \in Nat
        BY <1>3, <2>1, <2>2
      <4>2. snapshots[k].saved_at = t
        BY <2>4
      <4>3. snapshots[j].saved_at = t => j <= k
        BY <2>4
      <4> QED BY <4>1, <4>2, <4>3
    <3> QED BY <3>1
  <2>6. latest \in dated /\ \A j \in dated : newer(j, latest)
    <3> HIDE DEF dated, newer
    <3> QED BY <2>5
  <2>7. BriefAt(time) = snapshots[latest].brief
    BY <1>5 DEF BriefAt
  <2>8. PICK found : found = latest
    OBVIOUS
  <2> HIDE DEF latest
  <2> QED BY <1>3, <1>5, <2>6, <2>7, <2>8
<1> QED BY <1>4, <1>5

LEMMA BriefAtType ==
    ASSUME TypeOK, NEW time \in Nat
    PROVE  BriefAt(time) \in Briefs \cup {None}
BY BriefAtNewest


\* The frame of every step of a process: it stands somewhere else, rows are
\* only added, and what it now needs is there.
LEMMA ProcessStep ==
    ASSUME TypeInv, NEW s \in Sessions, NEW m \in Session, Become(s, m), Holds(m),
           workflow' \in Briefs \cup {None},
           workflow' = None => workflow = None /\ m = Idle /\ runs' = runs,
           snapshots' \in Seq(Snapshot),
           runs' \in [Runs -> Nat \cup {None}],
           \A r \in Runs : runs[r] # None => runs'[r] # None,
           InHand(m) => runs'[m.run] # None,
           pins' \in [Runs -> Briefs \cup {None}],
           \A r \in Runs : runs'[r] = None => pins'[r] = None,
           clock' \in Nat,
           started' \in [Runs -> Briefs \cup {None}],
           governed' \in [Runs -> SUBSET Briefs],
           stepped' \in BOOLEAN, torn' \in BOOLEAN, crossed' \in BOOLEAN, hasty' \in BOOLEAN
    PROVE  TypeInv'
<1>1. session' \in [Sessions -> Session]
  BY DEF TypeInv, TypeOK, Become
<1>2. \A t \in Sessions : session'[t] = IF t = s THEN m ELSE session[t]
  BY DEF TypeInv, TypeOK, Become
<1>3. TypeOK'
  BY <1>1 DEF TypeOK, Snapshot
<1>4. Grounded'
  BY <1>2 DEF TypeInv, Grounded
<1>5. (\A t \in Sessions : Holds(session[t]))'
  BY <1>2 DEF TypeInv, Holds
<1>6. \A t \in Sessions : InHand(session'[t]) => runs'[session'[t].run] # None
  <2> SUFFICES ASSUME NEW t \in Sessions, t # s, InHand(session[t])
               PROVE  runs'[session[t].run] # None
    BY <1>2
  <2>1. session[t].run \in Runs
    BY DEF TypeInv, Holds, InHand
  <2> QED BY <2>1 DEF TypeInv
<1> QED BY <1>3, <1>4, <1>5, <1>6 DEF TypeInv, InHand

\* Saving a brief, for a run or for an export.
LEMMA SaveTypes ==
    ASSUME TypeInv, crossed' \in BOOLEAN, hasty' \in BOOLEAN, NEW s \in Sessions,
           Start(s) \/ Export(s) \/ Compare(s) \/ Insert(s)
    PROVE  TypeInv'
<1>1. /\ session[s] \in Session /\ Holds(session[s]) /\ Savable \subseteq Briefs
      /\ workflow \in Briefs \cup {None} /\ snapshots \in Seq(Snapshot)
      /\ runs \in [Runs -> Nat \cup {None}] /\ pins \in [Runs -> Briefs \cup {None}]
      /\ clock \in Nat /\ started \in [Runs -> Briefs \cup {None}]
      /\ governed \in [Runs -> SUBSET Briefs]
      /\ stepped \in BOOLEAN /\ torn \in BOOLEAN /\ None \notin Briefs
      /\ \A r \in Runs : runs[r] = None => pins[r] = None
  BY PinsAssumption DEF TypeInv, TypeOK, Grounded, Savable, Snapshot
<1>2. CASE Start(s)
  <2>1. PICK b \in Briefs, r \in Runs, command \in {"run", "graph"} :
            /\ workflow' = b
            /\ Become(s, [Idle EXCEPT !.at = "comparing", !.command = command,
                                      !.run = r, !.brief = b])
    BY <1>1, <1>2 DEF Start
  <2> DEFINE m == [Idle EXCEPT !.at = "comparing", !.command = command,
                               !.run = r, !.brief = b]
  <2>2. m \in Session /\ Holds(m) /\ ~InHand(m)
    BY DEF Idle, Session, Places, Holds, InHand
  <2> QED BY <1>1, <1>2, <2>1, <2>2, ProcessStep DEF Start, history
<1>3. CASE Export(s)
  <2>1. PICK b \in Briefs :
            /\ workflow' = b
            /\ Become(s, [Idle EXCEPT !.at = "comparing", !.command = "export",
                                      !.brief = b])
    BY <1>1, <1>3 DEF Export
  <2> DEFINE m == [Idle EXCEPT !.at = "comparing", !.command = "export", !.brief = b]
  <2>2. m \in Session /\ Holds(m) /\ ~InHand(m)
    BY DEF Idle, Session, Places, Holds, InHand
  <2> QED BY <1>1, <1>3, <2>1, <2>2, ProcessStep DEF Export, history
<1>4. ASSUME session[s].at \in {"comparing", "inserting"}
      PROVE  /\ workflow # None
             /\ Saved(session[s]) \in Session
             /\ Holds(Saved(session[s])) /\ ~InHand(Saved(session[s]))
  <2>1. workflow # None
    BY <1>4 DEF TypeInv, Grounded, Idle
  <2>2. Saved(session[s]) \in Session
    <3>1. [session[s] EXCEPT !.at = "opening"] \in Session
      BY <1>1 DEF Session, Places
    <3> QED BY <3>1, IdleOK DEF Saved
  <2>3. Holds(Saved(session[s])) /\ ~InHand(Saved(session[s]))
    BY <1>1, <1>4, IdleOK DEF Saved, Session, Holds, InHand
  <2> QED BY <2>1, <2>2, <2>3
<1>5. CASE Compare(s)
  <2> DEFINE m == IF CurrentBrief = session[s].brief
                  THEN Saved(session[s]) ELSE [session[s] EXCEPT !.at = "inserting"]
  <2>1. m \in Session /\ Holds(m) /\ ~InHand(m) /\ workflow # None
    BY <1>1, <1>4, <1>5 DEF Compare, At, Session, Places, Holds, InHand
  <2>2. Become(s, m)
    BY <1>5 DEF Compare
  <2> HIDE DEF m
  <2> QED BY <1>1, <1>5, <2>1, <2>2, ProcessStep DEF Compare, rows, history
<1>6. CASE Insert(s)
  <2>1. snapshots' \in Seq(Snapshot) /\ clock' \in Nat
    <3>1. clock' \in Nat /\ session[s].brief \in Briefs
      BY <1>1, <1>6 DEF Insert, At, Holds
    <3>2. [brief |-> session[s].brief, saved_at |-> clock'] \in Snapshot
      BY <3>1 DEF Snapshot
    <3> QED BY <1>1, <1>6, <3>1, <3>2, AppendProperties DEF Insert
  <2>2. /\ Saved(session[s]) \in Session /\ Holds(Saved(session[s]))
        /\ ~InHand(Saved(session[s])) /\ workflow # None
    BY <1>4, <1>6 DEF Insert, At
  <2> QED BY <1>1, <1>6, <2>1, <2>2, ProcessStep DEF Insert, history
<1> QED BY <1>2, <1>3, <1>5, <1>6

\* The run's row, and its pin.
LEMMA OpenTypes ==
    ASSUME TypeInv, crossed' \in BOOLEAN, hasty' \in BOOLEAN, NEW s \in Sessions, OpenRun(s) \/ Pin(s)
    PROVE  TypeInv'
<1>1. /\ session[s] \in Session /\ Holds(session[s])
      /\ workflow \in Briefs \cup {None} /\ snapshots \in Seq(Snapshot)
      /\ runs \in [Runs -> Nat \cup {None}] /\ pins \in [Runs -> Briefs \cup {None}]
      /\ clock \in Nat /\ started \in [Runs -> Briefs \cup {None}]
      /\ governed \in [Runs -> SUBSET Briefs]
      /\ stepped \in BOOLEAN /\ torn \in BOOLEAN /\ None \notin Nat
      /\ \A r \in Runs : runs[r] = None => pins[r] = None
  BY PinsAssumption DEF TypeInv, TypeOK, Grounded, Snapshot
<1>2. session[s].run \in Runs /\ session[s].brief \in Briefs /\ workflow # None
  BY <1>1 DEF OpenRun, Pin, At, Holds, TypeInv, Grounded, Idle
<1>3. CASE OpenRun(s)
  <2> DEFINE m == [session[s] EXCEPT !.at = "pinning"]
  <2>1. m \in Session /\ Holds(m) /\ m.run = session[s].run
    BY <1>1, <1>3 DEF OpenRun, At, Session, Places, Holds
  <2>2. clock' \in Nat /\ runs' = [runs EXCEPT ![m.run] = clock']
    BY <1>1, <1>3, <2>1 DEF OpenRun
  <2>3. started' \in [Runs -> Briefs \cup {None}]
    BY <1>1, <1>2, <1>3 DEF OpenRun
  <2>4. Become(s, m)
    BY <1>3 DEF OpenRun
  <2> HIDE DEF m
  <2>5. /\ runs' \in [Runs -> Nat \cup {None}] /\ runs'[m.run] # None
        /\ \A r \in Runs : runs'[r] = None => runs[r] = None
    BY <1>1, <1>2, <2>1, <2>2
  <2> QED BY <1>1, <1>2, <1>3, <2>1, <2>2, <2>3, <2>4, <2>5, ProcessStep
          DEF OpenRun
<1>4. CASE Pin(s)
  <2> DEFINE m == [session[s] EXCEPT !.at = "driving"]
  <2>1. m \in Session /\ Holds(m) /\ m.run = session[s].run
    BY <1>1, <1>4 DEF Pin, At, Session, Places, Holds
  <2>2. runs[m.run] # None
    BY <1>4, <2>1 DEF Pin, At, TypeInv, InHand
  <2>3. Become(s, m)
    BY <1>4 DEF Pin
  <2> HIDE DEF m
  <2>4. /\ pins' \in [Runs -> Briefs \cup {None}]
        /\ \A r \in Runs : runs[r] = None => pins'[r] = None
    BY <1>1, <1>2, <1>4, <2>1, <2>2 DEF Pin
  <2> QED BY <1>1, <1>2, <1>4, <2>1, <2>2, <2>3, <2>4, ProcessStep DEF Pin, history
<1> QED BY <1>3, <1>4

\* Going on with a run, leaving it and dying: the rows stay as they are.
LEMMA ContinueTypes ==
    ASSUME TypeInv, crossed' \in BOOLEAN, hasty' \in BOOLEAN, NEW s \in Sessions,
           \/ Resume(s) \/ Review(s) \/ ReadPin(s) \/ ReadDated(s)
           \/ MatchCurrent(s) \/ LoadBrief(s) \/ Move(s) \/ Leave(s) \/ Die(s)
    PROVE  TypeInv'
<1>1. /\ session[s] \in Session /\ Holds(session[s])
      /\ workflow \in Briefs \cup {None} /\ snapshots \in Seq(Snapshot)
      /\ runs \in [Runs -> Nat \cup {None}] /\ pins \in [Runs -> Briefs \cup {None}]
      /\ clock \in Nat /\ started \in [Runs -> Briefs \cup {None}]
      /\ governed \in [Runs -> SUBSET Briefs]
      /\ stepped \in BOOLEAN /\ torn \in BOOLEAN /\ None \notin Nat
      /\ \A r \in Runs : runs[r] = None => pins[r] = None
      /\ \A r \in Runs : runs[r] # None => workflow # None
      /\ InHand(session[s]) => runs[session[s].run] # None
  BY PinsAssumption DEF TypeInv, TypeOK, Grounded, Snapshot
<1>2. ASSUME NEW m \in Session, Become(s, m), Holds(m), workflow # None \/ m = Idle,
             InHand(m) => runs[m.run] # None,
             UNCHANGED <<rows, clock, history, stepped>>, torn' \in BOOLEAN
      PROVE  TypeInv'
  BY <1>1, <1>2, ProcessStep DEF rows, history
<1>3. CASE Resume(s)
  <2>1. PICK r \in Runs, command \in {"run", "graph"} :
            /\ runs[r] # None
            /\ Become(s, [Idle EXCEPT !.at = "checking", !.command = command, !.run = r])
    BY <1>3 DEF Resume
  <2> DEFINE m == [Idle EXCEPT !.at = "checking", !.command = command, !.run = r]
  <2>2. m \in Session /\ Holds(m) /\ m.run = r
    BY DEF Idle, Session, Places, Holds
  <2> QED BY <1>1, <1>2, <1>3, <2>1, <2>2 DEF Resume
<1>4. CASE Review(s)
  <2>1. PICK r \in Runs :
            /\ runs[r] # None
            /\ Become(s, [Idle EXCEPT !.at = "checking", !.command = "review",
                                      !.run = r, !.brief = workflow])
    BY <1>4 DEF Review
  <2> DEFINE m == [Idle EXCEPT !.at = "checking", !.command = "review",
                               !.run = r, !.brief = workflow]
  <2>2. m \in Session /\ Holds(m) /\ m.run = r
    BY <1>1, <2>1 DEF Idle, Session, Places, Holds
  <2> QED BY <1>1, <1>2, <1>4, <2>1, <2>2 DEF Review
<1>5. CASE ReadPin(s)
  <2>1. session[s].run \in Runs /\ runs[session[s].run] # None
    BY <1>1, <1>5 DEF ReadPin, At, Holds, InHand
  <2> DEFINE pin == pins[session[s].run]
             m == [session[s] EXCEPT !.pinned = pin,
                       !.at = IF pin = None THEN "dating" ELSE "matching"]
  <2>2. m \in Session /\ Holds(m) /\ m.run = session[s].run
    BY <1>1, <1>5, <2>1 DEF ReadPin, At, Session, Places, Holds
  <2>3. Become(s, m)
    BY <1>5 DEF ReadPin
  <2> HIDE DEF m
  <2> QED BY <1>1, <1>2, <1>5, <2>1, <2>2, <2>3 DEF ReadPin
<1>6. CASE ReadDated(s)
  <2>1. session[s].run \in Runs /\ runs[session[s].run] \in Nat
    BY <1>1, <1>6 DEF ReadDated, At, Holds, InHand
  <2>2. BriefAt(runs[session[s].run]) \in Briefs \cup {None}
    BY <2>1, BriefAtType DEF TypeInv
  <2> DEFINE m == [session[s] EXCEPT !.at = "matching",
                                     !.pinned = BriefAt(runs[session[s].run])]
  <2>3. m \in Session /\ Holds(m) /\ m.run = session[s].run
    BY <1>1, <1>6, <2>2 DEF ReadDated, At, Session, Places, Holds
  <2> QED BY <1>1, <1>2, <1>6, <2>1, <2>3 DEF ReadDated
<1>7. CASE MatchCurrent(s)
  <2>1. session[s].run \in Runs /\ runs[session[s].run] # None
    BY <1>1, <1>7 DEF MatchCurrent, At, Holds, InHand
  <2>2. PICK place \in {"refused", "loading", "driving"}, pinned \in {None, session[s].pinned} :
            /\ place = "driving" => session[s].command # "run"
            /\ Become(s, [session[s] EXCEPT !.pinned = pinned, !.at = place])
    <3>1. [session[s] EXCEPT !.at = "refused"]
              = [session[s] EXCEPT !.pinned = session[s].pinned, !.at = "refused"]
      BY <1>1 DEF Session
    <3> QED BY <1>7, <3>1 DEF MatchCurrent
  <2> DEFINE m == [session[s] EXCEPT !.pinned = pinned, !.at = place]
  <2>3. Become(s, m)
    BY <2>2
  <2>4. m \in Session /\ Holds(m) /\ m.run = session[s].run
    BY <1>1, <1>7, <2>2 DEF MatchCurrent, At, Session, Places, Holds
  <2> QED BY <1>1, <1>2, <1>7, <2>1, <2>3, <2>4 DEF MatchCurrent
<1>8. CASE LoadBrief(s)
  <2>1. session[s].run \in Runs /\ runs[session[s].run] # None
    BY <1>1, <1>8 DEF LoadBrief, At, Holds, InHand
  <2> DEFINE m == [session[s] EXCEPT !.at = "driving", !.brief = workflow]
  <2>2. m \in Session /\ Holds(m) /\ m.run = session[s].run
    BY <1>1, <1>8, <2>1 DEF LoadBrief, At, Session, Places, Holds
  <2> QED BY <1>1, <1>2, <1>8, <2>1, <2>2 DEF LoadBrief
<1>9. CASE Move(s)
  <2>1. session[s].run \in Runs /\ runs[session[s].run] # None
    BY <1>1, <1>9 DEF Move, At, Holds, InHand
  <2> DEFINE brief == IF session[s].command = "graph" THEN workflow ELSE session[s].brief
  <2>2. brief \in Briefs
    BY <1>1, <1>9, <2>1 DEF Move, At, Holds
  <2>3. governed' = [governed EXCEPT ![session[s].run] = @ \cup {brief}]
    BY <1>9 DEF Move
  <2> HIDE DEF brief
  <2>4. governed' \in [Runs -> SUBSET Briefs]
    BY <1>1, <2>1, <2>2, <2>3
  <2>5. Become(s, session[s])
    BY <1>9 DEF Move, Become, TypeInv, TypeOK
  <2> QED BY <1>1, <1>9, <2>1, <2>4, <2>5, ProcessStep DEF Move, rows
<1>10. CASE Leave(s)
  BY <1>1, <1>2, <1>10, IdleOK DEF Leave
<1>11. CASE Die(s)
  <2>1. torn' \in BOOLEAN
    BY <1>11, Zenon DEF Die
  <2> QED BY <1>2, <1>11, <2>1, IdleOK DEF Die
<1> QED BY <1>3, <1>4, <1>5, <1>6, <1>7, <1>8, <1>9, <1>10, <1>11

LEMMA NextTypes == TypeInv /\ [Next]_vars => TypeInv'
<1> SUFFICES ASSUME TypeInv, [Next]_vars PROVE TypeInv'
  OBVIOUS
<1>1. CASE UNCHANGED vars
  BY <1>1 DEF vars, rows, history, TypeInv, TypeOK, Grounded, Holds, InHand
<1>2. CASE Next
  <2>1. crossed' \in BOOLEAN /\ hasty' \in BOOLEAN
    BY <1>2, Zenon DEF Next
  <2>2. CASE StepBack
    <3>1. clock' \in Nat /\ stepped' \in BOOLEAN
      BY <2>2 DEF StepBack, TypeInv, TypeOK
    <3>2. torn' \in BOOLEAN
      BY <2>2 DEF StepBack, TypeInv, TypeOK
    <3> QED BY <2>1, <2>2, <3>1, <3>2
            DEF StepBack, rows, history, TypeInv, TypeOK, Grounded, Holds, InHand
  <2>3. ASSUME NEW s \in Sessions, Step(s) PROVE TypeInv'
    BY <2>1, <2>3, SaveTypes, OpenTypes, ContinueTypes DEF Step
  <2> QED BY <1>2, <2>2, <2>3 DEF Next
<1> QED BY <1>1, <1>2

LEMMA InitTypes == Init => TypeInv
<1> SUFFICES ASSUME Init PROVE TypeInv
  OBVIOUS
<1>1. <<>> \in Seq([brief: Briefs, saved_at: Nat])
  BY EmptySeq
<1>2. TypeOK
  BY <1>1, IdleOK DEF Init, TypeOK
<1>3. Grounded
  BY DEF Init, Grounded
<1> QED BY <1>2, <1>3, IdleOK DEF Init, TypeInv

\* Whatever briefs are saved, in whatever order the transactions of any number
\* of processes come: the variables of BriefPins keep their types, a process
\* holds what it needs where it stands, and a run that has a row has a brief in
\* effect, so that nothing it loads is missing.
THEOREM PinTypesCorrect == Spec => [](TypeOK /\ TypeInv)
<1>1. TypeInv => TypeOK
  BY DEF TypeInv
<1> QED BY <1>1, InitTypes, NextTypes, PTL DEF Spec
-----------------------------------------------------------------------------
(* Pins *)

\* Process m is starting a run and has not pinned it.
Starting(m) == m.at \in {"comparing", "inserting", "opening", "pinning"}
               /\ m.command # "export"

\* A run that is being started belongs to one process and has no pin.
StartedAlone ==
    /\ \A s \in Sessions : Starting(session[s]) =>
           /\ pins[session[s].run] = None
           /\ IF session[s].at = "pinning"
              THEN started[session[s].run] = session[s].brief
              ELSE runs[session[s].run] = None
    /\ \A s, t \in Sessions :
           (Starting(session[s]) /\ Starting(session[t])
                /\ session[s].run = session[t].run) => s = t

PinInv == PinNamesTheStart /\ StartedAlone

\* A step of one process that neither starts nor pins a run: it ends a start,
\* or takes one further before the run has its row, or has nothing to do with one.
LEMMA QuietStep ==
    ASSUME TypeInv, PinInv, NEW s \in Sessions, NEW m, Become(s, m),
           UNCHANGED <<runs, pins, started>>,
           Starting(m) => /\ Starting(session[s]) /\ m.run = session[s].run
                          /\ m.at # "pinning" /\ session[s].at # "pinning"
    PROVE  PinInv'
<1>1. \A t \in Sessions : session'[t] = IF t = s THEN m ELSE session[t]
  BY DEF TypeInv, TypeOK, Become
<1>2. PinNamesTheStart'
  BY DEF PinInv, PinNamesTheStart
<1>3. StartedAlone'
  BY <1>1 DEF PinInv, StartedAlone, Starting
<1> QED BY <1>2, <1>3 DEF PinInv

LEMMA NextPins == TypeInv /\ PinInv /\ [Next]_vars => PinInv'
<1> SUFFICES ASSUME TypeInv, PinInv, [Next]_vars PROVE PinInv'
  OBVIOUS
<1> USE DEF PinInv
<1>1. CASE UNCHANGED vars \/ StepBack
  BY <1>1 DEF vars, rows, history, StepBack, PinNamesTheStart, StartedAlone, Starting
<1>2. ASSUME NEW s \in Sessions, Step(s) PROVE PinInv'
  <2>1. session[s] \in Session /\ ~Starting(Idle) /\ Holds(session[s])
    BY DEF TypeInv, TypeOK, Starting, Idle
  <2>2. CASE Start(s)
    <3>1. PICK b \in Savable, r \in Runs, command \in {"run", "graph"} :
              /\ runs[r] = None /\ \A t \in Sessions : session[t].run # r
              /\ Become(s, [Idle EXCEPT !.at = "comparing", !.command = command,
                                        !.run = r, !.brief = b])
      BY <2>2 DEF Start
    <3> DEFINE m == [Idle EXCEPT !.at = "comparing", !.command = command,
                                 !.run = r, !.brief = b]
    <3>2. m.run = r /\ m.at = "comparing"
      BY DEF Idle
    <3>3. \A t \in Sessions : session'[t] = IF t = s THEN m ELSE session[t]
      BY <3>1 DEF TypeInv, TypeOK, Become
    <3>4. pins[r] = None
      BY <3>1 DEF TypeInv, Grounded
    <3>5. UNCHANGED <<runs, pins, started>>
      BY <2>2 DEF Start, history
    <3> HIDE DEF m
    <3>6. StartedAlone'
      BY <3>1, <3>2, <3>3, <3>4, <3>5 DEF StartedAlone, Starting
    <3> QED BY <3>5, <3>6 DEF PinNamesTheStart
  <2>3. CASE Compare(s) \/ Insert(s)
    <3> DEFINE m == session'[s]
    <3>1. /\ UNCHANGED <<runs, pins, started>>
          /\ Become(s, m)
          /\ m = Saved(session[s]) \/ m = [session[s] EXCEPT !.at = "inserting"]
          /\ session[s].at \in {"comparing", "inserting"}
      BY <2>3 DEF Compare, Insert, At, Become, rows, history, TypeInv, TypeOK
    <3>2. Starting(m) => /\ Starting(session[s]) /\ m.run = session[s].run
                         /\ m.at # "pinning" /\ session[s].at # "pinning"
      BY <2>1, <3>1 DEF Saved, Starting, Session, Idle
    <3> HIDE DEF m
    <3> QED BY <3>1, <3>2, QuietStep
  <2>4. CASE OpenRun(s)
    <3> DEFINE m == [session[s] EXCEPT !.at = "pinning"]
    <3>1. m.run = session[s].run /\ m.at = "pinning" /\ m.brief = session[s].brief
          /\ Starting(session[s]) /\ m.command = session[s].command
          /\ session[s].run \in Runs /\ session[s].at = "opening"
      BY <2>1, <2>4 DEF OpenRun, At, Session, Holds, Starting
    <3>2. \A t \in Sessions : session'[t] = IF t = s THEN m ELSE session[t]
      BY <2>4 DEF OpenRun, TypeInv, TypeOK, Become
    <3>3. /\ UNCHANGED pins
          /\ \A r \in Runs : r # m.run => runs'[r] = runs[r] /\ started'[r] = started[r]
          /\ started'[m.run] = m.brief
      BY <2>4, <3>1 DEF OpenRun, TypeInv, TypeOK
    <3>4. pins[m.run] = None
      BY <3>1 DEF StartedAlone
    <3>5. \A t \in Sessions : t # s /\ Starting(session[t]) =>
              session[t].run \in Runs /\ session[t].run # m.run
      BY <3>1 DEF StartedAlone, Starting, TypeInv, Holds
    <3> HIDE DEF m
    <3>6. PinNamesTheStart'
      BY <3>1, <3>3, <3>4 DEF PinNamesTheStart
    <3>7. StartedAlone'
      <4>1. \A t \in Sessions : Starting(session'[t]) =>
                /\ pins'[session'[t].run] = None
                /\ IF session'[t].at = "pinning"
                   THEN started'[session'[t].run] = session'[t].brief
                   ELSE runs'[session'[t].run] = None
        BY <3>1, <3>2, <3>3, <3>4, <3>5 DEF StartedAlone
      <4>2. \A t, u \in Sessions :
                (Starting(session'[t]) /\ Starting(session'[u])
                     /\ session'[t].run = session'[u].run) => t = u
        BY <3>2, <3>5 DEF StartedAlone
      <4> QED BY <4>1, <4>2 DEF StartedAlone, Starting
    <3> QED BY <3>6, <3>7
  <2>5. CASE Pin(s)
    <3> DEFINE m == [session[s] EXCEPT !.at = "driving"]
    <3>1. m.at = "driving" /\ ~Starting(m) /\ Starting(session[s])
          /\ session[s].run \in Runs /\ session[s].at = "pinning"
      BY <2>1, <2>5 DEF Pin, At, Session, Holds, Starting
    <3>2. \A t \in Sessions : session'[t] = IF t = s THEN m ELSE session[t]
      BY <2>5 DEF Pin, TypeInv, TypeOK, Become
    <3>3. /\ UNCHANGED <<runs, started>>
          /\ \A r \in Runs : r # session[s].run => pins'[r] = pins[r]
          /\ pins'[session[s].run] = session[s].brief
      BY <2>5, <3>1 DEF Pin, history, TypeInv, TypeOK
    <3>4. started[session[s].run] = session[s].brief
      BY <3>1 DEF StartedAlone
    <3>5. \A t \in Sessions : t # s /\ Starting(session[t]) =>
              session[t].run \in Runs /\ session[t].run # session[s].run
      BY <3>1 DEF StartedAlone, Starting, TypeInv, Holds
    <3> HIDE DEF m
    <3>6. PinNamesTheStart'
      BY <3>3, <3>4 DEF PinNamesTheStart
    <3>7. StartedAlone'
      <4>1. \A t \in Sessions : Starting(session'[t]) =>
                /\ pins'[session'[t].run] = None
                /\ IF session'[t].at = "pinning"
                   THEN started'[session'[t].run] = session'[t].brief
                   ELSE runs'[session'[t].run] = None
        BY <3>1, <3>2, <3>3, <3>5 DEF StartedAlone
      <4>2. \A t, u \in Sessions :
                (Starting(session'[t]) /\ Starting(session'[u])
                     /\ session'[t].run = session'[u].run) => t = u
        BY <3>1, <3>2 DEF StartedAlone
      <4> QED BY <4>1, <4>2 DEF StartedAlone, Starting
    <3> QED BY <3>6, <3>7
  <2>6. CASE Move(s)
    BY <2>6 DEF Move, rows, PinNamesTheStart, StartedAlone, Starting
  <2>7. CASE \/ Export(s) \/ Resume(s) \/ Review(s) \/ ReadPin(s) \/ ReadDated(s)
             \/ MatchCurrent(s) \/ LoadBrief(s) \/ Leave(s) \/ Die(s)
    <3> DEFINE m == session'[s]
    <3>1. UNCHANGED <<runs, pins, started>> /\ Become(s, m)
      BY <2>7 DEF Export, Resume, Review, ReadPin, ReadDated, MatchCurrent,
                  LoadBrief, Leave, Die, Become, rows, history, TypeInv, TypeOK
    <3>2. ~Starting(m)
      <4>1. CASE Export(s) \/ Resume(s) \/ Review(s)
        BY <4>1 DEF Export, Resume, Review, Become, TypeInv, TypeOK, Idle, Starting
      <4>2. CASE ReadPin(s)
        BY <2>1, <4>2 DEF ReadPin, Become, TypeInv, TypeOK, Session, Starting
      <4>3. CASE ReadDated(s) \/ LoadBrief(s)
        BY <2>1, <4>3 DEF ReadDated, LoadBrief, Become, TypeInv, TypeOK, Session, Starting
      <4>4. CASE MatchCurrent(s)
        BY <2>1, <4>4 DEF MatchCurrent, Become, TypeInv, TypeOK, Session, Starting
      <4>5. CASE Leave(s) \/ Die(s)
        BY <2>1, <4>5 DEF Leave, Die, Become, TypeInv, TypeOK
      <4> QED BY <2>7, <4>1, <4>2, <4>3, <4>4, <4>5
    <3> HIDE DEF m
    <3> QED BY <3>1, <3>2, QuietStep
  <2> QED BY <1>2, <2>2, <2>3, <2>4, <2>5, <2>6, <2>7 DEF Step
<1> QED BY <1>1, <1>2 DEF Next

LEMMA InitPins == Init => PinInv
BY DEF Init, PinInv, PinNamesTheStart, StartedAlone, Starting, Idle

\* No save by any other process, at whatever moment, no death and no step of the
\* clock can make a run's pin name another brief than the one it was started
\* with: the pin is written from the object in memory (cli.py:368), and the
\* process that writes it is the only one that starts the run.
THEOREM PinsNameTheStart == Spec => []PinNamesTheStart
<1>1. PinInv => PinNamesTheStart
  BY DEF PinInv
<1> QED BY <1>1, InitTypes, NextTypes, InitPins, NextPins, PTL DEF Spec
-----------------------------------------------------------------------------
(* What a step of a process does to what it holds and to the rows *)

Sameness(m, n) == n.run = m.run /\ n.brief = m.brief /\ n.command = m.command

SavesBrief(m, n) ==
    /\ m.at = "idle" /\ n.at = "comparing" /\ workflow' = n.brief
    /\ n.run # None => n.run \in Runs /\ runs[n.run] = None
    /\ UNCHANGED <<snapshots, runs, pins, clock, history, torn>>

Compares(m, n) ==
    /\ m.at = "comparing"
    /\ IF CurrentBrief # m.brief THEN n.at = "inserting" /\ Sameness(m, n)
       ELSE n = Idle \/ (n.at = "opening" /\ Sameness(m, n))
    /\ UNCHANGED <<rows, clock, history, torn>>

Inserts(m, n) ==
    /\ m.at = "inserting"
    /\ n = Idle \/ (n.at = "opening" /\ Sameness(m, n))
    /\ clock' = clock + 1
    /\ snapshots' = Append(snapshots, [brief |-> m.brief, saved_at |-> clock'])
    /\ UNCHANGED <<workflow, runs, pins, history, torn>>

Opens(m, n) ==
    /\ m.at = "opening" /\ n.at = "pinning" /\ Sameness(m, n)
    /\ m.run \in Runs /\ m.brief \in Briefs
    /\ clock' = clock + 1
    /\ runs' = [runs EXCEPT ![m.run] = clock']
    /\ started' = [started EXCEPT ![m.run] = m.brief]
    /\ UNCHANGED <<workflow, snapshots, pins, governed, torn>>

Pins(m, n) ==
    /\ m.at = "pinning" /\ n.at = "driving" /\ Sameness(m, n)
    /\ m.run \in Runs /\ m.brief \in Briefs /\ n.command # "review"
    /\ pins' = [pins EXCEPT ![m.run] = m.brief]
    /\ UNCHANGED <<workflow, snapshots, runs, clock, history, torn>>

\* A command takes a run up, reads its pin, looks it up by its date ...
TakesUp(m, n) ==
    /\ m.at = "idle" /\ n.at = "checking" /\ n.run \in Runs /\ runs[n.run] # None
    /\ n.command = "review" => n.brief = workflow
    /\ UNCHANGED <<rows, clock, history, torn>>

ReadsPin(m, n) ==
    /\ m.at = "checking" /\ Sameness(m, n) /\ n.run \in Runs
    /\ n.pinned = pins[n.run]
    /\ n.at = IF n.pinned = None THEN "dating" ELSE "matching"
    /\ UNCHANGED <<rows, clock, history, torn>>

ReadsDate(m, n) ==
    /\ m.at = "dating" /\ n.at = "matching" /\ Sameness(m, n) /\ n.run \in Runs
    /\ n.pinned = BriefAt(runs[n.run]) /\ runs[n.run] \in Nat
    /\ UNCHANGED <<rows, clock, history, torn>>

\* ... and goes on, or is refused.
Matches(m, n) ==
    /\ m.at = "matching" /\ Sameness(m, n) /\ n.run \in Runs
    /\ IF m.pinned = None \/ m.pinned # CurrentBrief
       THEN n.at = "refused" /\ n.pinned = m.pinned
       ELSE n.at = IF n.command = "run" THEN "loading" ELSE "driving"
    /\ UNCHANGED <<rows, clock, history, torn>>

Loads(m, n) ==
    /\ m.at = "loading" /\ n.at = "driving" /\ n.run = m.run /\ n.run \in Runs
    /\ n.command = m.command /\ n.brief = workflow
    /\ UNCHANGED <<rows, clock, history, torn>>

Drives(m, n) ==
    /\ m.at = "driving" /\ n = m /\ n.run \in Runs
    /\ governed' = [governed EXCEPT ![m.run] =
                        @ \cup {IF m.command = "graph" THEN workflow ELSE m.brief}]
    /\ UNCHANGED <<rows, clock, started, torn>>

Ends(m, n) ==
    /\ n = Idle
    /\ torn' = torn \/ torn' = (torn \/ m.at \in {"comparing", "inserting"})
    /\ m.at \in {"comparing", "inserting"} => torn'
    /\ UNCHANGED <<rows, clock, history>>

Effect(m, n) ==
    \/ SavesBrief(m, n) \/ Compares(m, n) \/ Inserts(m, n) \/ Opens(m, n) \/ Pins(m, n)
    \/ TakesUp(m, n) \/ ReadsPin(m, n) \/ ReadsDate(m, n) \/ Matches(m, n)
    \/ Loads(m, n) \/ Drives(m, n) \/ Ends(m, n)

\* Every step of a process has one of these effects.
LEMMA StepEffects ==
    ASSUME TypeInv, NEW s \in Sessions, Step(s)
    PROVE  \E n \in Session :
               /\ Effect(session[s], n) /\ UNCHANGED stepped
               /\ \A t \in Sessions : session'[t] = IF t = s THEN n ELSE session[t]
<1>1. PICK m : m = session[s]
  OBVIOUS
<1>2. /\ m \in Session /\ Holds(m) /\ runs \in [Runs -> Nat \cup {None}]
      /\ InHand(m) => runs[m.run] # None
      /\ None \notin Runs /\ session \in [Sessions -> Session]
      /\ Savable \subseteq Briefs /\ workflow \in Briefs \cup {None}
  BY <1>1, PinsAssumption DEF TypeInv, TypeOK, Savable
<1>3. ASSUME NEW n \in Session, Become(s, n), Effect(m, n), UNCHANGED stepped
      PROVE  \E k \in Session :
                 /\ Effect(session[s], k) /\ UNCHANGED stepped
                 /\ \A t \in Sessions : session'[t] = IF t = s THEN k ELSE session[t]
  BY <1>1, <1>2, <1>3 DEF Become
<1>4. CASE Start(s)
  <2>1. PICK b \in Briefs, r \in Runs, command \in {"run", "graph"} :
            /\ runs[r] = None /\ workflow' = b
            /\ Become(s, [Idle EXCEPT !.at = "comparing", !.command = command,
                                      !.run = r, !.brief = b])
    BY <1>2, <1>4 DEF Start
  <2>2. PICK n : n = [Idle EXCEPT !.at = "comparing", !.command = command,
                                  !.run = r, !.brief = b]
    OBVIOUS
  <2>3. /\ n \in Session /\ n.at = "comparing" /\ n.run = r /\ n.brief = b
        /\ UNCHANGED <<snapshots, runs, pins, clock, history, stepped, torn>>
    BY <1>4, <2>2 DEF Idle, Session, Places, Start
  <2>4. SavesBrief(m, n)
    BY <1>1, <1>4, <2>1, <2>3 DEF SavesBrief, Start, At
  <2> QED BY <1>3, <2>1, <2>2, <2>3, <2>4 DEF Effect
<1>5. CASE Export(s)
  <2>1. PICK b \in Briefs :
            /\ workflow' = b
            /\ Become(s, [Idle EXCEPT !.at = "comparing", !.command = "export",
                                      !.brief = b])
    BY <1>2, <1>5 DEF Export
  <2>2. PICK n : n = [Idle EXCEPT !.at = "comparing", !.command = "export", !.brief = b]
    OBVIOUS
  <2>3. /\ n \in Session /\ n.at = "comparing" /\ n.run = None /\ n.brief = b
        /\ UNCHANGED <<snapshots, runs, pins, clock, history, stepped, torn>>
    BY <1>5, <2>2 DEF Idle, Session, Places, Export
  <2>4. SavesBrief(m, n)
    BY <1>1, <1>5, <2>1, <2>3 DEF SavesBrief, Export, At
  <2> QED BY <1>3, <2>1, <2>2, <2>3, <2>4 DEF Effect
<1>6. CASE Compare(s) \/ Insert(s)
  <2>1. PICK n : n = Saved(m)
    OBVIOUS
  <2>2. n \in Session /\ (n = Idle \/ (n.at = "opening" /\ Sameness(m, n)))
    <3>1. PICK o : o = [m EXCEPT !.at = "opening"]
      OBVIOUS
    <3>2. o \in Session /\ o.at = "opening" /\ Sameness(m, o)
      BY <1>2, <3>1 DEF Session, Places, Sameness
    <3>3. n = Idle \/ n = o
      BY <2>1, <3>1 DEF Saved
    <3> QED BY <3>2, <3>3, IdleOK
  <2>3. PICK k : k = [m EXCEPT !.at = "inserting"]
    OBVIOUS
  <2>4. k \in Session /\ k.at = "inserting" /\ Sameness(m, k)
    BY <1>2, <2>3 DEF Session, Places, Sameness
  <2>5. CASE Compare(s)
    <3>1. /\ m.at = "comparing" /\ UNCHANGED <<rows, clock, history, torn>>
          /\ UNCHANGED stepped
          /\ Become(s, IF CurrentBrief = m.brief THEN n ELSE k)
      BY <1>1, <2>1, <2>3, <2>5 DEF Compare, At
    <3>2. CASE CurrentBrief = m.brief
      <4>1. Compares(m, n)
        BY <2>2, <3>1, <3>2 DEF Compares
      <4> QED BY <1>3, <2>2, <3>1, <3>2, <4>1 DEF Effect
    <3>3. CASE CurrentBrief # m.brief
      <4>1. Compares(m, k)
        BY <2>4, <3>1, <3>3 DEF Compares
      <4> QED BY <1>3, <2>4, <3>1, <3>3, <4>1 DEF Effect
    <3> QED BY <3>2, <3>3
  <2>6. CASE Insert(s)
    <3>1. Inserts(m, n) /\ UNCHANGED stepped /\ Become(s, n)
      BY <1>1, <2>1, <2>2, <2>6 DEF Insert, Inserts, At
    <3> QED BY <1>3, <2>2, <3>1 DEF Effect
  <2> QED BY <1>6, <2>5, <2>6
<1>7. CASE OpenRun(s)
  <2>1. PICK n : n = [m EXCEPT !.at = "pinning"]
    OBVIOUS
  <2>2. n \in Session /\ n.at = "pinning" /\ Sameness(m, n)
    BY <1>2, <2>1 DEF Session, Places, Sameness
  <2>3. m.at = "opening" /\ m.run \in Runs /\ m.brief \in Briefs
    BY <1>1, <1>2, <1>7 DEF OpenRun, At, Holds
  <2>4. Opens(m, n) /\ UNCHANGED stepped /\ Become(s, n)
    BY <1>1, <1>7, <2>1, <2>2, <2>3 DEF OpenRun, Opens
  <2> QED BY <1>3, <2>2, <2>4 DEF Effect
<1>8. CASE Pin(s)
  <2>1. PICK n : n = [m EXCEPT !.at = "driving"]
    OBVIOUS
  <2>2. n \in Session /\ n.at = "driving" /\ Sameness(m, n)
    BY <1>2, <2>1 DEF Session, Places, Sameness
  <2>3. m.at = "pinning" /\ m.run \in Runs /\ m.brief \in Briefs /\ m.command # "review"
    BY <1>1, <1>2, <1>8 DEF Pin, At, Holds
  <2>4. Pins(m, n) /\ UNCHANGED stepped /\ Become(s, n)
    BY <1>1, <1>8, <2>1, <2>2, <2>3 DEF Pin, Pins, Sameness
  <2> QED BY <1>3, <2>2, <2>4 DEF Effect
<1>9. CASE Resume(s)
  <2>1. PICK r \in Runs, command \in {"run", "graph"} :
            /\ runs[r] # None
            /\ Become(s, [Idle EXCEPT !.at = "checking", !.command = command, !.run = r])
    BY <1>9 DEF Resume
  <2>2. PICK n : n = [Idle EXCEPT !.at = "checking", !.command = command, !.run = r]
    OBVIOUS
  <2>3. n \in Session /\ n.at = "checking" /\ n.run = r /\ n.command # "review"
    BY <2>2 DEF Idle, Session, Places
  <2>4. TakesUp(m, n) /\ UNCHANGED stepped
    BY <1>1, <1>9, <2>1, <2>3 DEF TakesUp, Resume, At
  <2> QED BY <1>3, <2>1, <2>2, <2>3, <2>4 DEF Effect
<1>10. CASE Review(s)
  <2>1. PICK r \in Runs :
            /\ runs[r] # None
            /\ Become(s, [Idle EXCEPT !.at = "checking", !.command = "review",
                                      !.run = r, !.brief = workflow])
    BY <1>10 DEF Review
  <2>2. PICK n : n = [Idle EXCEPT !.at = "checking", !.command = "review",
                                  !.run = r, !.brief = workflow]
    OBVIOUS
  <2>3. n \in Session /\ n.at = "checking" /\ n.run = r /\ n.brief = workflow
    BY <1>2, <2>2 DEF Idle, Session, Places
  <2>4. TakesUp(m, n) /\ UNCHANGED stepped
    BY <1>1, <1>10, <2>1, <2>3 DEF TakesUp, Review, At
  <2> QED BY <1>3, <2>1, <2>2, <2>3, <2>4 DEF Effect
<1>11. CASE ReadPin(s)
  <2>1. m.at = "checking" /\ m.run \in Runs
    BY <1>1, <1>2, <1>11 DEF ReadPin, At, Holds
  <2>2. PICK pin : pin = pins[m.run]
    OBVIOUS
  <2>3. pin \in Briefs \cup {None}
    BY <2>1, <2>2 DEF TypeInv, TypeOK
  <2>4. PICK n : n = [m EXCEPT !.pinned = pin,
                          !.at = IF pin = None THEN "dating" ELSE "matching"]
    OBVIOUS
  <2>5. /\ n \in Session /\ n.pinned = pin /\ Sameness(m, n)
        /\ n.at = IF pin = None THEN "dating" ELSE "matching"
    BY <1>2, <2>3, <2>4 DEF Session, Places, Sameness
  <2>6. Become(s, n)
    BY <1>1, <1>11, <2>2, <2>4 DEF ReadPin
  <2>7. ReadsPin(m, n) /\ UNCHANGED stepped
    BY <1>11, <2>1, <2>2, <2>5 DEF ReadPin, ReadsPin, Sameness
  <2> QED BY <1>3, <2>5, <2>6, <2>7 DEF Effect
<1>12. CASE ReadDated(s)
  <2>1. m.at = "dating" /\ m.run \in Runs /\ runs[m.run] \in Nat
    BY <1>1, <1>2, <1>12 DEF ReadDated, At, Holds, InHand
  <2>2. PICK b : b = BriefAt(runs[m.run])
    OBVIOUS
  <2>3. b \in Briefs \cup {None}
    BY <2>1, <2>2, BriefAtType DEF TypeInv
  <2>4. PICK n : n = [m EXCEPT !.at = "matching", !.pinned = b]
    OBVIOUS
  <2>5. n \in Session /\ n.pinned = b /\ Sameness(m, n) /\ n.at = "matching"
    BY <1>2, <2>3, <2>4 DEF Session, Places, Sameness
  <2>6. Become(s, n)
    BY <1>1, <1>12, <2>2, <2>4 DEF ReadDated
  <2>7. ReadsDate(m, n) /\ UNCHANGED stepped
    BY <1>12, <2>1, <2>2, <2>5 DEF ReadDated, ReadsDate, Sameness
  <2> QED BY <1>3, <2>5, <2>6, <2>7 DEF Effect
<1>13. CASE MatchCurrent(s)
  <2>1. m.at = "matching" /\ m.run \in Runs
    BY <1>1, <1>2, <1>13 DEF MatchCurrent, At, Holds
  <2>2. CASE m.pinned = None \/ m.pinned # CurrentBrief
    <3>1. PICK n : n = [m EXCEPT !.at = "refused"]
      OBVIOUS
    <3>2. n \in Session /\ Sameness(m, n) /\ n.at = "refused" /\ n.pinned = m.pinned
      BY <1>2, <3>1 DEF Session, Places, Sameness
    <3>3. Matches(m, n) /\ UNCHANGED stepped
      BY <1>13, <2>1, <2>2, <3>2 DEF Matches, MatchCurrent, Sameness
    <3>4. Become(s, n)
      BY <1>1, <1>13, <2>2, <3>1 DEF MatchCurrent
    <3> QED BY <1>3, <3>2, <3>3, <3>4 DEF Effect
  <2>3. CASE ~(m.pinned = None \/ m.pinned # CurrentBrief)
    <3>1. PICK n : n = [m EXCEPT !.pinned = None, !.at =
                            IF m.command = "run" THEN "loading" ELSE "driving"]
      OBVIOUS
    <3>2. /\ n \in Session /\ Sameness(m, n)
          /\ n.at = IF n.command = "run" THEN "loading" ELSE "driving"
      BY <1>2, <3>1 DEF Session, Places, Sameness
    <3>3. Matches(m, n) /\ UNCHANGED stepped
      BY <1>13, <2>1, <2>3, <3>2 DEF Matches, MatchCurrent, Sameness
    <3>4. Become(s, n)
      BY <1>1, <1>13, <2>3, <3>1 DEF MatchCurrent
    <3> QED BY <1>3, <3>2, <3>3, <3>4 DEF Effect
  <2> QED BY <2>2, <2>3
<1>14. CASE LoadBrief(s)
  <2>1. PICK n : n = [m EXCEPT !.at = "driving", !.brief = workflow]
    OBVIOUS
  <2>2. /\ n \in Session /\ n.at = "driving" /\ n.run = m.run
        /\ n.command = m.command /\ n.brief = workflow
    BY <1>2, <2>1 DEF Session, Places
  <2>3. m.at = "loading" /\ m.run \in Runs
    BY <1>1, <1>2, <1>14 DEF LoadBrief, At, Holds
  <2>4. Loads(m, n) /\ UNCHANGED stepped /\ Become(s, n)
    BY <1>1, <1>14, <2>1, <2>2, <2>3 DEF LoadBrief, Loads
  <2> QED BY <1>3, <2>2, <2>4 DEF Effect
<1>15. CASE Move(s)
  <2>1. m.at = "driving" /\ m.run \in Runs
    BY <1>1, <1>2, <1>15 DEF Move, At, Holds
  <2>2. Drives(m, m) /\ UNCHANGED stepped
    BY <1>1, <1>15, <2>1 DEF Move, Drives
  <2>3. Become(s, m)
    BY <1>1, <1>2, <1>15 DEF Move, Become
  <2> QED BY <1>2, <1>3, <2>2, <2>3 DEF Effect
<1>16. CASE Leave(s) \/ Die(s)
  <2>1. /\ Become(s, Idle) /\ UNCHANGED <<rows, clock, history, stepped>>
    BY <1>16 DEF Leave, Die
  <2>2. m.at \in {"comparing", "inserting"} => torn'
    BY <1>1, <1>16 DEF Leave, Die, Saving
  <2>3. torn' = torn \/ torn' = (torn \/ m.at \in {"comparing", "inserting"})
    BY <1>1, <1>16 DEF Leave, Die, Saving
  <2>4. Ends(m, Idle)
    BY <2>1, <2>2, <2>3 DEF Ends
  <2> QED BY <1>3, <2>1, <2>4, IdleOK DEF Effect
<1> QED BY <1>4, <1>5, <1>6, <1>7, <1>8, <1>9, <1>10, <1>11, <1>12, <1>13, <1>14,
           <1>15, <1>16 DEF Step
\* The newest snapshot, now and after one is taken.
LEMMA NewestBrief ==
    ASSUME TypeOK
    PROVE  /\ Len(snapshots) \in Nat /\ DOMAIN snapshots = 1 .. Len(snapshots)
           /\ \A k \in DOMAIN snapshots :
                  snapshots[k].brief \in Briefs /\ snapshots[k].saved_at \in Nat
           /\ IF snapshots = <<>> THEN CurrentBrief = None /\ DOMAIN snapshots = {}
              ELSE /\ 1 \in DOMAIN snapshots /\ Len(snapshots) \in DOMAIN snapshots
                   /\ CurrentBrief = snapshots[Len(snapshots)].brief
<1>1. snapshots \in Seq(Snapshot)
  BY DEF TypeOK, Snapshot
<1>2. Len(snapshots) \in Nat /\ DOMAIN snapshots = 1 .. Len(snapshots)
  BY <1>1, LenProperties
<1>3. \A k \in DOMAIN snapshots : snapshots[k] \in Snapshot
  BY <1>1, <1>2, ElementOfSeq
<1>4. snapshots # <<>> => Len(snapshots) # 0
  BY <1>1, EmptySeq
<1>5. snapshots = <<>> => Len(snapshots) = 0
  OBVIOUS
<1> QED BY <1>2, <1>3, <1>4, <1>5 DEF Snapshot, CurrentBrief

LEMMA InsertedBrief ==
    ASSUME TypeOK, NEW b \in Briefs, NEW t \in Nat,
           snapshots' = Append(snapshots, [brief |-> b, saved_at |-> t])
    PROVE  /\ Len(snapshots') = Len(snapshots) + 1
           /\ DOMAIN snapshots' = 1 .. Len(snapshots) + 1
           /\ \A k \in DOMAIN snapshots : snapshots'[k] = snapshots[k]
           /\ snapshots'[Len(snapshots) + 1].brief = b
           /\ snapshots'[Len(snapshots) + 1].saved_at = t
           /\ snapshots' # <<>> /\ CurrentBrief' = b
<1>1. snapshots \in Seq(Snapshot)
  BY DEF TypeOK, Snapshot
<1>2. PICK row : row = [brief |-> b, saved_at |-> t]
  OBVIOUS
<1>3. row \in Snapshot /\ row.brief = b /\ row.saved_at = t
  BY <1>2 DEF Snapshot
<1>4. Len(snapshots) \in Nat /\ DOMAIN snapshots = 1 .. Len(snapshots)
  BY <1>1, LenProperties
<1>5. /\ snapshots' \in Seq(Snapshot) /\ Len(snapshots') = Len(snapshots) + 1
      /\ \A k \in 1 .. Len(snapshots) : snapshots'[k] = snapshots[k]
      /\ snapshots'[Len(snapshots) + 1] = row
  BY <1>1, <1>2, <1>3, AppendProperties
<1>6. DOMAIN snapshots' = 1 .. Len(snapshots')
  BY <1>5, LenProperties
<1>7. snapshots' # <<>>
  BY <1>4, <1>5
<1> QED BY <1>3, <1>4, <1>5, <1>6, <1>7 DEF CurrentBrief

-----------------------------------------------------------------------------
(* Dates *)

\* A run has a brief and a snapshot before its row; while the clock only went
\* forward, later rows have later dates.
DateInv ==
    /\ \A r \in Runs : IF runs[r] = None THEN governed[r] = {}
                       ELSE started[r] \in Briefs /\ snapshots # <<>>
    /\ \A s \in Sessions : session[s].at = "opening" => snapshots # <<>>
    /\ ~stepped =>
           /\ \A k \in DOMAIN snapshots : snapshots[k].saved_at <= clock
           /\ \A j, k \in DOMAIN snapshots :
                  j < k => snapshots[j].saved_at < snapshots[k].saved_at
           /\ \A r \in Runs : runs[r] # None =>
                  runs[r] <= clock /\ snapshots[1].saved_at <= runs[r]

LEMMA InitDates == Init => DateInv
BY DEF Init, DateInv, Idle

LEMMA NextDates ==
    ASSUME TypeInv, PinInv, DateInv, [Next]_vars
    PROVE  DateInv'
<1>1. CASE UNCHANGED vars
  BY <1>1 DEF vars, rows, history, DateInv
<1>2. CASE StepBack
  BY <1>2 DEF StepBack, rows, history, DateInv
<1>3. ASSUME NEW s \in Sessions, Step(s) PROVE DateInv'
  <2>1. PICK n \in Session :
            /\ Effect(session[s], n) /\ UNCHANGED stepped
            /\ \A t \in Sessions : session'[t] = IF t = s THEN n ELSE session[t]
    BY <1>3, StepEffects
  <2>2. PICK m : m = session[s]
    OBVIOUS
  <2>3. /\ m \in Session /\ Holds(m) /\ TypeOK /\ None \notin Briefs /\ None \notin Nat
        /\ InHand(m) => runs[m.run] # None
        /\ clock \in Nat /\ runs \in [Runs -> Nat \cup {None}]
        /\ started \in [Runs -> Briefs \cup {None}] /\ governed \in [Runs -> SUBSET Briefs]
    BY <2>2, PinsAssumption DEF TypeInv, TypeOK
  <2>4. ASSUME UNCHANGED <<snapshots, runs, clock, history, stepped>>,
               n.at = "opening" => snapshots # <<>>
        PROVE  DateInv'
    BY <2>1, <2>4 DEF DateInv, history
  <2>5. CASE SavesBrief(m, n) \/ Pins(m, n) \/ TakesUp(m, n) \/ ReadsPin(m, n)
             \/ ReadsDate(m, n) \/ Matches(m, n) \/ Loads(m, n) \/ Ends(m, n)
    <3>1. n.at # "opening"
      BY <2>5 DEF SavesBrief, Pins, TakesUp, ReadsPin, ReadsDate, Matches, Loads, Ends, Idle
    <3> QED BY <2>1, <2>4, <2>5, <3>1
            DEF SavesBrief, Pins, TakesUp, ReadsPin, ReadsDate, Matches, Loads, Ends, rows
  <2>6. CASE Compares(m, n)
    <3>1. n.at = "opening" => CurrentBrief = m.brief /\ m.brief \in Briefs
      BY <2>3, <2>6 DEF Compares, Holds, Idle
    <3>2. n.at = "opening" => snapshots # <<>>
      BY <2>3, <3>1, NewestBrief
    <3> QED BY <2>1, <2>4, <2>6, <3>2 DEF Compares, rows
  <2>7. CASE Inserts(m, n)
    <3>1. /\ m.brief \in Briefs /\ clock' = clock + 1 /\ clock' \in Nat
          /\ snapshots' = Append(snapshots, [brief |-> m.brief, saved_at |-> clock'])
          /\ UNCHANGED <<runs, started, governed, stepped>>
      BY <2>1, <2>3, <2>7 DEF Inserts, Holds, history
    <3>2. /\ snapshots' # <<>> /\ DOMAIN snapshots' = 1 .. Len(snapshots) + 1
          /\ \A k \in DOMAIN snapshots : snapshots'[k] = snapshots[k]
          /\ snapshots'[Len(snapshots) + 1].saved_at = clock'
      BY <2>3, <3>1, InsertedBrief
    <3>3. /\ Len(snapshots) \in Nat /\ DOMAIN snapshots = 1 .. Len(snapshots)
          /\ \A k \in DOMAIN snapshots : snapshots[k].saved_at \in Nat
          /\ snapshots # <<>> => 1 \in DOMAIN snapshots
      BY <2>3, NewestBrief
    <3>4. \A k \in DOMAIN snapshots' : k \in DOMAIN snapshots \/ k = Len(snapshots) + 1
      BY <3>2, <3>3
    <3>5. ASSUME ~stepped'
          PROVE  /\ \A k \in DOMAIN snapshots' : snapshots'[k].saved_at <= clock'
                 /\ \A j, k \in DOMAIN snapshots' :
                        j < k => snapshots'[j].saved_at < snapshots'[k].saved_at
                 /\ \A r \in Runs : runs'[r] # None =>
                        runs'[r] <= clock' /\ snapshots'[1].saved_at <= runs'[r]
      <4>1. \A k \in DOMAIN snapshots' : snapshots'[k].saved_at <= clock'
        BY <2>3, <3>1, <3>2, <3>3, <3>4, <3>5 DEF DateInv
      <4>2. ASSUME NEW j \in DOMAIN snapshots', NEW k \in DOMAIN snapshots', j < k
            PROVE  snapshots'[j].saved_at < snapshots'[k].saved_at
        <5>1. j \in DOMAIN snapshots
          BY <3>2, <3>3, <4>2
        <5>2. CASE k \in DOMAIN snapshots
          BY <3>1, <3>2, <3>5, <4>2, <5>1, <5>2 DEF DateInv
        <5>3. CASE k = Len(snapshots) + 1
          BY <2>3, <3>1, <3>2, <3>3, <3>5, <5>1, <5>3 DEF DateInv
        <5> QED BY <3>4, <5>2, <5>3
      <4>3. ASSUME NEW r \in Runs, runs'[r] # None
            PROVE  runs'[r] <= clock' /\ snapshots'[1].saved_at <= runs'[r]
        <5>1. runs[r] \in Nat /\ runs[r] <= clock /\ snapshots[1].saved_at <= runs[r]
              /\ snapshots # <<>>
          BY <2>3, <3>1, <3>5, <4>3 DEF DateInv
        <5> QED BY <2>3, <3>1, <3>2, <3>3, <5>1
      <4> QED BY <4>1, <4>2, <4>3
    <3> QED BY <2>1, <3>1, <3>2, <3>5 DEF DateInv
  <2>8. CASE Opens(m, n)
    <3>1. /\ m.run \in Runs /\ m.brief \in Briefs /\ n.at # "opening" /\ m.at = "opening"
          /\ clock' = clock + 1 /\ UNCHANGED <<snapshots, governed, stepped>>
          /\ \A r \in Runs : IF r = m.run THEN runs'[r] = clock' /\ started'[r] = m.brief
                             ELSE runs'[r] = runs[r] /\ started'[r] = started[r]
      BY <2>1, <2>3, <2>8 DEF Opens
    <3>2. snapshots # <<>>
      BY <2>2, <3>1 DEF DateInv
    <3>3. /\ 1 \in DOMAIN snapshots
          /\ \A k \in DOMAIN snapshots : snapshots[k].saved_at \in Nat
      BY <2>3, <3>2, NewestBrief
    <3>4. clock' \in Nat /\ clock <= clock' /\ clock' # None
      BY <2>3, <3>1
    <3>5. \A r \in Runs : IF runs'[r] = None THEN governed'[r] = {}
                          ELSE started'[r] \in Briefs /\ snapshots' # <<>>
      BY <3>1, <3>2, <3>4 DEF DateInv
    <3>6. ASSUME ~stepped'
          PROVE  /\ \A k \in DOMAIN snapshots' : snapshots'[k].saved_at <= clock'
                 /\ \A r \in Runs : runs'[r] # None =>
                        runs'[r] <= clock' /\ snapshots'[1].saved_at <= runs'[r]
      <4>1. \A k \in DOMAIN snapshots : snapshots[k].saved_at <= clock'
        BY <2>3, <3>1, <3>3, <3>4, <3>6 DEF DateInv
      <4>2. ASSUME NEW r \in Runs, runs'[r] # None
            PROVE  runs'[r] <= clock' /\ snapshots[1].saved_at <= runs'[r]
        <5>1. CASE r = m.run
          BY <3>1, <3>3, <3>4, <4>1, <5>1
        <5>2. CASE r # m.run
          <6>1. runs'[r] = runs[r] /\ runs[r] \in Nat
            BY <2>3, <3>1, <4>2, <5>2
          <6>2. runs[r] <= clock /\ snapshots[1].saved_at <= runs[r]
            BY <3>1, <3>6, <4>2, <6>1 DEF DateInv
          <6> QED BY <2>3, <3>4, <6>1, <6>2
        <5> QED BY <5>1, <5>2
      <4> QED BY <3>1, <4>1, <4>2
    <3> QED BY <2>1, <3>1, <3>2, <3>5, <3>6 DEF DateInv
  <2>9. CASE Drives(m, n)
    <3>1. /\ n.at = "driving" /\ m.run \in Runs /\ runs[m.run] # None
          /\ \A r \in Runs : r # m.run => governed'[r] = governed[r]
          /\ UNCHANGED <<snapshots, runs, clock, started, stepped>>
      BY <2>1, <2>3, <2>9 DEF Drives, InHand, rows
    <3> QED BY <2>1, <3>1 DEF DateInv
  <2> QED BY <2>1, <2>2, <2>5, <2>6, <2>7, <2>8, <2>9 DEF Effect
<1> QED BY <1>1, <1>2, <1>3 DEF Next
-----------------------------------------------------------------------------
(* Refusals *)

\* What process m has found out so far: without a pin it was early or the pin
\* is lost, without any brief the clock went back, and another brief than the
\* one in effect is not the brief of the start for some snapshot.
Reasoned(m) ==
    /\ m.at = "dating" => pins[m.run] = None \/ hasty
    /\ m.at = "matching" =>
           IF m.pinned = None THEN stepped /\ (pins[m.run] = None \/ hasty)
           ELSE \/ m.pinned = started[m.run]
                \/ \E k \in DOMAIN snapshots : snapshots[k].brief = m.pinned
    /\ m.at = "refused" =>
           IF m.pinned = None THEN stepped /\ (pins[m.run] = None \/ hasty)
           ELSE \E k \in DOMAIN snapshots : snapshots[k].brief # started[m.run]

ReasonInv ==
    /\ Hasty => hasty
    /\ \A s \in Sessions : Reasoned(session[s])

LEMMA InitReasons == Init => ReasonInv
BY DEF Init, ReasonInv, Reasoned, Hasty, At, Idle

\* What a process has found out stays true when another one takes a step.
LEMMA ReasonsLast ==
    ASSUME NEW m, Reasoned(m),
           stepped => stepped', hasty => hasty',
           \A k \in DOMAIN snapshots :
               k \in DOMAIN snapshots' /\ snapshots'[k] = snapshots[k],
           m.at \in {"dating", "matching", "refused"} =>
               /\ started'[m.run] = started[m.run]
               /\ pins'[m.run] = pins[m.run] \/ hasty
    PROVE  Reasoned(m)'
BY DEF Reasoned

LEMMA NextReasons ==
    ASSUME TypeInv, PinInv, DateInv, ReasonInv, [Next]_vars
    PROVE  ReasonInv'
<1>1. CASE UNCHANGED vars
  BY <1>1 DEF vars, rows, history, ReasonInv, Reasoned, Hasty, At
<1>2. CASE Next
  <2>1. (hasty => hasty') /\ (Hasty' => hasty')
    BY <1>2 DEF Next
  <2>2. CASE StepBack
    <3>1. stepped' /\ UNCHANGED <<rows, session, history>>
      BY <2>2 DEF StepBack
    <3>2. \A s \in Sessions : Reasoned(session[s])'
      BY <2>1, <3>1 DEF ReasonInv, Reasoned, rows, history
    <3> QED BY <2>1, <3>2 DEF ReasonInv
  <2>3. ASSUME NEW s \in Sessions, Step(s) PROVE ReasonInv'
    <3>1. PICK n \in Session :
              /\ Effect(session[s], n) /\ UNCHANGED stepped
              /\ \A t \in Sessions : session'[t] = IF t = s THEN n ELSE session[t]
      BY <2>3, StepEffects
    <3>2. PICK m : m = session[s]
      OBVIOUS
    <3>3. /\ m \in Session /\ Holds(m) /\ TypeOK /\ None \notin Briefs
          /\ InHand(m) => runs[m.run] # None
          /\ Reasoned(m)
      <4>1. Reasoned(m)
        BY <3>2 DEF ReasonInv, Reasoned
      <4> QED BY <3>2, <4>1, PinsAssumption DEF TypeInv, TypeOK
    <3>4. \A k \in DOMAIN snapshots :
              k \in DOMAIN snapshots' /\ snapshots'[k] = snapshots[k]
      <4>1. CASE Inserts(m, n)
        <5>1. m.brief \in Briefs /\ clock' \in Nat
          BY <3>3, <4>1 DEF Inserts, Holds, TypeOK
        <5>2. snapshots' = Append(snapshots, [brief |-> m.brief, saved_at |-> clock'])
          BY <4>1 DEF Inserts
        <5> QED BY <3>3, <5>1, <5>2, InsertedBrief, NewestBrief
      <4>2. CASE ~Inserts(m, n)
        <5>1. UNCHANGED snapshots
          BY <3>1, <3>2, <4>2 DEF Effect, SavesBrief, Compares, Opens, Pins, TakesUp,
             ReadsPin, ReadsDate, Matches, Loads, Drives, Ends, rows
        <5> QED BY <5>1
      <4> QED BY <4>1, <4>2
    <3>5. ASSUME NEW t \in Sessions, t # s, NEW o, o = session'[t] PROVE Reasoned(o)'
      <4>1. o = session[t]
        BY <3>1, <3>5
      <4>2. Reasoned(o)
        BY <4>1 DEF ReasonInv, Reasoned
      <4>3. ASSUME o.at \in {"dating", "matching", "refused"}
            PROVE  /\ started'[o.run] = started[o.run]
                   /\ pins'[o.run] = pins[o.run] \/ hasty
        <5>1. o.run \in Runs /\ runs[o.run] # None
          BY <4>1, <4>3 DEF TypeInv, Holds, InHand
        <5>2. CASE Opens(m, n)
          <6>1. m.run # o.run
            BY <3>2, <5>1, <5>2, <3>3 DEF Opens, PinInv, StartedAlone, Starting, Holds
          <6> QED BY <3>3, <5>1, <5>2, <6>1 DEF Opens, TypeOK
        <5>3. CASE Pins(m, n)
          <6>1. CASE m.run = o.run
            <7>1. Hasty
              BY <3>2, <4>1, <4>3, <5>3, <6>1 DEF Pins, Hasty, At
            <7> QED BY <5>3, <7>1 DEF ReasonInv, Pins, history
          <6>2. CASE m.run # o.run
            BY <3>3, <5>1, <5>3, <6>2 DEF Pins, history, TypeOK
          <6> QED BY <6>1, <6>2
        <5>4. CASE ~Opens(m, n) /\ ~Pins(m, n)
          BY <3>1, <3>2, <5>4 DEF Effect, SavesBrief, Compares, Inserts, TakesUp,
             ReadsPin, ReadsDate, Matches, Loads, Drives, Ends, rows, history
        <5> QED BY <5>2, <5>3, <5>4
      <4> QED BY <2>1, <3>1, <3>4, <4>2, <4>3, ReasonsLast
    <3>6. Reasoned(n)'
      <4>1. CASE n.at \notin {"dating", "matching", "refused"}
        BY <4>1 DEF Reasoned
      <4>2. CASE ReadsPin(m, n)
        <5>1. n.run \in Runs /\ pins' = pins /\ started' = started
              /\ n.pinned = pins[n.run]
              /\ n.at = IF n.pinned = None THEN "dating" ELSE "matching"
          BY <4>2 DEF ReadsPin, rows, history
        <5>2. pins[n.run] \in {None, started[n.run]}
          BY <5>1 DEF PinInv, PinNamesTheStart
        <5> QED BY <5>1, <5>2 DEF Reasoned
      <4>3. CASE ReadsDate(m, n)
        <5>1. /\ n.run \in Runs /\ n.at = "matching" /\ n.run = m.run /\ m.at = "dating"
              /\ n.pinned = BriefAt(runs[n.run]) /\ runs[n.run] \in Nat
              /\ UNCHANGED <<snapshots, pins, started, stepped>>
          BY <3>1, <4>3 DEF ReadsDate, Sameness, rows, history
        <5>2. CASE \A k \in DOMAIN snapshots : ~ (snapshots[k].saved_at <= runs[n.run])
          <6>1. n.pinned = None
            BY <3>3, <5>1, <5>2, BriefAtNewest
          <6>2. stepped
            <7> SUFFICES ASSUME ~stepped PROVE FALSE
              OBVIOUS
            <7>1. runs[n.run] # None
              BY <3>3, <5>1 DEF InHand
            <7>2. snapshots # <<>> /\ snapshots[1].saved_at <= runs[n.run]
              BY <5>1, <7>1 DEF DateInv
            <7>3. 1 \in DOMAIN snapshots
              BY <3>3, <7>2, NewestBrief
            <7> QED BY <5>2, <7>2, <7>3
          <6> QED BY <2>1, <3>3, <5>1, <6>1, <6>2 DEF Reasoned
        <5>3. CASE ~ \A k \in DOMAIN snapshots : ~ (snapshots[k].saved_at <= runs[n.run])
          <6>1. \E k \in DOMAIN snapshots :
                    n.pinned = snapshots[k].brief /\ snapshots[k].brief \in Briefs
            BY <3>3, <5>1, <5>3, BriefAtNewest
          <6> QED BY <3>3, <5>1, <6>1 DEF Reasoned
        <5> QED BY <5>2, <5>3
      <4>4. CASE Matches(m, n)
        <5>1. /\ n.run \in Runs /\ n.run = m.run /\ m.at = "matching"
              /\ UNCHANGED <<snapshots, pins, started, stepped>>
              /\ n.at \in {"refused", "loading", "driving"}
              /\ n.at = "refused" => n.pinned = m.pinned
              /\ n.at = "refused" => m.pinned = None \/ m.pinned # CurrentBrief
          BY <3>1, <4>4 DEF Matches, Sameness, rows, history
        <5>2. ASSUME n.at = "refused", m.pinned # None
              PROVE  \E k \in DOMAIN snapshots : snapshots[k].brief # started[n.run]
          <6>1. runs[n.run] # None
            BY <3>3, <5>1 DEF InHand
          <6>2. snapshots # <<>>
            BY <5>1, <6>1 DEF DateInv
          <6>3. /\ Len(snapshots) \in DOMAIN snapshots
                /\ CurrentBrief = snapshots[Len(snapshots)].brief
            BY <3>3, <6>2, NewestBrief
          <6>4. \/ m.pinned = started[n.run]
                \/ \E k \in DOMAIN snapshots : snapshots[k].brief = m.pinned
            BY <3>3, <5>1, <5>2 DEF Reasoned
          <6> QED BY <5>1, <5>2, <6>3, <6>4
        <5> QED BY <2>1, <3>3, <5>1, <5>2 DEF Reasoned
      <4>5. CASE n.at \in {"dating", "matching", "refused"}
                 /\ ~ReadsPin(m, n) /\ ~ReadsDate(m, n) /\ ~Matches(m, n)
        BY <3>1, <3>2, <4>5 DEF Effect, SavesBrief, Compares, Inserts, Opens, Pins,
           TakesUp, Loads, Drives, Ends, Idle
      <4> QED BY <4>1, <4>2, <4>3, <4>4, <4>5
    <3>7. \A t \in Sessions : \A o : o = session'[t] => Reasoned(o)'
      BY <3>1, <3>5, <3>6
    <3>8. (\A t \in Sessions : Reasoned(session[t]))'
      BY <3>7 DEF Reasoned
    <3> QED BY <2>1, <3>8 DEF ReasonInv
  <2> QED BY <1>2, <2>2, <2>3 DEF Next
<1> QED BY <1>1, <1>2

\* cli.py, _refuse_if_brief_drifted(): whoever saves what at whatever moment,
\* a refusal names its reason rightly, and only the clock's going back can
\* leave a run without any brief to compare.
THEOREM RefusalsAreReasoned == Spec => []RefusedForAReason
<1>1. ReasonInv => RefusedForAReason
  BY DEF ReasonInv, Reasoned, RefusedForAReason, At
<1>2. Init => TypeInv /\ PinInv /\ DateInv /\ ReasonInv
  BY InitTypes, InitPins, InitDates, InitReasons
<1>3. TypeInv /\ PinInv /\ DateInv /\ ReasonInv /\ [Next]_vars
      => (TypeInv /\ PinInv /\ DateInv /\ ReasonInv)'
  BY NextTypes, NextPins, NextDates, NextReasons
<1> QED BY <1>1, <1>2, <1>3, PTL DEF Spec
-----------------------------------------------------------------------------
(* Saves that are whole and overlap nothing *)

\* The brief process m holds is the one in effect, or about to be.
Settled(m) ==
    /\ m.at \in {"opening", "pinning"} => CurrentBrief = m.brief
    /\ m.at = "inserting" => CurrentBrief # m.brief
    /\ m.at \in {"comparing", "inserting"} => workflow = m.brief
    /\ (m.command = "review" /\ m.at \in {"checking", "dating", "matching"}) =>
           CurrentBrief = m.brief

SaveInv ==
    /\ Crossing => crossed
    /\ (~torn /\ ~crossed) => \A s \in Sessions : Settled(session[s])
    /\ SnapshotsFollowBrief

LEMMA InitSaves == Init => SaveInv
<1> SUFFICES ASSUME Init PROVE SaveInv
  OBVIOUS
<1>1. CurrentBrief = None /\ workflow = None /\ Len(snapshots) = 0
  BY DEF Init, CurrentBrief
<1>2. \A s \in Sessions : session[s] = Idle
  BY DEF Init
<1>3. SnapshotsFollowBrief
  BY <1>1 DEF SnapshotsFollowBrief
<1>4. ~Crossing /\ \A s \in Sessions : Settled(session[s])
  BY <1>2 DEF Crossing, Saving, Settled, Idle
<1> QED BY <1>3, <1>4 DEF SaveInv

\* Where the saves are whole and cross nothing, a process that saves is the only
\* one that saves or depends on the brief in effect.
LEMMA SavesAlone ==
    ASSUME ~Crossing, NEW s \in Sessions, Saving(s), NEW t \in Sessions, t # s
    PROVE  ~Saving(t) /\ ~Exposed(t)
BY DEF Crossing

LEMMA NextSaves ==
    ASSUME TypeInv, SaveInv, [Next]_vars
    PROVE  SaveInv'
<1>1. CASE UNCHANGED vars
  BY <1>1 DEF vars, rows, history, SaveInv, Crossing, Saving, Exposed, At, Settled,
     SnapshotsFollowBrief, CurrentBrief
<1>2. CASE Next
  <2>1. crossed' = (crossed \/ Crossing')
    BY <1>2 DEF Next
  <2>2. CASE StepBack
    BY <2>1, <2>2 DEF StepBack, rows, history, SaveInv, Settled, SnapshotsFollowBrief,
       CurrentBrief, Saving
  <2>3. ASSUME NEW s \in Sessions, Step(s) PROVE SaveInv'
    <3>1. PICK n \in Session :
              /\ Effect(session[s], n) /\ UNCHANGED stepped
              /\ \A t \in Sessions : session'[t] = IF t = s THEN n ELSE session[t]
      BY <2>3, StepEffects
    <3>2. PICK m : m = session[s]
      OBVIOUS
    <3>3. /\ m \in Session /\ Holds(m) /\ TypeOK /\ None \notin Briefs
      BY <3>2, PinsAssumption DEF TypeInv, TypeOK
    <3> SUFFICES ASSUME ~torn', ~crossed'
                 PROVE  /\ \A t \in Sessions : \A o : o = session'[t] => Settled(o)'
                        /\ (\A t \in Sessions : ~Saving(t)') => workflow' = CurrentBrief'
                        /\ \A k \in 2 .. Len(snapshots') :
                               snapshots'[k].brief # snapshots'[k - 1].brief
      BY <2>1 DEF SaveInv, SnapshotsFollowBrief, Settled
    <3>4. ~torn /\ ~crossed /\ ~Crossing /\ ~Crossing'
      <4>1. ~torn
        BY <3>1 DEF Effect, SavesBrief, Compares, Inserts, Opens, Pins, TakesUp,
           ReadsPin, ReadsDate, Matches, Loads, Drives, Ends
      <4> QED BY <2>1, <4>1 DEF SaveInv
    <3>5. /\ \A t \in Sessions : Settled(session[t])
          /\ (\A t \in Sessions : ~Saving(t)) => workflow = CurrentBrief
          /\ \A k \in 2 .. Len(snapshots) : snapshots[k].brief # snapshots[k - 1].brief
      BY <3>4 DEF SaveInv, SnapshotsFollowBrief
    <3>6. Settled(m)
      BY <3>2, <3>5 DEF Settled
    <3>7. \A t \in Sessions : t # s =>
              /\ m.at \in {"comparing", "inserting"} => ~Saving(t) /\ ~Exposed(t)
              /\ n.at \in {"comparing", "inserting"} => ~Saving(t) /\ ~Exposed(t)
              /\ n.at \in {"checking", "dating", "matching", "loading"} => ~Saving(t)
      <4> SUFFICES ASSUME NEW t \in Sessions, t # s
                   PROVE  /\ m.at \in {"comparing", "inserting"} => ~Saving(t) /\ ~Exposed(t)
                          /\ n.at \in {"comparing", "inserting"} => ~Saving(t) /\ ~Exposed(t)
                          /\ n.at \in {"checking", "dating", "matching", "loading"} => ~Saving(t)
        OBVIOUS
      <4>1. m.at \in {"comparing", "inserting"} => ~Saving(t) /\ ~Exposed(t)
        BY <3>2, <3>4 DEF Crossing, Saving
      <4>2. session'[t] = session[t] /\ session'[s] = n
        BY <3>1
      <4>3. n.at \in {"comparing", "inserting"} => ~Saving(t)' /\ ~Exposed(t)'
        BY <3>4, <4>2 DEF Crossing, Saving
      <4>4. n.at \in {"checking", "dating", "matching", "loading"} => ~Saving(t)'
        BY <3>4, <4>2 DEF Crossing, Saving, Exposed
      <4>5. (Saving(t)' <=> Saving(t)) /\ (Exposed(t)' <=> Exposed(t))
        BY <4>2 DEF Saving, Exposed, At
      <4> QED BY <4>1, <4>3, <4>4, <4>5
    <3>8. \A t \in Sessions : t # s => (Saving(t)' <=> Saving(t))
      BY <3>1 DEF Saving
    <3>9. (Saving(s)' <=> n.at \in {"comparing", "inserting"})
          /\ (Saving(s) <=> m.at \in {"comparing", "inserting"})
      BY <3>1, <3>2 DEF Saving
    <3>10. CASE SavesBrief(m, n)
      <4>1. n.at = "comparing" /\ workflow' = n.brief /\ UNCHANGED snapshots
        BY <3>10 DEF SavesBrief
      <4>2. Settled(n)'
        BY <4>1 DEF Settled
      <4>3. ASSUME NEW t \in Sessions, t # s, NEW o, o = session'[t] PROVE Settled(o)'
        <5>1. o = session[t] /\ ~Saving(t) /\ ~Exposed(t)
          BY <3>1, <3>7, <4>1, <4>3
        <5> QED BY <5>1 DEF Settled, Saving, Exposed
      <4> QED BY <3>1, <3>5, <3>9, <4>1, <4>2, <4>3
    <3>11. CASE Inserts(m, n)
      <4>1. /\ m.at = "inserting" /\ m.brief \in Briefs /\ clock' \in Nat
            /\ snapshots' = Append(snapshots, [brief |-> m.brief, saved_at |-> clock'])
            /\ UNCHANGED workflow
            /\ n = Idle \/ (n.at = "opening" /\ n.brief = m.brief)
        BY <3>3, <3>11 DEF Inserts, Sameness, Holds, TypeOK
      <4>2. /\ CurrentBrief' = m.brief /\ Len(snapshots') = Len(snapshots) + 1
            /\ \A k \in DOMAIN snapshots : snapshots'[k] = snapshots[k]
            /\ snapshots'[Len(snapshots) + 1].brief = m.brief
        BY <3>3, <4>1, InsertedBrief
      <4>3. workflow = m.brief /\ CurrentBrief # m.brief
        BY <3>6, <4>1 DEF Settled
      <4>4. Settled(n)'
        BY <4>1, <4>2 DEF Settled, Idle
      <4>5. ASSUME NEW t \in Sessions, t # s, NEW o, o = session'[t] PROVE Settled(o)'
        <5>1. o = session[t] /\ ~Saving(t) /\ ~Exposed(t)
          BY <3>1, <3>7, <4>1, <4>5
        <5> QED BY <5>1 DEF Settled, Saving, Exposed
      <4>6. ASSUME NEW k \in 2 .. Len(snapshots')
            PROVE  snapshots'[k].brief # snapshots'[k - 1].brief
        <5>1. /\ Len(snapshots) \in Nat /\ DOMAIN snapshots = 1 .. Len(snapshots)
              /\ snapshots # <<>> => CurrentBrief = snapshots[Len(snapshots)].brief
              /\ snapshots = <<>> => DOMAIN snapshots = {}
          BY <3>3, NewestBrief
        <5>2. CASE k \in 2 .. Len(snapshots)
          <6>1. k \in DOMAIN snapshots /\ k - 1 \in DOMAIN snapshots
            BY <5>1, <5>2
          <6> QED BY <3>5, <4>2, <5>2, <6>1
        <5>3. CASE k = Len(snapshots) + 1
          <6>1. k - 1 = Len(snapshots) /\ Len(snapshots) \in DOMAIN snapshots
            BY <5>1, <5>3
          <6>2. snapshots # <<>>
            BY <5>1, <6>1
          <6> QED BY <4>2, <4>3, <5>1, <5>3, <6>1, <6>2
        <5> QED BY <4>2, <5>1, <5>2, <5>3
      <4>7. workflow' = CurrentBrief'
        BY <4>1, <4>2, <4>3
      <4> QED BY <3>1, <4>4, <4>5, <4>6, <4>7
    <3>12. CASE ~SavesBrief(m, n) /\ ~Inserts(m, n)
      <4>1. UNCHANGED <<workflow, snapshots>>
        BY <3>1, <3>2, <3>12 DEF Effect, Compares, Opens, Pins, TakesUp,
           ReadsPin, ReadsDate, Matches, Loads, Drives, Ends, rows
      <4>2. CurrentBrief' = CurrentBrief
        BY <4>1 DEF CurrentBrief
      <4>3. ASSUME NEW t \in Sessions, t # s, NEW o, o = session'[t] PROVE Settled(o)'
        <5>1. o = session[t]
          BY <3>1, <4>3
        <5>2. Settled(o)
          BY <3>5, <5>1 DEF Settled
        <5> QED BY <4>1, <4>2, <5>2 DEF Settled
      <4>4. (\A t \in Sessions : ~Saving(t)') => workflow = CurrentBrief
        <5>1. CASE ~Saving(s)
          BY <3>5, <3>8, <5>1
        <5>2. CASE Saving(s) /\ ~Saving(s)'
          <6>1. Compares(m, n)
            BY <3>1, <3>2, <3>9, <3>12, <5>2 DEF Effect, Opens, Pins, TakesUp,
               ReadsPin, ReadsDate, Matches, Loads, Drives, Ends
          <6>2. CurrentBrief = m.brief /\ workflow = m.brief
            BY <3>6, <3>9, <5>2, <6>1 DEF Compares, Settled
          <6> QED BY <6>2
        <5> QED BY <5>1, <5>2
      <4>5. Settled(n)'
        <5>1. CASE Compares(m, n)
          BY <3>6, <4>1, <4>2, <5>1 DEF Compares, Sameness, Settled, Idle
        <5>2. CASE Opens(m, n)
          BY <3>6, <4>2, <5>2 DEF Opens, Sameness, Settled
        <5>3. CASE TakesUp(m, n)
          <6>1. workflow = CurrentBrief
            BY <3>5, <3>7, <3>9, <5>3 DEF TakesUp
          <6> QED BY <4>2, <5>3, <6>1 DEF TakesUp, Settled
        <5>4. CASE ReadsPin(m, n) \/ ReadsDate(m, n)
          BY <3>6, <4>2, <5>4 DEF ReadsPin, ReadsDate, Sameness, Settled
        <5>5. CASE Pins(m, n) \/ Matches(m, n) \/ Loads(m, n) \/ Drives(m, n) \/ Ends(m, n)
          BY <5>5 DEF Pins, Matches, Loads, Drives, Ends, Settled, Idle
        <5> QED BY <3>1, <3>2, <3>12, <5>1, <5>2, <5>3, <5>4, <5>5 DEF Effect
      <4> QED BY <3>1, <3>5, <4>1, <4>2, <4>3, <4>4, <4>5
    <3> QED BY <3>10, <3>11, <3>12
  <2> QED BY <1>2, <2>2, <2>3 DEF Next
<1> QED BY <1>1, <1>2

\* ledger.py, save_workflow(): as long as no process died inside it and no two
\* saves overlapped, the newest snapshot is the brief in effect and a snapshot
\* is only taken of a change.
THEOREM SnapshotsTrackBrief == Spec => []SnapshotsFollowBrief
<1>1. SaveInv => SnapshotsFollowBrief
  BY DEF SaveInv
<1> QED BY <1>1, InitTypes, NextTypes, InitSaves, NextSaves, PTL DEF Spec
-----------------------------------------------------------------------------
(* The brief of a run *)

\* Run r has its pin or is about to: nothing depends on the clock.
Pinnable(r) ==
    pins[r] # None \/ \E s \in Sessions : session[s].at = "pinning" /\ session[s].run = r

Known(r) == ~stepped \/ Pinnable(r)

\* What process m goes by is the brief its run was started with.
Faithful(m) ==
    /\ m.at = "dating" => (Pinnable(m.run) => CurrentBrief = started[m.run])
    /\ m.at = "matching" => started[m.run] \in {m.pinned, CurrentBrief}
    /\ m.at = "loading" => started[m.run] = CurrentBrief
    /\ m.at = "driving" =>
           started[m.run] = IF m.command = "graph" THEN CurrentBrief ELSE m.brief

\* The snapshot that was the newest when run r began.
Dated(r) ==
    \E k \in DOMAIN snapshots :
        /\ snapshots[k].brief = started[r] /\ snapshots[k].saved_at <= runs[r]
        /\ \A j \in DOMAIN snapshots : j > k => snapshots[j].saved_at > runs[r]

KeepInv ==
    (~torn /\ ~crossed) =>
        /\ ~stepped => \A r \in Runs : runs[r] # None => Dated(r)
        /\ \A r \in Runs : Known(r) =>
               /\ governed[r] \subseteq {started[r]}
               /\ \A s \in Sessions : session[s].run = r => Faithful(session[s])

LEMMA InitKeeps == Init => KeepInv
BY DEF Init, KeepInv, Faithful, Idle

\* While the clock only went forward, the lookup by date finds that snapshot.
LEMMA DatedBrief ==
    ASSUME TypeOK, DateInv, ~stepped, NEW r \in Runs, runs[r] # None, Dated(r)
    PROVE  BriefAt(runs[r]) = started[r]
<1>1. runs[r] \in Nat
  BY DEF TypeOK
<1>2. /\ Len(snapshots) \in Nat /\ DOMAIN snapshots = 1 .. Len(snapshots)
      /\ \A k \in DOMAIN snapshots : snapshots[k].saved_at \in Nat
  BY NewestBrief
<1>3. PICK k \in DOMAIN snapshots :
          /\ snapshots[k].brief = started[r] /\ snapshots[k].saved_at <= runs[r]
          /\ \A j \in DOMAIN snapshots : j > k => snapshots[j].saved_at > runs[r]
  BY DEF Dated
<1>4. PICK i \in DOMAIN snapshots :
          /\ snapshots[i].saved_at <= runs[r]
          /\ BriefAt(runs[r]) = snapshots[i].brief
          /\ \A j \in DOMAIN snapshots : snapshots[j].saved_at <= runs[r] =>
                 \/ snapshots[j].saved_at < snapshots[i].saved_at
                 \/ snapshots[j].saved_at = snapshots[i].saved_at /\ j <= i
  BY <1>1, <1>3, BriefAtNewest
<1>5. ~ (i > k)
  BY <1>1, <1>2, <1>3, <1>4
<1>6. ~ (i < k)
  <2>1. i < k => snapshots[i].saved_at < snapshots[k].saved_at
    BY DEF DateInv
  <2> QED BY <1>2, <1>3, <1>4, <2>1
<1>7. i = k
  BY <1>2, <1>5, <1>6
<1> QED BY <1>3, <1>4, <1>7

LEMMA NextKeeps ==
    ASSUME TypeInv, PinInv, DateInv, SaveInv, SaveInv', KeepInv, [Next]_vars
    PROVE  KeepInv'
<1>1. CASE UNCHANGED vars
  BY <1>1 DEF vars, rows, history, KeepInv, Known, Pinnable, Faithful, Dated, CurrentBrief
<1>2. CASE Next
  <2>1. crossed' = (crossed \/ Crossing')
    BY <1>2 DEF Next
  <2>2. CASE StepBack
    <3>1. stepped' /\ ~stepped /\ UNCHANGED <<rows, session, history, torn>>
      BY <2>2 DEF StepBack
    <3> SUFFICES ASSUME ~torn', ~crossed', NEW r \in Runs, Known(r)'
                 PROVE  /\ governed'[r] \subseteq {started'[r]}
                        /\ \A s \in Sessions : \A o : o = session'[s] /\ o.run = r => Faithful(o)'
      BY <3>1 DEF KeepInv, Faithful
    <3>2. ~torn /\ ~crossed /\ Known(r)
      BY <2>1, <3>1 DEF Known
    <3>3. governed[r] \subseteq {started[r]}
          /\ \A s \in Sessions : session[s].run = r => Faithful(session[s])
      BY <3>2 DEF KeepInv
    <3>4. ASSUME NEW s \in Sessions, NEW o, o = session'[s], o.run = r PROVE Faithful(o)'
      <4>1. Faithful(o)
        BY <3>1, <3>3, <3>4 DEF Faithful
      <4> QED BY <3>1, <4>1 DEF Faithful, Pinnable, CurrentBrief, rows, history
    <3> QED BY <3>1, <3>3, <3>4 DEF history
  <2>3. ASSUME NEW s \in Sessions, Step(s) PROVE KeepInv'
    <3>1. PICK n \in Session :
              /\ Effect(session[s], n) /\ UNCHANGED stepped
              /\ \A t \in Sessions : session'[t] = IF t = s THEN n ELSE session[t]
      BY <2>3, StepEffects
    <3>2. PICK m : m = session[s]
      OBVIOUS
    <3>3. /\ m \in Session /\ Holds(m) /\ TypeOK
          /\ None \notin Briefs /\ None \notin Nat /\ None \notin Runs
          /\ InHand(m) => m.run \in Runs /\ runs[m.run] # None
          /\ clock \in Nat /\ runs \in [Runs -> Nat \cup {None}]
          /\ pins \in [Runs -> Briefs \cup {None}]
          /\ started \in [Runs -> Briefs \cup {None}] /\ governed \in [Runs -> SUBSET Briefs]
      BY <3>2, PinsAssumption DEF TypeInv, TypeOK, InHand, Holds
    <3> SUFFICES ASSUME ~torn', ~crossed'
                 PROVE  /\ ~stepped' => \A r \in Runs : runs'[r] # None => Dated(r)'
                        /\ \A r \in Runs : Known(r)' =>
                               /\ governed'[r] \subseteq {started'[r]}
                               /\ \A t \in Sessions : \A o :
                                      o = session'[t] /\ o.run = r => Faithful(o)'
      BY DEF KeepInv, Faithful
    <3>4. ~torn /\ ~crossed /\ ~Crossing /\ ~Crossing'
      <4>1. ~torn
        BY <3>1 DEF Effect, SavesBrief, Compares, Inserts, Opens, Pins, TakesUp,
           ReadsPin, ReadsDate, Matches, Loads, Drives, Ends
      <4> QED BY <2>1, <4>1 DEF SaveInv
    <3>5. /\ \A t \in Sessions : Settled(session[t])
          /\ (\A t \in Sessions : ~Saving(t)) => workflow = CurrentBrief
          /\ ~stepped => \A r \in Runs : runs[r] # None => Dated(r)
          /\ \A r \in Runs : Known(r) =>
                 /\ governed[r] \subseteq {started[r]}
                 /\ \A t \in Sessions : session[t].run = r => Faithful(session[t])
      BY <3>4 DEF SaveInv, SnapshotsFollowBrief, KeepInv
    <3>6. Settled(m)
      BY <3>2, <3>5 DEF Settled
    <3>7. Opens(m, n) => runs[m.run] = None
      BY <3>2, <3>3 DEF Opens, Holds, PinInv, StartedAlone, Starting
    <3>8. ~Inserts(m, n) => CurrentBrief' = CurrentBrief
      BY <3>1, <3>2 DEF Effect, SavesBrief, Compares, Opens, Pins, TakesUp,
         ReadsPin, ReadsDate, Matches, Loads, Drives, Ends, rows, CurrentBrief
    <3>9. ~stepped' => \A r \in Runs : runs'[r] # None => Dated(r)'
      <4> SUFFICES ASSUME ~stepped', NEW r \in Runs, runs'[r] # None
                   PROVE  Dated(r)'
        OBVIOUS
      <4>1. CASE ~Inserts(m, n) /\ ~Opens(m, n)
        <5>1. UNCHANGED <<snapshots, runs, started, stepped>>
          BY <3>1, <3>2, <4>1 DEF Effect, SavesBrief, Compares, Pins, TakesUp,
             ReadsPin, ReadsDate, Matches, Loads, Drives, Ends, rows, history
        <5>2. Dated(r)
          BY <3>5, <5>1
        <5> QED BY <5>1, <5>2 DEF Dated
      <4>2. CASE Inserts(m, n)
        <5>1. /\ m.brief \in Briefs /\ clock' = clock + 1 /\ clock' \in Nat
              /\ snapshots' = Append(snapshots, [brief |-> m.brief, saved_at |-> clock'])
              /\ UNCHANGED <<runs, started, stepped>>
          BY <3>1, <3>3, <4>2 DEF Inserts, Holds, history
        <5>2. /\ DOMAIN snapshots' = 1 .. Len(snapshots) + 1
              /\ \A k \in DOMAIN snapshots : snapshots'[k] = snapshots[k]
              /\ snapshots'[Len(snapshots) + 1].saved_at = clock'
          BY <3>3, <5>1, InsertedBrief
        <5>3. Len(snapshots) \in Nat /\ DOMAIN snapshots = 1 .. Len(snapshots)
          BY <3>3, NewestBrief
        <5>4. runs[r] \in Nat /\ runs[r] <= clock
          BY <3>3, <5>1 DEF DateInv
        <5>5. PICK k \in DOMAIN snapshots :
                  /\ snapshots[k].brief = started[r] /\ snapshots[k].saved_at <= runs[r]
                  /\ \A j \in DOMAIN snapshots : j > k => snapshots[j].saved_at > runs[r]
          BY <3>5, <5>1 DEF Dated
        <5>6. \A j \in DOMAIN snapshots' : j > k => snapshots'[j].saved_at > runs[r]
          <6> SUFFICES ASSUME NEW j \in DOMAIN snapshots', j > k
                       PROVE  snapshots'[j].saved_at > runs[r]
            OBVIOUS
          <6>1. CASE j \in DOMAIN snapshots
            BY <5>2, <5>5, <6>1
          <6>2. CASE j = Len(snapshots) + 1
            BY <3>3, <5>1, <5>2, <5>4, <6>2
          <6> QED BY <5>2, <5>3, <6>1, <6>2
        <5>7. k \in DOMAIN snapshots' /\ snapshots'[k] = snapshots[k]
          BY <5>2, <5>3
        <5> QED BY <5>1, <5>5, <5>6, <5>7 DEF Dated
      <4>3. CASE Opens(m, n)
        <5>1. /\ m.run \in Runs /\ m.brief \in Briefs /\ m.at = "opening"
              /\ clock' = clock + 1 /\ UNCHANGED <<snapshots, stepped>>
              /\ \A q \in Runs : IF q = m.run THEN runs'[q] = clock' /\ started'[q] = m.brief
                                 ELSE runs'[q] = runs[q] /\ started'[q] = started[q]
          BY <3>1, <3>3, <4>3 DEF Opens
        <5>2. CASE r # m.run
          <6>1. Dated(r) /\ runs'[r] = runs[r] /\ started'[r] = started[r]
            BY <3>5, <5>1, <5>2
          <6> QED BY <5>1, <6>1 DEF Dated
        <5>3. CASE r = m.run
          <6>1. snapshots # <<>> /\ CurrentBrief = m.brief
            BY <3>2, <3>6, <5>1 DEF DateInv, Settled
          <6>2. PICK k : k = Len(snapshots)
            OBVIOUS
          <6>3. /\ k \in DOMAIN snapshots /\ snapshots[k].brief = m.brief
                /\ \A j \in DOMAIN snapshots : ~ (j > k)
                /\ snapshots[k].saved_at \in Nat
            BY <3>3, <6>1, <6>2, NewestBrief
          <6>4. snapshots[k].saved_at <= clock'
            BY <3>3, <5>1, <6>3 DEF DateInv
          <6> QED BY <5>1, <5>3, <6>3, <6>4 DEF Dated
        <5> QED BY <5>2, <5>3
      <4> QED BY <4>1, <4>2, <4>3
    <3>10. ASSUME NEW r \in Runs, Known(r)', Opens(m, n), r = m.run
           PROVE  /\ governed'[r] \subseteq {started'[r]}
                  /\ \A t \in Sessions : \A o : o = session'[t] /\ o.run = r => Faithful(o)'
      <4>1. governed'[r] = {} /\ runs[r] = None
        BY <3>7, <3>10 DEF Opens, DateInv
      <4>2. ASSUME NEW t \in Sessions, NEW o, o = session'[t], o.run = r PROVE Faithful(o)'
        <5>1. CASE t = s
          BY <3>1, <3>10, <4>2, <5>1 DEF Opens, Faithful
        <5>2. CASE t # s
          <6>1. o = session[t]
            BY <3>1, <4>2, <5>2
          <6>2. ~InHand(o)
            BY <4>1, <4>2, <6>1 DEF TypeInv
          <6> QED BY <6>2 DEF InHand, Faithful
        <5> QED BY <5>1, <5>2
      <4> QED BY <4>1, <4>2
    <3>11. ASSUME NEW r \in Runs, Known(r)', ~ (Opens(m, n) /\ r = m.run)
           PROVE  /\ governed'[r] \subseteq {started'[r]}
                  /\ \A t \in Sessions : \A o : o = session'[t] /\ o.run = r => Faithful(o)'
      <4>1. started'[r] = started[r] /\ runs'[r] = runs[r]
        <5>1. CASE Opens(m, n)
          BY <3>3, <3>11, <5>1 DEF Opens
        <5>2. CASE ~Opens(m, n)
          BY <3>1, <3>2, <5>2 DEF Effect, SavesBrief, Compares, Inserts, Pins, TakesUp,
             ReadsPin, ReadsDate, Matches, Loads, Drives, Ends, rows, history
        <5> QED BY <5>1, <5>2
      <4>2. Pinnable(r)' => Pinnable(r)
        <5>1. CASE \E t \in Sessions : session'[t].at = "pinning" /\ session'[t].run = r
          <6>1. PICK t \in Sessions : session'[t].at = "pinning" /\ session'[t].run = r
            BY <5>1
          <6>2. CASE t = s
            BY <3>1, <3>2, <3>11, <6>1, <6>2 DEF Effect, SavesBrief, Compares, Inserts,
               Opens, Pins, TakesUp, ReadsPin, ReadsDate, Matches, Loads, Drives, Ends,
               Sameness, Idle
          <6>3. CASE t # s
            BY <3>1, <6>1, <6>3 DEF Pinnable
          <6> QED BY <6>2, <6>3
        <5>2. CASE pins'[r] # None
          <6>1. CASE Pins(m, n) /\ r = m.run
            BY <3>2, <6>1 DEF Pins, Pinnable
          <6>2. CASE Pins(m, n) /\ r # m.run
            BY <3>3, <5>2, <6>2 DEF Pins, Pinnable
          <6>3. CASE ~Pins(m, n)
            <7>1. UNCHANGED pins
              BY <3>1, <3>2, <6>3 DEF Effect, SavesBrief, Compares, Inserts, Opens, TakesUp,
                 ReadsPin, ReadsDate, Matches, Loads, Drives, Ends, rows
            <7> QED BY <5>2, <7>1 DEF Pinnable
          <6> QED BY <6>1, <6>2, <6>3
        <5> QED BY <5>1, <5>2 DEF Pinnable
      <4>3. Known(r)
        BY <3>1, <3>11, <4>2 DEF Known
      <4>4. /\ governed[r] \subseteq {started[r]}
            /\ \A t \in Sessions : \A o : o = session[t] /\ o.run = r => Faithful(o)
        BY <3>5, <4>3 DEF Faithful
      <4>5. m.run = r => Faithful(m)
        BY <3>2, <4>4
      <4>6. ASSUME NEW t \in Sessions, t # s, NEW o, o = session'[t], o.run = r
            PROVE  Faithful(o)'
        <5>1. o = session[t] /\ Faithful(o)
          BY <3>1, <4>4, <4>6
        <5>2. CASE ~Inserts(m, n)
          <6>1. CurrentBrief' = CurrentBrief
            BY <3>8, <5>2
          <6> QED BY <4>1, <4>2, <4>6, <5>1, <6>1 DEF Faithful
        <5>3. CASE Inserts(m, n)
          <6>1. ~Exposed(t)
            BY <3>2, <3>4, <4>6, <5>3 DEF Inserts, Crossing, Saving
          <6>2. o.at = "driving" => o.command # "graph"
            BY <5>1, <6>1 DEF Exposed, At
          <6>3. o.at \notin {"dating", "matching", "loading"}
            BY <5>1, <6>1 DEF Exposed
          <6> QED BY <4>1, <4>6, <5>1, <6>2, <6>3 DEF Faithful
        <5> QED BY <5>2, <5>3
      <4>7. (m.at = "loading" \/ (m.at = "driving" /\ m.command = "graph"))
                => workflow = CurrentBrief
        <5> SUFFICES ASSUME m.at = "loading" \/ (m.at = "driving" /\ m.command = "graph")
                     PROVE  workflow = CurrentBrief
          OBVIOUS
        <5>1. Exposed(s) /\ ~Saving(s)
          BY <3>2 DEF Exposed, Saving, At
        <5>2. \A t \in Sessions : ~Saving(t)
          BY <3>4, <5>1 DEF Crossing
        <5> QED BY <3>5, <5>2
      <4>8. governed'[r] \subseteq {started'[r]}
        <5>1. CASE ~Drives(m, n) \/ r # m.run
          <6>1. governed'[r] = governed[r]
            <7>1. CASE Drives(m, n)
              BY <3>3, <5>1, <7>1 DEF Drives
            <7>2. CASE ~Drives(m, n)
              BY <3>1, <3>2, <7>2 DEF Effect, SavesBrief, Compares, Inserts, Opens, Pins,
                 TakesUp, ReadsPin, ReadsDate, Matches, Loads, Ends, history
            <7> QED BY <7>1, <7>2
          <6> QED BY <4>1, <4>4, <6>1
        <5>2. CASE Drives(m, n) /\ r = m.run
          <6>1. PICK b : b = IF m.command = "graph" THEN workflow ELSE m.brief
            OBVIOUS
          <6>2. b = started[r]
            BY <4>5, <4>7, <5>2, <6>1 DEF Drives, Faithful
          <6>3. governed'[r] = governed[r] \cup {b}
            BY <3>3, <5>2, <6>1 DEF Drives
          <6> QED BY <4>1, <4>4, <6>2, <6>3
        <5> QED BY <5>1, <5>2
      <4>9. ASSUME n.run = r PROVE Faithful(n)'
        <5>1. CASE n.at \notin {"dating", "matching", "loading", "driving"}
          BY <5>1 DEF Faithful
        <5>2. CASE n.at \in {"dating", "matching", "loading", "driving"}
          <6>1. ~Inserts(m, n)
            BY <5>2 DEF Inserts, Idle
          <6>2. CurrentBrief' = CurrentBrief
            BY <3>8, <6>1
          <6>3. CASE Pins(m, n)
            <7>1. Starting(m) /\ m.at = "pinning" /\ n.run = m.run /\ n.brief = m.brief
                  /\ n.at = "driving"
              BY <3>3, <6>3 DEF Pins, Sameness, Holds, Starting
            <7>2. started[r] = m.brief
              BY <3>2, <4>9, <7>1 DEF PinInv, StartedAlone
            <7>3. CurrentBrief = m.brief
              BY <3>6, <7>1 DEF Settled
            <7> QED BY <4>1, <4>9, <6>2, <7>1, <7>2, <7>3 DEF Faithful
          <6>4. CASE ReadsPin(m, n)
            <7>1. /\ n.pinned = pins[r] /\ UNCHANGED pins
                  /\ n.at = IF n.pinned = None THEN "dating" ELSE "matching"
              BY <4>9, <6>4 DEF ReadsPin, rows
            <7>2. pins[r] # None => pins[r] = started[r]
              BY DEF PinInv, PinNamesTheStart
            <7>3. ASSUME pins[r] = None, Pinnable(r) PROVE CurrentBrief = started[r]
              <8>1. PICK u \in Sessions : session[u].at = "pinning" /\ session[u].run = r
                BY <7>3 DEF Pinnable
              <8>2. Starting(session[u])
                BY <8>1 DEF TypeInv, Holds, Starting
              <8>3. started[r] = session[u].brief
                BY <8>1, <8>2 DEF PinInv, StartedAlone
              <8>4. Settled(session[u])
                BY <3>5
              <8> QED BY <8>1, <8>3, <8>4 DEF Settled
            <7> QED BY <4>1, <4>2, <4>9, <6>2, <7>1, <7>2, <7>3 DEF Faithful
          <6>5. CASE ReadsDate(m, n)
            <7>1. /\ n.at = "matching" /\ m.at = "dating" /\ m.run = r
                  /\ n.pinned = BriefAt(runs[r])
              BY <4>9, <6>5 DEF ReadsDate, Sameness
            <7>2. started[r] \in {n.pinned, CurrentBrief}
              <8>1. CASE ~stepped
                <9>1. Dated(r) /\ runs[r] # None
                  BY <3>3, <3>5, <7>1, <8>1 DEF InHand
                <9> QED BY <3>3, <7>1, <8>1, <9>1, DatedBrief
              <8>2. CASE Pinnable(r)
                BY <4>5, <7>1, <8>2 DEF Faithful
              <8> QED BY <4>3, <8>1, <8>2 DEF Known
            <7> QED BY <4>1, <4>9, <6>2, <7>1, <7>2 DEF Faithful
          <6>6. CASE Matches(m, n)
            <7>1. /\ m.at = "matching" /\ m.run = r /\ Sameness(m, n)
                  /\ m.pinned = CurrentBrief
                  /\ n.at = IF n.command = "run" THEN "loading" ELSE "driving"
              BY <4>9, <5>2, <6>6 DEF Matches, Sameness
            <7>2. started[r] = CurrentBrief
              BY <4>5, <7>1 DEF Faithful
            <7>3. n.at = "driving" => n.command = "graph" \/ n.brief = CurrentBrief
              BY <3>3, <3>6, <7>1 DEF Holds, Settled, Sameness
            <7> QED BY <4>1, <4>9, <6>2, <7>1, <7>2, <7>3 DEF Faithful
          <6>7. CASE Loads(m, n)
            <7>1. /\ m.at = "loading" /\ m.run = r /\ n.at = "driving" /\ n.brief = workflow
              BY <4>9, <6>7 DEF Loads
            <7>2. started[r] = CurrentBrief /\ workflow = CurrentBrief
              BY <4>5, <4>7, <7>1 DEF Faithful
            <7> QED BY <4>1, <4>9, <6>2, <7>1, <7>2 DEF Faithful
          <6>8. CASE Drives(m, n)
            <7>1. n = m /\ Faithful(m) /\ m.at = "driving"
              BY <4>5, <4>9, <6>8 DEF Drives
            <7> QED BY <4>1, <4>9, <6>2, <7>1 DEF Faithful
          <6> QED BY <3>1, <3>2, <5>2, <6>1, <6>3, <6>4, <6>5, <6>6, <6>7, <6>8
                  DEF Effect, SavesBrief, Compares, Opens, TakesUp, Ends, Idle
        <5> QED BY <5>1, <5>2
      <4> QED BY <3>1, <4>6, <4>8, <4>9
    <3> QED BY <3>9, <3>10, <3>11
  <2> QED BY <1>2, <2>2, <2>3 DEF Next
<1> QED BY <1>1, <1>2

\* cli.py, _refuse_if_brief_drifted(): a run is only moved under the brief it was
\* started with, as long as saves are whole and overlap nothing that depends on
\* them; a run that has its pin does not need the clock for that.
THEOREM RunsStayUnderTheirBrief == Spec => []RunsKeepTheirBrief
<1>1. KeepInv => RunsKeepTheirBrief
  BY DEF KeepInv, RunsKeepTheirBrief, Known, Pinnable
<1>2. Init => TypeInv /\ PinInv /\ DateInv /\ SaveInv /\ KeepInv
  BY InitTypes, InitPins, InitDates, InitSaves, InitKeeps
<1>3. TypeInv /\ PinInv /\ DateInv /\ SaveInv /\ KeepInv /\ [Next]_vars
      => (TypeInv /\ PinInv /\ DateInv /\ SaveInv /\ KeepInv)'
  BY NextTypes, NextPins, NextDates, NextSaves, NextKeeps
<1> QED BY <1>1, <1>2, <1>3, PTL DEF Spec
=============================================================================
