------------------------ MODULE AgentMaturity_proofs ------------------------
(***************************************************************************)
(* What holds of a package whatever commands run on it, for any number of  *)
(* programs, any briefs, cases and runs, and wherever a program dies.      *)
(***************************************************************************)
EXTENDS AgentMaturity, SequenceTheorems, FiniteSetTheorems, TLAPS

-----------------------------------------------------------------------------
(* The files and the audit trail *)

Ladder == {"draft", "tested", "validated"}
Rows   == [from : {"draft", "tested"}, to : {"tested", "validated"}]

\* The maturities a file may claim: the one needing no row, and the recorded.
Granted == {"draft"} \cup {m \in Ladder : Recorded(m)}

\* A text of file f that claims nothing beyond the maturities in allowed.
Backed(f, text, allowed) ==
    Readable(text) =>
        /\ f \in {Skill, Capsule, Manifest} =>
              "maturity" \in DOMAIN text /\ text.maturity \in allowed
        /\ f = Evals =>
              "overall" \in DOMAIN text /\ (text.overall = "pass" => "tested" \in allowed)
        /\ f = Log => text.promotions \in Seq(allowed \ {"draft"})

AllBacked(files, allowed) ==
    /\ DOMAIN files = FileNames
    /\ \A f \in FileNames : Backed(f, files[f], allowed)

\* One step of the ladder from a maturity that may be claimed.
Climbs(from, to, allowed) ==
    /\ from \in allowed \ {"validated"}
    /\ to = NextMaturity(from)

\* What a program holds where it stands.
Holds(s, allowed) ==
    /\ s.at \in {"idle", "stage", "commit", "generate"}
    /\ s.at = "stage" => Climbs(s.from, s.to, allowed)
    /\ s.at = "commit" =>
          /\ DOMAIN s = {"at", "row", "staged", "todo"}
          /\ s.row \in Rows /\ Climbs(s.row.from, s.row.to, allowed)
          /\ AllBacked(s.staged, allowed \cup {s.row.to})
          /\ s.todo \in Seq(FileNames \cup {"row"}) /\ s.todo # <<>>
          /\ \A i \in DOMAIN s.todo : s.todo[i] = "row" => i = 1
          /\ Head(s.todo) # "row" => s.row.to \in allowed
    /\ s.at = "generate" =>
          /\ DOMAIN s = {"at", "brief", "todo"}
          /\ s.todo \in Seq(FileNames) /\ s.todo # <<>>

SessionsHold == DOMAIN session = Programs /\ \A p \in Programs : Holds(session[p], Granted)

RowsClimb ==
    \A i \in DOMAIN promotions :
        /\ promotions[i].to = NextMaturity(promotions[i].from)
        /\ promotions[i].from # "draft" =>
              \E j \in 1..(i - 1) : promotions[j].to = promotions[i].from

TrailInv ==
    /\ AllBacked(package, Granted)
    /\ promotions \in Seq(Rows) /\ RowsClimb
    /\ SessionsHold

LEMMA FileNamesAre == FileNames = {Skill, Capsule, Evals, Log, Manifest}
BY DEF FileNames, PackageFiles

LEMMA FilesDiffer ==
    /\ Skill # Capsule /\ Skill # Evals /\ Skill # Log /\ Skill # Manifest
    /\ Capsule # Evals /\ Capsule # Log /\ Capsule # Manifest
    /\ Evals # Log /\ Evals # Manifest /\ Log # Manifest
    /\ "row" \notin FileNames
BY DEF FileNames, PackageFiles, Skill, Capsule, Evals, Log, Manifest

\* More may always be claimed.
LEMMA BackedGrows ==
    ASSUME NEW f, NEW text, NEW a, NEW b, a \subseteq b, Backed(f, text, a)
    PROVE  Backed(f, text, b)
<1>1. ASSUME NEW q \in Seq(a \ {"draft"}) PROVE q \in Seq(b \ {"draft"})
  BY <1>1, a \ {"draft"} \subseteq b \ {"draft"}, SeqMonotonic
<1> QED BY <1>1 DEF Backed

LEMMA AllBackedGrows ==
    ASSUME NEW files, NEW a, NEW b, a \subseteq b, AllBacked(files, a)
    PROVE  AllBacked(files, b)
BY BackedGrows DEF AllBacked

LEMMA InvGivesTrail == TrailInv => FilesFollowTrail
<1> SUFFICES ASSUME TrailInv PROVE FilesFollowTrail
  OBVIOUS
<1>1. ASSUME NEW f \in {Skill, Capsule, Manifest}, Readable(package[f]),
             package[f].maturity # "draft"
      PROVE  Recorded(package[f].maturity)
  BY <1>1, FileNamesAre DEF TrailInv, AllBacked, Backed, Granted
<1>2. Readable(package[Evals]) /\ package[Evals].overall = "pass" => Recorded("tested")
  BY FileNamesAre DEF TrailInv, AllBacked, Backed, Granted
<1>3. ASSUME Readable(package[Log]), NEW i \in DOMAIN package[Log].promotions
      PROVE  Recorded(package[Log].promotions[i])
  <2>1. package[Log].promotions \in Seq(Granted \ {"draft"})
    BY <1>3, FileNamesAre DEF TrailInv, AllBacked, Backed
  <2>2. package[Log].promotions[i] \in Granted \ {"draft"}
    BY <1>3, <2>1, LenProperties, ElementOfSeq
  <2> QED BY <2>2 DEF Granted
<1> QED BY <1>1, <1>2, <1>3 DEF FilesFollowTrail, TrailInv, RowsClimb
-----------------------------------------------------------------------------
(* What the commands write *)

LEMMA NextMaturityIs ==
    ASSUME NEW from, NEW to, NEW allowed, allowed \subseteq Ladder, Climbs(from, to, allowed)
    PROVE  [from |-> from, to |-> to] \in Rows /\ to \in {"tested", "validated"}
BY DEF Climbs, Ladder, Rows, NextMaturity

\* A generation writes drafts.
LEMMA GeneratedBacked ==
    ASSUME NEW brief, NEW f \in FileNames, NEW allowed, "draft" \in allowed
    PROVE  Backed(f, Generated(brief)[f], allowed)
<1>1. CASE f \in {Skill, Manifest}
  BY <1>1, FilesDiffer DEF Backed, Generated
<1>2. CASE f = Capsule
  BY <1>2, FilesDiffer DEF Backed, Generated, BuildCapsule
<1>3. CASE f = Evals
  BY <1>3, FilesDiffer DEF Backed, Generated
<1>4. CASE f = Log
  <2>1. <<>> \in Seq(allowed \ {"draft"})
    BY EmptySeq
  <2>2. Generated(brief)[f] = [promotions |-> <<>>]
    BY <1>4, FilesDiffer DEF Generated
  <2> QED BY <1>4, <2>1, <2>2, FilesDiffer DEF Backed
<1> QED BY <1>1, <1>2, <1>3, <1>4, FileNamesAre

\* A promotion stages nothing that its own row would not cover.
LEMMA StagedBacked ==
    ASSUME AllBacked(package, Granted), NEW old, NEW new \in {"tested", "validated"},
           new = "validated" => "tested" \in Granted,
           Readable(package[Manifest]), Readable(package[Evals])
    PROVE  AllBacked(Staged(old, new), Granted \cup {new})
<1> DEFINE allowed == Granted \cup {new}
<1>0. DOMAIN Staged(old, new) = FileNames
  BY DEF Staged
<1>1. ASSUME NEW f \in {Skill, Capsule}
      PROVE  Backed(f, Staged(old, new)[f], allowed)
  <2>1. Staged(old, new)[f] = Declared(package[f], old, new)
    BY FilesDiffer, FileNamesAre DEF Staged
  <2>2. Backed(f, package[f], Granted)
    BY FileNamesAre DEF AllBacked
  <2> QED BY <2>1, <2>2, FilesDiffer DEF Backed, Declared
<1>2. Backed(Manifest, Staged(old, new)[Manifest], allowed)
  <2>1. Staged(old, new)[Manifest] = [package[Manifest] EXCEPT !.maturity = new]
    BY FilesDiffer, FileNamesAre DEF Staged
  <2>2. Backed(Manifest, package[Manifest], Granted)
    BY FileNamesAre DEF AllBacked
  <2> QED BY <2>1, <2>2, FilesDiffer DEF Backed
<1>3. Backed(Evals, Staged(old, new)[Evals], allowed)
  <2>1. Staged(old, new)[Evals] = [package[Evals] EXCEPT !.overall = "pass"]
    BY FilesDiffer, FileNamesAre DEF Staged
  <2>2. Backed(Evals, package[Evals], Granted)
    BY FileNamesAre DEF AllBacked
  <2> QED BY <2>1, <2>2, FilesDiffer DEF Backed
<1>4. Backed(Log, Staged(old, new)[Log], allowed)
  <2>1. Staged(old, new)[Log] = [promotions |-> Append(LogEntries(package[Log]), new)]
    BY FilesDiffer, FileNamesAre DEF Staged
  <2>2. LogEntries(package[Log]) \in Seq(Granted \ {"draft"})
    BY EmptySeq, FileNamesAre DEF AllBacked, Backed, LogEntries
  <2>3. LogEntries(package[Log]) \in Seq(allowed \ {"draft"})
    BY <2>2, Granted \ {"draft"} \subseteq allowed \ {"draft"}, SeqMonotonic
  <2>4. Append(LogEntries(package[Log]), new) \in Seq(allowed \ {"draft"})
    BY <2>3, new \in allowed \ {"draft"}, AppendProperties
  <2> HIDE DEF allowed
  <2> QED BY <2>1, <2>4, FilesDiffer DEF Backed
<1> QED BY <1>0, <1>1, <1>2, <1>3, <1>4, FileNamesAre DEF AllBacked

LEMMA HeadIsFirst ==
    ASSUME NEW S, NEW s \in Seq(S), s # <<>>
    PROVE  Head(s) = s[1] /\ Len(s) \in Nat \ {0}
<1>1. Len(s) \in Nat \ {0}
  BY EmptySeq
<1>2. SubSeq(s, 1, Len(s)) = s
  BY SubSeqFull
<1>3. 1 \in 1..Len(s) /\ Len(s) \in 1..Len(s)
  BY <1>1
<1> QED BY <1>1, <1>2, <1>3, HeadTailOfSubSeq

\* The row comes first, and then only files.
LEMMA CommitIs ==
    /\ Commit \in Seq(FileNames \cup {"row"}) /\ Commit # <<>> /\ Head(Commit) = "row"
    /\ \A i \in DOMAIN Commit : Commit[i] = "row" => i = 1
<1> DEFINE S == FileNames \cup {"row"}
<1>1. <<"row">> \in Seq(S) /\ ReplaceOrder \in Seq(S)
  BY FileNamesAre DEF ReplaceOrder
<1>2. \A i \in 1..5 : ReplaceOrder[i] # "row"
  BY FilesDiffer, FileNamesAre DEF ReplaceOrder
<1>3. /\ Commit \in Seq(S) /\ Len(Commit) = 6
      /\ \A i \in 1..6 : Commit[i] = IF i <= 1 THEN "row" ELSE ReplaceOrder[i - 1]
  <2>1. Len(ReplaceOrder) = 5 /\ Len(<<"row">>) = 1 /\ <<"row">>[1] = "row"
    BY DEF ReplaceOrder
  <2> HIDE DEF S
  <2>2. /\ Commit \in Seq(S) /\ Len(Commit) = Len(<<"row">>) + Len(ReplaceOrder)
        /\ \A i \in 1..Len(<<"row">>) + Len(ReplaceOrder) :
              Commit[i] = IF i <= Len(<<"row">>) THEN <<"row">>[i]
                          ELSE ReplaceOrder[i - Len(<<"row">>)]
    BY <1>1, ConcatProperties DEF Commit
  <2>3. \A i \in 1..6 : i <= 1 => <<"row">>[i] = "row"
    BY <2>1
  <2> QED BY <2>1, <2>2, <2>3
<1>4. DOMAIN Commit = 1..6
  BY <1>3, LenProperties
<1>5. Commit # <<>>
  <2>1. <<"row">> # <<>>
    OBVIOUS
  <2> HIDE DEF S
  <2> QED BY <1>1, <2>1, ConcatEqualIffEmpty DEF Commit
<1>6. Head(Commit) = "row"
  BY <1>3, <1>5, HeadIsFirst
<1> QED BY <1>2, <1>3, <1>4, <1>5, <1>6
-----------------------------------------------------------------------------
(* The steps *)

LEMMA NotEmpty ==
    ASSUME NEW S, NEW q \in Seq(S), Len(q) # 0
    PROVE  q # <<>>
BY EmptySeq

\* Rows are only added, so what was allowed stays allowed.
LEMMA HoldsGrows ==
    ASSUME NEW s, NEW a, NEW b, Holds(s, a), a \subseteq b
    PROVE  Holds(s, b)
<1>1. ASSUME s.at = "commit" PROVE AllBacked(s.staged, b \cup {s.row.to})
  <2>1. AllBacked(s.staged, a \cup {s.row.to})
    BY <1>1 DEF Holds
  <2> QED BY <2>1, AllBackedGrows
<1> QED BY <1>1 DEF Holds, Climbs

LEMMA IdleHolds == ASSUME NEW a PROVE Holds(Idle, a)
BY DEF Holds, Idle

\* What remains after a write, once the row is there.
LEMMA RestHolds ==
    ASSUME NEW s, NEW a, Holds(s, a), s.at \in {"commit", "generate"},
           s.at = "commit" => s.row.to \in a, Len(s.todo) # 1
    PROVE  Holds([s EXCEPT !.todo = Tail(@)], a)
<1> DEFINE rest == [s EXCEPT !.todo = Tail(@)]
<1>1. ASSUME NEW S, s.todo \in Seq(S), s.todo # <<>>
      PROVE  /\ Tail(s.todo) \in Seq(S) /\ Tail(s.todo) # <<>>
             /\ Head(Tail(s.todo)) = s.todo[2]
             /\ DOMAIN s.todo = 1..Len(s.todo)
             /\ DOMAIN Tail(s.todo) = 1..(Len(s.todo) - 1)
             /\ Len(s.todo) \in Nat /\ Len(s.todo) > 1
             /\ \A i \in 1..(Len(s.todo) - 1) : Tail(s.todo)[i] = s.todo[i + 1]
  <2>1. Len(s.todo) \in Nat \ {0}
    BY <1>1, HeadIsFirst
  <2>2. /\ Tail(s.todo) \in Seq(S) /\ Len(Tail(s.todo)) = Len(s.todo) - 1
        /\ \A i \in 1..Len(Tail(s.todo)) : Tail(s.todo)[i] = s.todo[i + 1]
    BY <1>1, HeadTailProperties
  <2>3. Len(Tail(s.todo)) # 0
    BY <2>1, <2>2
  <2>4. Tail(s.todo) # <<>>
    BY <2>2, <2>3, NotEmpty
  <2>5. Head(Tail(s.todo)) = Tail(s.todo)[1]
    BY <2>2, <2>4, HeadIsFirst
  <2>6. DOMAIN s.todo = 1..Len(s.todo) /\ DOMAIN Tail(s.todo) = 1..Len(Tail(s.todo))
    BY <1>1, <2>2, LenProperties
  <2> QED BY <2>1, <2>2, <2>4, <2>5, <2>6
<1>2. CASE s.at = "commit"
  <2>1. /\ rest.at = "commit" /\ rest.row = s.row /\ rest.staged = s.staged
        /\ rest.todo = Tail(s.todo) /\ DOMAIN rest = DOMAIN s
    BY <1>2 DEF Holds
  <2>2. rest.todo \in Seq(FileNames \cup {"row"}) /\ rest.todo # <<>>
    BY <1>1, <1>2, <2>1 DEF Holds
  <2>3. \A i \in DOMAIN rest.todo : rest.todo[i] # "row"
    BY <1>1, <1>2, <2>1 DEF Holds
  <2> HIDE DEF rest
  <2> QED BY <1>2, <2>1, <2>2, <2>3 DEF Holds
<1>3. CASE s.at = "generate"
  <2>1. rest.at = "generate" /\ rest.todo = Tail(s.todo) /\ DOMAIN rest = DOMAIN s
    BY <1>3 DEF Holds
  <2> QED BY <1>1, <1>3, <2>1 DEF Holds
<1> QED BY <1>2, <1>3

\* One program moves to a place where it holds what it must.
LEMMA SessionStep ==
    ASSUME SessionsHold, NEW p \in Programs, NEW s, Holds(s, Granted'),
           session' = [session EXCEPT ![p] = s], Granted \subseteq Granted'
    PROVE  SessionsHold'
<1>1. ASSUME NEW q \in Programs PROVE Holds(session'[q], Granted')
  <2>1. CASE q = p
    BY <2>1 DEF SessionsHold
  <2>2. CASE q # p
    <3>1. session'[q] = session[q]
      BY <2>2 DEF SessionsHold
    <3>2. Holds(session[q], Granted)
      BY DEF SessionsHold
    <3> QED BY <3>1, <3>2, HoldsGrows
  <2> QED BY <2>1, <2>2
<1> QED BY <1>1 DEF SessionsHold

LEMMA WrittenHolds ==
    ASSUME SessionsHold, NEW p \in Programs, session[p].at \in {"commit", "generate"},
           Granted \subseteq Granted',
           session[p].at = "commit" => session[p].row.to \in Granted',
           Written(p)
    PROVE  SessionsHold'
<1>1. Holds(session[p], Granted')
  BY HoldsGrows DEF SessionsHold
<1>2. CASE Len(session[p].todo) = 1
  <2>1. session' = [session EXCEPT ![p] = Idle]
    BY <1>2 DEF Written, Leave
  <2> QED BY <2>1, IdleHolds, SessionStep
<1>3. CASE Len(session[p].todo) # 1
  <2>1. session' = [session EXCEPT ![p] = [session[p] EXCEPT !.todo = Tail(@)]]
    BY <1>3 DEF Written, SessionsHold
  <2>2. Holds([session[p] EXCEPT !.todo = Tail(@)], Granted')
    BY <1>1, <1>3, RestHolds
  <2> HIDE DEF Holds
  <2> QED BY <2>1, <2>2, SessionStep
<1> QED BY <1>2, <1>3
\* A row climbs from what is recorded, so appending it keeps the rows climbing.
LEMMA RowAdded ==
    ASSUME promotions \in Seq(Rows), RowsClimb, NEW row \in Rows,
           Climbs(row.from, row.to, Granted), promotions' = Append(promotions, row)
    PROVE  /\ promotions' \in Seq(Rows) /\ RowsClimb'
           /\ Granted \subseteq Granted' /\ row.to \in Granted'
<1>1. /\ promotions' \in Seq(Rows)
      /\ Len(promotions) \in Nat /\ Len(promotions') = Len(promotions) + 1
      /\ \A i \in 1..Len(promotions) : promotions'[i] = promotions[i]
      /\ promotions'[Len(promotions) + 1] = row
      /\ DOMAIN promotions = 1..Len(promotions)
      /\ DOMAIN promotions' = 1..(Len(promotions) + 1)
  BY AppendProperties, LenProperties
<1>2. \A m : Recorded(m) => Recorded(m)'
  BY <1>1 DEF Recorded
<1>3. Recorded(row.to)'
  BY <1>1 DEF Recorded
<1>4. Granted \subseteq Granted' /\ row.to \in Granted'
  BY <1>2, <1>3 DEF Granted, Ladder, Rows
<1>5. ASSUME NEW i \in DOMAIN promotions'
      PROVE  /\ promotions'[i].to = NextMaturity(promotions'[i].from)
             /\ promotions'[i].from # "draft" =>
                   \E j \in 1..(i - 1) : promotions'[j].to = promotions'[i].from
  <2>1. CASE i \in 1..Len(promotions)
    <3>1. promotions'[i] = promotions[i] /\ \A j \in 1..(i - 1) : promotions'[j] = promotions[j]
      BY <1>1, <2>1
    <3> QED BY <1>1, <2>1, <3>1 DEF RowsClimb
  <2>2. CASE i = Len(promotions) + 1
    <3>1. promotions'[i] = row /\ row.to = NextMaturity(row.from)
      BY <1>1, <2>2 DEF Climbs
    <3>2. ASSUME row.from # "draft"
          PROVE  \E j \in 1..(i - 1) : promotions'[j].to = row.from
      <4>1. \E j \in 1..Len(promotions) : promotions[j].to = row.from
        BY <1>1, <3>2 DEF Climbs, Granted, Recorded
      <4> QED BY <1>1, <2>2, <4>1
    <3> QED BY <3>1, <3>2
  <2> QED BY <1>1, <2>1, <2>2
<1> QED BY <1>1, <1>4, <1>5 DEF RowsClimb

LEMMA TrailInit == Init => TrailInv
<1> SUFFICES ASSUME Init PROVE TrailInv
  OBVIOUS
<1>1. AllBacked(package, Granted)
  BY DEF Init, AllBacked, Backed, Readable
<1>2. promotions \in Seq(Rows) /\ RowsClimb
  BY EmptySeq DEF Init, RowsClimb
<1>3. SessionsHold
  BY IdleHolds DEF Init, SessionsHold
<1> QED BY <1>1, <1>2, <1>3 DEF TrailInv

\* A step of one session that leaves files and rows alone.
LEMMA Moves ==
    ASSUME TrailInv, NEW p \in Programs, NEW s, Holds(s, Granted),
           session' = [session EXCEPT ![p] = s], UNCHANGED <<package, promotions>>
    PROVE  TrailInv'
<1>1. Granted' = Granted
  BY DEF Granted, Recorded
<1>2. SessionsHold'
  BY <1>1, SessionStep DEF TrailInv
<1> QED BY <1>1, <1>2 DEF TrailInv, RowsClimb, AllBacked

\* A step that writes one file.
LEMMA FileWritten ==
    ASSUME TrailInv, NEW f \in FileNames, NEW text, Backed(f, text, Granted),
           package' = [package EXCEPT ![f] = text], UNCHANGED promotions, SessionsHold'
    PROVE  TrailInv'
<1>1. Granted' = Granted
  BY DEF Granted, Recorded
<1>2. ASSUME NEW g \in FileNames PROVE Backed(g, package'[g], Granted)
  BY DEF TrailInv, AllBacked
<1>3. AllBacked(package', Granted)
  BY <1>2 DEF TrailInv, AllBacked
<1> QED BY <1>1, <1>3 DEF TrailInv, RowsClimb

LEMMA AssessKeepsTrail ==
    ASSUME TrailInv, NEW p \in Programs, Assess(p)
    PROVE  TrailInv'
<1> DEFINE current == package[Manifest].maturity
<1> DEFINE s == [at |-> "stage", from |-> current, to |-> NextMaturity(current)]
<1>1. current \in Granted /\ current # "validated"
  BY FileNamesAre, FilesDiffer DEF Assess, TrailInv, AllBacked, Backed
<1>2. Holds(s, Granted)
  BY <1>1 DEF Holds, Climbs
<1>3. session' = [session EXCEPT ![p] = s] /\ UNCHANGED <<package, promotions>>
  BY DEF Assess, Begin
<1> QED BY <1>2, <1>3, Moves

LEMMA StageKeepsTrail ==
    ASSUME TrailInv, NEW p \in Programs, Stage(p)
    PROVE  TrailInv'
<1> DEFINE s == session[p]
<1> DEFINE t == [at |-> "commit", row |-> [from |-> s.from, to |-> s.to],
                 staged |-> Staged(s.from, s.to), todo |-> Commit]
<1>1. UNCHANGED <<package, promotions>>
  BY DEF Stage
<1>2. CASE Readable(package[Manifest]) /\ Readable(package[Evals])
  <2>1. Climbs(s.from, s.to, Granted)
    BY DEF Stage, At, TrailInv, SessionsHold, Holds
  <2>2. Granted \subseteq Ladder
    BY DEF Granted, Ladder
  <2>3. t.row \in Rows /\ s.to \in {"tested", "validated"}
    BY <2>1, <2>2, NextMaturityIs
  <2>4. s.to = "validated" => "tested" \in Granted
    BY <2>1, <2>2 DEF Climbs, NextMaturity, Ladder
  <2>5. AllBacked(t.staged, Granted \cup {s.to})
    BY <1>2, <2>3, <2>4, StagedBacked DEF TrailInv
  <2>6. DOMAIN t = {"at", "row", "staged", "todo"} /\ t.row.from = s.from /\ t.row.to = s.to
    OBVIOUS
  <2>7. /\ t.todo \in Seq(FileNames \cup {"row"}) /\ t.todo # <<>> /\ Head(t.todo) = "row"
        /\ \A i \in DOMAIN t.todo : t.todo[i] = "row" => i = 1
    BY CommitIs
  <2>8. t.at = "commit" /\ session' = [session EXCEPT ![p] = t]
    BY <1>2 DEF Stage
  <2> HIDE DEF t
  <2>9. Holds(t, Granted)
    BY <2>1, <2>3, <2>5, <2>6, <2>7, <2>8 DEF Holds
  <2> QED BY <1>1, <2>8, <2>9, Moves
<1>3. CASE ~(Readable(package[Manifest]) /\ Readable(package[Evals]))
  BY <1>1, <1>3, IdleHolds, Moves DEF Stage, Leave
<1> QED BY <1>2, <1>3

\* The text a program is about to put into a file, and whether it is allowed.
LEMMA HeadOfTodo ==
    ASSUME TrailInv, NEW p \in Programs, session[p].at \in {"commit", "generate"}
    PROVE  /\ session[p].at = "commit" =>
                  Head(session[p].todo) \in FileNames \cup {"row"}
           /\ session[p].at = "generate" => Head(session[p].todo) \in FileNames
BY HeadTailProperties DEF TrailInv, SessionsHold, Holds

LEMMA RecordPromotionKeepsTrail ==
    ASSUME TrailInv, NEW p \in Programs, RecordPromotion(p)
    PROVE  TrailInv'
<1> DEFINE row == session[p].row
<1>1. row \in Rows /\ Climbs(row.from, row.to, Granted) /\ session[p].at = "commit"
  BY DEF RecordPromotion, At, TrailInv, SessionsHold, Holds
<1>2. promotions' = Append(promotions, row) /\ package' = package /\ Written(p)
  BY DEF RecordPromotion
<1>3. /\ promotions' \in Seq(Rows) /\ RowsClimb'
      /\ Granted \subseteq Granted' /\ row.to \in Granted'
  BY <1>1, <1>2, RowAdded DEF TrailInv
<1>4. SessionsHold'
  BY <1>1, <1>2, <1>3, WrittenHolds DEF TrailInv
<1>5. AllBacked(package', Granted')
  BY <1>2, <1>3, AllBackedGrows DEF TrailInv
<1> QED BY <1>3, <1>4, <1>5 DEF TrailInv

LEMMA ReplaceKeepsTrail ==
    ASSUME TrailInv, NEW p \in Programs, Replace(p)
    PROVE  TrailInv'
<1> DEFINE s == session[p]
<1> DEFINE f == Head(s.todo)
<1>1. /\ s.at = "commit" /\ f # "row" /\ Written(p)
      /\ package' = [package EXCEPT ![f] = s.staged[f]] /\ UNCHANGED promotions
  BY DEF Replace, At
<1>2. f \in FileNames
  BY <1>1, HeadOfTodo
<1>3. Holds(s, Granted)
  BY DEF TrailInv, SessionsHold
<1>4. s.row.to \in Granted /\ AllBacked(s.staged, Granted)
  <2>1. s.row.to \in Granted /\ AllBacked(s.staged, Granted \cup {s.row.to})
    BY <1>1, <1>3 DEF Holds
  <2>2. Granted \cup {s.row.to} = Granted
    BY <2>1
  <2> QED BY <2>1, <2>2
<1>5. Backed(f, s.staged[f], Granted)
  BY <1>2, <1>4 DEF AllBacked
<1>6. Granted' = Granted
  BY <1>1 DEF Granted, Recorded
<1>7. SessionsHold'
  BY <1>1, <1>4, <1>6, WrittenHolds DEF TrailInv
<1> QED BY <1>1, <1>2, <1>5, <1>7, FileWritten

LEMMA WriteFileKeepsTrail ==
    ASSUME TrailInv, NEW p \in Programs, WriteFile(p)
    PROVE  TrailInv'
<1> DEFINE s == session[p]
<1> DEFINE f == Head(s.todo)
<1>1. /\ s.at = "generate" /\ Written(p)
      /\ package' = [package EXCEPT ![f] = Generated(s.brief)[f]] /\ UNCHANGED promotions
  BY DEF WriteFile, At
<1>2. f \in FileNames
  BY <1>1, HeadOfTodo
<1>3. Backed(f, Generated(s.brief)[f], Granted)
  BY <1>2, GeneratedBacked DEF Granted
<1>4. Granted' = Granted
  BY <1>1 DEF Granted, Recorded
<1>5. SessionsHold'
  BY <1>1, <1>4, WrittenHolds DEF TrailInv
<1> QED BY <1>1, <1>2, <1>3, <1>5, FileWritten

LEMMA PackageGenerateKeepsTrail ==
    ASSUME TrailInv, NEW p \in Programs, NEW brief, PackageGenerate(p, brief)
    PROVE  TrailInv'
<1> DEFINE s == [at |-> "generate", brief |-> brief, todo |-> PackageFiles]
<1>1. session' = [session EXCEPT ![p] = s] /\ UNCHANGED <<package, promotions>>
  BY DEF PackageGenerate, Begin
<1>2. PackageFiles \in Seq(FileNames) /\ PackageFiles # <<>>
  BY FileNamesAre DEF PackageFiles
<1>3. DOMAIN s = {"at", "brief", "todo"} /\ s.at = "generate" /\ s.todo = PackageFiles
  OBVIOUS
<1> HIDE DEF s
<1>4. Holds(s, Granted)
  BY <1>2, <1>3 DEF Holds
<1> QED BY <1>1, <1>4, Moves

LEMMA DieKeepsTrail ==
    ASSUME TrailInv, NEW p \in Programs, Die(p)
    PROVE  TrailInv'
<1>1. session' = [session EXCEPT ![p] = Idle] /\ UNCHANGED promotions
  BY DEF Die, Leave
<1>2. CASE UNCHANGED package
  BY <1>1, <1>2, IdleHolds, Moves
<1>3. CASE /\ At(p, "generate")
           /\ package' = [package EXCEPT ![Head(session[p].todo)] = Truncated]
  <2>1. Head(session[p].todo) \in FileNames
    BY <1>3, HeadOfTodo DEF At
  <2>2. Backed(Head(session[p].todo), Truncated, Granted)
    BY DEF Backed, Readable
  <2>3. Granted' = Granted
    BY <1>1 DEF Granted, Recorded
  <2>4. SessionsHold'
    BY <1>1, <2>3, IdleHolds, SessionStep DEF TrailInv
  <2> QED BY <1>1, <1>3, <2>1, <2>2, <2>4, FileWritten
<1> QED BY <1>2, <1>3 DEF Die

LEMMA TrailKept == TrailInv /\ [Next]_vars => TrailInv'
<1> SUFFICES ASSUME TrailInv, [Next]_vars PROVE TrailInv'
  OBVIOUS
<1>1. CASE UNCHANGED <<package, promotions, session>>
  BY <1>1 DEF TrailInv, AllBacked, RowsClimb, SessionsHold, Granted, Recorded
<1>2. CASE Evidence
  <2>1. UNCHANGED <<package, promotions, session>>
    BY <1>2 DEF Evidence, EvalRun, NonConformanceCapture, NonConformanceResolve,
                RunsComplete, RunsBlock
  <2> QED BY <1>1, <2>1
<1>3. ASSUME NEW p \in Programs,
             \/ Assess(p) \/ Stage(p) \/ RecordPromotion(p) \/ Replace(p)
             \/ \E brief \in Briefs : PackageGenerate(p, brief)
             \/ WriteFile(p) \/ Die(p)
      PROVE  TrailInv'
  BY <1>3, AssessKeepsTrail, StageKeepsTrail, RecordPromotionKeepsTrail,
     ReplaceKeepsTrail, PackageGenerateKeepsTrail, WriteFileKeepsTrail, DieKeepsTrail
<1> QED BY <1>1, <1>2, <1>3 DEF Next, vars

\* However promotions and generations interleave, and wherever a program
\* dies, no file claims a maturity the trail does not record, and the rows of
\* the trail climb one step at a time (governance/maturity.py promote,
\* _commit_staged_files; foundry/generator.py).
THEOREM FilesAlwaysFollowTrail == Spec => []FilesFollowTrail
BY TrailInit, TrailKept, InvGivesTrail, PTL DEF Spec
-----------------------------------------------------------------------------
(* The evidence behind a tested package *)

\* A result that passed something and failed nothing.
IsEarnest(r) ==
    /\ \E c \in DOMAIN r[2].checks : r[2].checks[c] = "pass"
    /\ \A c \in DOMAIN r[2].checks : r[2].checks[c] # "fail"

EarnestCases(rs) == {r[2].case_id : r \in {x \in rs : IsEarnest(x)}}
PassedHandoff(r) ==
    /\ "handoff_completeness" \in DOMAIN r[2].checks
    /\ r[2].checks["handoff_completeness"] = "pass"

LeftArtifacts(r) == r[1].left_handoff /\ r[1].inputs + r[1].outputs > 0

\* What TestedOnEvidence asks of the results.
Enough(rs) ==
    /\ Cardinality(EarnestCases(rs)) >= 3
    /\ \E r \in rs : PassedHandoff(r) /\ LeftArtifacts(r)

\* What a recorded result may be relied on for.
Sound(r) ==
    /\ r[2].overall = "pass" => IsEarnest(r)
    /\ PassedHandoff(r) => LeftArtifacts(r)

\* A program on its way to record `tested`.
AimsAtTested(s) ==
    \/ s.at = "stage" /\ s.to = "tested"
    \/ s.at = "commit" /\ s.row.to = "tested"

EvidenceInv ==
    /\ IsFiniteSet(results)
    /\ \A r \in results : Sound(r)
    /\ Recorded("tested") \/ (\E p \in Programs : AimsAtTested(session[p])) => Enough(results)

\* A case passes only when something passed and nothing failed, and the
\* handoff check only over a handoff that has artifacts.
LEMMA ResultIsSound ==
    ASSUME NEW case, NEW run, NEW pkg, NEW recs
    PROVE  Sound(<<Judged(case, run),
                   RunEvalCase(case, IF run.left_handoff THEN WriteHandoff(run) ELSE NoHandoff,
                               run.packets, pkg, recs)>>)
<1> DEFINE handoff == IF run.left_handoff THEN WriteHandoff(run) ELSE NoHandoff
<1> DEFINE checks == [c \in DOMAIN case.scoring |->
                         Outcome(case, c, handoff, run.packets, pkg, recs)]
<1> DEFINE result == RunEvalCase(case, handoff, run.packets, pkg, recs)
<1>1. result.checks = checks /\ result.overall = OverallFrom(checks)
  BY DEF RunEvalCase
<1>2. ASSUME OverallFrom(checks) = "pass" PROVE IsEarnest(<<Judged(case, run), result>>)
  <2> HIDE DEF checks
  <2>1. /\ \E c \in DOMAIN checks : checks[c] # "skipped"
        /\ \A c \in DOMAIN checks : checks[c] # "skipped" => checks[c] = "pass"
    BY <1>2 DEF OverallFrom, PassedIf
  <2> HIDE DEF result
  <2> QED BY <1>1, <2>1 DEF IsEarnest
<1>3. ASSUME "handoff_completeness" \in DOMAIN checks,
             checks["handoff_completeness"] = "pass"
      PROVE  LeftArtifacts(<<Judged(case, run), result>>)
  <2>1. Outcome(case, "handoff_completeness", handoff, run.packets, pkg, recs) = "pass"
    BY <1>3
  <2> HIDE DEF handoff
  <2>2. handoff.written /\ CheckHandoffCompleteness(handoff) = "pass"
    BY <2>1 DEF Outcome
  <2>3. handoff.artifacts > 0
    BY <2>2 DEF CheckHandoffCompleteness, PassedIf
  <2> USE DEF handoff
  <2>4. run.left_handoff /\ run.inputs + run.outputs > 0
    BY <2>2, <2>3 DEF WriteHandoff, NoHandoff
  <2>5. Judged(case, run) = run
    BY <1>3 DEF Judged
  <2> QED BY <2>4, <2>5 DEF LeftArtifacts
<1> HIDE DEF checks, result
<1>4. Sound(<<Judged(case, run), result>>)
  BY <1>1, <1>2, <1>3 DEF Sound, PassedHandoff
<1> QED BY <1>4 DEF result
LEMMA CaseIdsFinite ==
    ASSUME NEW rs, IsFiniteSet(rs), NEW sub, sub \subseteq rs
    PROVE  IsFiniteSet({r[2].case_id : r \in sub})
<1> DEFINE ids == {r[2].case_id : r \in sub}
<1>1. IsFiniteSet(sub)
  BY FS_Subset
<1>2. [r \in sub |-> r[2].case_id] \in Surjection(sub, ids)
  BY DEF Surjection
<1> QED BY <1>1, <1>2, FS_Surjection

\* Results are only added, so what was enough stays enough.
LEMMA EnoughGrows ==
    ASSUME NEW a, NEW b, IsFiniteSet(b), a \subseteq b, Enough(a)
    PROVE  Enough(b)
<1>1. IsFiniteSet(EarnestCases(b))
  BY CaseIdsFinite DEF EarnestCases
<1>2. EarnestCases(a) \subseteq EarnestCases(b)
  BY DEF EarnestCases
<1>3. Cardinality(EarnestCases(a)) <= Cardinality(EarnestCases(b))
  BY <1>1, <1>2, FS_Subset
<1>4. Cardinality(EarnestCases(a)) \in Nat /\ Cardinality(EarnestCases(b)) \in Nat
  BY <1>1, <1>2, FS_Subset, FS_CardinalityType
<1> QED BY <1>3, <1>4 DEF Enough

\* The criteria for `tested` are evidence enough.
LEMMA CriteriaAreEnough ==
    ASSUME IsFiniteSet(results), \A r \in results : Sound(r), CriteriaMet("tested")
    PROVE  Enough(results)
<1>1. PassingCases \subseteq EarnestCases(results)
  BY DEF PassingCases, EarnestCases, Sound
<1>2. IsFiniteSet(EarnestCases(results))
  BY CaseIdsFinite DEF EarnestCases
<1>3. Cardinality(PassingCases) <= Cardinality(EarnestCases(results))
  BY <1>1, <1>2, FS_Subset
<1>4. Cardinality(PassingCases) \in Nat /\ Cardinality(EarnestCases(results)) \in Nat
  BY <1>1, <1>2, FS_Subset, FS_CardinalityType
<1>5. Cardinality(EarnestCases(results)) >= 3
  BY <1>3, <1>4 DEF CriteriaMet, PassingNeeded
<1>6. \E r \in results : PassedHandoff(r) /\ LeftArtifacts(r)
  BY DEF CriteriaMet, TestedCoverage, PassingByCategory, Sound, PassedHandoff
<1> QED BY <1>5, <1>6 DEF Enough

LEMMA InvGivesEvidence == EvidenceInv => TestedOnEvidence
BY DEF EvidenceInv, TestedOnEvidence, Enough, EarnestCases, IsEarnest, PassedHandoff, LeftArtifacts

LEMMA EvidenceInit == Init => EvidenceInv
BY FS_EmptySet DEF Init, EvidenceInv, Recorded, AimsAtTested, Idle

\* No new row and no new aim: what there is stays enough.
LEMMA NoNewAim ==
    ASSUME EvidenceInv, UNCHANGED <<results, promotions>>,
           \A q \in Programs : AimsAtTested(session'[q]) => AimsAtTested(session[q])
    PROVE  EvidenceInv'
BY DEF EvidenceInv, Recorded

\* One program moves; its aim is no new one or there is enough for it.
LEMMA AimMoves ==
    ASSUME TrailInv, EvidenceInv, UNCHANGED <<results, promotions>>,
           NEW p \in Programs, NEW s, session' = [session EXCEPT ![p] = s],
           AimsAtTested(s) => AimsAtTested(session[p]) \/ Enough(results)
    PROVE  EvidenceInv'
<1>1. ASSUME NEW q \in Programs, AimsAtTested(session'[q])
      PROVE  AimsAtTested(session[q]) \/ Enough(results)
  <2>1. q # p => session'[q] = session[q]
    BY DEF TrailInv, SessionsHold
  <2>2. session'[p] = s
    BY DEF TrailInv, SessionsHold
  <2> QED BY <1>1, <2>1, <2>2
<1> QED BY <1>1 DEF EvidenceInv, Recorded

\* What remains of a promotion after a write aims at what it aimed at.
LEMMA RestAims ==
    ASSUME TrailInv, NEW p \in Programs, Written(p),
           session[p].at \in {"commit", "generate"}
    PROVE  \E s : /\ session' = [session EXCEPT ![p] = s]
                  /\ AimsAtTested(s) => AimsAtTested(session[p])
<1>1. CASE Len(session[p].todo) = 1
  <2>1. session' = [session EXCEPT ![p] = Idle]
    BY <1>1 DEF Written, Leave
  <2>2. ~AimsAtTested(Idle)
    BY DEF AimsAtTested, Idle
  <2> QED BY <2>1, <2>2
<1>2. CASE Len(session[p].todo) # 1
  <2> DEFINE s == [session[p] EXCEPT !.todo = Tail(@)]
  <2>1. session' = [session EXCEPT ![p] = s]
    BY <1>2 DEF Written, TrailInv, SessionsHold
  <2>2. s.at = session[p].at /\ (s.at = "commit" => s.row = session[p].row)
    BY DEF TrailInv, SessionsHold, Holds
  <2>3. AimsAtTested(s) => AimsAtTested(session[p])
    BY <2>2 DEF AimsAtTested
  <2> QED BY <2>1, <2>3
<1> QED BY <1>1, <1>2

LEMMA EvidenceKept == TrailInv /\ EvidenceInv /\ [Next]_vars => EvidenceInv'
<1> SUFFICES ASSUME TrailInv, EvidenceInv, [Next]_vars PROVE EvidenceInv'
  OBVIOUS
<1>1. CASE UNCHANGED <<results, promotions, session>>
  BY <1>1, NoNewAim
<1>2. ASSUME NEW case \in Cases, NEW run \in Runs, NEW pkg, EvalRun(case, run, pkg)
      PROVE  EvidenceInv'
  <2>1. UNCHANGED <<promotions, session>>
    BY <1>2 DEF EvalRun
  <2>2. PICK r : results' = results \cup {r} /\ Sound(r)
    BY <1>2, ResultIsSound DEF EvalRun
  <2>3. IsFiniteSet(results')
    BY <2>2, FS_AddElement DEF EvidenceInv
  <2>4. Enough(results) => Enough(results')
    BY <2>2, <2>3, EnoughGrows
  <2> QED BY <2>1, <2>2, <2>3, <2>4 DEF EvidenceInv, Recorded
<1>3. CASE Evidence
  <2>1. CASE \E case \in Cases, run \in Runs :
                 EvalRun(case, run, NoPackage) \/ EvalRun(case, run, package)
    BY <2>1, <1>2
  <2>2. CASE ~\E case \in Cases, run \in Runs :
                 EvalRun(case, run, NoPackage) \/ EvalRun(case, run, package)
    <3>1. UNCHANGED <<results, promotions, session>>
      BY <1>3, <2>2 DEF Evidence, NonConformanceCapture, NonConformanceResolve,
                        RunsComplete, RunsBlock
    <3> QED BY <3>1, <1>1
  <2> QED BY <2>1, <2>2
<1>4. ASSUME NEW p \in Programs, Assess(p) PROVE EvidenceInv'
  <2> DEFINE current == package[Manifest].maturity
  <2> DEFINE s == [at |-> "stage", from |-> current, to |-> NextMaturity(current)]
  <2>1. session' = [session EXCEPT ![p] = s] /\ UNCHANGED <<results, promotions>>
    BY <1>4 DEF Assess, Begin
  <2>2. AimsAtTested(s) => Enough(results)
    <3>1. AimsAtTested(s) => CriteriaMet("tested")
      BY <1>4 DEF Assess, AimsAtTested
    <3> QED BY <3>1, CriteriaAreEnough DEF EvidenceInv
  <2> QED BY <2>1, <2>2, AimMoves
<1>5. ASSUME NEW p \in Programs, Stage(p) PROVE EvidenceInv'
  <2>1. UNCHANGED <<results, promotions>> /\ session[p].at = "stage"
    BY <1>5 DEF Stage, At
  <2>2. CASE Readable(package[Manifest]) /\ Readable(package[Evals])
    <3> DEFINE s == [at |-> "commit",
                     row |-> [from |-> session[p].from, to |-> session[p].to],
                     staged |-> Staged(session[p].from, session[p].to), todo |-> Commit]
    <3>1. session' = [session EXCEPT ![p] = s]
      BY <1>5, <2>2 DEF Stage
    <3>2. AimsAtTested(s) => AimsAtTested(session[p])
      BY <2>1 DEF AimsAtTested
    <3> QED BY <2>1, <3>1, <3>2, AimMoves
  <2>3. CASE ~(Readable(package[Manifest]) /\ Readable(package[Evals]))
    <3>1. session' = [session EXCEPT ![p] = Idle]
      BY <1>5, <2>3 DEF Stage, Leave
    <3> QED BY <2>1, <3>1, AimMoves DEF AimsAtTested, Idle
  <2> QED BY <2>2, <2>3
<1>6. ASSUME NEW p \in Programs, RecordPromotion(p) PROVE EvidenceInv'
  <2>1. /\ promotions' = Append(promotions, session[p].row) /\ UNCHANGED results
        /\ Written(p) /\ session[p].at = "commit"
    BY <1>6 DEF RecordPromotion, At
  <2>2. PICK s : /\ session' = [session EXCEPT ![p] = s]
                 /\ AimsAtTested(s) => AimsAtTested(session[p])
    BY <2>1, RestAims
  <2>3. session[p].row \in Rows /\ promotions \in Seq(Rows)
    BY <2>1 DEF TrailInv, SessionsHold, Holds
  <2>4. Recorded("tested")' => Recorded("tested") \/ session[p].row.to = "tested"
    <3>1. /\ DOMAIN promotions = 1..Len(promotions) /\ Len(promotions) \in Nat
          /\ DOMAIN promotions' = 1..(Len(promotions) + 1)
          /\ \A i \in 1..Len(promotions) : promotions'[i] = promotions[i]
          /\ promotions'[Len(promotions) + 1] = session[p].row
      BY <2>1, <2>3, AppendProperties, LenProperties
    <3> QED BY <3>1 DEF Recorded
  <2>5. session[p].row.to = "tested" => AimsAtTested(session[p])
    BY <2>1 DEF AimsAtTested
  <2>6. \A q \in Programs : AimsAtTested(session'[q]) => AimsAtTested(session[q])
    BY <2>2 DEF TrailInv, SessionsHold
  <2> QED BY <2>1, <2>4, <2>5, <2>6 DEF EvidenceInv
<1>7. ASSUME NEW p \in Programs, Replace(p) \/ WriteFile(p) PROVE EvidenceInv'
  <2>1. /\ Written(p) /\ UNCHANGED <<results, promotions>>
        /\ session[p].at \in {"commit", "generate"}
    BY <1>7 DEF Replace, WriteFile, At
  <2> QED BY <2>1, RestAims, AimMoves
<1>8. ASSUME NEW p \in Programs, NEW brief \in Briefs, PackageGenerate(p, brief)
      PROVE  EvidenceInv'
  <2> DEFINE s == [at |-> "generate", brief |-> brief, todo |-> PackageFiles]
  <2>1. session' = [session EXCEPT ![p] = s] /\ UNCHANGED <<results, promotions>>
    BY <1>8 DEF PackageGenerate, Begin
  <2> QED BY <2>1, AimMoves DEF AimsAtTested
<1>9. ASSUME NEW p \in Programs, Die(p) PROVE EvidenceInv'
  <2>1. session' = [session EXCEPT ![p] = Idle] /\ UNCHANGED <<results, promotions>>
    BY <1>9 DEF Die, Leave
  <2> QED BY <2>1, AimMoves DEF AimsAtTested, Idle
<1> QED BY <1>1, <1>3, <1>4, <1>5, <1>6, <1>7, <1>8, <1>9 DEF Next, vars

\* Whatever is recorded, generated, lost or regenerated in between, no trail
\* says `tested` of a package without three earnest passing cases and a
\* handoff with artifacts (governance/maturity.py assess, governance/evals.py).
THEOREM TestedAlwaysOnEvidence == Spec => []TestedOnEvidence
<1>1. TrailInv /\ EvidenceInv /\ [Next]_vars => (TrailInv /\ EvidenceInv)'
  BY TrailKept, EvidenceKept
<1>2. Init => TrailInv /\ EvidenceInv
  BY TrailInit, EvidenceInit
<1> QED BY <1>1, <1>2, InvGivesEvidence, PTL DEF Spec
-----------------------------------------------------------------------------
(* A package that validates cleanly is whole *)

\* A package whose SKILL.md and manifest agree on a maturity beyond draft has
\* what that maturity needs.  Every write of a command that dies on the way
\* leaves these two apart.
Agreeing(files) ==
    /\ Readable(files[Skill]) /\ Readable(files[Manifest])
    /\ files[Manifest].maturity # "draft"
    /\ files[Skill].maturity = files[Manifest].maturity

Whole(files) ==
    Agreeing(files) =>
        /\ EndsWithClimb(LogEntries(files[Log]), files[Manifest].maturity)
        /\ files[Evals].overall = "pass"

\* todo is what is left of a list of writes.
IsRestOf(todo, list) ==
    /\ Len(todo) \in 1..Len(list)
    /\ \A i \in 1..Len(todo) : todo[i] = list[Len(list) - Len(todo) + i]

Remaining(todo) == {todo[i] : i \in 1..Len(todo)}

\* How far the one command under way has come.
Under(s, files) ==
    /\ s.at = "stage" =>
          /\ Readable(files[Manifest]) /\ files[Manifest].maturity = s.from
          /\ Readable(files[Skill]) /\ files[Skill].maturity = s.from
    /\ s.at = "commit" =>
          /\ IsRestOf(s.todo, Commit)
          /\ files[Manifest].maturity = s.row.from
          /\ s.staged[Skill].maturity = s.row.to
          /\ Whole(s.staged)
          /\ \A f \in FileNames \ Remaining(s.todo) : files[f] = s.staged[f]
    /\ s.at = "generate" =>
          /\ IsRestOf(s.todo, PackageFiles)
          /\ \A f \in FileNames \ Remaining(s.todo) : files[f] = Generated(s.brief)[f]

WholeInv ==
    ~overlapped =>
        /\ Whole(package)
        /\ \A p \in Programs : Under(session[p], package)
        /\ \A p, q \in Programs : session[p] # Idle /\ session[q] # Idle => p = q

LEMMA CleanAgrees ==
    ASSUME ValidatePackage(package) = {}
    PROVE  /\ Readable(package[Skill]) /\ Readable(package[Manifest])
           /\ package[Skill].maturity = package[Manifest].maturity
<1>1. Unparsed(package) = {} /\ Disagreements(package) = {}
  BY DEF ValidatePackage
<1>2. Readable(package[Skill]) /\ Readable(package[Manifest])
  BY <1>1 DEF Unparsed
<1>3. package[Skill].maturity = package[Manifest].maturity
  BY <1>1 DEF Disagreements
<1> QED BY <1>2, <1>3

LEMMA InvGivesWhole == WholeInv => CleanPackagesAreWhole
BY CleanAgrees DEF CleanPackagesAreWhole, WholeInv, Whole, Agreeing

\* The next write, and what is left after it.
LEMMA RestSteps ==
    ASSUME NEW S, NEW list \in Seq(S), NEW todo \in Seq(S), IsRestOf(todo, list),
           \A i, j \in 1..Len(list) : list[i] = list[j] => i = j
    PROVE  /\ Head(todo) = list[Len(list) - Len(todo) + 1]
           /\ Len(todo) # 1 =>
                 /\ IsRestOf(Tail(todo), list) /\ Len(Tail(todo)) = Len(todo) - 1
                 /\ Remaining(Tail(todo)) = Remaining(todo) \ {Head(todo)}
           /\ Len(todo) = 1 => Remaining(todo) = {Head(todo)}
<1>1. Len(list) \in Nat /\ Len(todo) \in Nat /\ Len(todo) \in 1..Len(list)
  BY LenProperties DEF IsRestOf
<1>2. todo # <<>>
  BY <1>1, NotEmpty
<1>3. Head(todo) = todo[1]
  BY <1>2, HeadIsFirst
<1>4. \A i \in 1..Len(todo) : todo[i] = list[Len(list) - Len(todo) + i]
  BY DEF IsRestOf
<1>5. /\ Len(Tail(todo)) = Len(todo) - 1
      /\ \A i \in 1..(Len(todo) - 1) : Tail(todo)[i] = todo[i + 1]
  BY <1>2, HeadTailProperties
<1>6. ASSUME Len(todo) # 1 PROVE IsRestOf(Tail(todo), list)
  <2>0. Len(todo) - 1 \in 1..Len(list)
    <3>1. \A m, n \in Nat : n \in 1..m /\ n # 1 => n - 1 \in 1..m
      OBVIOUS
    <3> QED BY <1>1, <1>6, <3>1
  <2>1. Len(Tail(todo)) \in 1..Len(list)
    BY <1>5, <2>0, Zenon
  <2>2. ASSUME NEW i \in 1..(Len(todo) - 1)
        PROVE  Tail(todo)[i] = list[Len(list) - (Len(todo) - 1) + i]
    <3>1. i + 1 \in 1..Len(todo) /\ Tail(todo)[i] = todo[i + 1]
      BY <1>1, <1>5
    <3>2. Len(list) - Len(todo) + (i + 1) = Len(list) - (Len(todo) - 1) + i
      BY <1>1
    <3> QED BY <1>4, <3>1, <3>2
  <2> QED BY <1>5, <2>1, <2>2 DEF IsRestOf
<1>7. ASSUME NEW i \in 1..Len(todo), NEW j \in 1..Len(todo), todo[i] = todo[j]
      PROVE  i = j
  <2>1. /\ Len(list) - Len(todo) + i \in 1..Len(list)
        /\ Len(list) - Len(todo) + j \in 1..Len(list)
    BY <1>1
  <2>2. Len(list) - Len(todo) + i = Len(list) - Len(todo) + j
    BY <1>4, <1>7, <2>1
  <2> QED BY <1>1, <2>2
<1>8. Remaining(Tail(todo)) = Remaining(todo) \ {Head(todo)}
  <2>1. ASSUME NEW f \in Remaining(Tail(todo)) PROVE f \in Remaining(todo) \ {Head(todo)}
    <3>1. PICK i \in 1..(Len(todo) - 1) : f = todo[i + 1]
      BY <1>5 DEF Remaining
    <3>2. i + 1 \in 1..Len(todo) /\ i + 1 # 1 /\ 1 \in 1..Len(todo)
      BY <1>1
    <3>3. f # todo[1]
      BY <1>7, <3>1, <3>2
    <3> QED BY <1>3, <3>1, <3>2, <3>3 DEF Remaining
  <2>2. ASSUME NEW f \in Remaining(todo) \ {Head(todo)} PROVE f \in Remaining(Tail(todo))
    <3>1. PICK i \in 1..Len(todo) : f = todo[i] /\ i # 1
      BY <1>3 DEF Remaining
    <3>2. i - 1 \in 1..(Len(todo) - 1) /\ (i - 1) + 1 = i
      BY <1>1, <3>1
    <3>3. Tail(todo)[i - 1] = f
      BY <1>5, <3>1, <3>2
    <3> QED BY <1>5, <3>2, <3>3 DEF Remaining
  <2> QED BY <2>1, <2>2
<1>9. Len(todo) = 1 => Remaining(todo) = {Head(todo)}
  BY <1>3 DEF Remaining
<1>10. Head(todo) = list[Len(list) - Len(todo) + 1]
  BY <1>1, <1>3, <1>4
<1> QED BY <1>5, <1>6, <1>8, <1>9, <1>10
LEMMA ListsAre ==
    /\ PackageFiles \in Seq(FileNames) /\ Len(PackageFiles) = 5
    /\ PackageFiles[1] = Skill /\ PackageFiles[2] = Capsule /\ PackageFiles[3] = Evals
    /\ PackageFiles[4] = Log /\ PackageFiles[5] = Manifest
    /\ Len(Commit) = 6 /\ Commit[1] = "row" /\ Commit[2] = Skill /\ Commit[3] = Capsule
    /\ Commit[4] = Evals /\ Commit[5] = Log /\ Commit[6] = Manifest
<1>1. /\ PackageFiles \in Seq(FileNames) /\ Len(PackageFiles) = 5
      /\ PackageFiles[1] = Skill /\ PackageFiles[2] = Capsule /\ PackageFiles[3] = Evals
      /\ PackageFiles[4] = Log /\ PackageFiles[5] = Manifest
  BY FileNamesAre DEF PackageFiles
<1> DEFINE S == FileNames \cup {"row"}
<1>2. <<"row">> \in Seq(S) /\ Len(<<"row">>) = 1 /\ <<"row">>[1] = "row"
  OBVIOUS
<1>3. /\ ReplaceOrder \in Seq(S) /\ Len(ReplaceOrder) = 5
      /\ ReplaceOrder[1] = Skill /\ ReplaceOrder[2] = Capsule /\ ReplaceOrder[3] = Evals
      /\ ReplaceOrder[4] = Log /\ ReplaceOrder[5] = Manifest
  BY FileNamesAre DEF ReplaceOrder
<1> HIDE DEF S
<1>4. /\ Len(Commit) = Len(<<"row">>) + Len(ReplaceOrder)
      /\ \A i \in 1..Len(<<"row">>) + Len(ReplaceOrder) :
            Commit[i] = IF i <= Len(<<"row">>) THEN <<"row">>[i]
                        ELSE ReplaceOrder[i - Len(<<"row">>)]
  BY <1>2, <1>3, ConcatProperties DEF Commit
<1>5. Len(Commit) = 6 /\ \A i \in 1..6 : Commit[i] = IF i <= 1 THEN <<"row">>[i]
                                                     ELSE ReplaceOrder[i - 1]
  BY <1>2, <1>3, <1>4
<1>6. Commit[1] = "row"
  BY <1>2, <1>5
<1>7. /\ Commit[2] = ReplaceOrder[1] /\ Commit[3] = ReplaceOrder[2]
      /\ Commit[4] = ReplaceOrder[3] /\ Commit[5] = ReplaceOrder[4]
      /\ Commit[6] = ReplaceOrder[5]
  BY <1>5
<1> QED BY <1>1, <1>3, <1>5, <1>6, <1>7

LEMMA ListsDiffer ==
    /\ \A i, j \in 1..Len(PackageFiles) : PackageFiles[i] = PackageFiles[j] => i = j
    /\ \A i, j \in 1..Len(Commit) : Commit[i] = Commit[j] => i = j
<1>1. "row" \notin {Skill, Capsule, Evals, Log, Manifest}
  BY FilesDiffer, FileNamesAre
<1>2. ASSUME NEW i \in 1..5, NEW j \in 1..5, PackageFiles[i] = PackageFiles[j] PROVE i = j
  BY <1>2, ListsAre, FilesDiffer
<1>3. ASSUME NEW i \in 1..6, NEW j \in 1..6, Commit[i] = Commit[j] PROVE i = j
  BY <1>1, <1>3, ListsAre, FilesDiffer
<1> QED BY <1>2, <1>3, ListsAre

\* A list of files whose last is the manifest: the manifest is left until
\* the end, and SKILL.md is behind once CONTRACT.md's neighbours are due.
LEMMA CommitRest ==
    ASSUME NEW todo \in Seq(FileNames \cup {"row"}), IsRestOf(todo, Commit)
    PROVE  /\ Head(todo) \in FileNames \cup {"row"}
           /\ Manifest \in Remaining(todo)
           /\ Head(todo) # Manifest => Len(todo) # 1
           /\ Head(todo) = Manifest => Len(todo) = 1 /\ Remaining(todo) = {Manifest}
           /\ Head(todo) \in {Capsule, Evals, Log, Manifest} => Skill \notin Remaining(todo)
<1>0. PICK n \in Nat : n = Len(todo)
  BY LenProperties
<1>1. n \in 1..6 /\ \A i \in 1..n : todo[i] = Commit[6 - n + i]
  BY <1>0, ListsAre DEF IsRestOf
<1>2. Head(todo) = todo[1] /\ todo # <<>>
  BY <1>0, <1>1, NotEmpty, HeadIsFirst
<1>3. Head(todo) = Commit[7 - n]
  BY <1>1, <1>2
<1>4. todo[n] = Manifest
  BY <1>1, ListsAre
<1>5. Manifest \in Remaining(todo)
  BY <1>0, <1>1, <1>4 DEF Remaining
<1>6. Head(todo) # Manifest => n # 1
  BY <1>2, <1>4
<1>7. Head(todo) = Manifest => n = 1
  <2>1. 7 - n \in 1..6 /\ 6 \in 1..6
    BY <1>1
  <2>2. Head(todo) = Manifest => 7 - n = 6
    BY <1>3, <2>1, ListsAre, ListsDiffer
  <2> QED BY <1>1, <2>2
<1>8. n = 1 => Remaining(todo) = {Head(todo)}
  BY <1>0, <1>2 DEF Remaining
<1>9. ASSUME Head(todo) \in {Capsule, Evals, Log, Manifest}, Skill \in Remaining(todo)
      PROVE  FALSE
  <2>1. PICK i \in 1..n : todo[i] = Skill
    BY <1>0, <1>9 DEF Remaining
  <2>2. Commit[6 - n + i] = Commit[2] /\ 6 - n + i \in 1..6
    BY <1>1, <2>1, ListsAre
  <2>3. 6 - n + i = 2
    BY <2>2, ListsAre, ListsDiffer
  <2>4. 7 - n \in {1, 2}
    BY <1>1, <2>3
  <2>5. Head(todo) \in {"row", Skill}
    BY <1>3, <2>4, ListsAre
  <2> QED BY <1>9, <2>5, FilesDiffer, FileNamesAre
<1>10. Head(todo) \in FileNames \cup {"row"}
  BY <1>2, HeadTailProperties
<1> QED BY <1>0, <1>5, <1>6, <1>7, <1>8, <1>9, <1>10

LEMMA GenerateRest ==
    ASSUME NEW todo \in Seq(FileNames), IsRestOf(todo, PackageFiles)
    PROVE  /\ Head(todo) \in FileNames
           /\ Head(todo) # Skill => Skill \notin Remaining(todo)
<1>0. PICK n \in Nat : n = Len(todo)
  BY LenProperties
<1>1. n \in 1..5 /\ \A i \in 1..n : todo[i] = PackageFiles[5 - n + i]
  BY <1>0, ListsAre DEF IsRestOf
<1>2. Head(todo) = todo[1] /\ todo # <<>>
  BY <1>0, <1>1, NotEmpty, HeadIsFirst
<1>3. Head(todo) = PackageFiles[6 - n]
  BY <1>1, <1>2
<1>4. ASSUME Head(todo) # Skill, Skill \in Remaining(todo) PROVE FALSE
  <2>1. PICK i \in 1..n : todo[i] = Skill
    BY <1>0, <1>4 DEF Remaining
  <2>2. PackageFiles[5 - n + i] = PackageFiles[1] /\ 5 - n + i \in 1..5
    BY <1>1, <2>1, ListsAre
  <2>3. 5 - n + i = 1
    BY <2>2, ListsAre, ListsDiffer
  <2>4. 6 - n = 1
    BY <1>1, <2>3
  <2> QED BY <1>3, <1>4, <2>4, ListsAre
<1>5. Head(todo) \in FileNames
  BY <1>2, HeadTailProperties
<1> QED BY <1>4, <1>5
LEMMA IdleUnder == ASSUME NEW files PROVE Under(Idle, files)
BY DEF Under, Idle

\* A step of the only program that is under way.
LEMMA OneMoves ==
    ASSUME TrailInv, WholeInv, NEW p \in Programs, NEW s,
           session' = [session EXCEPT ![p] = s],
           ~overlapped' => ~overlapped /\ \A q \in Programs \ {p} : session[q] = Idle,
           ~overlapped => Whole(package') /\ Under(s, package')
    PROVE  WholeInv'
<1> SUFFICES ASSUME ~overlapped'
             PROVE  /\ Whole(package') /\ \A q \in Programs : Under(session'[q], package')
                    /\ \A q, r \in Programs : session'[q] # Idle /\ session'[r] # Idle => q = r
  BY DEF WholeInv
<1>1. session'[p] = s /\ \A q \in Programs \ {p} : session'[q] = Idle
  BY DEF TrailInv, SessionsHold
<1>2. ASSUME NEW q \in Programs PROVE Under(session'[q], package')
  BY <1>1, IdleUnder
<1> QED BY <1>1, <1>2

\* While one program is under way, and nothing overlapped, the others are idle.
LEMMA OthersIdle ==
    ASSUME WholeInv, ~overlapped, NEW p \in Programs, session[p] # Idle
    PROVE  \A q \in Programs \ {p} : session[q] = Idle
BY DEF WholeInv

LEMMA AssessKeepsWhole ==
    ASSUME TrailInv, WholeInv, NEW p \in Programs, Assess(p)
    PROVE  WholeInv'
<1> DEFINE current == package[Manifest].maturity
<1> DEFINE s == [at |-> "stage", from |-> current, to |-> NextMaturity(current)]
<1>1. /\ session' = [session EXCEPT ![p] = s] /\ UNCHANGED package
      /\ overlapped' = (overlapped \/ \E q \in Programs : session[q] # Idle)
  BY DEF Assess, Begin
<1>2. Under(s, package)
  BY CleanAgrees DEF Assess, Under
<1>3. ~overlapped => Whole(package)
  BY DEF WholeInv
<1> QED BY <1>1, <1>2, <1>3, OneMoves

LEMMA PackageGenerateKeepsWhole ==
    ASSUME TrailInv, WholeInv, NEW p \in Programs, NEW brief, PackageGenerate(p, brief)
    PROVE  WholeInv'
<1> DEFINE s == [at |-> "generate", brief |-> brief, todo |-> PackageFiles]
<1>1. /\ session' = [session EXCEPT ![p] = s] /\ UNCHANGED package
      /\ overlapped' = (overlapped \/ \E q \in Programs : session[q] # Idle)
  BY DEF PackageGenerate, Begin
<1>2. IsRestOf(PackageFiles, PackageFiles)
  BY ListsAre DEF IsRestOf
<1>3. FileNames \subseteq Remaining(PackageFiles)
  BY ListsAre, FileNamesAre DEF Remaining
<1>4. Under(s, package)
  BY <1>2, <1>3 DEF Under
<1>5. ~overlapped => Whole(package)
  BY DEF WholeInv
<1> QED BY <1>1, <1>4, <1>5, OneMoves

\* What is staged for the next maturity would be whole.
LEMMA StagedWhole ==
    ASSUME TrailInv, NEW from, NEW to, Climbs(from, to, Granted),
           Readable(package[Evals]), Readable(package[Manifest]), Readable(package[Skill]),
           package[Manifest].maturity = from, package[Skill].maturity = from, Whole(package)
    PROVE  Staged(from, to)[Skill].maturity = to /\ Whole(Staged(from, to))
<1> DEFINE staged == Staged(from, to)
<1>1. \A f \in FileNames : Backed(f, package[f], Granted)
  BY DEF TrailInv, AllBacked
<1>2. staged[Skill].maturity = to
  <2>1. staged[Skill] = Declared(package[Skill], from, to)
    BY FilesDiffer, FileNamesAre DEF Staged
  <2> QED BY <1>1, <2>1, FilesDiffer, FileNamesAre DEF Declared, Backed
<1>3. staged[Manifest].maturity = to
  <2>1. staged[Manifest] = [package[Manifest] EXCEPT !.maturity = to]
    BY FilesDiffer, FileNamesAre DEF Staged
  <2> QED BY <1>1, <2>1, FilesDiffer, FileNamesAre DEF Backed
<1>4. staged[Evals].overall = "pass"
  <2>1. staged[Evals] = [package[Evals] EXCEPT !.overall = "pass"]
    BY FilesDiffer, FileNamesAre DEF Staged
  <2> QED BY <1>1, <2>1, FilesDiffer, FileNamesAre DEF Backed
<1> DEFINE old == LogEntries(package[Log])
<1>5. LogEntries(staged[Log]) = Append(old, to)
  <2>1. staged[Log] = [promotions |-> Append(old, to)]
    BY FilesDiffer, FileNamesAre DEF Staged
  <2>2. DOMAIN staged[Log] = {"promotions"}
    BY <2>1
  <2>3. DOMAIN Absent = {"content"} /\ DOMAIN Truncated = {"content"}
    BY DEF Absent, Truncated
  <2>4. Readable(staged[Log])
    BY <2>2, <2>3 DEF Readable
  <2> QED BY <2>1, <2>4 DEF LogEntries
<1>6. old \in Seq(Ladder) /\ to \in Ladder
  <2>1. old \in Seq(Granted \ {"draft"})
    BY <1>1, EmptySeq, FilesDiffer, FileNamesAre DEF Backed, LogEntries
  <2>2. Granted \ {"draft"} \subseteq Ladder
    BY DEF Granted
  <2> QED BY <2>1, <2>2, SeqMonotonic DEF Climbs, NextMaturity, Ladder
<1>7. /\ Append(old, to) # <<>> /\ Len(Append(old, to)) = Len(old) + 1
      /\ \A i \in 1..Len(old) : Append(old, to)[i] = old[i]
      /\ Append(old, to)[Len(old) + 1] = to /\ Len(old) \in Nat
  <2> HIDE DEF old
  <2> QED BY <1>6, AppendProperties, LenProperties
<1>8. to = "validated" => Len(old) > 0 /\ old[Len(old)] = "tested"
  <2>1. to = "validated" => from = "tested"
    BY DEF Climbs, Granted, Ladder, NextMaturity
  <2>2. from = "tested" => EndsWithClimb(old, "tested")
    BY DEF Whole, Agreeing
  <2>3. old # <<>> => Len(old) > 0
    BY <1>6, HeadIsFirst
  <2> QED BY <2>1, <2>2, <2>3 DEF EndsWithClimb
<1>9. EndsWithClimb(Append(old, to), to)
  <2> HIDE DEF old
  <2>1. Append(old, to)[Len(Append(old, to))] = to
    BY <1>7
  <2>2. ASSUME to = "validated"
        PROVE  /\ Len(Append(old, to)) > 1
               /\ Append(old, to)[Len(Append(old, to)) - 1] = "tested"
    <3>1. /\ Len(Append(old, to)) - 1 = Len(old) /\ Len(old) \in 1..Len(old)
          /\ Len(Append(old, to)) > 1
      BY <1>7, <1>8, <2>2
    <3> QED BY <1>7, <1>8, <2>2, <3>1
  <2> QED BY <1>7, <2>1, <2>2 DEF EndsWithClimb
<1> HIDE DEF staged, old
<1>10. Whole(staged)
  BY <1>3, <1>4, <1>5, <1>9 DEF Whole
<1> QED BY <1>2, <1>10 DEF staged
LEMMA StageKeepsWhole ==
    ASSUME TrailInv, WholeInv, NEW p \in Programs, Stage(p)
    PROVE  WholeInv'
<1> DEFINE s == session[p]
<1> DEFINE t == [at |-> "commit", row |-> [from |-> s.from, to |-> s.to],
                 staged |-> Staged(s.from, s.to), todo |-> Commit]
<1>1. /\ UNCHANGED <<package, overlapped>> /\ s.at = "stage" /\ s # Idle
  BY DEF Stage, At, Idle
<1>2. ~overlapped => \A q \in Programs \ {p} : session[q] = Idle
  BY <1>1, OthersIdle
<1>3. ~overlapped => Whole(package) /\ Under(s, package)
  BY DEF WholeInv
<1>4. CASE Readable(package[Manifest]) /\ Readable(package[Evals])
  <2>1. session' = [session EXCEPT ![p] = t]
    BY <1>4 DEF Stage
  <2>2. Climbs(s.from, s.to, Granted)
    BY <1>1 DEF TrailInv, SessionsHold, Holds
  <2>3. ~overlapped => t.staged[Skill].maturity = s.to /\ Whole(t.staged)
    BY <1>1, <1>3, <1>4, <2>2, StagedWhole DEF Under
  <2>4. ~overlapped => package[Manifest].maturity = t.row.from
    BY <1>1, <1>3 DEF Under
  <2>5. IsRestOf(Commit, Commit)
    BY ListsAre DEF IsRestOf
  <2>6. FileNames \subseteq Remaining(Commit)
    BY ListsAre, FileNamesAre DEF Remaining
  <2>7. t.at = "commit" /\ t.todo = Commit /\ t.row.to = s.to
    OBVIOUS
  <2> HIDE DEF t
  <2>8. ~overlapped => Under(t, package)
    BY <2>3, <2>4, <2>5, <2>6, <2>7 DEF Under
  <2> QED BY <1>1, <1>2, <1>3, <2>1, <2>8, OneMoves
<1>5. CASE ~(Readable(package[Manifest]) /\ Readable(package[Evals]))
  <2>1. session' = [session EXCEPT ![p] = Idle]
    BY <1>5 DEF Stage, Leave
  <2> QED BY <1>1, <1>2, <1>3, <2>1, IdleUnder, OneMoves
<1> QED BY <1>4, <1>5

\* The session after a write: nothing, or what is left of the list.
LEMMA AfterWrite ==
    ASSUME TrailInv, NEW p \in Programs, Written(p),
           session[p].at \in {"commit", "generate"}
    PROVE  \E s : /\ session' = [session EXCEPT ![p] = s]
                  /\ Len(session[p].todo) = 1 => s = Idle
                  /\ Len(session[p].todo) # 1 =>
                        /\ s.at = session[p].at /\ s.todo = Tail(session[p].todo)
                        /\ s.at = "commit" =>
                              s.row = session[p].row /\ s.staged = session[p].staged
                        /\ s.at = "generate" => s.brief = session[p].brief
<1>1. CASE Len(session[p].todo) = 1
  BY <1>1 DEF Written, Leave
<1>2. CASE Len(session[p].todo) # 1
  <2> DEFINE s == [session[p] EXCEPT !.todo = Tail(@)]
  <2>1. session' = [session EXCEPT ![p] = s]
    BY <1>2 DEF Written, TrailInv, SessionsHold
  <2>2. /\ s.at = session[p].at /\ s.todo = Tail(session[p].todo)
        /\ s.at = "commit" => s.row = session[p].row /\ s.staged = session[p].staged
        /\ s.at = "generate" => s.brief = session[p].brief
    BY DEF TrailInv, SessionsHold, Holds
  <2> HIDE DEF s
  <2> QED BY <1>2, <2>1, <2>2
<1> QED BY <1>1, <1>2

\* What is left after a write of a commit, whatever was written.
LEMMA CommitRestSteps ==
    ASSUME NEW todo \in Seq(FileNames \cup {"row"}), IsRestOf(todo, Commit)
    PROVE  /\ Len(todo) # 1 => IsRestOf(Tail(todo), Commit)
                               /\ Remaining(Tail(todo)) = Remaining(todo) \ {Head(todo)}
           /\ Len(todo) = 1 => Remaining(todo) = {Head(todo)}
BY CommitIs, ListsDiffer, RestSteps

LEMMA RecordPromotionKeepsWhole ==
    ASSUME TrailInv, WholeInv, NEW p \in Programs, RecordPromotion(p)
    PROVE  WholeInv'
<1> DEFINE s == session[p]
<1>1. /\ s.at = "commit" /\ Head(s.todo) = "row" /\ Written(p) /\ s # Idle
      /\ UNCHANGED <<package, overlapped>>
  BY DEF RecordPromotion, At, Idle
<1>2. ~overlapped => \A q \in Programs \ {p} : session[q] = Idle
  BY <1>1, OthersIdle
<1>3. ~overlapped => Whole(package) /\ Under(s, package)
  BY DEF WholeInv
<1>4. s.todo \in Seq(FileNames \cup {"row"})
  BY <1>1 DEF TrailInv, SessionsHold, Holds
<1>5. PICK t : /\ session' = [session EXCEPT ![p] = t]
               /\ Len(s.todo) # 1 =>
                     /\ t.at = s.at /\ t.todo = Tail(s.todo)
                     /\ t.at = "commit" => t.row = s.row /\ t.staged = s.staged
  BY <1>1, AfterWrite
<1>6. ASSUME ~overlapped PROVE Under(t, package)
  <2>1. IsRestOf(s.todo, Commit)
    BY <1>1, <1>3, <1>6 DEF Under
  <2>2. Len(s.todo) # 1
    BY <1>1, <1>4, <2>1, CommitRest, FilesDiffer, FileNamesAre
  <2>3. /\ IsRestOf(Tail(s.todo), Commit)
        /\ Remaining(Tail(s.todo)) = Remaining(s.todo) \ {Head(s.todo)}
    BY <1>4, <2>1, <2>2, CommitRestSteps
  <2>4. \A f \in FileNames \ Remaining(t.todo) : f \notin Remaining(s.todo)
    BY <1>1, <1>5, <2>2, <2>3, FilesDiffer
  <2> QED BY <1>1, <1>3, <1>5, <1>6, <2>2, <2>3, <2>4 DEF Under
<1> QED BY <1>1, <1>2, <1>3, <1>5, <1>6, OneMoves

LEMMA ReplaceKeepsWhole ==
    ASSUME TrailInv, WholeInv, NEW p \in Programs, Replace(p)
    PROVE  WholeInv'
<1> DEFINE s == session[p]
<1> DEFINE f == Head(s.todo)
<1>1. /\ s.at = "commit" /\ f # "row" /\ Written(p) /\ s # Idle
      /\ package' = [package EXCEPT ![f] = s.staged[f]] /\ UNCHANGED overlapped
  BY DEF Replace, At, Idle
<1>2. ~overlapped => \A q \in Programs \ {p} : session[q] = Idle
  BY <1>1, OthersIdle
<1>3. ~overlapped => Whole(package) /\ Under(s, package)
  BY DEF WholeInv
<1>4. /\ s.todo \in Seq(FileNames \cup {"row"}) /\ DOMAIN package = FileNames
      /\ s.row \in Rows /\ Climbs(s.row.from, s.row.to, Granted)
  BY <1>1 DEF TrailInv, SessionsHold, Holds, AllBacked
<1>5. f \in FileNames
  BY <1>1, HeadOfTodo
<1>6. PICK t : /\ session' = [session EXCEPT ![p] = t]
               /\ Len(s.todo) = 1 => t = Idle
               /\ Len(s.todo) # 1 =>
                     /\ t.at = s.at /\ t.todo = Tail(s.todo)
                     /\ t.at = "commit" => t.row = s.row /\ t.staged = s.staged
  BY <1>1, AfterWrite
<1>7. package'[f] = s.staged[f] /\ \A g \in FileNames \ {f} : package'[g] = package[g]
  BY <1>1, <1>4, <1>5
<1>8. ASSUME ~overlapped PROVE Whole(package') /\ Under(t, package')
  <2>1. /\ IsRestOf(s.todo, Commit) /\ package[Manifest].maturity = s.row.from
        /\ s.staged[Skill].maturity = s.row.to /\ Whole(s.staged)
        /\ \A g \in FileNames \ Remaining(s.todo) : package[g] = s.staged[g]
    BY <1>1, <1>3, <1>8 DEF Under
  <2>2. CASE f = Manifest
    <3>1. Len(s.todo) = 1 /\ Remaining(s.todo) = {Manifest}
      BY <1>4, <2>1, <2>2, CommitRest
    <3>2. \A g \in FileNames : package'[g] = s.staged[g]
      BY <1>7, <2>1, <2>2, <3>1
    <3>3. Whole(package')
      BY <2>1, <3>2, FileNamesAre DEF Whole, Agreeing
    <3> QED BY <1>6, <3>1, <3>3, IdleUnder
  <2>3. CASE f # Manifest
    <3>1. Len(s.todo) # 1
      BY <1>4, <2>1, <2>3, CommitRest
    <3>2. /\ IsRestOf(Tail(s.todo), Commit)
          /\ Remaining(Tail(s.todo)) = Remaining(s.todo) \ {f}
      BY <1>4, <2>1, <3>1, CommitRestSteps
    <3>3. package'[Manifest] = package[Manifest]
      BY <1>7, <2>3, FileNamesAre
    <3>4. package'[Skill] = s.staged[Skill]
      <4>1. CASE f = Skill
        BY <1>7, <4>1
      <4>2. CASE f # Skill
        <5>1. Skill \notin Remaining(s.todo)
          BY <1>4, <1>5, <2>1, <4>2, CommitRest, FileNamesAre
        <5> QED BY <1>7, <2>1, <4>2, <5>1, FileNamesAre
      <4> QED BY <4>1, <4>2
    <3>5. s.row.from # s.row.to
      BY <1>4 DEF Climbs, Granted, Ladder, NextMaturity
    <3>6. Whole(package')
      BY <2>1, <3>3, <3>4, <3>5 DEF Whole, Agreeing
    <3>7. \A g \in FileNames \ Remaining(Tail(s.todo)) : package'[g] = s.staged[g]
      BY <1>7, <2>1, <3>2
    <3>8. Under(t, package')
      BY <1>1, <1>6, <2>1, <3>1, <3>2, <3>3, <3>7 DEF Under
    <3> QED BY <3>6, <3>8
  <2> QED BY <2>2, <2>3
<1> QED BY <1>1, <1>2, <1>6, <1>8, OneMoves

\* The next file of a generation, and that SKILL.md is the first of them.
LEMMA GenerationUnder ==
    ASSUME TrailInv, WholeInv, NEW p \in Programs, session[p].at = "generate", ~overlapped
    PROVE  /\ session[p].todo \in Seq(FileNames) /\ IsRestOf(session[p].todo, PackageFiles)
           /\ Head(session[p].todo) \in FileNames
           /\ Head(session[p].todo) # Skill => package[Skill].maturity = "draft"
<1> DEFINE s == session[p]
<1>1. s.todo \in Seq(FileNames)
  BY DEF TrailInv, SessionsHold, Holds
<1>2. /\ IsRestOf(s.todo, PackageFiles)
      /\ \A f \in FileNames \ Remaining(s.todo) : package[f] = Generated(s.brief)[f]
  BY DEF WholeInv, Under
<1>3. Generated(s.brief)[Skill].maturity = "draft"
  BY FilesDiffer, FileNamesAre DEF Generated
<1> QED BY <1>1, <1>2, <1>3, GenerateRest, FileNamesAre

LEMMA WriteFileKeepsWhole ==
    ASSUME TrailInv, WholeInv, NEW p \in Programs, WriteFile(p)
    PROVE  WholeInv'
<1> DEFINE s == session[p]
<1> DEFINE f == Head(s.todo)
<1>1. /\ s.at = "generate" /\ Written(p) /\ s # Idle
      /\ package' = [package EXCEPT ![f] = Generated(s.brief)[f]] /\ UNCHANGED overlapped
  BY DEF WriteFile, At, Idle
<1>2. ~overlapped => \A q \in Programs \ {p} : session[q] = Idle
  BY <1>1, OthersIdle
<1>3. f \in FileNames /\ DOMAIN package = FileNames
  BY <1>1, HeadOfTodo DEF TrailInv, AllBacked
<1>4. PICK t : /\ session' = [session EXCEPT ![p] = t]
               /\ Len(s.todo) = 1 => t = Idle
               /\ Len(s.todo) # 1 =>
                     /\ t.at = s.at /\ t.todo = Tail(s.todo)
                     /\ t.at = "generate" => t.brief = s.brief
  BY <1>1, AfterWrite
<1>5. /\ package'[f] = Generated(s.brief)[f]
      /\ \A g \in FileNames \ {f} : package'[g] = package[g]
  BY <1>1, <1>3
<1>6. ASSUME ~overlapped PROVE Whole(package') /\ Under(t, package')
  <2>1. /\ s.todo \in Seq(FileNames) /\ IsRestOf(s.todo, PackageFiles)
        /\ f # Skill => package[Skill].maturity = "draft"
    BY <1>1, <1>6, GenerationUnder
  <2>2. \A g \in FileNames \ Remaining(s.todo) : package[g] = Generated(s.brief)[g]
    BY <1>1, <1>6 DEF WholeInv, Under
  <2>3. package'[Skill].maturity = "draft"
    <3>1. Generated(s.brief)[Skill].maturity = "draft"
      BY FilesDiffer, FileNamesAre DEF Generated
    <3> QED BY <1>5, <2>1, <3>1, FileNamesAre
  <2>4. Whole(package')
    BY <2>3 DEF Whole, Agreeing
  <2>5. CASE Len(s.todo) = 1
    BY <1>4, <2>4, <2>5, IdleUnder
  <2>6. CASE Len(s.todo) # 1
    <3>1. /\ IsRestOf(Tail(s.todo), PackageFiles)
          /\ Remaining(Tail(s.todo)) = Remaining(s.todo) \ {f}
      BY <2>1, <2>6, ListsAre, ListsDiffer, RestSteps
    <3>2. \A g \in FileNames \ Remaining(Tail(s.todo)) : package'[g] = Generated(s.brief)[g]
      BY <1>5, <2>2, <3>1
    <3>3. Under(t, package')
      BY <1>1, <1>4, <2>6, <3>1, <3>2 DEF Under
    <3> QED BY <2>4, <3>3
  <2> QED BY <2>5, <2>6
<1> QED BY <1>1, <1>2, <1>4, <1>6, OneMoves

LEMMA DieKeepsWhole ==
    ASSUME TrailInv, WholeInv, NEW p \in Programs, Die(p)
    PROVE  WholeInv'
<1>1. session' = [session EXCEPT ![p] = Idle] /\ session[p] # Idle /\ UNCHANGED overlapped
  BY DEF Die, Leave
<1>2. ~overlapped => \A q \in Programs \ {p} : session[q] = Idle
  BY <1>1, OthersIdle
<1>3. ASSUME ~overlapped PROVE Whole(package')
  <2>1. CASE UNCHANGED package
    BY <1>3, <2>1 DEF WholeInv
  <2>2. CASE /\ At(p, "generate")
             /\ package' = [package EXCEPT ![Head(session[p].todo)] = Truncated]
    <3>1. /\ Head(session[p].todo) \in FileNames
          /\ Head(session[p].todo) # Skill => package[Skill].maturity = "draft"
      BY <1>3, <2>2, GenerationUnder DEF At
    <3>2. CASE Head(session[p].todo) = Skill
      <4>1. ~Readable(package'[Skill])
        BY <2>2, <3>2, FileNamesAre DEF TrailInv, AllBacked, Readable
      <4> QED BY <4>1 DEF Whole, Agreeing
    <3>3. CASE Head(session[p].todo) # Skill
      <4>1. package'[Skill].maturity = "draft"
        BY <2>2, <3>1, <3>3, FileNamesAre DEF TrailInv, AllBacked
      <4> QED BY <4>1 DEF Whole, Agreeing
    <3> QED BY <3>2, <3>3
  <2> QED BY <2>1, <2>2 DEF Die
<1> QED BY <1>1, <1>2, <1>3, IdleUnder, OneMoves

LEMMA WholeInit == Init => WholeInv
<1> SUFFICES ASSUME Init PROVE WholeInv
  OBVIOUS
<1>1. Whole(package)
  BY FileNamesAre DEF Init, Whole, Agreeing, Readable
<1> QED BY <1>1, IdleUnder DEF Init, WholeInv

LEMMA WholeKept == TrailInv /\ WholeInv /\ [Next]_vars => WholeInv'
<1> SUFFICES ASSUME TrailInv, WholeInv, [Next]_vars PROVE WholeInv'
  OBVIOUS
<1>1. CASE UNCHANGED <<package, session, overlapped>>
  BY <1>1 DEF WholeInv
<1>2. CASE Evidence
  <2>1. UNCHANGED <<package, session, overlapped>>
    BY <1>2 DEF Evidence, EvalRun, NonConformanceCapture, NonConformanceResolve,
                RunsComplete, RunsBlock
  <2> QED BY <1>1, <2>1
<1>3. ASSUME NEW p \in Programs,
             \/ Assess(p) \/ Stage(p) \/ RecordPromotion(p) \/ Replace(p)
             \/ \E brief \in Briefs : PackageGenerate(p, brief)
             \/ WriteFile(p) \/ Die(p)
      PROVE  WholeInv'
  BY <1>3, AssessKeepsWhole, StageKeepsWhole, RecordPromotionKeepsWhole,
     ReplaceKeepsWhole, PackageGenerateKeepsWhole, WriteFileKeepsWhole, DieKeepsWhole
<1> QED BY <1>1, <1>2, <1>3 DEF Next, vars

\* Wherever promotions and generations died before, a package at rest that
\* validates cleanly at a maturity beyond draft has the log and the evals of
\* that maturity, as long as no two commands ran on it at once
\* (governance/maturity.py _commit_staged_files; foundry/validator.py).
THEOREM CleanPackagesAlwaysWhole == Spec => []CleanPackagesAreWhole
<1>1. TrailInv /\ WholeInv /\ [Next]_vars => (TrailInv /\ WholeInv)'
  BY TrailKept, WholeKept
<1>2. Init => TrailInv /\ WholeInv
  BY TrailInit, WholeInit
<1> QED BY <1>1, <1>2, InvGivesWhole, PTL DEF Spec
-----------------------------------------------------------------------------
(* The kinds of texts *)

Unread == {Absent, Truncated}

FileTyped(f, text) ==
    /\ f \in {Skill, Manifest} => text \in SkillTexts \cup Unread
    /\ f = Capsule => text \in CapsuleTexts \cup Unread
    /\ f = Evals => text \in EvalsTexts \cup Unread
    /\ f = Log => text \in LogTexts \cup Unread

FilesTyped(files) == \A f \in FileNames : FileTyped(f, files[f])

Typed(s) ==
    /\ s.at = "commit" => FilesTyped(s.staged)
    /\ s.at = "generate" => s.brief \in Briefs

TypeInv ==
    /\ TrailInv
    /\ FilesTyped(package)
    /\ complete \in CompleteBefore..MaxComplete
    /\ begun \in 0..MaxCommands
    /\ \A p \in Programs : Typed(session[p])

LEMMA InvGivesTypes == TypeInv => TypeOK
BY FileNamesAre DEF TypeInv, TypeOK, TrailInv, AllBacked, FilesTyped, FileTyped, Unread, Rows

LEMMA GeneratedTyped ==
    ASSUME NEW brief \in Briefs, NEW f \in FileNames
    PROVE  FileTyped(f, Generated(brief)[f])
<1>1. /\ brief.depth_level \in Depths /\ brief.owned \in Seq(STRING)
      /\ brief.escalation_target \in STRING
  BY BriefsAssumption
<1>2. CASE f \in {Skill, Manifest}
  <2>1. Generated(brief)[f] = [maturity |-> "draft", depth_level |-> brief.depth_level]
    BY <1>2, FilesDiffer DEF Generated
  <2> QED BY <1>1, <1>2, <2>1, FilesDiffer DEF FileTyped, SkillTexts
<1>3. CASE f = Capsule
  <2>1. PICK depths : depths = StepDepths(brief)
    OBVIOUS
  <2>2. Generated(brief)[f] = [maturity |-> "draft", depth_level |-> brief.depth_level,
                               steps |-> depths, targets |-> {brief.escalation_target}]
    BY <1>3, <2>1, FilesDiffer DEF Generated, BuildCapsule
  <2>3. 0 \in Depths
    BY DEF Depths
  <2>4. depths \in [1..Len(brief.owned) -> Depths] /\ Len(brief.owned) \in Nat
    BY <1>1, <2>1, <2>3, LenProperties DEF StepDepths
  <2>5. depths \in Seq(Depths)
    BY <2>4, SeqDef
  <2> QED BY <1>1, <1>3, <2>2, <2>5, FilesDiffer DEF FileTyped, CapsuleTexts
<1>4. CASE f = Evals
  <2>1. Generated(brief)[f] = [overall |-> "pending"]
    BY <1>4, FilesDiffer DEF Generated
  <2> QED BY <1>4, <2>1, FilesDiffer DEF FileTyped, EvalsTexts
<1>5. CASE f = Log
  <2>1. Generated(brief)[f] = [promotions |-> <<>>]
    BY <1>5, FilesDiffer DEF Generated
  <2>2. <<>> \in Seq({"tested", "validated"})
    BY EmptySeq
  <2> QED BY <1>5, <2>1, <2>2, FilesDiffer DEF FileTyped, LogTexts
<1> QED BY <1>2, <1>3, <1>4, <1>5, FileNamesAre

LEMMA StagedTyped ==
    ASSUME FilesTyped(package), NEW old, NEW new \in {"tested", "validated"},
           Readable(package[Manifest]), Readable(package[Evals])
    PROVE  FilesTyped(Staged(old, new))
<1>1. FileTyped(Skill, Staged(old, new)[Skill])
  <2>1. Staged(old, new)[Skill] = Declared(package[Skill], old, new)
    BY FilesDiffer, FileNamesAre DEF Staged
  <2>2. package[Skill] \in SkillTexts \cup Unread
    BY FileNamesAre DEF FilesTyped, FileTyped
  <2>3. package[Skill] \in SkillTexts =>
            [package[Skill] EXCEPT !.maturity = new] \in SkillTexts
    BY DEF SkillTexts
  <2>4. Declared(package[Skill], old, new) \in SkillTexts \cup Unread
    BY <2>2, <2>3 DEF Declared, Readable, Unread
  <2> QED BY <2>1, <2>4, FilesDiffer DEF FileTyped
<1>2. FileTyped(Capsule, Staged(old, new)[Capsule])
  <2>1. Staged(old, new)[Capsule] = Declared(package[Capsule], old, new)
    BY FilesDiffer, FileNamesAre DEF Staged
  <2>2. package[Capsule] \in CapsuleTexts \cup Unread
    BY FileNamesAre DEF FilesTyped, FileTyped
  <2>3. package[Capsule] \in CapsuleTexts =>
            [package[Capsule] EXCEPT !.maturity = new] \in CapsuleTexts
    BY DEF CapsuleTexts
  <2>4. Declared(package[Capsule], old, new) \in CapsuleTexts \cup Unread
    BY <2>2, <2>3 DEF Declared, Readable, Unread
  <2> QED BY <2>1, <2>4, FilesDiffer DEF FileTyped
<1>3. FileTyped(Evals, Staged(old, new)[Evals])
  <2>1. Staged(old, new)[Evals] = [package[Evals] EXCEPT !.overall = "pass"]
    BY FilesDiffer, FileNamesAre DEF Staged
  <2>2. package[Evals] \in EvalsTexts
    BY FileNamesAre DEF FilesTyped, FileTyped, Unread, Readable
  <2>3. [package[Evals] EXCEPT !.overall = "pass"] \in EvalsTexts
    BY <2>2 DEF EvalsTexts
  <2> QED BY <2>1, <2>3, FilesDiffer DEF FileTyped
<1>4. FileTyped(Log, Staged(old, new)[Log])
  <2>1. Staged(old, new)[Log] = [promotions |-> Append(LogEntries(package[Log]), new)]
    BY FilesDiffer, FileNamesAre DEF Staged
  <2>2. package[Log] \in LogTexts \cup Unread
    BY FileNamesAre DEF FilesTyped, FileTyped
  <2>3. LogEntries(package[Log]) \in Seq({"tested", "validated"})
    BY <2>2, EmptySeq DEF LogEntries, LogTexts, Readable, Unread
  <2>4. Append(LogEntries(package[Log]), new) \in Seq({"tested", "validated"})
    BY <2>3, AppendProperties
  <2> QED BY <2>1, <2>4, FilesDiffer DEF FileTyped, LogTexts
<1>5. FileTyped(Manifest, Staged(old, new)[Manifest])
  <2>1. Staged(old, new)[Manifest] = [package[Manifest] EXCEPT !.maturity = new]
    BY FilesDiffer, FileNamesAre DEF Staged
  <2>2. package[Manifest] \in SkillTexts
    BY FileNamesAre DEF FilesTyped, FileTyped, Unread, Readable
  <2>3. [package[Manifest] EXCEPT !.maturity = new] \in SkillTexts
    BY <2>2 DEF SkillTexts
  <2> QED BY <2>1, <2>3, FilesDiffer DEF FileTyped
<1> QED BY <1>1, <1>2, <1>3, <1>4, <1>5, FileNamesAre DEF FilesTyped

\* A step of one session; at most one file gets a new text.
LEMMA SessionTyped ==
    ASSUME TypeInv, TrailInv', NEW p \in Programs, NEW s,
           session' = [session EXCEPT ![p] = s], Typed(s), FilesTyped(package'),
           complete' \in CompleteBefore..MaxComplete, begun' \in 0..MaxCommands
    PROVE  TypeInv'
<1>1. session'[p] = s /\ \A q \in Programs \ {p} : session'[q] = session[q]
  BY DEF TypeInv, TrailInv, SessionsHold
<1>2. \A q \in Programs : Typed(session'[q])
  BY <1>1 DEF TypeInv
<1> QED BY <1>2 DEF TypeInv

LEMMA BeginTyped ==
    ASSUME TypeInv, TrailInv', NEW p \in Programs, NEW s, Begin(p, s), Typed(s)
    PROVE  TypeInv'
<1>1. begun' \in 0..MaxCommands
  BY BoundsAssumption DEF Begin, TypeInv
<1>2. FilesTyped(package') /\ complete' \in CompleteBefore..MaxComplete
  BY DEF Begin, TypeInv
<1>3. session' = [session EXCEPT ![p] = s]
  BY DEF Begin
<1> QED BY <1>1, <1>2, <1>3, SessionTyped

LEMMA LeaveTyped ==
    ASSUME TypeInv, TrailInv', NEW p \in Programs, Leave(p), FilesTyped(package'),
           UNCHANGED <<complete, begun>>
    PROVE  TypeInv'
<1>1. Typed(Idle)
  BY DEF Typed, Idle
<1> QED BY <1>1, SessionTyped DEF Leave, TypeInv

LEMMA WrittenTyped ==
    ASSUME TypeInv, TrailInv', NEW p \in Programs, session[p].at \in {"commit", "generate"},
           Written(p), FilesTyped(package'), UNCHANGED <<complete, begun>>
    PROVE  TypeInv'
<1>1. CASE Len(session[p].todo) = 1
  BY <1>1, LeaveTyped DEF Written
<1>2. CASE Len(session[p].todo) # 1
  <2>1. PICK old, s : old = session[p] /\ s = [old EXCEPT !.todo = Tail(@)]
    OBVIOUS
  <2>2. session' = [session EXCEPT ![p] = s]
    BY <1>2, <2>1 DEF Written, TypeInv, TrailInv, SessionsHold
  <2>3. Typed(s)
    <3>1. CASE old.at = "commit"
      <4>1. s.at = "commit" /\ s.staged = old.staged
        BY <2>1, <3>1 DEF TypeInv, TrailInv, SessionsHold, Holds
      <4> QED BY <2>1, <3>1, <4>1 DEF TypeInv, Typed
    <3>2. CASE old.at = "generate"
      <4>1. s.at = "generate" /\ s.brief = old.brief
        BY <2>1, <3>2 DEF TypeInv, TrailInv, SessionsHold, Holds
      <4> QED BY <2>1, <3>2, <4>1 DEF TypeInv, Typed
    <3> QED BY <2>1, <3>1, <3>2
  <2> QED BY <2>2, <2>3, SessionTyped DEF TypeInv
<1> QED BY <1>1, <1>2

LEMMA FileReplaced ==
    ASSUME TypeInv, NEW f \in FileNames, NEW text, FileTyped(f, text),
           package' = [package EXCEPT ![f] = text]
    PROVE  FilesTyped(package')
BY DEF FilesTyped, TypeInv, TrailInv, AllBacked

LEMMA PromotionTyped ==
    ASSUME TypeInv, TrailInv', NEW p \in Programs,
           Assess(p) \/ Stage(p) \/ RecordPromotion(p) \/ Replace(p)
    PROVE  TypeInv'
<1>1. CASE Assess(p)
  <2>1. PICK s : s.at = "stage" /\ Begin(p, s)
    BY <1>1 DEF Assess
  <2> QED BY <2>1, BeginTyped DEF Typed
<1>2. CASE Stage(p)
  <2>1. PICK old : old = session[p]
    OBVIOUS
  <2>2. FilesTyped(package') /\ UNCHANGED <<complete, begun>> /\ old.at = "stage"
    BY <1>2, <2>1 DEF Stage, At, TypeInv
  <2>3. CASE Readable(package[Manifest]) /\ Readable(package[Evals])
    <3>1. PICK s : s = [at |-> "commit", row |-> [from |-> old.from, to |-> old.to],
                        staged |-> Staged(old.from, old.to), todo |-> Commit]
      OBVIOUS
    <3>2. session' = [session EXCEPT ![p] = s]
      BY <1>2, <2>1, <2>3, <3>1 DEF Stage
    <3>3. Climbs(old.from, old.to, Granted) /\ Granted \subseteq Ladder
      BY <2>1, <2>2 DEF TypeInv, TrailInv, SessionsHold, Holds, Granted, Ladder
    <3>4. old.to \in {"tested", "validated"}
      BY <3>3, NextMaturityIs
    <3>5. FilesTyped(Staged(old.from, old.to))
      BY <2>3, <3>4, StagedTyped DEF TypeInv
    <3>6. Typed(s)
      BY <3>1, <3>5 DEF Typed
    <3> QED BY <2>2, <3>2, <3>6, SessionTyped DEF TypeInv
  <2>4. CASE ~(Readable(package[Manifest]) /\ Readable(package[Evals]))
    BY <1>2, <2>2, <2>4, LeaveTyped DEF Stage
  <2> QED BY <2>3, <2>4
<1>3. CASE RecordPromotion(p)
  BY <1>3, WrittenTyped DEF RecordPromotion, At, TypeInv
<1>4. CASE Replace(p)
  <2>1. PICK f, text : f = Head(session[p].todo) /\ text = session[p].staged[f]
    OBVIOUS
  <2>2. /\ session[p].at = "commit" /\ f # "row" /\ Written(p)
        /\ package' = [package EXCEPT ![f] = text] /\ UNCHANGED <<complete, begun>>
    BY <1>4, <2>1 DEF Replace, At
  <2>3. f \in FileNames
    BY <2>1, <2>2, HeadOfTodo DEF TypeInv
  <2>4. FileTyped(f, text)
    BY <2>1, <2>2, <2>3 DEF TypeInv, Typed, FilesTyped
  <2>5. FilesTyped(package')
    BY <2>2, <2>3, <2>4, FileReplaced
  <2> QED BY <2>2, <2>5, WrittenTyped
<1> QED BY <1>1, <1>2, <1>3, <1>4

LEMMA GenerationTyped ==
    ASSUME TypeInv, TrailInv', NEW p \in Programs,
           (\E brief \in Briefs : PackageGenerate(p, brief)) \/ WriteFile(p)
    PROVE  TypeInv'
<1>1. ASSUME NEW brief \in Briefs, PackageGenerate(p, brief) PROVE TypeInv'
  <2>1. PICK s : s.at = "generate" /\ s.brief = brief /\ Begin(p, s)
    BY <1>1 DEF PackageGenerate
  <2> QED BY <2>1, BeginTyped DEF Typed
<1>2. CASE WriteFile(p)
  <2>1. PICK f, brief : f = Head(session[p].todo) /\ brief = session[p].brief
    OBVIOUS
  <2>2. /\ session[p].at = "generate" /\ Written(p)
        /\ package' = [package EXCEPT ![f] = Generated(brief)[f]]
        /\ UNCHANGED <<complete, begun>>
    BY <1>2, <2>1 DEF WriteFile, At
  <2>3. f \in FileNames
    BY <2>1, <2>2, HeadOfTodo DEF TypeInv
  <2>4. brief \in Briefs
    BY <2>1, <2>2 DEF TypeInv, Typed
  <2>5. FileTyped(f, Generated(brief)[f])
    BY <2>3, <2>4, GeneratedTyped
  <2>6. FilesTyped(package')
    BY <2>2, <2>3, <2>5, FileReplaced
  <2> QED BY <2>2, <2>6, WrittenTyped
<1> QED BY <1>1, <1>2

LEMMA DieTyped ==
    ASSUME TypeInv, TrailInv', NEW p \in Programs, Die(p)
    PROVE  TypeInv'
<1>1. Leave(p) /\ UNCHANGED <<complete, begun>>
  BY DEF Die
<1>2. FilesTyped(package')
  <2>1. CASE UNCHANGED package
    BY <2>1 DEF TypeInv
  <2>2. CASE /\ At(p, "generate")
             /\ package' = [package EXCEPT ![Head(session[p].todo)] = Truncated]
    <3>1. Head(session[p].todo) \in FileNames
      BY <2>2, HeadOfTodo DEF At, TypeInv
    <3>2. FileTyped(Head(session[p].todo), Truncated)
      BY DEF FileTyped, Unread
    <3> QED BY <2>2, <3>1, <3>2, FileReplaced
  <2> QED BY <2>1, <2>2 DEF Die
<1> QED BY <1>1, <1>2, LeaveTyped

LEMMA EvidenceTyped ==
    ASSUME TypeInv, TrailInv', Evidence
    PROVE  TypeInv'
<1>1. UNCHANGED <<package, session, begun>>
  BY DEF Evidence, EvalRun, NonConformanceCapture, NonConformanceResolve, RunsComplete, RunsBlock
<1>2. \/ complete' = complete
      \/ complete < MaxComplete /\ complete' = complete + 1
      \/ complete > CompleteBefore /\ complete' = complete - 1
  BY DEF Evidence, EvalRun, NonConformanceCapture, NonConformanceResolve, RunsComplete, RunsBlock
<1>3. complete' \in CompleteBefore..MaxComplete
  BY <1>2, BoundsAssumption DEF TypeInv
<1> QED BY <1>1, <1>3 DEF TypeInv

LEMMA TypesInit == Init => TypeInv
<1> SUFFICES ASSUME Init PROVE TypeInv
  OBVIOUS
<1>1. FilesTyped(package)
  BY DEF Init, FilesTyped, FileTyped, Unread
<1>2. complete \in CompleteBefore..MaxComplete /\ begun \in 0..MaxCommands
  BY BoundsAssumption DEF Init
<1>3. \A p \in Programs : Typed(session[p])
  BY DEF Init, Typed, Idle
<1> QED BY <1>1, <1>2, <1>3, TrailInit DEF TypeInv

LEMMA TypesKept == TypeInv /\ [Next]_vars => TypeInv'
<1> SUFFICES ASSUME TypeInv, [Next]_vars PROVE TypeInv'
  OBVIOUS
<1>1. TrailInv'
  BY TrailKept DEF TypeInv
<1>2. CASE UNCHANGED vars
  BY <1>1, <1>2 DEF vars, TypeInv
<1>3. ASSUME NEW p \in Programs,
             \/ Assess(p) \/ Stage(p) \/ RecordPromotion(p) \/ Replace(p)
             \/ \E brief \in Briefs : PackageGenerate(p, brief)
             \/ WriteFile(p) \/ Die(p)
      PROVE  TypeInv'
  BY <1>1, <1>3, PromotionTyped, GenerationTyped, DieTyped
<1> QED BY <1>1, <1>2, <1>3, EvidenceTyped DEF Next

\* Every file is absent, cut short, or holds a text of its kind, also the
\* ones a promotion rewrites from what it reads (governance/maturity.py
\* _commit_staged_files, foundry/generator.py), and every row of the trail is
\* a step of the ladder (runtime/ledger.py record_promotion).
THEOREM TypeCorrect == Spec => []TypeOK
BY TypesInit, TypesKept, InvGivesTypes, PTL DEF Spec
=============================================================================
