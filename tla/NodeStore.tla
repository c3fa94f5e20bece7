----------------------------- MODULE NodeStore -----------------------------
(***************************************************************************)
(* nodes.yaml and the programs that share it: the store's operations       *)
(* (nodes/store.py) as the node commands (cli.py) and the Environment tab  *)
(* (gui/services/nodes.py) string them together around looks at the        *)
(* network.                                                                *)
(*                                                                         *)
(* Every operation loads the whole file, changes what it loaded and saves  *)
(* the whole file, without a lock; a save first empties the file.  A       *)
(* command is a list of operations still to do.  Programs interleave       *)
(* between load, emptying and writing, and may die at any of these.        *)
(***************************************************************************)
EXTENDS Nodes

CONSTANTS Programs,     \* the terminal's commands and the tab's, at once
          Labels,       \* what people call computers
          TypedUrls,    \* addresses people type
          Stored,       \* what the file may say at the beginning
          MaxCommands,  \* bound: commands begun, one after the other
          MaxDisturbed, \* bound: commands begun, once they overlapped or one died
          MayDie        \* may a program die?

Scopes == {"NONE", "THIS_MACHINE", "NAMED_HOST", "LOCAL_NETWORK"}

ASSUME TypedAssumption == \A url \in TypedUrls : IsUrl(url)

ASSUME BoundsAssumption == MaxCommands \in Nat /\ MaxDisturbed \in 0..MaxCommands

VARIABLES file,      \* what nodes.yaml holds
          session,   \* what each program is in the middle of
          begun,     \* commands begun
          clock,     \* the time of the last look
          told,      \* history: what people last typed, by id and field
          looked,    \* history: what the last look at an address found
          disturbed  \* history: did commands overlap, or a program die?

vars == <<file, session, begun, clock, told, looked, disturbed>>

Absent  == [content |-> "absent"]
Emptied == [content |-> "emptied"]
Text(nodes, consent) == [content |-> "yaml", nodes |-> nodes, consent |-> consent]

\* load(): no file, and an empty one, is no computers and no permission.
Load ==
    IF file \in {Absent, Emptied} THEN [nodes |-> <<>>, consent |-> "NONE"]
    ELSE [nodes |-> file.nodes, consent |-> file.consent]

\* load() refuses any other text.
ASSUME StoredAssumption ==
    \A text \in Stored \ {Absent, Emptied} :
        /\ text = Text(text.nodes, text.consent)
        /\ text.consent \in Scopes
        /\ IsFiniteSet(DOMAIN text.nodes)
        /\ \A id \in DOMAIN text.nodes :
              /\ IsId(id) /\ IsNode(text.nodes[id])
              /\ text.nodes[id].last_probed_at \in {Never, 1}

Nothing == [content |-> "nothing"]
Idle    == [todo |-> <<>>, saving |-> Nothing]

Init ==
    /\ file \in Stored
    /\ session = [p \in Programs |-> Idle]
    /\ begun = 0
    /\ clock = 1
    /\ told = [pair \in UNION {{id} \X Load.nodes[id].declared : id \in DOMAIN Load.nodes} |->
                  Load.nodes[pair[1]][pair[2]]]
    /\ looked = <<>>
    /\ disturbed = FALSE

Begin(p, todo) ==
    /\ session[p] = Idle
    /\ disturbed' = (disturbed \/ \E q \in Programs : session[q] # Idle)
    /\ begun < IF disturbed' THEN MaxDisturbed ELSE MaxCommands
    /\ begun' = begun + 1
    /\ session' = [session EXCEPT ![p].todo = todo]
    /\ UNCHANGED <<file, clock, told, looked>>

(***************************************************************************)
(* What a command does once it is under way.                               *)
(***************************************************************************)
Op(p)   == Head(session[p].todo)
Rest(p) == Tail(session[p].todo)

\* The next thing p does is this operation, on what it loads now.
At(p, op) ==
    /\ session[p].saving = Nothing
    /\ session[p].todo # <<>>
    /\ Op(p).op = op

\* p goes on with these operations, saving nothing.
GoOn(p, todo) == session' = [session EXCEPT ![p] = [todo |-> todo, saving |-> Nothing]]

\* p saves, then goes on.
Save(p, nodes, consent, todo) ==
    session' = [session EXCEPT ![p] = [todo |-> todo, saving |-> Text(nodes, consent)]]

\* What was typed of an id, with these changes.
TellsOf(id, node) ==
    told' = [pair \in DOMAIN told \cup {<<id, f>> : f \in node.declared} |->
                IF pair[1] = id /\ pair[2] \in node.declared
                THEN node[pair[2]] ELSE told[pair]]

ForgetsTelling(id) ==
    told' = [pair \in {x \in DOMAIN told : x[1] # id} |-> told[pair]]

\* No claim is made any more about a computer that was changed by hand.
LooksForgotten(addresses) ==
    looked' = [a \in DOMAIN looked \ addresses |-> looked[a]]

SetConsent(p) ==
    /\ At(p, "set_consent")
    /\ Save(p, Load.nodes, Op(p).scope, Rest(p))
    /\ UNCHANGED <<file, begun, clock, told, looked, disturbed>>

\* What the address that answered as this program is filed as: with the name
\* given for the look, when it found just this one.
Finding(found, kind, label, stamp) ==
    LET finding == Discovered((CHOOSE c \in found : c[2] = kind)[1], kind, stamp)
    IN IF label = <<>> \/ Cardinality(found) > 1 THEN finding
       ELSE [finding EXCEPT !.node.label = label, !.node.declared = {"label"}]

\* Of the addresses permitted some answer, each as one program; what is
\* found is then filed, one by one.
Look(p, found) ==
    LET look     == Op(p)
        stamp    == clock + 1
        answered == {c[1] : c \in found}
        Filing(kind) == IF \A c \in found : c[2] # kind THEN <<>>
                        ELSE <<[op |-> "upsert",
                                finding |-> Finding(found, kind, look.label, stamp)]>>
    IN /\ At(p, "look")
       /\ found \subseteq CandidateAddresses(look.scope, look.host)
       /\ Cardinality(found) = Cardinality(answered)
       /\ clock' = stamp
       /\ looked' = [a \in DOMAIN looked \cup answered \cup look.checks |->
                        IF a \in answered THEN "answering"
                        ELSE IF a \in look.checks THEN "not answering" ELSE looked[a]]
       /\ GoOn(p, Filing("ollama") \o Filing("llamacpp") \o Rest(p))
       /\ UNCHANGED <<file, begun, told, disturbed>>

\* An ambiguous address refuses this finding, and with it the confirmation;
\* of the two a look may find the other is still filed.
Refusal(todo) == IF todo # <<>> /\ Head(todo).op = "upsert" THEN <<Head(todo)>> ELSE <<>>

\* A refused check says so and marks nothing: what it did not find of the
\* computer it was about is not on its card.
UnconfirmedForgotten(todo) ==
    LET checked == {todo[i].id : i \in {j \in DOMAIN todo : todo[j].op = "confirm"}}
    IN LooksForgotten({Address(Load.nodes[id]) : id \in checked \cap DOMAIN Load.nodes}
                      \cap {a \in DOMAIN looked : looked[a] = "not answering"})

Upsert(p) ==
    LET nodes == Load.nodes
    IN /\ At(p, "upsert")
       /\ IF Ambiguous(nodes, Op(p).finding)
          THEN /\ GoOn(p, Refusal(Rest(p)))
               /\ UnconfirmedForgotten(Rest(p))
               /\ UNCHANGED told
          ELSE LET after == Upserted(nodes, Op(p).finding)
                   id    == FiledUnder(nodes, Op(p).finding)
               IN /\ Save(p, after, Load.consent, Rest(p))
                  /\ IF id \in DOMAIN nodes THEN UNCHANGED told ELSE TellsOf(id, after[id])
                  /\ UNCHANGED looked
       /\ UNCHANGED <<file, begun, clock, disturbed>>

\* _record_by_hand and add_node: read, refuse an address already recorded,
\* then upsert, which reads again.
RecordByHand(p) ==
    LET typed == Op(p).finding
    IN /\ At(p, "record")
       /\ IF RecordedAt(Load.nodes, typed.node.url, typed.node.kind)
          THEN GoOn(p, <<>>)
          ELSE GoOn(p, <<[op |-> "insert", finding |-> typed, contact |-> Op(p).contact]>>)
       /\ UNCHANGED <<file, begun, clock, told, looked, disturbed>>

\* With a yes to being contacted the computer is then looked at.
LookAt(id, node) ==
    <<[op |-> "set_consent", scope |-> "NAMED_HOST"],
      [op |-> "look", scope |-> "NAMED_HOST", host |-> node.url,
       label |-> <<>>, checks |-> {Address(node)}],
      [op |-> "confirm", id |-> id, before |-> node.last_probed_at]>>

InsertByHand(p) ==
    LET nodes == Load.nodes
        typed == Op(p).finding
        id    == FiledUnder(nodes, typed)
        after == Upserted(nodes, typed)
    IN /\ At(p, "insert")
       /\ IF Ambiguous(nodes, typed) THEN GoOn(p, <<>>) /\ UNCHANGED <<told, looked>>
          ELSE /\ Save(p, after, Load.consent,
                       IF Op(p).contact THEN LookAt(id, [typed.node EXCEPT !.last_probed_at = Never])
                       ELSE <<>>)
               /\ TellsOf(id, after[id])
               /\ LooksForgotten({Address(after[id])})
       /\ UNCHANGED <<file, begun, clock, disturbed>>

\* check_node and the typed-in check: when the look refreshed nothing of the
\* computer, found again by its id, it is marked silent.
Confirm(p) ==
    LET c == Op(p)
    IN /\ At(p, "confirm")
       /\ IF c.id \in DOMAIN Load.nodes /\ Load.nodes[c.id].last_probed_at = c.before
          THEN GoOn(p, <<[op |-> "silent", id |-> c.id]>>) ELSE GoOn(p, <<>>)
       /\ UNCHANGED <<file, begun, clock, told, looked, disturbed>>

MarkSilent(p) ==
    LET id == Op(p).id
    IN /\ At(p, "silent")
       /\ clock' = clock + 1
       /\ IF id \in DOMAIN Load.nodes
          THEN Save(p, Silenced(Load.nodes, id, clock + 1), Load.consent, <<>>)
          ELSE GoOn(p, <<>>)
       /\ UNCHANGED <<file, begun, told, looked, disturbed>>

Forget(p) ==
    LET id == Op(p).id
    IN /\ At(p, "forget")
       /\ IF id \in DOMAIN Load.nodes
          THEN /\ Save(p, Without(Load.nodes, id), Load.consent, <<>>)
               /\ ForgetsTelling(id)
               /\ LooksForgotten({Address(Load.nodes[id])})
          ELSE GoOn(p, <<>>) /\ UNCHANGED <<told, looked>>
       /\ UNCHANGED <<file, begun, clock, disturbed>>

\* Only a new address is compared with what is recorded.
Edited(node, field, value) ==
    [node EXCEPT ![field] = IF field = "url" THEN AddressFor(value, node.kind) ELSE value,
                 !.declared = @ \cup {field}]

\* Mutant: any text is taken for an address.
EditableAnyhow(nodes, id, field, value) == id \in DOMAIN nodes

Editable(nodes, id, field, value) ==
    /\ id \in DOMAIN nodes
    /\ field = "url" =>
          /\ ~AddressProblem(value)
          /\ ~RecordedAt(Without(nodes, id), AddressFor(value, nodes[id].kind), nodes[id].kind)

UpdateField(p) ==
    LET nodes == Load.nodes
        e     == Op(p)
    IN /\ At(p, "edit")
       /\ IF Editable(nodes, e.id, e.field, e.value)
          THEN LET node == Edited(nodes[e.id], e.field, e.value)
               IN /\ Save(p, [nodes EXCEPT ![e.id] = node], Load.consent, <<>>)
                  /\ TellsOf(e.id, node)
                  /\ LooksForgotten(IF e.field = "label" THEN {}
                                    ELSE {Address(nodes[e.id]), Address(node)})
          ELSE GoOn(p, <<>>) /\ UNCHANGED <<told, looked>>
       /\ UNCHANGED <<file, begun, clock, disturbed>>

\* check_node looks a computer up before it scans its address.
CheckNode(p) ==
    LET id == Op(p).id
    IN /\ At(p, "check")
       /\ IF id \in DOMAIN Load.nodes /\ ~AddressProblem(Load.nodes[id].url)
          THEN GoOn(p, LookAt(id, Load.nodes[id])) ELSE GoOn(p, <<>>)
       /\ UNCHANGED <<file, begun, clock, told, looked, disturbed>>

\* write_text: the file is opened, and empty; then the text is in it.
OpenToWrite(p) ==
    /\ session[p].saving # Nothing
    /\ session[p].saving.content = "yaml"
    /\ file' = Emptied
    /\ session' = [session EXCEPT ![p].saving = [content |-> "open", text |-> @]]
    /\ UNCHANGED <<begun, clock, told, looked, disturbed>>

WriteText(p) ==
    /\ session[p].saving.content = "open"
    /\ file' = session[p].saving.text
    /\ GoOn(p, session[p].todo)
    /\ UNCHANGED <<begun, clock, told, looked, disturbed>>

Die(p) ==
    /\ MayDie
    /\ session[p] # Idle
    /\ session' = [session EXCEPT ![p] = Idle]
    /\ disturbed' = TRUE
    /\ UNCHANGED <<file, begun, clock, told, looked>>

(***************************************************************************)
(* The commands.                                                           *)
(***************************************************************************)
NodeConsent(p, scope) ==
    /\ scope # "LOCAL_NETWORK"
    /\ Begin(p, <<[op |-> "set_consent", scope |-> scope]>>)

Unnamed == [host |-> "", port |-> NoPort, form |-> "plain"]

\* The permission is recorded before anything is opened, and only when the
\* look will be taken.
NodeScan(p, scope, host, label) ==
    /\ scope \notin {"NONE", "LOCAL_NETWORK"}
    /\ scope = "NAMED_HOST" => ~AddressProblem(host)
    /\ Begin(p, <<[op |-> "set_consent", scope |-> scope],
                  [op |-> "look", scope |-> scope, label |-> label, checks |-> {},
                   host |-> IF scope = "NAMED_HOST" THEN host ELSE Unnamed]>>)

NodeAdd(p, label, kind, url, contact) ==
    /\ ~AddressProblem(url)
    /\ Begin(p, <<[op |-> "record", contact |-> contact,
                   finding |-> TypedIn(label, kind, AddressFor(url, kind))]>>)

NodeCheck(p, id)  == Begin(p, <<[op |-> "check", id |-> id]>>)
NodeForget(p, id) == Begin(p, <<[op |-> "forget", id |-> id]>>)

NodeEdit(p, id, field, value) ==
    Begin(p, <<[op |-> "edit", id |-> id, field |-> field, value |-> value]>>)

-----------------------------------------------------------------------------
Next ==
    \E p \in Programs :
        \/ \E scope \in Scopes : NodeConsent(p, scope)
        \/ \E scope \in Scopes, host \in TypedUrls, label \in Labels \cup {<<>>} :
              NodeScan(p, scope, host, label)
        \/ \E label \in Labels, kind \in NodeKinds, url \in TypedUrls, contact \in BOOLEAN :
              NodeAdd(p, label, kind, url, contact)
        \/ \E id \in DOMAIN Load.nodes :
              \/ NodeCheck(p, id) \/ NodeForget(p, id)
              \/ \E label \in Labels : NodeEdit(p, id, "label", label)
              \/ \E url \in TypedUrls : NodeEdit(p, id, "url", url)
              \/ \E kind \in NodeKinds : NodeEdit(p, id, "kind", kind)
        \/ SetConsent(p) \/ Upsert(p) \/ RecordByHand(p) \/ InsertByHand(p)
        \/ At(p, "look") /\ \E found \in SUBSET CandidateAddresses(Op(p).scope, Op(p).host) :
                               Look(p, found)
        \/ Confirm(p) \/ MarkSilent(p) \/ Forget(p) \/ UpdateField(p) \/ CheckNode(p)
        \/ OpenToWrite(p) \/ WriteText(p) \/ Die(p)

Spec == Init /\ [][Next]_vars

(***************************************************************************)
(* Properties.                                                             *)
(***************************************************************************)
\* The file holds computers a command can use, or nothing.
TypeOK ==
    /\ file \in {Absent, Emptied} \/
          /\ file.consent \in Scopes \ {"LOCAL_NETWORK"}
          /\ \A id \in DOMAIN file.nodes :
                /\ id[2] >= 1
                /\ file.nodes[id].kind \in NodeKinds
                /\ file.nodes[id].declared \subseteq {"label", "url", "kind"}
                /\ file.nodes[id].last_probed_at \in 0..clock
                /\ ~AddressProblem(file.nodes[id].url)
    /\ begun \in 0..MaxCommands

\* Whichever commands interleave, and wherever they die: two computers share
\* an address only if one of them was written into the file by hand without
\* a port, and no computer takes a name the runtime already resolves, which
\* would send every graph using it to another machine.
ComputersStayApart ==
    /\ \A ids \in DuplicateGroups(Load.nodes) :
          \E id \in ids : ~NamesAPort(Load.nodes[id].url)
    /\ \A id \in DOMAIN Endpoints :
          MergedEndpoints(Load.nodes)[id] = Endpoints[id]

SamePlace(url, typed) == url.host = typed.host /\ typed.port \in {NoPort, url.port}

\* A computer somebody told of is still there, as it was told.
TypedIsKept ==
    \A pair \in DOMAIN told :
        /\ pair[1] \in DOMAIN Load.nodes
        /\ IF pair[2] = "url" THEN SamePlace(Load.nodes[pair[1]].url, told[pair])
           ELSE Load.nodes[pair[1]][pair[2]] = told[pair]

\* Its card and the panel say what the last look at it found.
LooksAreKept ==
    \A id \in DOMAIN Load.nodes :
        LET a == Address(Load.nodes[id])
        IN a \in DOMAIN looked /\ MatchingAddress(Load.nodes, a, "ollama") = {id}
           => /\ StatusOf(Load.nodes[id]) = looked[a]
              /\ id \in Summarised(Load.nodes) <=> looked[a] = "answering"

\* As long as commands are not run over one another and run to their end,
\* nothing a person typed is lost to a look, a rescan or another computer,
\* every card says what the last look found, and no look is taken that the
\* permission on file does not cover.
StoreIsTrue ==
    ~disturbed =>
        /\ (\A p \in Programs : session[p] = Idle) => TypedIsKept /\ LooksAreKept
        /\ \A p \in Programs : At(p, "look") => Load.consent = Op(p).scope
=============================================================================
