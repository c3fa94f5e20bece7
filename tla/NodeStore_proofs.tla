-------------------------- MODULE NodeStore_proofs --------------------------
(***************************************************************************)
(* What holds of nodes.yaml for any programs, labels and addresses, and    *)
(* any number of commands.  Loads of the emptied file and deaths included: *)
(* the file keeps its types, and computers stay apart.  As long as         *)
(* commands run one after another and to their end: what was typed stays,  *)
(* and the cards say what the looks found.                                 *)
(***************************************************************************)
EXTENDS NodeStore, Numbers_proofs, SequenceTheorems

-----------------------------------------------------------------------------
(* Computers that are kept well *)

\* Of two computers at one address, one was written without a port.
Apart(nodes) ==
    \A id, other \in DOMAIN nodes :
        (id # other /\ Address(nodes[id]) = Address(nodes[other])) =>
            ~NamesAPort(nodes[id].url) \/ ~NamesAPort(nodes[other].url)

NodeOK(node, now) ==
    IsNode(node) /\ node.last_probed_at \in 0..now /\ ~AddressProblem(node.url)

NodesOK(nodes, now) ==
    /\ IsFiniteSet(DOMAIN nodes)
    /\ \A id \in DOMAIN nodes :
          IsId(id) /\ id \notin NamesInUse /\ NodeOK(nodes[id], now)
    /\ Apart(nodes)

\* Whatever is filed names its port.
FindingOK(finding, now) ==
    /\ IsId(finding.node_id) /\ NodeOK(finding.node, now)
    /\ NamesAPort(finding.node.url)

LEMMA NodesLater ==
    ASSUME NEW nodes, NEW now \in Nat, NEW later \in Nat, now <= later,
           NodesOK(nodes, now)
    PROVE  NodesOK(nodes, later)
BY DEF NodesOK, NodeOK

LEMMA NoNodes ==
    ASSUME NEW now \in Nat
    PROVE  NodesOK(<<>>, now)
<1>1. DOMAIN <<>> = {}
  OBVIOUS
<1> QED BY <1>1, FS_EmptySet DEF NodesOK, Apart

LEMMA AddressRead ==
    ASSUME NEW url, IsUrl(url), NEW kind \in NodeKinds
    PROVE  /\ IsUrl(AddressFor(url, kind))
           /\ NamesAPort(AddressFor(url, kind))
           /\ AddressProblem(AddressFor(url, kind)) <=> AddressProblem(url)
<1>1. Ports[kind] # NoPort
  BY DEF Ports, NodeKinds, NoPort
<1>2. CASE NamesAPort(url)
  BY <1>2 DEF AddressFor
<1>3. CASE ~NamesAPort(url)
  <2>1. AddressFor(url, kind) =
            [host |-> url.host, port |-> Ports[kind], form |-> url.form]
    BY <1>3 DEF AddressFor, IsUrl
  <2> QED BY <1>1, <2>1 DEF IsUrl, NamesAPort, AddressProblem, HasUserinfo
<1> QED BY <1>2, <1>3

LEMMA AddressNamed ==
    ASSUME NEW url, NamesAPort(url), NEW kind
    PROVE  AddressFor(url, kind) = url
BY DEF AddressFor

-----------------------------------------------------------------------------
(* Ids *)

\* Among one number more than there are names one is free.
LEMMA FreshId ==
    ASSUME NEW nodes, IsFiniteSet(DOMAIN nodes), NEW node_id, IsId(node_id)
    PROVE  /\ IsId(WithUniqueId(node_id, nodes))
           /\ WithUniqueId(node_id, nodes) \notin DOMAIN nodes \cup NamesInUse
<1> DEFINE taken == DOMAIN nodes \cup NamesInUse
           slug == node_id[1]
           free == {n \in 2..(Cardinality(taken) + 2) : <<slug, n>> \notin taken}
<1>1. IsFiniteSet(taken)
  BY FS_Union, EndpointsAssumption DEF NamesInUse
<1>2. CASE node_id \notin taken
  BY <1>2 DEF WithUniqueId
<1>3. CASE node_id \in taken
  <2>1. Cardinality(taken) \in Nat
    BY <1>1, FS_CardinalityType
  <2>2. PICK c \in Nat : c = Cardinality(taken)
    BY <2>1
  <2>3. free \in SUBSET Nat
    BY <2>2
  <2>4. free # {}
    <3>1. SUFFICES ASSUME \A n \in 2..(c + 2) : <<slug, n>> \in taken PROVE FALSE
      BY <2>2
    <3> DEFINE f == [n \in 2..(c + 2) |-> <<slug, n>>]
    <3>2. f \in [2..(c + 2) -> taken]
      BY <3>1
    <3>3. IsFiniteSet(2..(c + 2)) /\ Cardinality(2..(c + 2)) = c + 1
      BY FS_Interval
    <3>4. Cardinality(taken) < Cardinality(2..(c + 2))
      BY <2>2, <3>3
    <3>5. PICK x, y \in 2..(c + 2) : x # y /\ f[x] = f[y]
      <4> HIDE DEF f, taken
      <4> QED BY <1>1, <3>2, <3>3, <3>4, FS_PigeonHole
    <3> QED BY <3>5
  <2>5. \E n \in free : \A m \in free : n <= m
    <3> HIDE DEF free
    <3> QED BY <2>3, <2>4, LeastNumber
  <2>6. PICK n \in free : n = CHOOSE k \in free : \A m \in free : k <= m
    BY <2>5
  <2>7. WithUniqueId(node_id, nodes) = <<slug, n>>
    BY <1>3, <2>6 DEF WithUniqueId
  <2>8. n \in Nat \ {0} /\ <<slug, n>> \notin taken
    BY <2>2
  <2> QED BY <2>7, <2>8 DEF IsId
<1> QED BY <1>2, <1>3

-----------------------------------------------------------------------------
(* The operations on what was loaded *)

LEMMA MergeOK ==
    ASSUME NEW existing, NEW found, NEW now, IsNode(existing),
           NodeOK(found, now)
    PROVE  /\ NodeOK(Merge(existing, found), now)
           /\ Merge(existing, found).url = found.url
BY DEF Merge, NodeOK, IsNode

LEMMA AtMostOne ==
    ASSUME NEW nodes, IsFiniteSet(DOMAIN nodes), NEW finding, ~Ambiguous(nodes, finding)
    PROVE  \A id, other \in MatchingAddress(nodes, finding.node.url, finding.node.kind) :
               id = other
<1>1. PICK same : same = MatchingAddress(nodes, finding.node.url, finding.node.kind)
  OBVIOUS
<1>2. IsFiniteSet(same)
  BY <1>1, FS_Subset DEF MatchingAddress
<1>3. Cardinality(same) \in Nat /\ ~(Cardinality(same) > 1)
  BY <1>1, <1>2, FS_CardinalityType DEF Ambiguous
<1>4. CASE Cardinality(same) = 0
  BY <1>1, <1>2, <1>4, FS_EmptySet
<1>5. CASE Cardinality(same) = 1
  BY <1>1, <1>2, <1>5, FS_Singleton
<1> QED BY <1>3, <1>4, <1>5

\* A finding is merged into the one computer at its address, or is given a
\* name nobody has: the store has no more pairs than before.
LEMMA UpsertedOK ==
    ASSUME NEW nodes, NEW now \in Nat, NodesOK(nodes, now),
           NEW finding, FindingOK(finding, now), ~Ambiguous(nodes, finding)
    PROVE  NodesOK(Upserted(nodes, finding), now)
<1>1. PICK same : same = MatchingAddress(nodes, finding.node.url, finding.node.kind)
  OBVIOUS
<1>2. PICK id : id = FiledUnder(nodes, finding)
  OBVIOUS
<1>3. PICK after : after = Upserted(nodes, finding)
  OBVIOUS
<1>4. PICK node : node = IF same # {} THEN Merge(nodes[id], finding.node) ELSE finding.node
  OBVIOUS
<1>5. /\ DOMAIN after = DOMAIN nodes \cup {id}
      /\ after[id] = node
      /\ \A other \in DOMAIN nodes : other # id => after[other] = nodes[other]
  BY <1>1, <1>2, <1>3, <1>4 DEF Upserted, RecordedAt
<1>6. AddressFor(finding.node.url, finding.node.kind) = finding.node.url
  BY AddressNamed DEF FindingOK
<1>7. same = {other \in DOMAIN nodes : Address(nodes[other]) = finding.node.url}
  BY <1>1, <1>6 DEF MatchingAddress
<1>8. /\ IsId(id) /\ id \notin NamesInUse /\ NodeOK(node, now)
      /\ node.url = finding.node.url
      /\ \A other \in DOMAIN nodes : Address(nodes[other]) = finding.node.url => other = id
  <2>1. CASE same # {}
    <3>1. id \in same
      BY <1>1, <1>2, <2>1 DEF FiledUnder
    <3>2. \A other \in same : other = id
      BY <1>1, <3>1, AtMostOne DEF NodesOK
    <3>3. id \in DOMAIN nodes /\ IsNode(nodes[id])
      BY <1>7, <3>1 DEF NodesOK, NodeOK
    <3>4. NodeOK(node, now) /\ node.url = finding.node.url
      BY <1>4, <2>1, <3>3, MergeOK DEF FindingOK
    <3> QED BY <1>7, <3>2, <3>3, <3>4 DEF NodesOK
  <2>2. CASE same = {}
    <3>1. id = WithUniqueId(finding.node_id, nodes)
      BY <1>1, <1>2, <2>2 DEF FiledUnder
    <3>2. IsId(id) /\ id \notin NamesInUse
      BY <3>1, FreshId DEF NodesOK, FindingOK
    <3> QED BY <1>4, <1>7, <2>2, <3>2 DEF FindingOK
  <2> QED BY <2>1, <2>2
<1>9. IsFiniteSet(DOMAIN after)
  BY <1>5, FS_AddElement DEF NodesOK
<1>10. Address(node) = finding.node.url
  BY <1>8, AddressNamed DEF Address, FindingOK
<1>11. Apart(after)
  <2> SUFFICES ASSUME NEW x \in DOMAIN after, NEW y \in DOMAIN after,
                      x # y, Address(after[x]) = Address(after[y])
               PROVE  ~NamesAPort(after[x].url) \/ ~NamesAPort(after[y].url)
    BY DEF Apart
  <2>1. x # id /\ y # id
    BY <1>5, <1>8, <1>10
  <2> QED BY <1>5, <2>1 DEF NodesOK, Apart
<1>12. \A other \in DOMAIN after :
          IsId(other) /\ other \notin NamesInUse /\ NodeOK(after[other], now)
  BY <1>5, <1>8 DEF NodesOK
<1> QED BY <1>3, <1>9, <1>11, <1>12 DEF NodesOK

LEMMA WithoutOK ==
    ASSUME NEW nodes, NEW now, NodesOK(nodes, now), NEW id
    PROVE  NodesOK(Without(nodes, id), now)
<1>1. IsFiniteSet(DOMAIN nodes \ {id})
  BY FS_RemoveElement DEF NodesOK
<1>2. DOMAIN Without(nodes, id) = DOMAIN nodes \ {id}
  BY DEF Without
<1>3. \A other \in DOMAIN nodes \ {id} : Without(nodes, id)[other] = nodes[other]
  BY DEF Without
<1> QED BY <1>1, <1>2, <1>3 DEF NodesOK, Apart

\* A computer whose address, port and id stay has no new neighbours.
LEMMA ChangedInPlace ==
    ASSUME NEW nodes, NEW now, NodesOK(nodes, now), NEW id \in DOMAIN nodes,
           NEW node, NodeOK(node, now),
           \/ Address(node) = Address(nodes[id]) /\ node.url = nodes[id].url
           \/ ~NamesAPort(node.url)
           \/ \A other \in DOMAIN nodes \ {id} : Address(nodes[other]) # Address(node)
    PROVE  NodesOK([nodes EXCEPT ![id] = node], now)
<1>1. PICK after : after = [nodes EXCEPT ![id] = node]
  OBVIOUS
<1>2. /\ DOMAIN after = DOMAIN nodes /\ after[id] = node
      /\ \A other \in DOMAIN nodes : other # id => after[other] = nodes[other]
  BY <1>1
<1>3. Apart(after)
  BY <1>2 DEF Apart, NodesOK
<1> QED BY <1>1, <1>2, <1>3 DEF NodesOK

LEMMA SilencedOK ==
    ASSUME NEW nodes, NEW now \in Nat, NodesOK(nodes, now), NEW id \in DOMAIN nodes
    PROVE  NodesOK(Silenced(nodes, id, now), now)
<1>1. PICK node : node = [nodes[id] EXCEPT !.reachable = FALSE, !.last_probed_at = now]
  OBVIOUS
<1>2. Silenced(nodes, id, now) = [nodes EXCEPT ![id] = node]
  BY <1>1 DEF Silenced
<1>3. /\ DOMAIN node = DOMAIN nodes[id] /\ node.url = nodes[id].url
      /\ node.kind = nodes[id].kind /\ node.declared = nodes[id].declared
      /\ node.last_probed_at = now
  BY <1>1 DEF NodesOK, NodeOK, IsNode
<1>4. NodeOK(node, now) /\ Address(node) = Address(nodes[id])
  BY <1>3 DEF NodesOK, NodeOK, IsNode, Address
<1>5. NodesOK([nodes EXCEPT ![id] = node], now)
  BY <1>3, <1>4, ChangedInPlace
<1> QED BY <1>2, <1>5

EditOK(field, value) ==
    /\ field \in {"label", "url", "kind"}
    /\ field = "url" => IsUrl(value)
    /\ field = "kind" => value \in NodeKinds

\* A new address was compared with the others; a new program moves only a
\* computer without a port.
LEMMA EditedOK ==
    ASSUME NEW nodes, NEW now, NodesOK(nodes, now), NEW id, NEW field, NEW value,
           EditOK(field, value), Editable(nodes, id, field, value)
    PROVE  NodesOK([nodes EXCEPT ![id] = Edited(nodes[id], field, value)], now)
<1>1. PICK old : old = nodes[id]
  OBVIOUS
<1>2. PICK node : node = Edited(old, field, value)
  OBVIOUS
<1>3. id \in DOMAIN nodes /\ NodeOK(old, now)
  BY <1>1 DEF Editable, NodesOK
<1>4. CASE field = "label"
  <2>1. /\ DOMAIN node = DOMAIN old /\ node.url = old.url /\ node.kind = old.kind
        /\ node.declared = old.declared \cup {"label"}
        /\ node.last_probed_at = old.last_probed_at
    BY <1>2, <1>3, <1>4 DEF Edited, NodeOK, IsNode
  <2>2. NodeOK(node, now) /\ Address(node) = Address(old)
    BY <1>3, <2>1 DEF NodeOK, IsNode, Address
  <2> QED BY <1>1, <1>2, <1>3, <2>1, <2>2, ChangedInPlace
<1>5. CASE field = "kind"
  <2>1. /\ DOMAIN node = DOMAIN old /\ node.url = old.url /\ node.kind = value
        /\ node.declared = old.declared \cup {"kind"}
        /\ node.last_probed_at = old.last_probed_at
    BY <1>2, <1>3, <1>5 DEF Edited, NodeOK, IsNode
  <2>2. NodeOK(node, now)
    BY <1>3, <1>5, <2>1 DEF NodeOK, IsNode, EditOK
  <2>3. NamesAPort(old.url) => Address(node) = Address(old)
    BY <2>1, AddressNamed DEF Address
  <2> QED BY <1>1, <1>2, <1>3, <2>1, <2>2, <2>3, ChangedInPlace
<1>6. CASE field = "url"
  <2>1. PICK url : url = AddressFor(value, old.kind)
    OBVIOUS
  <2>2. IsUrl(value) /\ old.kind \in NodeKinds /\ ~AddressProblem(value)
    BY <1>3, <1>6 DEF EditOK, Editable, NodeOK, IsNode
  <2>3. IsUrl(url) /\ NamesAPort(url) /\ ~AddressProblem(url)
    BY <2>1, <2>2, AddressRead
  <2>4. /\ DOMAIN node = DOMAIN old /\ node.url = url /\ node.kind = old.kind
        /\ node.declared = old.declared \cup {"url"}
        /\ node.last_probed_at = old.last_probed_at
    BY <1>2, <1>3, <1>6, <2>1 DEF Edited, NodeOK, IsNode
  <2>5. NodeOK(node, now) /\ Address(node) = url
    BY <1>3, <2>3, <2>4, AddressNamed DEF NodeOK, IsNode, Address
  <2>6. ~RecordedAt(Without(nodes, id), url, old.kind)
    BY <1>1, <1>6, <2>1 DEF Editable
  <2>7. \A other \in DOMAIN nodes \ {id} : Address(nodes[other]) # url
    BY <2>3, <2>6, AddressNamed DEF RecordedAt, MatchingAddress, Without
  <2> QED BY <1>1, <1>2, <1>3, <2>5, <2>7, ChangedInPlace
<1> QED BY <1>4, <1>5, <1>6 DEF EditOK
-----------------------------------------------------------------------------
(* What a program holds *)

Permitted == Scopes \ {"LOCAL_NETWORK"}

TextOK(text, now) ==
    /\ text = Text(text.nodes, text.consent)
    /\ text.consent \in Permitted
    /\ NodesOK(text.nodes, now)

SavingOK(saving, now) ==
    \/ saving = Nothing
    \/ TextOK(saving, now)
    \/ saving = [content |-> "open", text |-> saving.text] /\ TextOK(saving.text, now)

OpOK(o, now) ==
    /\ o.op \in {"upsert", "record", "insert"} => FindingOK(o.finding, now)
    /\ o.op \in {"set_consent", "look"} => o.scope \in Permitted
    /\ o.op = "look" => IsUrl(o.host) /\ ~AddressProblem(o.host)
    /\ o.op = "edit" => EditOK(o.field, o.value)

TodoOK(todo, now) == \E S : todo \in Seq(S) /\ \A o \in S : OpOK(o, now)

SessionOK(s, now) ==
    /\ s = [todo |-> s.todo, saving |-> s.saving]
    /\ TodoOK(s.todo, now) /\ SavingOK(s.saving, now)

StoreInv ==
    /\ clock \in Nat /\ begun \in 0..MaxCommands
    /\ file \in {Absent, Emptied} \/ TextOK(file, clock)
    /\ DOMAIN session = Programs
    /\ \A p \in Programs : SessionOK(session[p], clock)

LEMMA TextsDiffer ==
    ASSUME NEW text, NEW now, TextOK(text, now)
    PROVE  /\ text \notin {Absent, Emptied, Nothing}
           /\ text.content = "yaml"
<1>1. text.content = "yaml"
  BY DEF TextOK, Text
<1>2. Absent.content # "yaml" /\ Emptied.content # "yaml" /\ Nothing.content # "yaml"
  BY DEF Absent, Emptied, Nothing
<1> QED BY <1>1, <1>2

LEMMA LoadOK ==
    ASSUME StoreInv
    PROVE  NodesOK(Load.nodes, clock) /\ Load.consent \in Permitted
<1>1. CASE file \in {Absent, Emptied}
  <2>1. Load.nodes = <<>> /\ Load.consent = "NONE"
    BY <1>1 DEF Load
  <2> QED BY <2>1, NoNodes DEF StoreInv, Permitted, Scopes
<1>2. CASE TextOK(file, clock)
  <2>1. Load.nodes = file.nodes /\ Load.consent = file.consent
    BY <1>2, TextsDiffer DEF Load
  <2> QED BY <1>2, <2>1 DEF TextOK
<1> QED BY <1>1, <1>2 DEF StoreInv

LEMMA OpLater ==
    ASSUME NEW o, NEW now \in Nat, NEW later \in Nat, now <= later, OpOK(o, now)
    PROVE  OpOK(o, later)
BY DEF OpOK, FindingOK, NodeOK

LEMMA TextLater ==
    ASSUME NEW text, NEW now \in Nat, NEW later \in Nat, now <= later, TextOK(text, now)
    PROVE  TextOK(text, later)
BY NodesLater DEF TextOK

LEMMA TodoLater ==
    ASSUME NEW todo, NEW now \in Nat, NEW later \in Nat, now <= later, TodoOK(todo, now)
    PROVE  TodoOK(todo, later)
<1>1. PICK S : todo \in Seq(S) /\ \A o \in S : OpOK(o, now)
  BY DEF TodoOK
<1>2. \A o \in S : OpOK(o, later)
  BY <1>1, OpLater
<1> QED BY <1>1, <1>2 DEF TodoOK

LEMMA SessionLater ==
    ASSUME NEW s, NEW now \in Nat, NEW later \in Nat, now <= later, SessionOK(s, now)
    PROVE  SessionOK(s, later)
BY TodoLater, TextLater DEF SessionOK, SavingOK

LEMMA TodoOf ==
    ASSUME NEW S, NEW now, \A o \in S : OpOK(o, now), NEW todo \in Seq(S)
    PROVE  TodoOK(todo, now)
BY DEF TodoOK

LEMMA ShortTodo ==
    ASSUME NEW now
    PROVE  /\ TodoOK(<<>>, now)
           /\ \A a : OpOK(a, now) => TodoOK(<<a>>, now)
           /\ \A a, b : (OpOK(a, now) /\ OpOK(b, now)) => TodoOK(<<a, b>>, now)
           /\ \A a, b, c : (OpOK(a, now) /\ OpOK(b, now) /\ OpOK(c, now))
                            => TodoOK(<<a, b, c>>, now)
<1>1. TodoOK(<<>>, now)
  <2>1. PICK S : S = {}
    OBVIOUS
  <2>2. <<>> \in Seq(S) /\ \A o \in S : OpOK(o, now)
    BY <2>1
  <2> QED BY <2>2, TodoOf
<1>2. ASSUME NEW a, OpOK(a, now) PROVE TodoOK(<<a>>, now)
  <2>1. PICK S : S = {a}
    OBVIOUS
  <2>2. <<a>> \in Seq(S) /\ \A o \in S : OpOK(o, now)
    BY <1>2, <2>1
  <2> QED BY <2>2, TodoOf
<1>3. ASSUME NEW a, NEW b, OpOK(a, now), OpOK(b, now) PROVE TodoOK(<<a, b>>, now)
  <2>1. PICK S : S = {a, b}
    OBVIOUS
  <2>2. <<a, b>> \in Seq(S) /\ \A o \in S : OpOK(o, now)
    BY <1>3, <2>1
  <2> QED BY <2>2, TodoOf
<1>4. ASSUME NEW a, NEW b, NEW c, OpOK(a, now), OpOK(b, now), OpOK(c, now)
      PROVE  TodoOK(<<a, b, c>>, now)
  <2>1. PICK S : S = {a, b, c}
    OBVIOUS
  <2>2. <<a, b, c>> \in Seq(S) /\ \A o \in S : OpOK(o, now)
    BY <1>4, <2>1
  <2> QED BY <2>2, TodoOf
<1> QED BY <1>1, <1>2, <1>3, <1>4

LEMMA TodoSplit ==
    ASSUME NEW todo, NEW now, TodoOK(todo, now), todo # <<>>
    PROVE  OpOK(Head(todo), now) /\ TodoOK(Tail(todo), now)
<1>1. PICK S : todo \in Seq(S) /\ \A o \in S : OpOK(o, now)
  BY DEF TodoOK
<1>2. Head(todo) \in S /\ Tail(todo) \in Seq(S)
  BY <1>1
<1> QED BY <1>1, <1>2 DEF TodoOK

LEMMA TodoJoin ==
    ASSUME NEW todo, NEW more, NEW now, TodoOK(todo, now), TodoOK(more, now)
    PROVE  TodoOK(todo \o more, now)
<1>1. PICK S : todo \in Seq(S) /\ \A o \in S : OpOK(o, now)
  BY DEF TodoOK
<1>2. PICK T : more \in Seq(T) /\ \A o \in T : OpOK(o, now)
  BY DEF TodoOK
<1>3. todo \in Seq(S \cup T) /\ more \in Seq(S \cup T)
  BY <1>1, <1>2
<1>4. todo \o more \in Seq(S \cup T)
  BY <1>3
<1>5. \A o \in S \cup T : OpOK(o, now)
  BY <1>1, <1>2
<1> QED BY <1>4, <1>5 DEF TodoOK

-----------------------------------------------------------------------------
(* Steps *)

LEMMA AtReads ==
    ASSUME StoreInv, NEW p \in Programs, NEW op, At(p, op)
    PROVE  OpOK(Op(p), clock) /\ TodoOK(Rest(p), clock) /\ Op(p).op = op
<1>1. TodoOK(session[p].todo, clock) /\ session[p].todo # <<>> /\ Op(p).op = op
  BY DEF StoreInv, SessionOK, At
<1> QED BY <1>1, TodoSplit DEF Op, Rest

LEMMA StepKeeps ==
    ASSUME StoreInv, NEW p \in Programs, NEW todo, NEW saving,
           session' = [session EXCEPT ![p] = [todo |-> todo, saving |-> saving]],
           clock' \in Nat, clock <= clock', begun' \in 0..MaxCommands,
           file' \in {Absent, Emptied} \/ TextOK(file', clock'),
           TodoOK(todo, clock'), SavingOK(saving, clock')
    PROVE  StoreInv'
<1>1. DOMAIN session' = Programs
  BY DEF StoreInv
<1>2. SessionOK(session'[p], clock')
  <2>1. session'[p] = [todo |-> todo, saving |-> saving]
    BY DEF StoreInv
  <2> QED BY <2>1 DEF SessionOK
<1>3. \A q \in Programs \ {p} : SessionOK(session'[q], clock')
  <2> TAKE q \in Programs \ {p}
  <2>1. session'[q] = session[q] /\ SessionOK(session[q], clock) /\ clock \in Nat
    BY DEF StoreInv
  <2> QED BY <2>1, SessionLater
<1>4. \A q \in Programs : SessionOK(session[q], clock)'
  BY <1>2, <1>3
<1> QED BY <1>1, <1>4 DEF StoreInv

LEMMA FileStays ==
    ASSUME StoreInv, UNCHANGED file, clock' \in Nat, clock <= clock'
    PROVE  file' \in {Absent, Emptied} \/ TextOK(file', clock')
BY TextLater DEF StoreInv

LEMMA GoOnKeeps ==
    ASSUME StoreInv, NEW p \in Programs, NEW todo, GoOn(p, todo),
           UNCHANGED <<file, begun>>, clock' \in Nat, clock <= clock',
           TodoOK(todo, clock')
    PROVE  StoreInv'
<1>1. SavingOK(Nothing, clock') /\ begun' \in 0..MaxCommands
  BY DEF SavingOK, StoreInv
<1> QED BY <1>1, FileStays, StepKeeps DEF GoOn

LEMMA SaveKeeps ==
    ASSUME StoreInv, NEW p \in Programs, NEW nodes, NEW consent, NEW todo,
           Save(p, nodes, consent, todo),
           UNCHANGED <<file, begun>>, clock' \in Nat, clock <= clock',
           TodoOK(todo, clock'), NodesOK(nodes, clock'), consent \in Permitted
    PROVE  StoreInv'
<1>1. TextOK(Text(nodes, consent), clock')
  BY DEF TextOK, Text
<1>2. SavingOK(Text(nodes, consent), clock') /\ begun' \in 0..MaxCommands
  BY <1>1 DEF SavingOK, StoreInv
<1> QED BY <1>2, FileStays, StepKeeps DEF Save

LEMMA BeginKeeps ==
    ASSUME StoreInv, NEW p \in Programs, NEW todo, Begin(p, todo), TodoOK(todo, clock)
    PROVE  StoreInv'
<1>1. session' = [session EXCEPT ![p] = [todo |-> todo, saving |-> Nothing]]
  <2>1. [session[p] EXCEPT !.todo = todo] = [todo |-> todo, saving |-> Nothing]
    BY DEF Begin, Idle
  <2> QED BY <2>1 DEF Begin
<1>2. clock' = clock /\ clock' \in Nat /\ clock <= clock' /\ UNCHANGED file
  BY DEF Begin, StoreInv
<1>3. begun' \in 0..MaxCommands
  BY BoundsAssumption DEF Begin, StoreInv
<1>4. SavingOK(Nothing, clock')
  BY DEF SavingOK
<1>5. file' \in {Absent, Emptied} \/ TextOK(file', clock')
  BY <1>2, FileStays
<1>6. TodoOK(todo, clock')
  BY <1>2
<1> QED BY <1>1, <1>2, <1>3, <1>4, <1>5, <1>6, StepKeeps

LEMMA WritingKeeps ==
    ASSUME StoreInv, NEW p \in Programs, OpenToWrite(p) \/ WriteText(p)
    PROVE  StoreInv'
<1>1. TodoOK(session[p].todo, clock) /\ SavingOK(session[p].saving, clock)
      /\ session[p] = [todo |-> session[p].todo, saving |-> session[p].saving]
  BY DEF StoreInv, SessionOK
<1>2. clock' = clock /\ begun' = begun
  BY DEF OpenToWrite, WriteText
<1>3. clock' \in Nat /\ clock <= clock' /\ begun' \in 0..MaxCommands
  BY <1>2 DEF StoreInv
<1>4. PICK saving : saving = session[p].saving
  OBVIOUS
<1>5. CASE OpenToWrite(p)
  <2>1. TextOK(saving, clock)
    BY <1>1, <1>4, <1>5 DEF OpenToWrite, SavingOK
  <2>2. SavingOK([content |-> "open", text |-> saving], clock)
    BY <2>1 DEF SavingOK
  <2>3. [session[p] EXCEPT !.saving = [content |-> "open", text |-> saving]]
        = [todo |-> session[p].todo, saving |-> [content |-> "open", text |-> saving]]
    BY <1>1
  <2>4. session' = [session EXCEPT ![p] = [todo |-> session[p].todo,
                        saving |-> [content |-> "open", text |-> saving]]]
    BY <1>4, <1>5, <2>3 DEF OpenToWrite
  <2>5. file' \in {Absent, Emptied}
    BY <1>5 DEF OpenToWrite
  <2> QED BY <1>1, <1>2, <1>3, <2>2, <2>4, <2>5, StepKeeps
<1>6. CASE WriteText(p)
  <2>1. saving.content = "open"
    BY <1>4, <1>6 DEF WriteText
  <2>2. saving # Nothing /\ ~TextOK(saving, clock)
    BY <2>1, TextsDiffer DEF Nothing
  <2>3. TextOK(saving.text, clock)
    BY <1>1, <1>4, <2>2 DEF SavingOK
  <2>4. session' = [session EXCEPT ![p] = [todo |-> session[p].todo, saving |-> Nothing]]
    BY <1>6 DEF WriteText, GoOn
  <2>5. SavingOK(Nothing, clock)
    BY DEF SavingOK
  <2>6. TextOK(file', clock)
    BY <1>4, <1>6, <2>3 DEF WriteText
  <2> QED BY <1>1, <1>2, <1>3, <2>4, <2>5, <2>6, StepKeeps
<1> QED BY <1>5, <1>6

LEMMA DieKeeps ==
    ASSUME StoreInv, NEW p \in Programs, Die(p)
    PROVE  StoreInv'
<1>1. GoOn(p, <<>>) /\ UNCHANGED <<file, begun, clock>>
  BY DEF Die, GoOn, Idle
<1> QED BY <1>1, GoOnKeeps, ShortTodo DEF StoreInv
-----------------------------------------------------------------------------
(* Looks *)

LEMMA CandidateOK ==
    ASSUME NEW scope \in Permitted, NEW host, IsUrl(host), ~AddressProblem(host),
           NEW c \in CandidateAddresses(scope, host)
    PROVE  /\ c[2] \in NodeKinds /\ IsUrl(c[1])
           /\ NamesAPort(c[1]) /\ ~AddressProblem(c[1])
<1>1. CASE scope = "NONE"
  BY <1>1 DEF CandidateAddresses
<1>2. CASE scope = "THIS_MACHINE"
  <2>1. PICK k \in NodeKinds :
            c = <<[host |-> Loopback, port |-> Ports[k], form |-> "plain"], k>>
    BY <1>2 DEF CandidateAddresses
  <2>2. Ports[k] # NoPort
    BY DEF Ports, NodeKinds, NoPort
  <2>3. PICK url : url = [host |-> Loopback, port |-> Ports[k], form |-> "plain"]
    OBVIOUS
  <2>4. IsUrl(url) /\ NamesAPort(url) /\ ~AddressProblem(url)
    BY <2>2, <2>3 DEF IsUrl, NamesAPort, AddressProblem, HasUserinfo
  <2> QED BY <2>1, <2>3, <2>4
<1>3. CASE scope = "NAMED_HOST"
  <2>1. PICK k \in NodeKinds : c = <<AddressFor(host, k), k>>
    BY <1>3 DEF CandidateAddresses
  <2> QED BY <2>1, AddressRead
<1> QED BY <1>1, <1>2, <1>3 DEF Permitted, Scopes

\* Where something answered, what it is filed as is a computer.
LEMMA FoundOK ==
    ASSUME NEW scope \in Permitted, NEW host, IsUrl(host), ~AddressProblem(host),
           NEW found \in SUBSET CandidateAddresses(scope, host),
           NEW kind, \E c \in found : c[2] = kind, NEW label, NEW stamp \in Nat
    PROVE  FindingOK(Finding(found, kind, label, stamp), stamp)
<1>1. PICK c \in found : c = (CHOOSE d \in found : d[2] = kind) /\ c[2] = kind
  OBVIOUS
<1>2. /\ kind \in NodeKinds /\ IsUrl(c[1])
      /\ NamesAPort(c[1]) /\ ~AddressProblem(c[1])
  BY <1>1, CandidateOK
<1>3. PICK finding : finding = Discovered(c[1], kind, stamp)
  OBVIOUS
<1>4. /\ IsId(finding.node_id)
      /\ DOMAIN finding = {"node_id", "node"}
      /\ finding.node = [label |-> <<kind, c[1].host>>, kind |-> kind, url |-> c[1],
                         reachable |-> TRUE, last_probed_at |-> stamp, declared |-> {}]
  BY <1>3 DEF Discovered, Slugify, IsId
<1>5. FindingOK(finding, stamp)
  BY <1>2, <1>4 DEF FindingOK, NodeOK, IsNode
<1>6. PICK node : node = [finding.node EXCEPT !.label = label, !.declared = {"label"}]
  OBVIOUS
<1>7. PICK named : named = [finding EXCEPT !.node.label = label, !.node.declared = {"label"}]
  OBVIOUS
<1>8. named.node_id = finding.node_id /\ named.node = node
  BY <1>4, <1>6, <1>7
<1>9. NodeOK(node, stamp) /\ node.url = c[1]
  BY <1>2, <1>4, <1>6 DEF NodeOK, IsNode
<1>10. FindingOK(named, stamp)
  BY <1>2, <1>4, <1>8, <1>9 DEF FindingOK
<1> QED BY <1>1, <1>3, <1>5, <1>7, <1>10 DEF Finding

LEMMA LookKeeps ==
    ASSUME StoreInv, NEW p \in Programs, At(p, "look"),
           NEW found \in SUBSET CandidateAddresses(Op(p).scope, Op(p).host),
           Look(p, found)
    PROVE  StoreInv'
<1> DEFINE stamp == clock + 1
           Filing(kind) == IF \A c \in found : c[2] # kind THEN <<>>
                           ELSE <<[op |-> "upsert",
                                   finding |-> Finding(found, kind, Op(p).label, stamp)]>>
<1>1. stamp \in Nat /\ clock <= stamp /\ clock \in Nat
  BY DEF StoreInv
<1>2. /\ Op(p).scope \in Permitted /\ IsUrl(Op(p).host) /\ ~AddressProblem(Op(p).host)
      /\ TodoOK(Rest(p), clock)
  BY AtReads DEF OpOK
<1>3. ASSUME NEW kind PROVE TodoOK(Filing(kind), stamp)
  <2>1. CASE \A c \in found : c[2] # kind
    BY <2>1, ShortTodo
  <2>2. CASE \E c \in found : c[2] = kind
    <3>1. PICK finding : finding = Finding(found, kind, Op(p).label, stamp)
      OBVIOUS
    <3>2. FindingOK(finding, stamp)
      <4> HIDE DEF stamp
      <4> QED BY <1>1, <1>2, <2>2, <3>1, FoundOK
    <3>3. OpOK([op |-> "upsert", finding |-> finding], stamp)
      BY <3>2 DEF OpOK
    <3>4. Filing(kind) = <<[op |-> "upsert", finding |-> finding]>>
      BY <2>2, <3>1
    <3> HIDE DEF stamp, Filing
    <3> QED BY <3>3, <3>4, ShortTodo
  <2> QED BY <2>1, <2>2
<1>4. TodoOK(Rest(p), stamp)
  <2> HIDE DEF stamp
  <2> QED BY <1>1, <1>2, TodoLater
<1>5. TodoOK(Filing("ollama") \o Filing("llamacpp") \o Rest(p), stamp)
  <2> HIDE DEF stamp, Filing
  <2>1. TodoOK(Filing("ollama") \o Filing("llamacpp"), stamp)
    BY <1>3, TodoJoin
  <2> QED BY <1>4, <2>1, TodoJoin
<1>6. /\ clock' = stamp /\ UNCHANGED <<file, begun>>
      /\ GoOn(p, Filing("ollama") \o Filing("llamacpp") \o Rest(p))
  BY DEF Look
<1> HIDE DEF stamp, Filing
<1> QED BY <1>1, <1>5, <1>6, GoOnKeeps

-----------------------------------------------------------------------------
(* The other operations *)

LEMMA SameTime ==
    ASSUME StoreInv, UNCHANGED clock
    PROVE  clock' \in Nat /\ clock <= clock' /\ clock' = clock
BY DEF StoreInv

LEMMA SetConsentKeeps ==
    ASSUME StoreInv, NEW p \in Programs, SetConsent(p)
    PROVE  StoreInv'
<1>1. Op(p).scope \in Permitted /\ TodoOK(Rest(p), clock)
  BY AtReads DEF SetConsent, OpOK
<1>2. Save(p, Load.nodes, Op(p).scope, Rest(p)) /\ UNCHANGED <<file, begun, clock>>
  BY DEF SetConsent
<1> QED BY <1>1, <1>2, LoadOK, SameTime, SaveKeeps

LEMMA UpsertKeeps ==
    ASSUME StoreInv, NEW p \in Programs, Upsert(p)
    PROVE  StoreInv'
<1>1. FindingOK(Op(p).finding, clock) /\ TodoOK(Rest(p), clock)
  BY AtReads DEF Upsert, OpOK
<1>2. UNCHANGED <<file, begun, clock>>
  BY DEF Upsert
<1>3. CASE Ambiguous(Load.nodes, Op(p).finding)
  <2>1. GoOn(p, Refusal(Rest(p)))
    BY <1>3 DEF Upsert
  <2>2. TodoOK(Refusal(Rest(p)), clock)
    BY <1>1, TodoSplit, ShortTodo DEF Refusal
  <2> QED BY <1>2, <2>1, <2>2, SameTime, GoOnKeeps
<1>4. CASE ~Ambiguous(Load.nodes, Op(p).finding)
  <2>1. Save(p, Upserted(Load.nodes, Op(p).finding), Load.consent, Rest(p))
    BY <1>4 DEF Upsert
  <2>2. NodesOK(Upserted(Load.nodes, Op(p).finding), clock)
    BY <1>1, <1>4, LoadOK, UpsertedOK DEF StoreInv
  <2> QED BY <1>1, <1>2, <2>1, <2>2, LoadOK, SameTime, SaveKeeps
<1> QED BY <1>3, <1>4

LEMMA RecordKeeps ==
    ASSUME StoreInv, NEW p \in Programs, RecordByHand(p)
    PROVE  StoreInv'
<1>1. FindingOK(Op(p).finding, clock)
  BY AtReads DEF RecordByHand, OpOK
<1>2. UNCHANGED <<file, begun, clock>>
  BY DEF RecordByHand
<1>3. PICK o : o = [op |-> "insert", finding |-> Op(p).finding, contact |-> Op(p).contact]
  OBVIOUS
<1>4. OpOK(o, clock)
  BY <1>1, <1>3 DEF OpOK
<1>5. GoOn(p, <<>>) \/ GoOn(p, <<o>>)
  BY <1>3 DEF RecordByHand
<1> QED BY <1>2, <1>4, <1>5, ShortTodo, SameTime, GoOnKeeps

LEMMA LookAtOK ==
    ASSUME NEW id, NEW node, NEW now, IsUrl(node.url), ~AddressProblem(node.url)
    PROVE  TodoOK(LookAt(id, node), now)
<1>1. PICK a, b, c :
        /\ a = [op |-> "set_consent", scope |-> "NAMED_HOST"]
        /\ b = [op |-> "look", scope |-> "NAMED_HOST", host |-> node.url,
                label |-> <<>>, checks |-> {Address(node)}]
        /\ c = [op |-> "confirm", id |-> id, before |-> node.last_probed_at]
  OBVIOUS
<1>2. OpOK(a, now) /\ OpOK(b, now) /\ OpOK(c, now)
  BY <1>1 DEF OpOK, Permitted, Scopes
<1>3. LookAt(id, node) = <<a, b, c>>
  BY <1>1 DEF LookAt
<1> QED BY <1>2, <1>3, ShortTodo

LEMMA InsertKeeps ==
    ASSUME StoreInv, NEW p \in Programs, InsertByHand(p)
    PROVE  StoreInv'
<1> DEFINE typed == Op(p).finding
           node == [typed.node EXCEPT !.last_probed_at = Never]
           todo == IF Op(p).contact THEN LookAt(FiledUnder(Load.nodes, typed), node) ELSE <<>>
<1>1. FindingOK(typed, clock)
  BY AtReads DEF InsertByHand, OpOK
<1>2. UNCHANGED <<file, begun, clock>>
  BY DEF InsertByHand
<1>3. CASE Ambiguous(Load.nodes, typed)
  <2>1. GoOn(p, <<>>)
    BY <1>3 DEF InsertByHand
  <2> QED BY <1>2, <2>1, ShortTodo, SameTime, GoOnKeeps
<1>4. CASE ~Ambiguous(Load.nodes, typed)
  <2>1. Save(p, Upserted(Load.nodes, typed), Load.consent, todo)
    BY <1>4 DEF InsertByHand
  <2>2. NodesOK(Upserted(Load.nodes, typed), clock)
    BY <1>1, <1>4, LoadOK, UpsertedOK DEF StoreInv
  <2>3. node.url = typed.node.url
    BY <1>1 DEF FindingOK, NodeOK, IsNode
  <2>4. IsUrl(node.url) /\ ~AddressProblem(node.url)
    BY <1>1, <2>3 DEF FindingOK, NodeOK, IsNode
  <2>5. TodoOK(todo, clock)
    <3> HIDE DEF node, typed
    <3> QED BY <2>4, LookAtOK, ShortTodo
  <2> HIDE DEF typed, todo
  <2> QED BY <1>2, <2>1, <2>2, <2>5, LoadOK, SameTime, SaveKeeps
<1> QED BY <1>3, <1>4

LEMMA ConfirmKeeps ==
    ASSUME StoreInv, NEW p \in Programs, Confirm(p)
    PROVE  StoreInv'
<1>1. UNCHANGED <<file, begun, clock>>
  BY DEF Confirm
<1>2. PICK o : o = [op |-> "silent", id |-> Op(p).id]
  OBVIOUS
<1>3. OpOK(o, clock)
  BY <1>2 DEF OpOK
<1>4. GoOn(p, <<>>) \/ GoOn(p, <<o>>)
  BY <1>2 DEF Confirm
<1> QED BY <1>1, <1>3, <1>4, ShortTodo, SameTime, GoOnKeeps

LEMMA SilentKeeps ==
    ASSUME StoreInv, NEW p \in Programs, MarkSilent(p)
    PROVE  StoreInv'
<1>1. /\ clock' = clock + 1 /\ UNCHANGED <<file, begun>>
      /\ clock \in Nat /\ clock' \in Nat /\ clock <= clock'
  BY DEF MarkSilent, StoreInv
<1>2. CASE Op(p).id \in DOMAIN Load.nodes
  <2>1. Save(p, Silenced(Load.nodes, Op(p).id, clock'), Load.consent, <<>>)
    BY <1>1, <1>2 DEF MarkSilent
  <2>2. NodesOK(Load.nodes, clock')
    BY <1>1, LoadOK, NodesLater
  <2>3. NodesOK(Silenced(Load.nodes, Op(p).id, clock'), clock')
    BY <1>1, <1>2, <2>2, SilencedOK
  <2> QED BY <1>1, <2>1, <2>3, LoadOK, ShortTodo, SaveKeeps
<1>3. CASE Op(p).id \notin DOMAIN Load.nodes
  <2>1. GoOn(p, <<>>)
    BY <1>3 DEF MarkSilent
  <2> QED BY <1>1, <2>1, ShortTodo, GoOnKeeps
<1> QED BY <1>2, <1>3

LEMMA ForgetKeeps ==
    ASSUME StoreInv, NEW p \in Programs, Forget(p)
    PROVE  StoreInv'
<1>1. UNCHANGED <<file, begun, clock>>
  BY DEF Forget
<1>2. GoOn(p, <<>>) \/ Save(p, Without(Load.nodes, Op(p).id), Load.consent, <<>>)
  BY DEF Forget
<1>3. NodesOK(Without(Load.nodes, Op(p).id), clock)
  BY LoadOK, WithoutOK
<1> QED BY <1>1, <1>2, <1>3, LoadOK, ShortTodo, SameTime, GoOnKeeps, SaveKeeps

LEMMA UpdateKeeps ==
    ASSUME StoreInv, NEW p \in Programs, UpdateField(p)
    PROVE  StoreInv'
<1> DEFINE nodes == Load.nodes
           e == Op(p)
           after == [nodes EXCEPT ![e.id] = Edited(nodes[e.id], e.field, e.value)]
<1>1. EditOK(e.field, e.value)
  BY AtReads DEF UpdateField, OpOK
<1>2. UNCHANGED <<file, begun, clock>>
  BY DEF UpdateField
<1>3. CASE Editable(nodes, e.id, e.field, e.value)
  <2>1. Save(p, after, Load.consent, <<>>)
    BY <1>3 DEF UpdateField
  <2>2. NodesOK(after, clock)
    <3> HIDE DEF e, nodes
    <3>1. NodesOK(nodes, clock)
      BY LoadOK DEF nodes
    <3> QED BY <1>1, <1>3, <3>1, EditedOK
  <2> HIDE DEF after
  <2> QED BY <1>2, <2>1, <2>2, LoadOK, ShortTodo, SameTime, SaveKeeps
<1>4. CASE ~Editable(nodes, e.id, e.field, e.value)
  <2>1. GoOn(p, <<>>)
    BY <1>4 DEF UpdateField
  <2> QED BY <1>2, <2>1, ShortTodo, SameTime, GoOnKeeps
<1> QED BY <1>3, <1>4

LEMMA CheckKeeps ==
    ASSUME StoreInv, NEW p \in Programs, CheckNode(p)
    PROVE  StoreInv'
<1> DEFINE id == Op(p).id
<1>1. UNCHANGED <<file, begun, clock>>
  BY DEF CheckNode
<1>2. CASE id \in DOMAIN Load.nodes /\ ~AddressProblem(Load.nodes[id].url)
  <2>1. GoOn(p, LookAt(id, Load.nodes[id]))
    BY <1>2 DEF CheckNode
  <2>2. IsUrl(Load.nodes[id].url)
    BY <1>2, LoadOK DEF NodesOK, NodeOK, IsNode
  <2>3. TodoOK(LookAt(id, Load.nodes[id]), clock)
    BY <1>2, <2>2, LookAtOK
  <2> QED BY <1>1, <2>1, <2>3, SameTime, GoOnKeeps
<1>3. CASE ~(id \in DOMAIN Load.nodes /\ ~AddressProblem(Load.nodes[id].url))
  <2>1. GoOn(p, <<>>)
    BY <1>3 DEF CheckNode
  <2> QED BY <1>1, <2>1, ShortTodo, SameTime, GoOnKeeps
<1> QED BY <1>2, <1>3
-----------------------------------------------------------------------------
(* Commands *)

LEMMA ConsentBegins ==
    ASSUME StoreInv, NEW p \in Programs, NEW scope \in Scopes, NodeConsent(p, scope)
    PROVE  StoreInv'
<1>1. PICK o : o = [op |-> "set_consent", scope |-> scope]
  OBVIOUS
<1>2. OpOK(o, clock)
  BY <1>1 DEF NodeConsent, OpOK, Permitted
<1>3. Begin(p, <<o>>)
  BY <1>1 DEF NodeConsent
<1> QED BY <1>2, <1>3, ShortTodo, BeginKeeps

LEMMA ScanBegins ==
    ASSUME StoreInv, NEW p \in Programs, NEW scope \in Scopes, NEW host \in TypedUrls,
           NEW label, NodeScan(p, scope, host, label)
    PROVE  StoreInv'
<1>1. PICK place : place = IF scope = "NAMED_HOST" THEN host ELSE Unnamed
  OBVIOUS
<1>2. IsUrl(place) /\ ~AddressProblem(place)
  BY <1>1, TypedAssumption DEF NodeScan, Unnamed, IsUrl, AddressProblem, HasUserinfo
<1>3. PICK a, b : /\ a = [op |-> "set_consent", scope |-> scope]
                  /\ b = [op |-> "look", scope |-> scope, label |-> label,
                          checks |-> {}, host |-> place]
  OBVIOUS
<1>4. OpOK(a, clock) /\ OpOK(b, clock)
  BY <1>2, <1>3 DEF NodeScan, OpOK, Permitted
<1>5. Begin(p, <<a, b>>)
  BY <1>1, <1>3 DEF NodeScan
<1> QED BY <1>4, <1>5, ShortTodo, BeginKeeps

LEMMA AddBegins ==
    ASSUME StoreInv, NEW p \in Programs, NEW label, NEW kind \in NodeKinds,
           NEW url \in TypedUrls, NEW contact, NodeAdd(p, label, kind, url, contact)
    PROVE  StoreInv'
<1>1. PICK place : place = AddressFor(url, kind)
  OBVIOUS
<1>2. IsUrl(place) /\ NamesAPort(place) /\ ~AddressProblem(place)
  BY <1>1, TypedAssumption, AddressRead DEF NodeAdd
<1>3. PICK typed : typed = TypedIn(label, kind, place)
  OBVIOUS
<1>4. FindingOK(typed, clock)
  <2>1. /\ IsId(typed.node_id)
        /\ typed.node = [label |-> label, kind |-> kind, url |-> place,
                         reachable |-> FALSE, last_probed_at |-> Never,
                         declared |-> {"label", "url", "kind"}]
    BY <1>3 DEF TypedIn, Slugify, IsId
  <2> QED BY <1>2, <2>1 DEF FindingOK, NodeOK, IsNode, Never, StoreInv
<1>5. PICK o : o = [op |-> "record", contact |-> contact, finding |-> typed]
  OBVIOUS
<1>6. OpOK(o, clock)
  BY <1>4, <1>5 DEF OpOK
<1>7. Begin(p, <<o>>)
  BY <1>1, <1>3, <1>5 DEF NodeAdd
<1> QED BY <1>6, <1>7, ShortTodo, BeginKeeps

LEMMA EditBegins ==
    ASSUME StoreInv, NEW p \in Programs, NEW id, NEW field, NEW value,
           EditOK(field, value), NodeEdit(p, id, field, value)
    PROVE  StoreInv'
<1>1. PICK o : o = [op |-> "edit", id |-> id, field |-> field, value |-> value]
  OBVIOUS
<1>2. OpOK(o, clock)
  BY <1>1 DEF OpOK
<1>3. Begin(p, <<o>>)
  BY <1>1 DEF NodeEdit
<1> QED BY <1>2, <1>3, ShortTodo, BeginKeeps

LEMMA CheckOrForgetBegins ==
    ASSUME StoreInv, NEW p \in Programs, NEW id, NodeCheck(p, id) \/ NodeForget(p, id)
    PROVE  StoreInv'
<1>1. ASSUME NEW op \in {"check", "forget"}, Begin(p, <<[op |-> op, id |-> id]>>)
      PROVE  StoreInv'
  <2>1. PICK o : o = [op |-> op, id |-> id]
    OBVIOUS
  <2>2. OpOK(o, clock)
    BY <2>1 DEF OpOK
  <2> QED BY <1>1, <2>1, <2>2, ShortTodo, BeginKeeps
<1> QED BY <1>1 DEF NodeCheck, NodeForget

-----------------------------------------------------------------------------
(* The store *)

\* A file the programs could have left, or a person with care: addresses that
\* would be accepted if they were typed, names the runtime does not resolve.
WellKept(text) ==
    /\ text.consent # "LOCAL_NETWORK"
    /\ \A id \in DOMAIN text.nodes :
          id \notin NamesInUse /\ ~AddressProblem(text.nodes[id].url)
    /\ Apart(text.nodes)

LEMMA StoreInit ==
    ASSUME \A text \in Stored \ {Absent, Emptied} : WellKept(text), Init
    PROVE  StoreInv
<1>1. clock = 1 /\ begun = 0 /\ begun \in 0..MaxCommands
  BY BoundsAssumption DEF Init
<1>2. file \in {Absent, Emptied} \/ TextOK(file, clock)
  BY <1>1, StoredAssumption
     DEF Init, WellKept, TextOK, Permitted, NodesOK, NodeOK, Never
<1>3. \A p \in Programs : SessionOK(session[p], clock)
  <2>1. SessionOK(Idle, clock)
    BY ShortTodo DEF SessionOK, SavingOK, Idle
  <2> QED BY <2>1 DEF Init
<1> QED BY <1>1, <1>2, <1>3 DEF StoreInv, Init

LEMMA StoreKept ==
    ASSUME StoreInv, [Next]_vars
    PROVE  StoreInv'
<1>1. CASE UNCHANGED vars
  BY <1>1 DEF vars, StoreInv
<1>2. CASE Next
  <2>1. PICK p \in Programs :
          \/ \E scope \in Scopes : NodeConsent(p, scope)
          \/ \E scope \in Scopes, host \in TypedUrls, label \in Labels \cup {<<>>} :
                NodeScan(p, scope, host, label)
          \/ \E label \in Labels, kind \in NodeKinds, url \in TypedUrls, contact \in BOOLEAN :
                NodeAdd(p, label, kind, url, contact)
          \/ \E id \in DOMAIN Load.nodes :
                \/ NodeCheck(p, id) \/ NodeForget(p, id)
                \/ \E label \in Labels : NodeEdit(p, id, "label", label)
                \/ \E url \in TypedUrls : NodeEdit(p, id, "url", url)
                \/ \E kind \in NodeKinds : NodeEdit(p, id, "kind", kind)
          \/ SetConsent(p) \/ Upsert(p) \/ RecordByHand(p) \/ InsertByHand(p)
          \/ At(p, "look") /\ \E found \in SUBSET CandidateAddresses(Op(p).scope, Op(p).host) :
                                 Look(p, found)
          \/ Confirm(p) \/ MarkSilent(p) \/ Forget(p) \/ UpdateField(p) \/ CheckNode(p)
          \/ OpenToWrite(p) \/ WriteText(p) \/ Die(p)
    BY <1>2 DEF Next
  <2>2. CASE \E scope \in Scopes : NodeConsent(p, scope)
    BY <2>2, ConsentBegins
  <2>3. CASE \E scope \in Scopes, host \in TypedUrls, label \in Labels \cup {<<>>} :
                NodeScan(p, scope, host, label)
    BY <2>3, ScanBegins
  <2>4. CASE \E label \in Labels, kind \in NodeKinds, url \in TypedUrls, contact \in BOOLEAN :
                NodeAdd(p, label, kind, url, contact)
    BY <2>4, AddBegins
  <2>5. ASSUME NEW id,
               \/ NodeCheck(p, id) \/ NodeForget(p, id)
               \/ \E label \in Labels : NodeEdit(p, id, "label", label)
               \/ \E url \in TypedUrls : NodeEdit(p, id, "url", url)
               \/ \E kind \in NodeKinds : NodeEdit(p, id, "kind", kind)
        PROVE  StoreInv'
    <3>1. /\ \A label \in Labels : EditOK("label", label)
          /\ \A url \in TypedUrls : EditOK("url", url)
          /\ \A kind \in NodeKinds : EditOK("kind", kind)
      BY TypedAssumption DEF EditOK
    <3> QED BY <2>5, <3>1, CheckOrForgetBegins, EditBegins
  <2>6. CASE At(p, "look") /\ \E found \in SUBSET CandidateAddresses(Op(p).scope, Op(p).host) :
                                 Look(p, found)
    BY <2>6, LookKeeps
  <2> QED BY <2>1, <2>2, <2>3, <2>4, <2>5, <2>6, SetConsentKeeps, UpsertKeeps, RecordKeeps,
             InsertKeeps, ConfirmKeeps, SilentKeeps, ForgetKeeps, UpdateKeeps, CheckKeeps,
             WritingKeeps, DieKeeps
<1> QED BY <1>1, <1>2

LEMMA StoreHolds ==
    ASSUME \A text \in Stored \ {Absent, Emptied} : WellKept(text)
    PROVE  Spec => []StoreInv
<1>1. Init => StoreInv
  BY StoreInit
<1>2. StoreInv /\ [Next]_vars => StoreInv'
  BY StoreKept
<1> QED BY <1>1, <1>2, PTL DEF Spec

\* nodes/store.py, cli.py, gui/services/nodes.py: whatever is typed, found or
\* edited, the file holds computers a command can use, with no address that
\* would have been refused, and a permission that can be asked for.
THEOREM TypeCorrect ==
    ASSUME \A text \in Stored \ {Absent, Emptied} : WellKept(text)
    PROVE  Spec => []TypeOK
<1>1. StoreInv => TypeOK
  BY DEF StoreInv, TypeOK, TextOK, NodesOK, NodeOK, IsNode, IsId, Permitted
<1> QED BY <1>1, StoreHolds, PTL

\* nodes/store.py, upsert(): whichever commands interleave, lose each other's
\* updates or read an emptied file, and wherever they die, two computers
\* share an address only if one was written without a port, and every name the
\* runtime resolves by itself still leads where it did.
THEOREM ComputersAlwaysApart ==
    ASSUME \A text \in Stored \ {Absent, Emptied} : WellKept(text)
    PROVE  Spec => []ComputersStayApart
<1>1. StoreInv => ComputersStayApart
  <2> SUFFICES ASSUME StoreInv PROVE ComputersStayApart
    OBVIOUS
  <2>1. PICK nodes : nodes = Load.nodes /\ NodesOK(nodes, clock)
    BY LoadOK
  <2>2. ASSUME NEW ids \in DuplicateGroups(nodes)
        PROVE  \E id \in ids : ~NamesAPort(nodes[id].url)
    <3>1. PICK id \in DOMAIN nodes :
            /\ ids = {other \in DOMAIN nodes : Address(nodes[other]) = Address(nodes[id])}
            /\ Cardinality(ids) > 1
      BY <2>2 DEF DuplicateGroups
    <3>2. PICK other \in ids : other # id
      <4>1. Cardinality({id}) = 1
        BY FS_Singleton
      <4>2. ids # {id}
        BY <3>1, <4>1
      <4> QED BY <3>1, <4>2
    <3> QED BY <2>1, <3>1, <3>2 DEF NodesOK, Apart
  <2>3. ASSUME NEW id \in DOMAIN Endpoints
        PROVE  MergedEndpoints(nodes)[id] = Endpoints[id]
    <3>1. id \notin DOMAIN nodes
      BY <2>1 DEF NodesOK, NamesInUse
    <3> QED BY <3>1 DEF MergedEndpoints
  <2> QED BY <2>1, <2>2, <2>3 DEF ComputersStayApart
<1> QED BY <1>1, StoreHolds, PTL
-----------------------------------------------------------------------------
(* What one program at a time leaves true *)

Ops(todo) == {todo[i] : i \in DOMAIN todo}

\* What the file says once the program has saved.
Coming(s) ==
    IF s.saving = Nothing THEN Load
    ELSE IF s.saving.content = "yaml" THEN s.saving ELSE s.saving.text

\* What was typed is still declared, and as it was typed.
KeptIn(nodes, tellings) ==
    \A pair \in DOMAIN tellings :
        /\ pair[1] \in DOMAIN nodes
        /\ pair[2] \in nodes[pair[1]].declared
        /\ IF pair[2] = "url" THEN SamePlace(nodes[pair[1]].url, tellings[pair])
           ELSE nodes[pair[1]][pair[2]] = tellings[pair]

\* The only computer at an address that was looked at.
Claimed(nodes, looks, id) ==
    /\ id \in DOMAIN nodes /\ Address(nodes[id]) \in DOMAIN looks
    /\ \A other \in DOMAIN nodes : Address(nodes[other]) = Address(nodes[id]) => other = id

LookOf(nodes, looks, id) == looks[Address(nodes[id])]

Settled(nodes, looks) ==
    \A id \in DOMAIN nodes :
        Claimed(nodes, looks, id) => StatusOf(nodes[id]) = LookOf(nodes, looks, id)

\* The upsert that will file what answered at this address.
Files(o, address) == o.op = "upsert" /\ o.finding.node.url = address

\* A finding on its way into the store.
Found(o, looks) ==
    o.op = "upsert" =>
        /\ o.finding.node.reachable = TRUE
        /\ o.finding.node.url \in DOMAIN looks
        /\ looks[o.finding.node.url] = "answering"

\* A confirmation finds the computer refreshed exactly when it answered.
Confirms(o, todo, nodes, looks) ==
    o.op = "confirm" =>
        /\ o.id \in DOMAIN nodes /\ Address(nodes[o.id]) \in DOMAIN looks
        /\ LookOf(nodes, looks, o.id) = "answering" =>
              \/ \E u \in Ops(todo) : Files(u, Address(nodes[o.id]))
              \/ nodes[o.id].last_probed_at # o.before
        /\ \A u \in Ops(todo) : u.op = "upsert" => u.finding.node.last_probed_at # o.before

\* Every look is on its card, or about to be.
Owed(todo, nodes, looks) ==
    \A id \in DOMAIN nodes : Claimed(nodes, looks, id) =>
        \/ StatusOf(nodes[id]) = LookOf(nodes, looks, id)
        \/ \E u \in Ops(todo) : Files(u, Address(nodes[id]))
        \/ \E c \in Ops(todo) :
              /\ c.op = "confirm" /\ c.id = id
              /\ nodes[id].last_probed_at = c.before
              /\ LookOf(nodes, looks, id) = "not answering"

Confirming(todo) == todo = <<>> \/ (Head(todo).op = "confirm" /\ Tail(todo) = <<>>)

\* At most two findings to file, one for each program, then a confirmation.
Filing(todo) ==
    \/ Confirming(todo)
    \/ /\ todo # <<>> /\ Head(todo).op = "upsert"
       /\ \/ Confirming(Tail(todo))
          \/ /\ Tail(todo) # <<>> /\ Head(Tail(todo)).op = "upsert"
             /\ Confirming(Tail(Tail(todo)))

\* A look that is about a computer is confirmed.
Looking(todo, nodes) ==
    /\ todo # <<>> /\ Head(todo).op = "look"
    /\ Confirming(Tail(todo))
    /\ \A o \in Ops(Tail(todo)) : o.id \in DOMAIN nodes /\ nodes[o.id].last_probed_at = o.before
    /\ Head(todo).checks = {Address(nodes[o.id]) : o \in Ops(Tail(todo))}

Preparing(todo, nodes) ==
    /\ todo # <<>> /\ Head(todo).op = "set_consent"
    /\ \/ Tail(todo) = <<>>
       \/ Looking(Tail(todo), nodes) /\ Head(Tail(todo)).scope = Head(todo).scope

Editing(todo, nodes) ==
    /\ todo # <<>> /\ Tail(todo) = <<>>
    /\ Head(todo).op \in {"record", "insert", "check", "forget", "edit"}
    /\ Head(todo).op \in {"record", "insert"} =>
          Head(todo).finding.node.last_probed_at = Never
    /\ Head(todo).op = "insert" =>
          ~RecordedAt(nodes, Head(todo).finding.node.url, Head(todo).finding.node.kind)

Silencing(todo, nodes, looks) ==
    /\ todo # <<>> /\ Tail(todo) = <<>> /\ Head(todo).op = "silent"
    /\ Head(todo).id \in DOMAIN nodes
    /\ Address(nodes[Head(todo).id]) \in DOMAIN looks
    /\ LookOf(nodes, looks, Head(todo).id) = "not answering"
    /\ \A id \in DOMAIN nodes \ {Head(todo).id} :
          Claimed(nodes, looks, id) => StatusOf(nodes[id]) = LookOf(nodes, looks, id)

PlanOK(todo, nodes, consent, looks) ==
    \/ /\ Filing(todo) /\ Owed(todo, nodes, looks)
       /\ \A o \in Ops(todo) : Found(o, looks) /\ Confirms(o, todo, nodes, looks)
    \/ /\ Settled(nodes, looks)
       /\ \/ Looking(todo, nodes) /\ Head(todo).scope = consent
          \/ Preparing(todo, nodes) \/ Editing(todo, nodes)
    \/ Silencing(todo, nodes, looks)

Holds(s) ==
    /\ KeptIn(Coming(s).nodes, told)
    /\ PlanOK(s.todo, Coming(s).nodes, Coming(s).consent, looked)

TrueInv ==
    ~disturbed =>
        /\ \A a \in DOMAIN looked : looked[a] \in {"answering", "not answering"}
        /\ \A p, q \in Programs : p # q => session[p] = Idle \/ session[q] = Idle
        /\ (\A p \in Programs : session[p] = Idle) => Holds(Idle)
        /\ \A p \in Programs : session[p] # Idle => Holds(session[p])

-----------------------------------------------------------------------------
(* Operations still to do *)

LEMMA NoOps == Ops(<<>>) = {}
BY DEF Ops

LEMMA OneOp ==
    ASSUME NEW a
    PROVE  <<a>> # <<>> /\ Head(<<a>>) = a /\ Tail(<<a>>) = <<>> /\ Ops(<<a>>) = {a}
BY DEF Ops

LEMMA TwoOps ==
    ASSUME NEW a, NEW b
    PROVE  <<a, b>> # <<>> /\ Head(<<a, b>>) = a /\ Tail(<<a, b>>) = <<b>>
BY DEF Ops

LEMMA ThreeOps ==
    ASSUME NEW a, NEW b, NEW c
    PROVE  <<a, b, c>> # <<>> /\ Head(<<a, b, c>>) = a /\ Tail(<<a, b, c>>) = <<b, c>>
BY DEF Ops

LEMMA OpsSplit ==
    ASSUME NEW S, NEW todo \in Seq(S), todo # <<>>
    PROVE  Ops(todo) = {Head(todo)} \cup Ops(Tail(todo))
<1>1. Tail(todo) \in Seq(S) /\ Len(Tail(todo)) = Len(todo) - 1
  OBVIOUS
<1>2. \A i \in 1..Len(todo) : i = 1 \/ (i - 1 \in 1..Len(Tail(todo)) /\ Tail(todo)[i - 1] = todo[i])
  BY <1>1
<1>3. \A i \in 1..Len(Tail(todo)) : i + 1 \in 1..Len(todo) /\ Tail(todo)[i] = todo[i + 1]
  BY <1>1
<1>4. Head(todo) = todo[1] /\ 1 \in DOMAIN todo
  OBVIOUS
<1>5. DOMAIN todo = 1..Len(todo) /\ DOMAIN Tail(todo) = 1..Len(Tail(todo))
  BY <1>1
<1> DEFINE tail == Tail(todo)
<1>6. ASSUME NEW i \in DOMAIN todo PROVE todo[i] = Head(todo) \/ todo[i] \in Ops(tail)
  <2>1. i = 1 \/ (i - 1 \in DOMAIN tail /\ tail[i - 1] = todo[i])
    BY <1>2, <1>5
  <2> QED BY <1>4, <2>1 DEF Ops
<1>7. ASSUME NEW i \in DOMAIN tail PROVE tail[i] \in Ops(todo)
  BY <1>3, <1>5 DEF Ops
<1>8. Head(todo) \in Ops(todo)
  BY <1>4 DEF Ops
<1>9. \A o \in Ops(todo) : \E i \in DOMAIN todo : o = todo[i]
  BY DEF Ops
<1>10. \A o \in Ops(tail) : \E i \in DOMAIN tail : o = tail[i]
  BY DEF Ops
<1> HIDE DEF tail
<1> QED BY <1>6, <1>7, <1>8, <1>9, <1>10 DEF tail

LEMMA OpsAdded ==
    ASSUME NEW S, NEW a \in S, NEW todo \in Seq(S)
    PROVE  /\ <<a>> \o todo \in Seq(S) /\ <<a>> \o todo # <<>>
           /\ Head(<<a>> \o todo) = a /\ Tail(<<a>> \o todo) = todo
           /\ Ops(<<a>> \o todo) = {a} \cup Ops(todo)
<1>1. PICK more : more = <<a>> \o todo
  OBVIOUS
<1>2. more \in Seq(S) /\ Len(more) = Len(todo) + 1 /\ more[1] = a
      /\ \A i \in 1..Len(todo) : more[i + 1] = todo[i]
  BY <1>1
<1>3. more # <<>> /\ Head(more) = a
  BY <1>2
<1>4. Tail(more) = todo
  <2>1. Tail(more) \in Seq(S) /\ Len(Tail(more)) = Len(todo)
        /\ \A i \in 1..Len(todo) : Tail(more)[i] = more[i + 1]
    BY <1>2, <1>3
  <2> QED BY <1>2, <2>1
<1>5. Ops(more) = {a} \cup Ops(todo)
  BY <1>2, <1>3, <1>4, OpsSplit
<1> QED BY <1>1, <1>2, <1>3, <1>4, <1>5

-----------------------------------------------------------------------------
(* Looks and what was typed, over a change of the store *)

\* The only computer at an address is still the only one, unless another one
\* came there or left.
LEMMA ClaimStays ==
    ASSUME NEW nodes, NEW after, NEW looks, NEW looks2, NEW id, NEW o,
           DOMAIN looks2 \subseteq DOMAIN looks,
           DOMAIN nodes \ {id} \subseteq DOMAIN after,
           \A other \in DOMAIN nodes \ {id} : after[other] = nodes[other],
           id \in DOMAIN nodes =>
               \/ Address(nodes[id]) \notin DOMAIN looks2
               \/ id \in DOMAIN after /\ Address(after[id]) = Address(nodes[id]),
           o # id, o \in DOMAIN nodes, Claimed(after, looks2, o)
    PROVE  Claimed(nodes, looks, o)
<1>1. Address(after[o]) = Address(nodes[o]) /\ Address(nodes[o]) \in DOMAIN looks2
  BY DEF Claimed
<1>2. ASSUME NEW other \in DOMAIN nodes, Address(nodes[other]) = Address(nodes[o])
      PROVE  other = o
  <2>1. CASE other # id
    BY <1>1, <1>2, <2>1 DEF Claimed
  <2>2. CASE other = id
    BY <1>1, <1>2, <2>2 DEF Claimed
  <2> QED BY <2>1, <2>2
<1> QED BY <1>1, <1>2 DEF Claimed

LEMMA SettledOver ==
    ASSUME NEW nodes, NEW after, NEW looks, NEW looks2, NEW id,
           Settled(nodes, looks),
           DOMAIN looks2 \subseteq DOMAIN looks, \A a \in DOMAIN looks2 : looks2[a] = looks[a],
           DOMAIN nodes \ {id} \subseteq DOMAIN after,
           DOMAIN after \subseteq DOMAIN nodes \cup {id},
           \A other \in DOMAIN nodes \ {id} : after[other] = nodes[other],
           id \in DOMAIN nodes =>
               \/ Address(nodes[id]) \notin DOMAIN looks2
               \/ id \in DOMAIN after /\ Address(after[id]) = Address(nodes[id]),
           id \in DOMAIN after =>
               \/ Address(after[id]) \notin DOMAIN looks2
               \/ /\ id \in DOMAIN nodes /\ Address(after[id]) = Address(nodes[id])
                  /\ StatusOf(after[id]) = StatusOf(nodes[id])
    PROVE  Settled(after, looks2)
<1> SUFFICES ASSUME NEW o \in DOMAIN after, Claimed(after, looks2, o)
             PROVE  StatusOf(after[o]) = LookOf(after, looks2, o)
  BY DEF Settled
<1>1. CASE o # id
  <2>1. o \in DOMAIN nodes /\ after[o] = nodes[o]
    BY <1>1
  <2>2. Claimed(nodes, looks, o)
    BY <1>1, <2>1, ClaimStays
  <2> QED BY <2>1, <2>2 DEF Settled, LookOf, Claimed
<1>2. CASE o = id
  <2>1. /\ id \in DOMAIN nodes /\ Address(after[id]) = Address(nodes[id])
        /\ StatusOf(after[id]) = StatusOf(nodes[id])
    BY <1>2 DEF Claimed
  <2>2. \A other \in DOMAIN nodes : Address(nodes[other]) = Address(nodes[id]) => other = id
    BY <1>2, <2>1 DEF Claimed
  <2>3. Claimed(nodes, looks, id)
    BY <1>2, <2>1, <2>2 DEF Claimed
  <2> QED BY <1>2, <2>1, <2>3 DEF Settled, LookOf, Claimed
<1> QED BY <1>1, <1>2

LEMMA SettledBefore ==
    ASSUME NEW nodes, NEW looks, NEW consent
    PROVE  PlanOK(<<>>, nodes, consent, looks) <=> Settled(nodes, looks)
<1>1. Filing(<<>>) /\ ~Looking(<<>>, nodes) /\ ~Preparing(<<>>, nodes)
      /\ ~Editing(<<>>, nodes) /\ ~Silencing(<<>>, nodes, looks)
  BY DEF Filing, Confirming, Looking, Preparing, Editing, Silencing
<1>2. Owed(<<>>, nodes, looks) <=> Settled(nodes, looks)
  BY NoOps DEF Owed, Settled
<1> QED BY <1>1, <1>2, NoOps DEF PlanOK

\* Telling of a computer tells all that it declares.
LEMMA ToldOver ==
    ASSUME NEW nodes, NEW after, NEW id, KeptIn(nodes, told),
           DOMAIN nodes \subseteq DOMAIN after, id \in DOMAIN after,
           \A other \in DOMAIN nodes \ {id} : after[other] = nodes[other],
           id \in DOMAIN nodes => nodes[id].declared \subseteq after[id].declared,
           TellsOf(id, after[id])
    PROVE  KeptIn(after, told')
<1> DEFINE node == after[id]
<1>1. PICK mine : mine = {<<id, f>> : f \in node.declared}
  OBVIOUS
<1>2. told' = [pair \in DOMAIN told \cup mine |->
                  IF pair[1] = id /\ pair[2] \in node.declared
                  THEN node[pair[2]] ELSE told[pair]]
  BY <1>1 DEF TellsOf
<1> SUFFICES ASSUME NEW pair \in DOMAIN told'
             PROVE  /\ pair[1] \in DOMAIN after
                    /\ pair[2] \in after[pair[1]].declared
                    /\ IF pair[2] = "url" THEN SamePlace(after[pair[1]].url, told'[pair])
                       ELSE after[pair[1]][pair[2]] = told'[pair]
  BY DEF KeptIn
<1>3. pair \in DOMAIN told \cup mine
  BY <1>2
<1>4. CASE pair[1] = id /\ pair[2] \in node.declared
  <2>1. told'[pair] = node[pair[2]]
    BY <1>2, <1>3, <1>4
  <2>2. pair[2] = "url" => SamePlace(node.url, told'[pair])
    BY <2>1 DEF SamePlace
  <2> QED BY <1>4, <2>1, <2>2
<1>5. CASE ~(pair[1] = id /\ pair[2] \in node.declared)
  <2>1. pair \in DOMAIN told /\ told'[pair] = told[pair]
    BY <1>1, <1>2, <1>3, <1>5
  <2>2. pair[1] \in DOMAIN nodes /\ pair[2] \in nodes[pair[1]].declared
    BY <2>1 DEF KeptIn
  <2>3. pair[1] # id
    BY <1>5, <2>2
  <2> QED BY <2>1, <2>2, <2>3 DEF KeptIn
<1> QED BY <1>4, <1>5

-----------------------------------------------------------------------------
(* One program at a time *)

Answers == {"answering", "not answering"}

\* Nobody but p is in the middle of anything.
Only(p) == \A q \in Programs : q # p => session[q] = Idle

LEMMA Busy ==
    ASSUME StoreInv, TrueInv, ~disturbed, NEW p \in Programs, session[p] # Idle
    PROVE  Only(p) /\ Holds(session[p])
BY DEF TrueInv, Only

LEMMA AtBusy ==
    ASSUME StoreInv, TrueInv, ~disturbed, NEW p \in Programs, NEW op, At(p, op)
    PROVE  /\ Only(p) /\ KeptIn(Load.nodes, told)
           /\ PlanOK(session[p].todo, Load.nodes, Load.consent, looked)
<1>1. session[p] # Idle /\ session[p].saving = Nothing
  BY DEF At, Idle
<1>2. Coming(session[p]) = Load
  BY <1>1 DEF Coming
<1> QED BY <1>1, <1>2, Busy DEF Holds

LEMMA StepTrue ==
    ASSUME StoreInv, NEW p \in Programs, Only(p), NEW s,
           session' = [session EXCEPT ![p] = s], Holds(s)',
           \A a \in DOMAIN looked' : looked'[a] \in Answers
    PROVE  TrueInv'
<1>1. session'[p] = s /\ \A q \in Programs : q # p => session'[q] = Idle
  BY DEF StoreInv, Only
<1>2. \A q, r \in Programs : q # r => session'[q] = Idle \/ session'[r] = Idle
  BY <1>1
<1>3. (\A q \in Programs : session'[q] = Idle) => Holds(Idle)'
  BY <1>1
<1>4. \A q \in Programs : session'[q] # Idle => Holds(session[q])'
  BY <1>1
<1> QED BY <1>2, <1>3, <1>4 DEF TrueInv, Answers

LEMMA GoOnTrue ==
    ASSUME StoreInv, NEW p \in Programs, Only(p), NEW todo, GoOn(p, todo), UNCHANGED file,
           \A a \in DOMAIN looked' : looked'[a] \in Answers,
           KeptIn(Load.nodes, told'), PlanOK(todo, Load.nodes, Load.consent, looked')
    PROVE  TrueInv'
<1>1. PICK s : s = [todo |-> todo, saving |-> Nothing]
  OBVIOUS
<1>2. Load' = Load
  BY DEF Load
<1>3. s.todo = todo /\ s.saving = Nothing
  BY <1>1
<1>4. Coming(s)' = Load
  BY <1>2, <1>3 DEF Coming
<1>5. Holds(s)'
  BY <1>3, <1>4 DEF Holds
<1>6. session' = [session EXCEPT ![p] = s]
  BY <1>1 DEF GoOn
<1> QED BY <1>5, <1>6, StepTrue

LEMMA SaveTrue ==
    ASSUME StoreInv, NEW p \in Programs, Only(p), NEW nodes, NEW consent, NEW todo,
           Save(p, nodes, consent, todo),
           \A a \in DOMAIN looked' : looked'[a] \in Answers,
           KeptIn(nodes, told'), PlanOK(todo, nodes, consent, looked')
    PROVE  TrueInv'
<1>1. PICK s : s = [todo |-> todo, saving |-> Text(nodes, consent)]
  OBVIOUS
<1>2. s.todo = todo /\ s.saving = Text(nodes, consent)
  BY <1>1
<1>3. s.saving.content = "yaml" /\ s.saving.nodes = nodes /\ s.saving.consent = consent
  BY <1>2 DEF Text
<1>4. s.saving # Nothing
  BY <1>3 DEF Nothing
<1>5. Coming(s)' = s.saving
  BY <1>3, <1>4 DEF Coming
<1>6. Holds(s)'
  BY <1>2, <1>3, <1>5 DEF Holds
<1>7. session' = [session EXCEPT ![p] = s]
  BY <1>1 DEF Save
<1> QED BY <1>6, <1>7, StepTrue

LEMMA LooksTyped ==
    ASSUME TrueInv, ~disturbed
    PROVE  \A a \in DOMAIN looked : looked[a] \in Answers
BY DEF TrueInv, Answers

LEMMA BeginTrue ==
    ASSUME StoreInv, TrueInv, NEW p \in Programs, NEW todo, Begin(p, todo), ~disturbed',
           Settled(Load.nodes, looked) => PlanOK(todo, Load.nodes, Load.consent, looked)
    PROVE  TrueInv'
<1>1. ~disturbed /\ \A q \in Programs : session[q] = Idle
  BY DEF Begin
<1>2. Holds(Idle)
  BY <1>1 DEF TrueInv
<1>3. Coming(Idle) = Load /\ Idle.todo = <<>>
  BY DEF Coming, Idle
<1>4. KeptIn(Load.nodes, told) /\ Settled(Load.nodes, looked)
  BY <1>2, <1>3, SettledBefore DEF Holds
<1>5. GoOn(p, todo)
  <2>1. [session[p] EXCEPT !.todo = todo] = [todo |-> todo, saving |-> Nothing]
    BY <1>1 DEF Idle
  <2> QED BY <2>1 DEF Begin, GoOn
<1>6. looked' = looked /\ told' = told /\ UNCHANGED file
  BY DEF Begin
<1> QED BY <1>1, <1>4, <1>5, <1>6, LooksTyped, GoOnTrue DEF Only

LEMMA WritingTrue ==
    ASSUME StoreInv, TrueInv, ~disturbed, NEW p \in Programs, OpenToWrite(p) \/ WriteText(p)
    PROVE  TrueInv'
<1>1. SavingOK(session[p].saving, clock)
      /\ session[p] = [todo |-> session[p].todo, saving |-> session[p].saving]
  BY DEF StoreInv, SessionOK
<1>2. PICK saving, todo : saving = session[p].saving /\ todo = session[p].todo
  OBVIOUS
<1>3. session[p] # Idle /\ saving # Nothing
  BY <1>2 DEF OpenToWrite, WriteText, Idle, Nothing
<1>4. Only(p) /\ Holds(session[p])
  BY <1>3, Busy
<1>5. looked' = looked /\ told' = told
  BY DEF OpenToWrite, WriteText
<1>6. CASE OpenToWrite(p)
  <2>1. PICK s : s = [todo |-> todo, saving |-> [content |-> "open", text |-> saving]]
    OBVIOUS
  <2>2. [session[p] EXCEPT !.saving = [content |-> "open", text |-> saving]] = s
    BY <1>1, <1>2, <2>1
  <2>3. session' = [session EXCEPT ![p] = s]
    BY <1>2, <1>6, <2>2 DEF OpenToWrite
  <2>4. Coming(session[p]) = saving
    BY <1>2, <1>3, <1>6 DEF OpenToWrite, Coming
  <2>5. s.saving # Nothing /\ s.saving.content = "open" /\ s.saving.text = saving
        /\ s.todo = session[p].todo
    BY <1>2, <2>1 DEF Nothing
  <2>6. Coming(s)' = saving
    BY <2>5 DEF Coming
  <2>7. Holds(s)'
    BY <1>4, <1>5, <2>4, <2>5, <2>6 DEF Holds
  <2> QED BY <1>4, <1>5, <2>3, <2>7, LooksTyped, StepTrue
<1>7. CASE WriteText(p)
  <2>1. saving.content = "open" /\ saving.content # "yaml"
    BY <1>2, <1>7 DEF WriteText
  <2>2. ~TextOK(saving, clock)
    BY <2>1, TextsDiffer
  <2>3. TextOK(saving.text, clock)
    BY <1>1, <1>2, <1>3, <2>2 DEF SavingOK
  <2>4. Coming(session[p]) = saving.text
    BY <1>2, <1>3, <2>1 DEF Coming
  <2>5. PICK s : s = [todo |-> todo, saving |-> Nothing]
    OBVIOUS
  <2>6. file' = saving.text /\ session' = [session EXCEPT ![p] = s]
    BY <1>2, <1>7, <2>5 DEF WriteText, GoOn
  <2>7. s.saving = Nothing /\ s.todo = session[p].todo
    BY <1>2, <2>5
  <2>8. file' \notin {Absent, Emptied}
    BY <2>3, <2>6, TextsDiffer
  <2>9. Load'.nodes = saving.text.nodes /\ Load'.consent = saving.text.consent
    BY <2>6, <2>8 DEF Load
  <2>10. Coming(s)' = Load'
    BY <2>7 DEF Coming
  <2>11. Holds(s)'
    BY <1>4, <1>5, <2>4, <2>7, <2>9, <2>10 DEF Holds
  <2> QED BY <1>4, <1>5, <2>6, <2>11, LooksTyped, StepTrue
<1> QED BY <1>6, <1>7

-----------------------------------------------------------------------------
(* Each operation *)

LEMMA PlanOf ==
    ASSUME NEW todo, todo # <<>>, NEW nodes, NEW consent, NEW looks,
           PlanOK(todo, nodes, consent, looks)
    PROVE  /\ Head(todo).op = "set_consent" => Settled(nodes, looks) /\ Preparing(todo, nodes)
           /\ Head(todo).op = "look" =>
                 Settled(nodes, looks) /\ Looking(todo, nodes) /\ Head(todo).scope = consent
           /\ Head(todo).op \in {"record", "insert", "check", "forget", "edit"} =>
                 Settled(nodes, looks) /\ Editing(todo, nodes)
           /\ Head(todo).op = "silent" => Silencing(todo, nodes, looks)
           /\ Head(todo).op \in {"upsert", "confirm"} =>
                 /\ Filing(todo) /\ Owed(todo, nodes, looks)
                 /\ \A o \in Ops(todo) : Found(o, looks) /\ Confirms(o, todo, nodes, looks)
BY DEF PlanOK, Filing, Confirming, Looking, Preparing, Editing, Silencing

LEMMA AtPlan ==
    ASSUME StoreInv, TrueInv, ~disturbed, NEW p \in Programs, NEW op, At(p, op)
    PROVE  /\ session[p].todo # <<>> /\ Op(p).op = op
           /\ op = "set_consent" =>
                 Settled(Load.nodes, looked) /\ Preparing(session[p].todo, Load.nodes)
           /\ op = "look" =>
                 /\ Settled(Load.nodes, looked) /\ Looking(session[p].todo, Load.nodes)
                 /\ Op(p).scope = Load.consent
           /\ op \in {"record", "insert", "check", "forget", "edit"} =>
                 Settled(Load.nodes, looked) /\ Editing(session[p].todo, Load.nodes)
           /\ op = "silent" => Silencing(session[p].todo, Load.nodes, looked)
           /\ op \in {"upsert", "confirm"} =>
                 /\ Filing(session[p].todo) /\ Owed(session[p].todo, Load.nodes, looked)
                 /\ \A o \in Ops(session[p].todo) :
                       Found(o, looked) /\ Confirms(o, session[p].todo, Load.nodes, looked)
<1>1. session[p].todo # <<>> /\ Op(p).op = op /\ Op(p) = Head(session[p].todo)
  BY DEF At, Op
<1>2. PlanOK(session[p].todo, Load.nodes, Load.consent, looked)
  BY AtBusy
<1> QED BY <1>1, <1>2, PlanOf

LEMMA SetConsentTrue ==
    ASSUME StoreInv, TrueInv, ~disturbed, NEW p \in Programs, SetConsent(p)
    PROVE  TrueInv'
<1>1. /\ At(p, "set_consent") /\ Save(p, Load.nodes, Op(p).scope, Rest(p))
      /\ looked' = looked /\ told' = told
  BY DEF SetConsent
<1>2. Settled(Load.nodes, looked) /\ Preparing(session[p].todo, Load.nodes)
  BY <1>1, AtPlan
<1>3. PlanOK(Rest(p), Load.nodes, Op(p).scope, looked)
  <2>1. CASE Rest(p) = <<>>
    BY <1>2, <2>1, SettledBefore
  <2>2. CASE Rest(p) # <<>>
    <3>1. Looking(Rest(p), Load.nodes) /\ Head(Rest(p)).scope = Op(p).scope
      BY <1>2, <2>2 DEF Preparing, Rest, Op
    <3> QED BY <1>2, <3>1 DEF PlanOK
  <2> QED BY <2>1, <2>2
<1> QED BY <1>1, <1>3, AtBusy, LooksTyped, SaveTrue

LEMMA EditingAlone ==
    ASSUME NEW o, o.op \in {"record", "insert", "check", "forget", "edit"},
           NEW nodes, NEW consent, NEW looks, Settled(nodes, looks),
           o.op \in {"record", "insert"} => o.finding.node.last_probed_at = Never,
           o.op = "insert" =>
               ~RecordedAt(nodes, o.finding.node.url, o.finding.node.kind)
    PROVE  PlanOK(<<o>>, nodes, consent, looks)
<1>1. Editing(<<o>>, nodes)
  BY OneOp DEF Editing
<1> QED BY <1>1 DEF PlanOK

LEMMA RecordTrue ==
    ASSUME StoreInv, TrueInv, ~disturbed, NEW p \in Programs, RecordByHand(p)
    PROVE  TrueInv'
<1>1. At(p, "record") /\ looked' = looked /\ told' = told /\ UNCHANGED file
  BY DEF RecordByHand
<1>2. /\ Settled(Load.nodes, looked)
      /\ Op(p).finding.node.last_probed_at = Never
  BY <1>1, AtPlan DEF Editing, Op
<1>3. PICK o : o = [op |-> "insert", finding |-> Op(p).finding, contact |-> Op(p).contact]
  OBVIOUS
<1>4. \/ GoOn(p, <<>>)
      \/ /\ GoOn(p, <<o>>)
         /\ ~RecordedAt(Load.nodes, Op(p).finding.node.url, Op(p).finding.node.kind)
  BY <1>3 DEF RecordByHand
<1>5. PlanOK(<<>>, Load.nodes, Load.consent, looked)
  BY <1>2, SettledBefore
<1>6. o.op = "insert" /\ o.finding = Op(p).finding
  BY <1>3
<1>7. ~RecordedAt(Load.nodes, o.finding.node.url, o.finding.node.kind)
        => PlanOK(<<o>>, Load.nodes, Load.consent, looked)
  BY <1>2, <1>6, EditingAlone
<1> QED BY <1>1, <1>4, <1>5, <1>6, <1>7, AtBusy, LooksTyped, GoOnTrue

\* The permission, the look and its confirmation, about a computer on file.
LEMMA LookAtPlan ==
    ASSUME NEW id, NEW node, NEW nodes, NEW consent, NEW looks, Settled(nodes, looks),
           id \in DOMAIN nodes, Address(nodes[id]) = Address(node),
           nodes[id].last_probed_at = node.last_probed_at
    PROVE  PlanOK(LookAt(id, node), nodes, consent, looks)
<1>1. PICK a, b, c :
        /\ a = [op |-> "set_consent", scope |-> "NAMED_HOST"]
        /\ b = [op |-> "look", scope |-> "NAMED_HOST", host |-> node.url,
                label |-> <<>>, checks |-> {Address(node)}]
        /\ c = [op |-> "confirm", id |-> id, before |-> node.last_probed_at]
  OBVIOUS
<1>2. LookAt(id, node) = <<a, b, c>>
  BY <1>1 DEF LookAt
<1>3. /\ a.op = "set_consent" /\ b.op = "look" /\ c.op = "confirm" /\ a.scope = b.scope
      /\ b.checks = {Address(node)} /\ c.id = id /\ c.before = node.last_probed_at
  BY <1>1
<1>4. Looking(<<b, c>>, nodes)
  <2>1. Confirming(<<c>>)
    BY <1>3, OneOp DEF Confirming
  <2>2. {Address(nodes[o.id]) : o \in Ops(<<c>>)} = {Address(node)}
    BY <1>3, OneOp
  <2> QED BY <1>3, <2>1, <2>2, OneOp, TwoOps DEF Looking
<1>5. Preparing(<<a, b, c>>, nodes)
  BY <1>3, <1>4, TwoOps, ThreeOps DEF Preparing
<1> QED BY <1>2, <1>5 DEF PlanOK

LEMMA CheckTrue ==
    ASSUME StoreInv, TrueInv, ~disturbed, NEW p \in Programs, CheckNode(p)
    PROVE  TrueInv'
<1>1. At(p, "check") /\ looked' = looked /\ told' = told /\ UNCHANGED file
  BY DEF CheckNode
<1>2. Settled(Load.nodes, looked)
  BY <1>1, AtPlan
<1>3. PlanOK(<<>>, Load.nodes, Load.consent, looked)
  BY <1>2, SettledBefore
<1>4. Op(p).id \in DOMAIN Load.nodes =>
          PlanOK(LookAt(Op(p).id, Load.nodes[Op(p).id]), Load.nodes, Load.consent, looked)
  BY <1>2, LookAtPlan
<1>5. \/ GoOn(p, <<>>)
      \/ Op(p).id \in DOMAIN Load.nodes /\ GoOn(p, LookAt(Op(p).id, Load.nodes[Op(p).id]))
  BY DEF CheckNode
<1> QED BY <1>1, <1>3, <1>4, <1>5, AtBusy, LooksTyped, GoOnTrue

LEMMA ForgottenLooks ==
    ASSUME TrueInv, ~disturbed, NEW addresses, LooksForgotten(addresses)
    PROVE  /\ DOMAIN looked' = DOMAIN looked \ addresses
           /\ \A a \in DOMAIN looked' : looked'[a] = looked[a] /\ looked'[a] \in Answers
BY LooksTyped DEF LooksForgotten

LEMMA ForgetTrue ==
    ASSUME StoreInv, TrueInv, ~disturbed, NEW p \in Programs, Forget(p)
    PROVE  TrueInv'
<1>1. At(p, "forget") /\ UNCHANGED file
  BY DEF Forget
<1>2. Settled(Load.nodes, looked) /\ KeptIn(Load.nodes, told) /\ Only(p)
  BY <1>1, AtPlan, AtBusy
<1>3. PICK nodes, id : nodes = Load.nodes /\ id = Op(p).id
  OBVIOUS
<1>4. CASE id \in DOMAIN nodes
  <2>1. PICK after : after = Without(nodes, id)
    OBVIOUS
  <2>2. /\ Save(p, after, Load.consent, <<>>)
        /\ ForgetsTelling(id) /\ LooksForgotten({Address(nodes[id])})
    BY <1>3, <1>4, <2>1 DEF Forget
  <2>3. DOMAIN after = DOMAIN nodes \ {id} /\ \A o \in DOMAIN after : after[o] = nodes[o]
    BY <2>1 DEF Without
  <2>4. /\ DOMAIN looked' \subseteq DOMAIN looked /\ Address(nodes[id]) \notin DOMAIN looked'
        /\ \A a \in DOMAIN looked' : looked'[a] = looked[a] /\ looked'[a] \in Answers
    BY <2>2, ForgottenLooks
  <2>5. Settled(nodes, looked)
    BY <1>2, <1>3
  <2>6. Settled(after, looked')
    BY <2>3, <2>4, <2>5, SettledOver
  <2>7. KeptIn(after, told')
    <3>1. \A pair \in DOMAIN told' :
             pair \in DOMAIN told /\ pair[1] # id /\ told'[pair] = told[pair]
      BY <2>2 DEF ForgetsTelling
    <3> QED BY <1>2, <1>3, <2>3, <3>1 DEF KeptIn
  <2>8. PlanOK(<<>>, after, Load.consent, looked')
    BY <2>6, SettledBefore
  <2> QED BY <1>2, <2>2, <2>4, <2>7, <2>8, SaveTrue
<1>5. CASE id \notin DOMAIN nodes
  <2>1. GoOn(p, <<>>) /\ looked' = looked /\ told' = told
    BY <1>3, <1>5 DEF Forget
  <2>2. PlanOK(<<>>, Load.nodes, Load.consent, looked')
    BY <1>2, <2>1, SettledBefore
  <2> QED BY <1>1, <1>2, <2>1, <2>2, LooksTyped, GoOnTrue
<1> QED BY <1>4, <1>5

LEMMA EditedSays ==
    ASSUME NEW old, IsNode(old), NEW field, NEW value, EditOK(field, value)
    PROVE  /\ old.declared \subseteq Edited(old, field, value).declared
           /\ field = "label" =>
                 /\ Address(Edited(old, field, value)) = Address(old)
                 /\ StatusOf(Edited(old, field, value)) = StatusOf(old)
<1>1. PICK node : node = Edited(old, field, value)
  OBVIOUS
<1>2. node.declared = old.declared \cup {field}
  BY <1>1 DEF Edited, IsNode
<1>3. CASE field = "label"
  <2>1. /\ node.url = old.url /\ node.kind = old.kind
        /\ node.reachable = old.reachable /\ node.last_probed_at = old.last_probed_at
    BY <1>1, <1>3 DEF Edited, IsNode
  <2>2. Address(node) = Address(old) /\ StatusOf(node) = StatusOf(old)
    BY <2>1 DEF Address, StatusOf, NeverContacted
  <2> QED BY <1>1, <1>2, <2>2
<1>4. CASE field # "label"
  BY <1>1, <1>2, <1>4
<1> QED BY <1>3, <1>4

LEMMA UpdateTrue ==
    ASSUME StoreInv, TrueInv, ~disturbed, NEW p \in Programs, UpdateField(p)
    PROVE  TrueInv'
<1>1. At(p, "edit") /\ UNCHANGED file
  BY DEF UpdateField
<1>2. Settled(Load.nodes, looked) /\ KeptIn(Load.nodes, told) /\ Only(p)
  BY <1>1, AtPlan, AtBusy
<1>3. PICK nodes, e : nodes = Load.nodes /\ e = Op(p)
  OBVIOUS
<1>4. EditOK(e.field, e.value)
  BY <1>1, <1>3, AtReads DEF OpOK
<1>5. CASE Editable(nodes, e.id, e.field, e.value)
  <2>1. PICK id, node, after :
          /\ id = e.id /\ node = Edited(nodes[id], e.field, e.value)
          /\ after = [nodes EXCEPT ![id] = node]
    OBVIOUS
  <2>2. /\ Save(p, after, Load.consent, <<>>) /\ TellsOf(id, node)
        /\ LooksForgotten(IF e.field = "label" THEN {}
                          ELSE {Address(nodes[id]), Address(node)})
    BY <1>3, <1>5, <2>1 DEF UpdateField
  <2>3. id \in DOMAIN nodes /\ IsNode(nodes[id])
    BY <1>3, <1>5, <2>1, LoadOK DEF Editable, NodesOK, NodeOK
  <2>4. /\ DOMAIN after = DOMAIN nodes /\ after[id] = node
        /\ \A o \in DOMAIN nodes \ {id} : after[o] = nodes[o]
    BY <2>1, <2>3
  <2>5. /\ nodes[id].declared \subseteq node.declared
        /\ e.field = "label" => /\ Address(node) = Address(nodes[id])
                                /\ StatusOf(node) = StatusOf(nodes[id])
    BY <1>4, <2>1, <2>3, EditedSays
  <2>6. /\ DOMAIN looked' \subseteq DOMAIN looked
        /\ \A a \in DOMAIN looked' : looked'[a] = looked[a] /\ looked'[a] \in Answers
        /\ e.field # "label" => /\ Address(nodes[id]) \notin DOMAIN looked'
                                /\ Address(node) \notin DOMAIN looked'
    <3>1. PICK gone : /\ gone = IF e.field = "label" THEN {}
                                ELSE {Address(nodes[id]), Address(node)}
                      /\ LooksForgotten(gone)
      BY <2>2
    <3>2. /\ DOMAIN looked' = DOMAIN looked \ gone
          /\ \A a \in DOMAIN looked' : looked'[a] = looked[a] /\ looked'[a] \in Answers
      BY <3>1, ForgottenLooks
    <3> QED BY <3>1, <3>2
  <2>7. Settled(nodes, looked) /\ KeptIn(nodes, told)
    BY <1>2, <1>3
  <2>8. Settled(after, looked')
    <3>1. CASE e.field = "label"
      BY <2>3, <2>4, <2>5, <2>6, <2>7, <3>1, SettledOver
    <3>2. CASE e.field # "label"
      BY <2>3, <2>4, <2>6, <2>7, <3>2, SettledOver
    <3> QED BY <3>1, <3>2
  <2>9. KeptIn(after, told')
    BY <2>2, <2>3, <2>4, <2>5, <2>7, ToldOver
  <2>10. PlanOK(<<>>, after, Load.consent, looked')
    BY <2>8, SettledBefore
  <2> QED BY <1>2, <2>2, <2>6, <2>9, <2>10, SaveTrue
<1>6. CASE ~Editable(nodes, e.id, e.field, e.value)
  <2>1. GoOn(p, <<>>) /\ looked' = looked /\ told' = told
    BY <1>3, <1>6 DEF UpdateField
  <2>2. PlanOK(<<>>, Load.nodes, Load.consent, looked')
    BY <1>2, <2>1, SettledBefore
  <2> QED BY <1>1, <1>2, <2>1, <2>2, LooksTyped, GoOnTrue
<1> QED BY <1>5, <1>6

\* Where nothing is recorded at its address, a finding is a newcomer.
LEMMA Newcomer ==
    ASSUME NEW nodes, NEW now, NodesOK(nodes, now),
           NEW finding, FindingOK(finding, now),
           ~RecordedAt(nodes, finding.node.url, finding.node.kind)
    PROVE  /\ FiledUnder(nodes, finding) \notin DOMAIN nodes
           /\ DOMAIN Upserted(nodes, finding) = DOMAIN nodes \cup {FiledUnder(nodes, finding)}
           /\ Upserted(nodes, finding)[FiledUnder(nodes, finding)] = finding.node
           /\ \A o \in DOMAIN nodes : Upserted(nodes, finding)[o] = nodes[o]
<1>1. FiledUnder(nodes, finding) = WithUniqueId(finding.node_id, nodes)
  BY DEF RecordedAt, FiledUnder
<1>2. PICK id : id = FiledUnder(nodes, finding)
  OBVIOUS
<1>3. id \notin DOMAIN nodes
  BY <1>1, <1>2, FreshId DEF NodesOK, FindingOK
<1> QED BY <1>2, <1>3 DEF Upserted

LEMMA InsertTrue ==
    ASSUME StoreInv, TrueInv, ~disturbed, NEW p \in Programs, InsertByHand(p)
    PROVE  TrueInv'
<1>1. At(p, "insert") /\ UNCHANGED file
  BY DEF InsertByHand
<1>2. Settled(Load.nodes, looked) /\ KeptIn(Load.nodes, told) /\ Only(p)
  BY <1>1, AtPlan, AtBusy
<1>3. PICK nodes, typed : nodes = Load.nodes /\ typed = Op(p).finding
  OBVIOUS
<1>4. /\ ~RecordedAt(nodes, typed.node.url, typed.node.kind)
      /\ typed.node.last_probed_at = Never
  BY <1>1, <1>3, AtPlan DEF Editing, Op
<1>5. FindingOK(typed, clock) /\ NodesOK(nodes, clock)
  BY <1>1, <1>3, AtReads, LoadOK DEF OpOK
<1>6. CASE Ambiguous(nodes, typed)
  <2>1. GoOn(p, <<>>) /\ looked' = looked /\ told' = told
    BY <1>3, <1>6 DEF InsertByHand
  <2>2. PlanOK(<<>>, Load.nodes, Load.consent, looked')
    BY <1>2, <2>1, SettledBefore
  <2> QED BY <1>1, <1>2, <2>1, <2>2, LooksTyped, GoOnTrue
<1>7. CASE ~Ambiguous(nodes, typed)
  <2>1. PICK id, after, node, todo :
          /\ id = FiledUnder(nodes, typed) /\ after = Upserted(nodes, typed)
          /\ node = [typed.node EXCEPT !.last_probed_at = Never]
          /\ todo = IF Op(p).contact THEN LookAt(id, node) ELSE <<>>
    OBVIOUS
  <2>2. /\ Save(p, after, Load.consent, todo)
        /\ TellsOf(id, after[id]) /\ LooksForgotten({Address(after[id])})
    BY <1>3, <1>7, <2>1 DEF InsertByHand
  <2>3. /\ id \notin DOMAIN nodes /\ DOMAIN after = DOMAIN nodes \cup {id}
        /\ after[id] = typed.node
        /\ \A o \in DOMAIN nodes : after[o] = nodes[o]
    BY <1>4, <1>5, <2>1, Newcomer
  <2>4. /\ DOMAIN looked' \subseteq DOMAIN looked /\ Address(after[id]) \notin DOMAIN looked'
        /\ \A a \in DOMAIN looked' : looked'[a] = looked[a] /\ looked'[a] \in Answers
    BY <2>2, ForgottenLooks
  <2>5. Settled(nodes, looked) /\ KeptIn(nodes, told)
    BY <1>2, <1>3
  <2>6. Settled(after, looked')
    BY <2>3, <2>4, <2>5, SettledOver
  <2>7. KeptIn(after, told')
    BY <2>2, <2>3, <2>5, ToldOver
  <2>8. /\ node.url = typed.node.url /\ node.kind = typed.node.kind
        /\ node.last_probed_at = typed.node.last_probed_at
    BY <1>4, <1>5, <2>1 DEF FindingOK, NodeOK, IsNode
  <2>9. PlanOK(LookAt(id, node), after, Load.consent, looked')
    <3>1. Address(after[id]) = Address(node) /\ id \in DOMAIN after
          /\ after[id].last_probed_at = node.last_probed_at
      BY <2>3, <2>8 DEF Address
    <3> QED BY <2>6, <3>1, LookAtPlan
  <2>10. PlanOK(todo, after, Load.consent, looked')
    BY <2>1, <2>6, <2>9, SettledBefore
  <2> QED BY <1>2, <2>2, <2>4, <2>7, <2>10, SaveTrue
<1> QED BY <1>6, <1>7

LEMMA ConfirmTrue ==
    ASSUME StoreInv, TrueInv, ~disturbed, NEW p \in Programs, Confirm(p)
    PROVE  TrueInv'
<1>1. At(p, "confirm") /\ looked' = looked /\ told' = told /\ UNCHANGED file
  BY DEF Confirm
<1>2. PICK nodes, todo, c : nodes = Load.nodes /\ todo = session[p].todo /\ c = Op(p)
  OBVIOUS
<1>3. /\ todo # <<>> /\ Head(todo) = c /\ c.op = "confirm"
      /\ Filing(todo) /\ Owed(todo, nodes, looked)
      /\ \A o \in Ops(todo) : Confirms(o, todo, nodes, looked)
  BY <1>1, <1>2, AtPlan DEF Op
<1>4. Ops(todo) = {c}
  <2>1. Tail(todo) = <<>>
    BY <1>3 DEF Filing, Confirming
  <2>2. PICK S : todo \in Seq(S)
    BY <1>2 DEF StoreInv, SessionOK, TodoOK
  <2> QED BY <1>3, <2>1, <2>2, OpsSplit, NoOps
<1>5. /\ c.id \in DOMAIN nodes /\ Address(nodes[c.id]) \in DOMAIN looked
      /\ LookOf(nodes, looked, c.id) = "answering" => nodes[c.id].last_probed_at # c.before
  BY <1>3, <1>4 DEF Confirms, Files
<1>6. \A id \in DOMAIN nodes : Claimed(nodes, looked, id) =>
          \/ StatusOf(nodes[id]) = LookOf(nodes, looked, id)
          \/ c.id = id /\ nodes[id].last_probed_at = c.before
  BY <1>3, <1>4 DEF Owed, Files
<1>7. CASE nodes[c.id].last_probed_at = c.before
  <2>1. PICK o : o = [op |-> "silent", id |-> c.id]
    OBVIOUS
  <2>2. GoOn(p, <<o>>)
    BY <1>2, <1>5, <1>7, <2>1 DEF Confirm
  <2>3. LookOf(nodes, looked, c.id) = "not answering"
    BY <1>5, <1>7, LooksTyped DEF LookOf, Answers
  <2>4. Silencing(<<o>>, nodes, looked)
    <3>1. o.op = "silent" /\ o.id = c.id
      BY <2>1
    <3> QED BY <1>5, <1>6, <2>3, <3>1, OneOp DEF Silencing
  <2>5. PlanOK(<<o>>, Load.nodes, Load.consent, looked')
    BY <1>1, <1>2, <2>4 DEF PlanOK
  <2> QED BY <1>1, <2>2, <2>5, AtBusy, LooksTyped, GoOnTrue
<1>8. CASE nodes[c.id].last_probed_at # c.before
  <2>1. GoOn(p, <<>>)
    BY <1>2, <1>8 DEF Confirm
  <2>2. Settled(nodes, looked)
    BY <1>6, <1>8 DEF Settled
  <2>3. PlanOK(<<>>, Load.nodes, Load.consent, looked')
    BY <1>1, <1>2, <2>2, SettledBefore
  <2> QED BY <1>1, <2>1, <2>3, AtBusy, LooksTyped, GoOnTrue
<1> QED BY <1>7, <1>8

LEMMA SilentTrue ==
    ASSUME StoreInv, TrueInv, ~disturbed, NEW p \in Programs, MarkSilent(p)
    PROVE  TrueInv'
<1>1. At(p, "silent") /\ looked' = looked /\ told' = told /\ UNCHANGED file
  BY DEF MarkSilent
<1>2. PICK nodes, id, after : /\ nodes = Load.nodes /\ id = Op(p).id
                             /\ after = Silenced(nodes, id, clock + 1)
  OBVIOUS
<1>3. /\ id \in DOMAIN nodes
      /\ LookOf(nodes, looked, id) = "not answering"
      /\ \A o \in DOMAIN nodes \ {id} :
            Claimed(nodes, looked, o) => StatusOf(nodes[o]) = LookOf(nodes, looked, o)
  BY <1>1, <1>2, AtPlan DEF Silencing, Op
<1>4. Save(p, after, Load.consent, <<>>)
  BY <1>2, <1>3 DEF MarkSilent
<1>5. PICK node : node = [nodes[id] EXCEPT !.reachable = FALSE, !.last_probed_at = clock + 1]
  OBVIOUS
<1>6. after = [nodes EXCEPT ![id] = node]
  BY <1>2, <1>5 DEF Silenced
<1>7. /\ DOMAIN after = DOMAIN nodes /\ after[id] = node
      /\ \A o \in DOMAIN nodes \ {id} : after[o] = nodes[o]
  BY <1>3, <1>6
<1>8. IsNode(nodes[id])
  BY <1>2, <1>3, LoadOK DEF NodesOK, NodeOK
<1>9. /\ node.label = nodes[id].label /\ node.url = nodes[id].url
      /\ node.kind = nodes[id].kind /\ node.declared = nodes[id].declared
      /\ node.reachable = FALSE /\ node.last_probed_at = clock + 1
  BY <1>5, <1>8 DEF IsNode
<1>10. Address(node) = Address(nodes[id])
  BY <1>9 DEF Address
<1>11. StatusOf(node) = "not answering"
  BY <1>9 DEF StatusOf, NeverContacted, Never, StoreInv
<1>12. Settled(after, looked)
  <2> SUFFICES ASSUME NEW o \in DOMAIN after, Claimed(after, looked, o)
               PROVE  StatusOf(after[o]) = LookOf(after, looked, o)
    BY DEF Settled
  <2>1. CASE o = id
    BY <1>3, <1>7, <1>10, <1>11, <2>1 DEF LookOf
  <2>2. CASE o # id
    <3>1. Claimed(nodes, looked, o)
      BY <1>7, <1>10, <2>2, ClaimStays
    <3> QED BY <1>3, <1>7, <2>2, <3>1 DEF LookOf
  <2> QED BY <2>1, <2>2
<1>13. KeptIn(after, told')
  <2> SUFFICES ASSUME NEW pair \in DOMAIN told
               PROVE  /\ pair[1] \in DOMAIN after
                      /\ pair[2] \in after[pair[1]].declared
                      /\ IF pair[2] = "url" THEN SamePlace(after[pair[1]].url, told[pair])
                         ELSE after[pair[1]][pair[2]] = told[pair]
    BY <1>1 DEF KeptIn
  <2>1. /\ pair[1] \in DOMAIN nodes
        /\ pair[2] \in nodes[pair[1]].declared
        /\ IF pair[2] = "url" THEN SamePlace(nodes[pair[1]].url, told[pair])
           ELSE nodes[pair[1]][pair[2]] = told[pair]
    BY <1>1, <1>2, AtBusy DEF KeptIn
  <2>2. CASE pair[1] = id
    <3>1. pair[2] \in {"label", "url", "kind"}
      BY <1>8, <2>1, <2>2 DEF IsNode
    <3> QED BY <1>7, <1>9, <2>1, <2>2, <3>1
  <2>3. CASE pair[1] # id
    BY <1>7, <2>1, <2>3
  <2> QED BY <2>2, <2>3
<1>14. PlanOK(<<>>, after, Load.consent, looked')
  BY <1>1, <1>12, SettledBefore
<1> QED BY <1>1, <1>4, <1>13, <1>14, AtBusy, LooksTyped, SaveTrue

\* What became of this finding: one computer at its address, as it was found.
Filed(nodes, after, id, node) ==
    /\ DOMAIN after = DOMAIN nodes \cup {id}
    /\ \A o \in DOMAIN nodes \ {id} : after[o] = nodes[o]
    /\ Address(after[id]) = node.url
    /\ after[id].reachable = node.reachable /\ after[id].last_probed_at = node.last_probed_at
    /\ \A o \in DOMAIN nodes : Address(nodes[o]) = node.url => o = id
    /\ id \in DOMAIN nodes => Address(nodes[id]) = node.url

\* A finding is merged into the computer at its address, and what was typed
\* of that one stays; or it is a newcomer.
LEMMA UpsertedSays ==
    ASSUME NEW nodes, NEW now, NodesOK(nodes, now),
           NEW finding, FindingOK(finding, now), ~Ambiguous(nodes, finding),
           NEW id, id = FiledUnder(nodes, finding),
           NEW after, after = Upserted(nodes, finding)
    PROVE  /\ Filed(nodes, after, id, finding.node)
           /\ id \in DOMAIN nodes => after[id] = Merge(nodes[id], finding.node)
<1>1. PICK same : same = MatchingAddress(nodes, finding.node.url, finding.node.kind)
  OBVIOUS
<1>2. PICK node : node = IF same # {} THEN Merge(nodes[id], finding.node) ELSE finding.node
  OBVIOUS
<1>3. /\ DOMAIN after = DOMAIN nodes \cup {id} /\ after[id] = node
      /\ \A other \in DOMAIN nodes : other # id => after[other] = nodes[other]
  BY <1>1, <1>2 DEF Upserted, RecordedAt
<1>4. AddressFor(finding.node.url, finding.node.kind) = finding.node.url
  BY AddressNamed DEF FindingOK
<1>5. same = {other \in DOMAIN nodes : Address(nodes[other]) = finding.node.url}
  BY <1>1, <1>4 DEF MatchingAddress
<1>6. IsNode(finding.node)
  BY DEF FindingOK, NodeOK
<1>7. CASE same # {}
  <2>1. id \in same
    BY <1>1, <1>7 DEF FiledUnder
  <2>2. \A other \in same : other = id
    BY <1>1, <2>1, AtMostOne DEF NodesOK
  <2>3. node = Merge(nodes[id], finding.node)
    BY <1>2, <1>7
  <2>4. /\ node.url = finding.node.url /\ node.reachable = finding.node.reachable
        /\ node.last_probed_at = finding.node.last_probed_at
    BY <1>6, <2>3 DEF Merge, IsNode
  <2>5. Address(node) = finding.node.url
    BY <2>4, AddressNamed DEF Address, FindingOK
  <2> QED BY <1>3, <1>5, <2>1, <2>2, <2>3, <2>4, <2>5 DEF Filed
<1>8. CASE same = {}
  <2>1. node = finding.node /\ Address(node) = finding.node.url
    BY <1>2, <1>4, <1>8 DEF Address
  <2>2. ~RecordedAt(nodes, finding.node.url, finding.node.kind)
    BY <1>1, <1>8 DEF RecordedAt
  <2>3. id \notin DOMAIN nodes
    BY <2>2, Newcomer
  <2> QED BY <1>3, <1>5, <1>8, <2>1, <2>3 DEF Filed
<1> QED BY <1>7, <1>8

LEMMA MergeKeepsTold ==
    ASSUME NEW existing, IsNode(existing), NEW found, IsNode(found),
           NamesAPort(found.url), Address(existing) = found.url,
           NEW f \in existing.declared, NEW typed,
           IF f = "url" THEN SamePlace(existing.url, typed) ELSE existing[f] = typed
    PROVE  /\ f \in Merge(existing, found).declared
           /\ IF f = "url" THEN SamePlace(Merge(existing, found).url, typed)
              ELSE Merge(existing, found)[f] = typed
<1>1. PICK node : node = Merge(existing, found)
  OBVIOUS
<1>2. /\ node.label = existing.label /\ node.url = found.url
      /\ node.kind = (IF "kind" \in existing.declared THEN existing.kind ELSE found.kind)
      /\ node.declared = ((found.declared \cup existing.declared) \ {"label"})
                         \cup (existing.declared \cap {"label"})
  BY <1>1 DEF Merge, IsNode
<1>3. f \in node.declared
  BY <1>2
<1>4. f \in {"label", "url", "kind"}
  BY DEF IsNode
<1>5. CASE f = "url"
  <2>1. SamePlace(existing.url, typed)
    BY <1>5
  <2>2. CASE NamesAPort(existing.url)
    <3>1. existing.url = found.url
      BY <2>2, AddressNamed DEF Address
    <3> QED BY <1>1, <1>2, <1>3, <1>5, <2>1, <3>1
  <2>3. CASE ~NamesAPort(existing.url)
    <3>1. typed.port = NoPort /\ existing.url.host = typed.host
      BY <2>1, <2>3 DEF SamePlace, NamesAPort
    <3>2. found.url = [existing.url EXCEPT !.port = Ports[existing.kind]]
      BY <2>3 DEF Address, AddressFor
    <3>3. existing.url = [host |-> existing.url.host, port |-> existing.url.port,
                          form |-> existing.url.form]
      BY DEF IsNode, IsUrl
    <3>4. found.url.host = existing.url.host
      BY <3>2, <3>3
    <3>5. SamePlace(node.url, typed)
      BY <1>2, <3>1, <3>4 DEF SamePlace
    <3> QED BY <1>1, <1>3, <1>5, <3>5
  <2> QED BY <2>2, <2>3
<1>6. CASE f = "label"
  BY <1>1, <1>2, <1>3, <1>6
<1>7. CASE f = "kind"
  BY <1>1, <1>2, <1>3, <1>7
<1> QED BY <1>4, <1>5, <1>6, <1>7

\* Filing a finding settles its address and leaves the others as they were.
LEMMA OwedOver ==
    ASSUME NEW nodes, NEW after, NEW looks, NEW id, NEW todo, Owed(todo, nodes, looks),
           Ops(todo) = {Head(todo)} \cup Ops(Tail(todo)), Head(todo).op = "upsert",
           Found(Head(todo), looks),
           Filed(nodes, after, id, Head(todo).finding.node)
    PROVE  Owed(Tail(todo), after, looks)
<1>1. PICK rest, node : rest = Tail(todo) /\ node = Head(todo).finding.node
  OBVIOUS
<1>2. /\ Ops(todo) = {Head(todo)} \cup Ops(rest)
      /\ node.reachable = TRUE /\ looks[node.url] = "answering"
      /\ DOMAIN after = DOMAIN nodes \cup {id}
      /\ \A o \in DOMAIN nodes \ {id} : after[o] = nodes[o]
      /\ Address(after[id]) = node.url /\ after[id].reachable = node.reachable
      /\ \A o \in DOMAIN nodes : Address(nodes[o]) = node.url => o = id
      /\ id \in DOMAIN nodes => Address(nodes[id]) = node.url
  BY <1>1 DEF Found, Filed
<1> SUFFICES ASSUME NEW o \in DOMAIN after, Claimed(after, looks, o)
             PROVE  \/ StatusOf(after[o]) = LookOf(after, looks, o)
                    \/ \E u \in Ops(rest) : Files(u, Address(after[o]))
                    \/ \E c \in Ops(rest) :
                          /\ c.op = "confirm" /\ c.id = o
                          /\ after[o].last_probed_at = c.before
                          /\ LookOf(after, looks, o) = "not answering"
  BY <1>1 DEF Owed
<1>3. CASE o = id
  <2>1. StatusOf(after[o]) = "answering"
    BY <1>2, <1>3 DEF StatusOf
  <2> QED BY <1>2, <1>3, <2>1 DEF LookOf
<1>4. CASE o # id
  <2>1. o \in DOMAIN nodes /\ after[o] = nodes[o] /\ Address(nodes[o]) # node.url
    BY <1>2, <1>4
  <2>2. Claimed(nodes, looks, o)
    BY <1>2, <1>4, <2>1, ClaimStays
  <2>3. ~Files(Head(todo), Address(nodes[o]))
    BY <1>1, <2>1 DEF Files
  <2>4. \/ StatusOf(nodes[o]) = LookOf(nodes, looks, o)
        \/ \E u \in Ops(todo) : Files(u, Address(nodes[o]))
        \/ \E c \in Ops(todo) :
              /\ c.op = "confirm" /\ c.id = o
              /\ nodes[o].last_probed_at = c.before
              /\ LookOf(nodes, looks, o) = "not answering"
    BY <2>1, <2>2 DEF Owed
  <2>5. LookOf(after, looks, o) = LookOf(nodes, looks, o)
    BY <2>1 DEF LookOf
  <2> QED BY <1>2, <2>1, <2>3, <2>4, <2>5
<1> QED BY <1>3, <1>4

LEMMA ConfirmsOver ==
    ASSUME NEW nodes, NEW after, NEW looks, NEW id, NEW todo,
           NEW c, Confirms(c, todo, nodes, looks),
           Ops(todo) = {Head(todo)} \cup Ops(Tail(todo)), Head(todo).op = "upsert",
           Filed(nodes, after, id, Head(todo).finding.node)
    PROVE  Confirms(c, Tail(todo), after, looks)
<1>1. PICK rest, node : rest = Tail(todo) /\ node = Head(todo).finding.node
  OBVIOUS
<1>2. /\ Ops(todo) = {Head(todo)} \cup Ops(rest)
      /\ DOMAIN after = DOMAIN nodes \cup {id}
      /\ \A o \in DOMAIN nodes \ {id} : after[o] = nodes[o]
      /\ Address(after[id]) = node.url /\ after[id].last_probed_at = node.last_probed_at
      /\ \A o \in DOMAIN nodes : Address(nodes[o]) = node.url => o = id
      /\ id \in DOMAIN nodes => Address(nodes[id]) = node.url
  BY <1>1 DEF Filed
<1> SUFFICES ASSUME c.op = "confirm"
             PROVE  /\ c.id \in DOMAIN after /\ Address(after[c.id]) \in DOMAIN looks
                    /\ LookOf(after, looks, c.id) = "answering" =>
                          \/ \E u \in Ops(rest) : Files(u, Address(after[c.id]))
                          \/ after[c.id].last_probed_at # c.before
                    /\ \A u \in Ops(rest) :
                          u.op = "upsert" => u.finding.node.last_probed_at # c.before
  BY <1>1 DEF Confirms
<1>3. /\ c.id \in DOMAIN nodes /\ Address(nodes[c.id]) \in DOMAIN looks
      /\ LookOf(nodes, looks, c.id) = "answering" =>
            \/ \E u \in Ops(todo) : Files(u, Address(nodes[c.id]))
            \/ nodes[c.id].last_probed_at # c.before
      /\ \A u \in Ops(todo) : u.op = "upsert" => u.finding.node.last_probed_at # c.before
  BY DEF Confirms
<1>4. node.last_probed_at # c.before
  BY <1>1, <1>2, <1>3
<1>5. Address(after[c.id]) = Address(nodes[c.id])
  BY <1>2, <1>3
<1>6. CASE c.id = id
  BY <1>2, <1>3, <1>4, <1>5, <1>6
<1>7. CASE c.id # id
  <2>1. after[c.id] = nodes[c.id] /\ Address(nodes[c.id]) # node.url
    BY <1>2, <1>3, <1>7
  <2>2. ~Files(Head(todo), Address(nodes[c.id]))
    BY <1>1, <2>1 DEF Files
  <2> QED BY <1>2, <1>3, <1>5, <2>1, <2>2 DEF LookOf
<1> QED BY <1>6, <1>7

LEMMA ConfirmingOps ==
    ASSUME NEW S, NEW todo \in Seq(S), Confirming(todo)
    PROVE  \A o \in Ops(todo) : o.op = "confirm"
<1>1. CASE todo = <<>>
  BY <1>1, NoOps
<1>2. CASE todo # <<>>
  <2>1. Head(todo).op = "confirm" /\ Tail(todo) = <<>>
    BY <1>2 DEF Confirming
  <2> QED BY <1>2, <2>1, OpsSplit, NoOps
<1> QED BY <1>1, <1>2

LEMMA RefusalLeaves ==
    ASSUME NEW S, NEW rest \in Seq(S), Filing(rest),
           Confirming(rest) \/ (rest # <<>> /\ Head(rest).op = "upsert" /\ Confirming(Tail(rest)))
    PROVE  /\ Filing(Refusal(rest)) /\ Ops(Refusal(rest)) \subseteq Ops(rest)
           /\ \A o \in Ops(Refusal(rest)) : o.op = "upsert"
           /\ \A o \in Ops(rest) : o.op = "upsert" => o \in Ops(Refusal(rest))
<1>1. CASE rest # <<>> /\ Head(rest).op = "upsert"
  <2>1. PICK u : u = Head(rest)
    OBVIOUS
  <2>2. Refusal(rest) = <<u>>
    BY <1>1, <2>1 DEF Refusal
  <2>3. Confirming(Tail(rest))
    BY <1>1 DEF Confirming
  <2>4. Tail(rest) \in Seq(S)
    BY <1>1
  <2>5. Ops(rest) = {u} \cup Ops(Tail(rest)) /\ \A o \in Ops(Tail(rest)) : o.op = "confirm"
    BY <1>1, <2>1, <2>3, <2>4, OpsSplit, ConfirmingOps
  <2>6. Filing(<<u>>)
    BY <1>1, <2>1, OneOp DEF Filing, Confirming
  <2> QED BY <1>1, <2>1, <2>2, <2>5, <2>6, OneOp
<1>2. CASE ~(rest # <<>> /\ Head(rest).op = "upsert")
  <2>1. Refusal(rest) = <<>>
    BY <1>2 DEF Refusal
  <2>2. \A o \in Ops(rest) : o.op = "confirm"
    BY <1>2, ConfirmingOps
  <2> QED BY <2>1, <2>2, NoOps DEF Filing, Confirming
<1> QED BY <1>1, <1>2

LEMMA UpsertTrue ==
    ASSUME StoreInv, TrueInv, ~disturbed, NEW p \in Programs, Upsert(p)
    PROVE  TrueInv'
<1>1. At(p, "upsert") /\ UNCHANGED file
  BY DEF Upsert
<1>2. Only(p) /\ KeptIn(Load.nodes, told)
  BY <1>1, AtBusy
<1>3. PICK nodes, todo, rest, finding :
        /\ nodes = Load.nodes /\ todo = session[p].todo
        /\ rest = Rest(p) /\ finding = Op(p).finding
  OBVIOUS
<1>4. /\ todo # <<>> /\ Head(todo).op = "upsert" /\ Head(todo).finding = finding
      /\ rest = Tail(todo)
      /\ Filing(todo) /\ Owed(todo, nodes, looked)
      /\ \A o \in Ops(todo) : Found(o, looked) /\ Confirms(o, todo, nodes, looked)
  BY <1>1, <1>3, AtPlan DEF Op, Rest
<1>5. PICK S : todo \in Seq(S)
  BY <1>3 DEF StoreInv, SessionOK, TodoOK
<1>6. rest \in Seq(S) /\ Ops(todo) = {Head(todo)} \cup Ops(rest)
  BY <1>4, <1>5, OpsSplit
<1>7. /\ Confirming(rest) \/ (rest # <<>> /\ Head(rest).op = "upsert" /\ Confirming(Tail(rest)))
      /\ Filing(rest)
  BY <1>4 DEF Filing, Confirming
<1>8. /\ finding.node.reachable = TRUE /\ finding.node.url \in DOMAIN looked
      /\ looked[finding.node.url] = "answering"
  BY <1>4, <1>6 DEF Found
<1>9. FindingOK(finding, clock) /\ NodesOK(nodes, clock)
  BY <1>1, <1>3, AtReads, LoadOK DEF OpOK
<1>10. CASE ~Ambiguous(nodes, finding)
  <2>1. PICK id, after : id = FiledUnder(nodes, finding) /\ after = Upserted(nodes, finding)
    OBVIOUS
  <2>2. /\ Save(p, after, Load.consent, rest) /\ looked' = looked
        /\ IF id \in DOMAIN nodes THEN told' = told ELSE TellsOf(id, after[id])
    BY <1>3, <1>10, <2>1 DEF Upsert
  <2>3. /\ Filed(nodes, after, id, finding.node)
        /\ id \in DOMAIN nodes => after[id] = Merge(nodes[id], finding.node)
    BY <1>9, <1>10, <2>1, UpsertedSays
  <2>4. Owed(rest, after, looked)
    BY <1>4, <1>6, <2>3, OwedOver
  <2>5. \A c \in Ops(rest) : Confirms(c, rest, after, looked)
    <3> TAKE c \in Ops(rest)
    <3>1. Confirms(c, todo, nodes, looked)
      BY <1>4, <1>6
    <3> QED BY <1>4, <1>6, <2>3, <3>1, ConfirmsOver
  <2>6. PlanOK(rest, after, Load.consent, looked')
    BY <1>4, <1>6, <1>7, <2>2, <2>4, <2>5 DEF PlanOK
  <2>7. KeptIn(nodes, told)
    BY <1>2, <1>3
  <2>8. KeptIn(after, told')
    <3>1. CASE id \notin DOMAIN nodes
      BY <2>2, <2>3, <2>7, <3>1, ToldOver DEF Filed
    <3>2. CASE id \in DOMAIN nodes
      <4>1. told' = told /\ IsNode(nodes[id]) /\ IsNode(finding.node)
            /\ NamesAPort(finding.node.url)
        BY <1>9, <2>2, <3>2 DEF NodesOK, NodeOK, FindingOK
      <4> SUFFICES ASSUME NEW pair \in DOMAIN told
                   PROVE  /\ pair[1] \in DOMAIN after
                          /\ pair[2] \in after[pair[1]].declared
                          /\ IF pair[2] = "url" THEN SamePlace(after[pair[1]].url, told[pair])
                             ELSE after[pair[1]][pair[2]] = told[pair]
        BY <4>1 DEF KeptIn
      <4>2. /\ pair[1] \in DOMAIN nodes
            /\ pair[2] \in nodes[pair[1]].declared
            /\ IF pair[2] = "url" THEN SamePlace(nodes[pair[1]].url, told[pair])
               ELSE nodes[pair[1]][pair[2]] = told[pair]
        BY <2>7 DEF KeptIn
      <4>3. CASE pair[1] = id
        <5>1. after[id] = Merge(nodes[id], finding.node)
              /\ Address(nodes[id]) = finding.node.url
          BY <2>3, <3>2 DEF Filed
        <5>2. id \in DOMAIN after
          BY <2>3 DEF Filed
        <5> QED BY <5>2, <4>1, <4>2, <4>3, <5>1, MergeKeepsTold
      <4>4. CASE pair[1] # id
        BY <2>3, <4>2, <4>4 DEF Filed
      <4> QED BY <4>3, <4>4
    <3> QED BY <3>1, <3>2
  <2> QED BY <1>2, <2>2, <2>6, <2>8, LooksTyped, SaveTrue
<1>11. CASE Ambiguous(nodes, finding)
  <2>1. PICK gone, left :
          /\ left = Refusal(rest)
          /\ gone = {Address(nodes[id]) : id \in {rest[i].id : i \in
                        {j \in DOMAIN rest : rest[j].op = "confirm"}} \cap DOMAIN nodes}
                    \cap {a \in DOMAIN looked : looked[a] = "not answering"}
    OBVIOUS
  <2>2. GoOn(p, left) /\ LooksForgotten(gone) /\ told' = told
    <3>1. GoOn(p, left) /\ UnconfirmedForgotten(rest) /\ told' = told
      BY <1>3, <1>11, <2>1 DEF Upsert
    <3>2. Load.nodes = nodes
      BY <1>3
    <3>3. LooksForgotten(gone)
      BY ONLY <2>1, <3>1, <3>2, Zenon DEF UnconfirmedForgotten
    <3> QED BY <3>1, <3>3
  <2>3. /\ DOMAIN looked' = DOMAIN looked \ gone
        /\ \A a \in DOMAIN looked' : looked'[a] = looked[a] /\ looked'[a] \in Answers
    BY <2>2, ForgottenLooks
  <2>4. /\ Filing(left) /\ Ops(left) \subseteq Ops(rest)
        /\ \A o \in Ops(left) : o.op = "upsert"
        /\ \A o \in Ops(rest) : o.op = "upsert" => o \in Ops(left)
    BY <1>6, <1>7, <2>1, RefusalLeaves
  <2>5. ASSUME NEW id \in DOMAIN nodes, Claimed(nodes, looked', id)
        PROVE  \/ StatusOf(nodes[id]) = LookOf(nodes, looked', id)
               \/ \E u \in Ops(left) : Files(u, Address(nodes[id]))
    <3>1. /\ Address(nodes[id]) \in DOMAIN looked'
          /\ \A o \in DOMAIN nodes : Address(nodes[o]) = Address(nodes[id]) => o = id
      BY <2>5 DEF Claimed
    <3>2. Claimed(nodes, looked, id) /\ LookOf(nodes, looked', id) = LookOf(nodes, looked, id)
      BY <2>3, <3>1 DEF Claimed, LookOf
    <3>3. ~Files(Head(todo), Address(nodes[id]))
      <4> SUFFICES ASSUME Address(nodes[id]) = finding.node.url PROVE FALSE
        BY <1>4 DEF Files
      <4>1. AddressFor(finding.node.url, finding.node.kind) = finding.node.url
        BY <1>9, AddressNamed DEF FindingOK
      <4>2. MatchingAddress(nodes, finding.node.url, finding.node.kind) = {id}
        BY <3>1, <4>1 DEF MatchingAddress
      <4>3. Cardinality({id}) = 1
        BY FS_Singleton
      <4> QED BY <1>11, <4>2, <4>3 DEF Ambiguous
    <3>4. ASSUME NEW c \in Ops(todo), c.op = "confirm", c.id = id,
                 LookOf(nodes, looked, id) = "not answering"
          PROVE  FALSE
      <4>1. c \in Ops(rest)
        BY <1>4, <1>6, <3>4
      <4>2. PICK j \in DOMAIN rest : c = rest[j]
        BY <4>1 DEF Ops
      <4>3. Address(nodes[id]) \in gone
        BY <2>1, <3>2, <3>4, <4>2 DEF LookOf, Claimed
      <4> QED BY <2>3, <3>1, <4>3
    <3>5. \/ StatusOf(nodes[id]) = LookOf(nodes, looked, id)
          \/ \E u \in Ops(todo) : Files(u, Address(nodes[id]))
      BY <1>4, <3>2, <3>4 DEF Owed
    <3>6. ASSUME NEW u \in Ops(todo), Files(u, Address(nodes[id])) PROVE u \in Ops(left)
      BY <1>6, <2>4, <3>3, <3>6 DEF Files
    <3> QED BY <3>2, <3>5, <3>6
  <2>6. Owed(left, nodes, looked')
    BY <2>5 DEF Owed
  <2>7. \A o \in Ops(left) : Found(o, looked') /\ Confirms(o, left, nodes, looked')
    <3> TAKE o \in Ops(left)
    <3>1. o.op = "upsert" /\ Found(o, looked)
      BY <1>4, <1>6, <2>4
    <3>2. o.finding.node.url \in DOMAIN looked'
      BY <2>1, <2>3, <3>1 DEF Found
    <3> QED BY <2>3, <3>1, <3>2 DEF Found, Confirms
  <2>8. PlanOK(left, Load.nodes, Load.consent, looked')
    BY <1>3, <2>4, <2>6, <2>7 DEF PlanOK
  <2> QED BY <1>1, <1>2, <2>2, <2>3, <2>8, GoOnTrue
<1> QED BY <1>10, <1>11

\* A permission lists one address for each program.
LEMMA OneForEachProgram ==
    ASSUME NEW scope \in Permitted, NEW host,
           NEW c \in CandidateAddresses(scope, host),
           NEW d \in CandidateAddresses(scope, host), c[2] = d[2]
    PROVE  c[2] \in NodeKinds /\ c = d
<1>1. CASE scope = "NONE"
  BY <1>1 DEF CandidateAddresses
<1>2. CASE scope = "THIS_MACHINE"
  <2>1. PICK k \in NodeKinds, l \in NodeKinds :
          /\ c = <<[host |-> Loopback, port |-> Ports[k], form |-> "plain"], k>>
          /\ d = <<[host |-> Loopback, port |-> Ports[l], form |-> "plain"], l>>
    BY <1>2 DEF CandidateAddresses
  <2>2. k = l
    BY <2>1
  <2> QED BY <2>1, <2>2
<1>3. CASE scope = "NAMED_HOST"
  <2>1. PICK k \in NodeKinds, l \in NodeKinds :
          c = <<AddressFor(host, k), k>> /\ d = <<AddressFor(host, l), l>>
    BY <1>3 DEF CandidateAddresses
  <2> QED BY <2>1
<1> QED BY <1>1, <1>2, <1>3 DEF Permitted, Scopes

Says(finding, address, stamp) ==
    /\ finding.node.url = address
    /\ finding.node.reachable = TRUE
    /\ finding.node.last_probed_at = stamp

LEMMA FoundSays ==
    ASSUME NEW scope \in Permitted, NEW host,
           NEW found, found \subseteq CandidateAddresses(scope, host),
           NEW c \in found, NEW kind, kind = c[2], NEW label, NEW stamp,
           NEW f, f = Finding(found, kind, label, stamp)
    PROVE  Says(f, c[1], stamp)
<1>2. PICK d \in found : d = (CHOOSE e \in found : e[2] = kind) /\ d[2] = kind
  OBVIOUS
<1>3. d = c
  BY <1>2, OneForEachProgram
<1>4. PICK finding : finding = Discovered(c[1], kind, stamp)
  OBVIOUS
<1>5. /\ DOMAIN finding = {"node_id", "node"}
      /\ finding.node = [label |-> <<kind, c[1].host>>, kind |-> kind, url |-> c[1],
                         reachable |-> TRUE, last_probed_at |-> stamp, declared |-> {}]
  BY <1>4 DEF Discovered
<1>6. PICK node : node = [finding.node EXCEPT !.label = label, !.declared = {"label"}]
  OBVIOUS
<1>7. PICK named : named = [finding EXCEPT !.node.label = label, !.node.declared = {"label"}]
  OBVIOUS
<1>8. named.node = node
  BY <1>5, <1>6, <1>7
<1>9. /\ finding.node.url = c[1] /\ finding.node.reachable = TRUE
      /\ finding.node.last_probed_at = stamp
  BY <1>5
<1>10. node.url = c[1] /\ node.reachable = TRUE /\ node.last_probed_at = stamp
  BY <1>5, <1>6
<1>11. f \in {finding, named}
  BY <1>2, <1>3, <1>4, <1>7 DEF Finding
<1> QED BY <1>8, <1>9, <1>10, <1>11 DEF Says

\* The findings of a look, before whatever was to be done after it.
LEMMA FiledFirst ==
    ASSUME NEW S, NEW rest \in Seq(S), Confirming(rest),
           NEW one, one = <<>> \/ \E u \in S : u.op = "upsert" /\ one = <<u>>,
           NEW two, two = <<>> \/ \E u \in S : u.op = "upsert" /\ two = <<u>>
    PROVE  /\ Filing(one \o two \o rest)
           /\ Ops(one \o two \o rest) = Ops(one) \cup Ops(two) \cup Ops(rest)
<1>1. Filing(rest)
  BY DEF Filing
<1>2. CASE one = <<>> /\ two = <<>>
  <2>1. one \o two \o rest = rest
    BY <1>2
  <2> QED BY <1>1, <1>2, <2>1, NoOps
<1>3. ASSUME NEW u \in S, u.op = "upsert"
      PROVE  /\ Filing(<<u>> \o rest)
             /\ Ops(<<u>> \o rest) = {u} \cup Ops(rest)
  BY <1>3, OpsAdded DEF Filing
<1>4. ASSUME NEW u \in S, u.op = "upsert", one = <<u>>, two = <<>>
      PROVE  one \o two \o rest = <<u>> \o rest
  BY <1>4
<1>5. ASSUME NEW u \in S, u.op = "upsert", one = <<>>, two = <<u>>
      PROVE  one \o two \o rest = <<u>> \o rest
  BY <1>5
<1>6. ASSUME NEW u \in S, u.op = "upsert", one = <<u>>,
             NEW v \in S, v.op = "upsert", two = <<v>>
      PROVE  /\ Filing(one \o two \o rest)
             /\ Ops(one \o two \o rest) = {u} \cup ({v} \cup Ops(rest))
  <2>1. PICK more : more = <<v>> \o rest
    OBVIOUS
  <2>2. /\ more \in Seq(S) /\ more # <<>> /\ Head(more) = v /\ Tail(more) = rest
        /\ Ops(more) = {v} \cup Ops(rest)
    BY <2>1, OpsAdded
  <2>3. one \o two \o rest = <<u>> \o more
    <3>1. <<u>> \in Seq(S) /\ <<v>> \in Seq(S)
      BY <1>6
    <3>2. (<<u>> \o <<v>>) \o rest = <<u>> \o (<<v>> \o rest)
      BY <3>1, ConcatAssociative
    <3> QED BY <1>6, <2>1, <3>2
  <2>4. PICK all : all = <<u>> \o more
    OBVIOUS
  <2>5. /\ all # <<>> /\ Head(all) = u /\ Tail(all) = more
        /\ Ops(all) = {u} \cup Ops(more)
    BY <2>2, <2>4, OpsAdded
  <2>6. Filing(all)
    BY <1>6, <2>2, <2>5 DEF Filing
  <2> QED BY <2>2, <2>3, <2>4, <2>5, <2>6
<1> QED BY <1>2, <1>3, <1>4, <1>5, <1>6, NoOps, OneOp

LEMMA LookTrue ==
    ASSUME StoreInv, TrueInv, ~disturbed, NEW p \in Programs, At(p, "look"),
           NEW found \in SUBSET CandidateAddresses(Op(p).scope, Op(p).host),
           Look(p, found)
    PROVE  TrueInv'
<1> DEFINE Filings(kind) == IF \A c \in found : c[2] # kind THEN <<>>
                            ELSE <<[op |-> "upsert",
                                    finding |-> Finding(found, kind, Op(p).label, clock + 1)]>>
<1>1. PICK nodes, todo, rest, look, stamp, answered, one, two :
        /\ nodes = Load.nodes /\ todo = session[p].todo /\ rest = Rest(p) /\ look = Op(p)
        /\ stamp = clock + 1 /\ answered = {c[1] : c \in found}
        /\ one = Filings("ollama") /\ two = Filings("llamacpp")
  OBVIOUS
<1>2. /\ UNCHANGED file /\ told' = told
      /\ looked' = [a \in DOMAIN looked \cup answered \cup look.checks |->
                       IF a \in answered THEN "answering"
                       ELSE IF a \in look.checks THEN "not answering" ELSE looked[a]]
      /\ GoOn(p, one \o two \o rest)
  BY <1>1 DEF Look
<1>3. /\ todo # <<>> /\ Head(todo) = look /\ rest = Tail(todo)
      /\ Settled(nodes, looked) /\ Confirming(rest)
      /\ \A o \in Ops(rest) : o.id \in DOMAIN nodes /\ nodes[o.id].last_probed_at = o.before
      /\ look.checks = {Address(nodes[o.id]) : o \in Ops(rest)}
  BY <1>1, AtPlan DEF Looking, Op, Rest
<1>4. PICK S : todo \in Seq(S)
  BY <1>1 DEF StoreInv, SessionOK, TodoOK
<1>5. rest \in Seq(S)
  BY <1>3, <1>4
<1>6. \A o \in Ops(rest) : o.op = "confirm"
  BY <1>3, <1>5, ConfirmingOps
<1>7. Op(p).scope \in Permitted /\ NodesOK(nodes, clock) /\ clock \in Nat
  BY <1>1, AtReads, LoadOK DEF OpOK, StoreInv
<1>8. \A c \in found : c[2] = "ollama" \/ c[2] = "llamacpp"
  BY <1>1, <1>7, OneForEachProgram DEF NodeKinds
<1>9. ASSUME NEW c \in found
      PROVE  \E u : /\ Filings(c[2]) = <<u>> /\ u.op = "upsert" /\ u.finding.node.url = c[1]
                    /\ u.finding.node.reachable = TRUE
                    /\ u.finding.node.last_probed_at = stamp
  <2>1. PICK u, f : /\ f = Finding(found, c[2], Op(p).label, clock + 1)
                    /\ u = [op |-> "upsert", finding |-> f]
    OBVIOUS
  <2>2. u.op = "upsert" /\ u.finding = f
    BY <2>1
  <2>3. Filings(c[2]) = <<u>>
    BY <1>9, <2>1
  <2>4. f.node.url = c[1] /\ f.node.reachable = TRUE /\ f.node.last_probed_at = stamp
    <3>1. PICK scope, host, label, kind :
            /\ scope = Op(p).scope /\ host = Op(p).host /\ label = Op(p).label
            /\ kind = c[2]
      OBVIOUS
    <3>2. /\ scope \in Permitted /\ found \subseteq CandidateAddresses(scope, host)
          /\ c \in found /\ kind = c[2] /\ f = Finding(found, kind, label, stamp)
      BY <1>1, <1>7, <2>1, <3>1
    <3>3. Says(f, c[1], stamp)
      BY ONLY <3>2, FoundSays, Zenon
    <3> QED BY <3>3 DEF Says
  <2> QED BY <2>2, <2>3, <2>4
<1>10. ASSUME NEW kind
       PROVE  \/ Filings(kind) = <<>>
              \/ \E c \in found : \E u :
                    /\ c[2] = kind /\ Filings(kind) = <<u>>
                    /\ u.op = "upsert" /\ u.finding.node.url = c[1]
                    /\ u.finding.node.reachable = TRUE
                    /\ u.finding.node.last_probed_at = stamp
  <2>1. CASE \A c \in found : c[2] # kind
    BY <2>1
  <2>2. CASE \E c \in found : c[2] = kind
    <3>1. PICK c \in found : c[2] = kind
      BY <2>2
    <3> HIDE DEF Filings
    <3> QED BY <1>9, <3>1
  <2> QED BY <2>1, <2>2
<1> HIDE DEF Filings
<1>11. PICK all : all = one \o two \o rest
  OBVIOUS
<1>12. Filing(all) /\ Ops(all) = Ops(one) \cup Ops(two) \cup Ops(rest)
  <2>1. PICK T : T = S \cup Ops(one) \cup Ops(two)
    OBVIOUS
  <2>2. one = <<>> \/ \E u \in T : u.op = "upsert" /\ one = <<u>>
    <3>1. one = <<>> \/ \E u : u.op = "upsert" /\ one = <<u>>
      BY <1>1, <1>10
    <3> QED BY <2>1, <3>1, OneOp
  <2>3. two = <<>> \/ \E u \in T : u.op = "upsert" /\ two = <<u>>
    <3>1. two = <<>> \/ \E u : u.op = "upsert" /\ two = <<u>>
      BY <1>1, <1>10
    <3> QED BY <2>1, <3>1, OneOp
  <2>4. rest \in Seq(T)
    BY <1>5, <2>1
  <2>5. Confirming(rest)
    BY <1>3
  <2> QED BY ONLY <1>11, <2>2, <2>3, <2>4, <2>5, FiledFirst
<1>13. \A u \in Ops(one) \cup Ops(two) :
          /\ u.op = "upsert" /\ u.finding.node.url \in answered
          /\ u.finding.node.reachable = TRUE /\ u.finding.node.last_probed_at = stamp
  <2> SUFFICES ASSUME NEW kind, NEW u \in Ops(Filings(kind))
               PROVE  /\ u.op = "upsert" /\ u.finding.node.url \in answered
                      /\ u.finding.node.reachable = TRUE
                      /\ u.finding.node.last_probed_at = stamp
    BY <1>1
  <2>1. Filings(kind) # <<>>
    BY NoOps
  <2>2. PICK c \in found : \E v :
          /\ c[2] = kind /\ Filings(kind) = <<v>>
          /\ v.op = "upsert" /\ v.finding.node.url = c[1]
          /\ v.finding.node.reachable = TRUE /\ v.finding.node.last_probed_at = stamp
    BY <1>10, <2>1
  <2>3. PICK v :
          /\ Filings(kind) = <<v>> /\ v.op = "upsert" /\ v.finding.node.url = c[1]
          /\ v.finding.node.reachable = TRUE /\ v.finding.node.last_probed_at = stamp
    BY <2>2
  <2>4. u = v
    BY <2>3, OneOp
  <2> QED BY <1>1, <2>3, <2>4
<1>14. \A a \in answered : \E u \in Ops(all) : Files(u, a)
  <2> SUFFICES ASSUME NEW c \in found PROVE \E u \in Ops(all) : Files(u, c[1])
    BY <1>1
  <2>1. PICK u : Filings(c[2]) = <<u>> /\ u.op = "upsert" /\ u.finding.node.url = c[1]
    BY <1>9
  <2>2. u \in Ops(one) \cup Ops(two)
    BY <1>1, <1>8, <2>1, OneOp
  <2> QED BY <1>12, <2>1, <2>2 DEF Files
<1>15. /\ \A a \in answered : a \in DOMAIN looked' /\ looked'[a] = "answering"
       /\ \A a \in look.checks \ answered : a \in DOMAIN looked' /\ looked'[a] = "not answering"
       /\ \A a \in DOMAIN looked' \ (answered \cup look.checks) :
             a \in DOMAIN looked /\ looked'[a] = looked[a]
       /\ \A a \in DOMAIN looked' : looked'[a] \in Answers
  BY <1>2, LooksTyped DEF Answers
<1>16. Owed(all, nodes, looked')
  <2> SUFFICES ASSUME NEW id \in DOMAIN nodes, Claimed(nodes, looked', id)
               PROVE  \/ StatusOf(nodes[id]) = LookOf(nodes, looked', id)
                      \/ \E u \in Ops(all) : Files(u, Address(nodes[id]))
                      \/ \E c \in Ops(all) :
                            /\ c.op = "confirm" /\ c.id = id
                            /\ nodes[id].last_probed_at = c.before
                            /\ LookOf(nodes, looked', id) = "not answering"
    BY DEF Owed
  <2>1. /\ Address(nodes[id]) \in DOMAIN looked'
        /\ \A o \in DOMAIN nodes : Address(nodes[o]) = Address(nodes[id]) => o = id
    BY DEF Claimed
  <2>2. CASE Address(nodes[id]) \in answered
    BY <1>14, <2>2
  <2>3. CASE Address(nodes[id]) \in look.checks \ answered
    <3>1. PICK c \in Ops(rest) : Address(nodes[id]) = Address(nodes[c.id])
      BY <1>3, <2>3
    <3>2. c.id = id /\ nodes[id].last_probed_at = c.before /\ c.op = "confirm"
      BY <1>3, <1>6, <2>1, <3>1
    <3> QED BY <1>12, <1>15, <2>3, <3>2 DEF LookOf
  <2>4. CASE Address(nodes[id]) \notin answered \cup look.checks
    <3>1. Claimed(nodes, looked, id) /\ LookOf(nodes, looked', id) = LookOf(nodes, looked, id)
      BY <1>15, <2>1, <2>4 DEF Claimed, LookOf
    <3> QED BY <1>3, <3>1 DEF Settled
  <2> QED BY <2>2, <2>3, <2>4
<1>17. \A o \in Ops(all) : Found(o, looked') /\ Confirms(o, all, nodes, looked')
  <2> TAKE o \in Ops(all)
  <2>1. CASE o \in Ops(one) \cup Ops(two)
    BY <1>13, <1>15, <2>1 DEF Found, Confirms
  <2>2. CASE o \in Ops(rest)
    <3>1. o.op = "confirm" /\ o.id \in DOMAIN nodes /\ nodes[o.id].last_probed_at = o.before
      BY <1>3, <1>6, <2>2
    <3>2. Address(nodes[o.id]) \in look.checks
      BY <1>3, <2>2
    <3>3. o.before # stamp
      BY <1>1, <1>7, <3>1 DEF NodesOK, NodeOK
    <3>4. \A u \in Ops(all) : u.op = "upsert" => u.finding.node.last_probed_at # o.before
      BY <1>6, <1>12, <1>13, <3>3
    <3>5. Address(nodes[o.id]) \in DOMAIN looked'
      BY <1>15, <3>2
    <3>6. LookOf(nodes, looked', o.id) = "answering" =>
             \E u \in Ops(all) : Files(u, Address(nodes[o.id]))
      BY <1>14, <1>15, <3>2 DEF LookOf
    <3> QED BY <3>1, <3>4, <3>5, <3>6 DEF Found, Confirms
  <2> QED BY <1>12, <2>1, <2>2
<1>18. PlanOK(all, Load.nodes, Load.consent, looked')
  BY <1>1, <1>12, <1>16, <1>17 DEF PlanOK
<1>19. GoOn(p, all)
  BY <1>2, <1>11
<1>20. Only(p) /\ KeptIn(Load.nodes, told')
  BY <1>2, AtBusy
<1> QED BY <1>2, <1>15, <1>18, <1>19, <1>20, GoOnTrue

-----------------------------------------------------------------------------
(* The commands, one after another *)

LEMMA ConsentTrue ==
    ASSUME StoreInv, TrueInv, ~disturbed', NEW p \in Programs, NEW scope,
           NodeConsent(p, scope)
    PROVE  TrueInv'
<1>1. PICK o : o = [op |-> "set_consent", scope |-> scope]
  OBVIOUS
<1>2. Preparing(<<o>>, Load.nodes)
  BY <1>1, OneOp DEF Preparing
<1>3. Settled(Load.nodes, looked) => PlanOK(<<o>>, Load.nodes, Load.consent, looked)
  BY <1>2 DEF PlanOK
<1>4. Begin(p, <<o>>)
  BY <1>1 DEF NodeConsent
<1> QED BY <1>3, <1>4, BeginTrue

\* The permission that is put on file is the one the look will use.
LEMMA ScanTrue ==
    ASSUME StoreInv, TrueInv, ~disturbed', NEW p \in Programs, NEW scope, NEW host,
           NEW label, NodeScan(p, scope, host, label)
    PROVE  TrueInv'
<1>1. PICK a, b :
        /\ a = [op |-> "set_consent", scope |-> scope]
        /\ b = [op |-> "look", scope |-> scope, label |-> label, checks |-> {},
                host |-> IF scope = "NAMED_HOST" THEN host ELSE Unnamed]
  OBVIOUS
<1>2. a.op = "set_consent" /\ b.op = "look" /\ a.scope = b.scope /\ b.checks = {}
  BY <1>1
<1>3. {Address(Load.nodes[o.id]) : o \in Ops(<<>>)} = {}
  BY NoOps
<1>4. Looking(<<b>>, Load.nodes)
  BY <1>2, <1>3, OneOp, NoOps DEF Looking, Confirming
<1>5. Preparing(<<a, b>>, Load.nodes)
  BY <1>2, <1>4, TwoOps, OneOp DEF Preparing
<1>6. Settled(Load.nodes, looked) => PlanOK(<<a, b>>, Load.nodes, Load.consent, looked)
  BY <1>5 DEF PlanOK
<1>7. Begin(p, <<a, b>>)
  BY <1>1 DEF NodeScan
<1> QED BY <1>6, <1>7, BeginTrue

LEMMA EditingTrue ==
    ASSUME StoreInv, TrueInv, ~disturbed', NEW p \in Programs, NEW o, Begin(p, <<o>>),
           o.op \in {"record", "check", "forget", "edit"},
           o.op = "record" => o.finding.node.last_probed_at = Never
    PROVE  TrueInv'
<1>1. Settled(Load.nodes, looked) => PlanOK(<<o>>, Load.nodes, Load.consent, looked)
  BY EditingAlone
<1> QED BY <1>1, BeginTrue

LEMMA AddTrue ==
    ASSUME StoreInv, TrueInv, ~disturbed', NEW p \in Programs, NEW label, NEW kind,
           NEW url, NEW contact, NodeAdd(p, label, kind, url, contact)
    PROVE  TrueInv'
<1>1. PICK typed : typed = TypedIn(label, kind, AddressFor(url, kind))
  OBVIOUS
<1>2. typed.node.last_probed_at = Never
  BY <1>1 DEF TypedIn
<1>3. PICK o : o = [op |-> "record", contact |-> contact, finding |-> typed]
  OBVIOUS
<1>4. o.op = "record" /\ o.finding = typed
  BY <1>3
<1>5. Begin(p, <<o>>)
  BY <1>1, <1>3 DEF NodeAdd
<1> QED BY <1>2, <1>4, <1>5, EditingTrue

LEMMA EditTrue ==
    ASSUME StoreInv, TrueInv, ~disturbed', NEW p \in Programs, NEW id, NEW field, NEW value,
           NodeEdit(p, id, field, value)
    PROVE  TrueInv'
<1>1. PICK o : o = [op |-> "edit", id |-> id, field |-> field, value |-> value]
  OBVIOUS
<1>2. o.op = "edit"
  BY <1>1
<1>3. Begin(p, <<o>>)
  BY <1>1 DEF NodeEdit
<1> QED BY <1>2, <1>3, EditingTrue

LEMMA CheckOrForgetTrue ==
    ASSUME StoreInv, TrueInv, ~disturbed', NEW p \in Programs, NEW id,
           NodeCheck(p, id) \/ NodeForget(p, id)
    PROVE  TrueInv'
<1>1. PICK o : Begin(p, <<o>>) /\ o.op \in {"check", "forget"}
  <2>1. CASE NodeCheck(p, id)
    <3>1. PICK o : o = [op |-> "check", id |-> id]
      OBVIOUS
    <3>2. o.op = "check"
      BY <3>1
    <3> QED BY <2>1, <3>1, <3>2 DEF NodeCheck
  <2>2. CASE NodeForget(p, id)
    <3>1. PICK o : o = [op |-> "forget", id |-> id]
      OBVIOUS
    <3>2. o.op = "forget"
      BY <3>1
    <3> QED BY <2>2, <3>1, <3>2 DEF NodeForget
  <2> QED BY <2>1, <2>2
<1> QED BY <1>1, EditingTrue

-----------------------------------------------------------------------------
(* The store, one command after another *)

LEMMA TrueInit ==
    ASSUME Init
    PROVE  TrueInv
<1>1. /\ told = [pair \in UNION {{id} \X Load.nodes[id].declared : id \in DOMAIN Load.nodes} |->
                    Load.nodes[pair[1]][pair[2]]]
      /\ \A p \in Programs : session[p] = Idle
  BY DEF Init
<1>2. looked = <<>> /\ DOMAIN looked = {}
  <2>1. DOMAIN <<>> = {}
    OBVIOUS
  <2> QED BY <2>1 DEF Init
<1>3. KeptIn(Load.nodes, told)
  <2> SUFFICES ASSUME NEW pair \in DOMAIN told
               PROVE  /\ pair[1] \in DOMAIN Load.nodes
                      /\ pair[2] \in Load.nodes[pair[1]].declared
                      /\ IF pair[2] = "url"
                         THEN SamePlace(Load.nodes[pair[1]].url, told[pair])
                         ELSE Load.nodes[pair[1]][pair[2]] = told[pair]
    BY DEF KeptIn
  <2>1. PICK id \in DOMAIN Load.nodes : pair \in {id} \X Load.nodes[id].declared
    BY <1>1
  <2>2. pair[1] = id /\ pair[2] \in Load.nodes[id].declared
    BY <2>1
  <2>3. told[pair] = Load.nodes[pair[1]][pair[2]]
    BY <1>1
  <2>4. pair[2] = "url" => told[pair] = Load.nodes[pair[1]].url
    BY <2>3
  <2> QED BY <2>2, <2>3, <2>4 DEF SamePlace
<1>4. Settled(Load.nodes, looked)
  BY <1>2 DEF Settled, Claimed
<1>5. Coming(Idle) = Load /\ Idle.todo = <<>>
  BY DEF Coming, Idle
<1>6. Holds(Idle)
  BY <1>3, <1>4, <1>5, SettledBefore DEF Holds
<1> QED BY <1>1, <1>2, <1>6 DEF TrueInv

LEMMA TrueKept ==
    ASSUME StoreInv, TrueInv, [Next]_vars
    PROVE  TrueInv'
<1> SUFFICES ASSUME ~disturbed' PROVE TrueInv'
  BY DEF TrueInv
<1>1. CASE UNCHANGED vars
  BY <1>1 DEF vars, TrueInv, Holds, Coming, Load
<1>2. CASE Next
  <2>1. PICK p \in Programs :
          \/ \E scope \in Scopes : NodeConsent(p, scope)
          \/ \E scope \in Scopes, host \in TypedUrls, label \in Labels \cup {<<>>} :
                NodeScan(p, scope, host, label)
          \/ \E label \in Labels, kind \in NodeKinds, url \in TypedUrls, contact \in BOOLEAN :
                NodeAdd(p, label, kind, url, contact)
          \/ \E id \in DOMAIN Load.nodes :
                \/ NodeCheck(p, id) \/ NodeForget(p, id)
                \/ \E label \in Labels : NodeEdit(p, id, "label", label)
                \/ \E url \in TypedUrls : NodeEdit(p, id, "url", url)
                \/ \E kind \in NodeKinds : NodeEdit(p, id, "kind", kind)
          \/ SetConsent(p) \/ Upsert(p) \/ RecordByHand(p) \/ InsertByHand(p)
          \/ At(p, "look") /\ \E found \in SUBSET CandidateAddresses(Op(p).scope, Op(p).host) :
                                 Look(p, found)
          \/ Confirm(p) \/ MarkSilent(p) \/ Forget(p) \/ UpdateField(p) \/ CheckNode(p)
          \/ OpenToWrite(p) \/ WriteText(p) \/ Die(p)
    BY <1>2 DEF Next
  <2>2. CASE \/ \E scope \in Scopes : NodeConsent(p, scope)
             \/ \E scope \in Scopes, host \in TypedUrls, label \in Labels \cup {<<>>} :
                   NodeScan(p, scope, host, label)
             \/ \E label \in Labels, kind \in NodeKinds, url \in TypedUrls,
                   contact \in BOOLEAN : NodeAdd(p, label, kind, url, contact)
    BY <2>2, ConsentTrue, ScanTrue, AddTrue
  <2>3. CASE \E id \in DOMAIN Load.nodes :
                \/ NodeCheck(p, id) \/ NodeForget(p, id)
                \/ \E label \in Labels : NodeEdit(p, id, "label", label)
                \/ \E url \in TypedUrls : NodeEdit(p, id, "url", url)
                \/ \E kind \in NodeKinds : NodeEdit(p, id, "kind", kind)
    BY <2>3, CheckOrForgetTrue, EditTrue
  <2>4. CASE At(p, "look") /\ \E found \in SUBSET CandidateAddresses(Op(p).scope, Op(p).host) :
                                 Look(p, found)
    <3>1. PICK found \in SUBSET CandidateAddresses(Op(p).scope, Op(p).host) : Look(p, found)
      BY <2>4
    <3>2. ~disturbed
      BY <3>1 DEF Look
    <3> QED BY <2>4, <3>1, <3>2, LookTrue
  <2>5. CASE SetConsent(p) \/ Upsert(p) \/ RecordByHand(p) \/ InsertByHand(p)
    <3>1. ~disturbed
      BY <2>5 DEF SetConsent, Upsert, RecordByHand, InsertByHand
    <3> QED BY <2>5, <3>1, SetConsentTrue, UpsertTrue, RecordTrue, InsertTrue
  <2>6. CASE Confirm(p) \/ MarkSilent(p) \/ Forget(p) \/ UpdateField(p) \/ CheckNode(p)
    <3>1. ~disturbed
      BY <2>6 DEF Confirm, MarkSilent, Forget, UpdateField, CheckNode
    <3> QED BY <2>6, <3>1, ConfirmTrue, SilentTrue, ForgetTrue, UpdateTrue, CheckTrue
  <2>7. CASE OpenToWrite(p) \/ WriteText(p)
    <3>1. ~disturbed
      BY <2>7 DEF OpenToWrite, WriteText
    <3> QED BY <2>7, <3>1, WritingTrue
  <2>8. CASE Die(p)
    BY <2>8 DEF Die
  <2> QED BY <2>1, <2>2, <2>3, <2>4, <2>5, <2>6, <2>7, <2>8
<1> QED BY <1>1, <1>2

\* What no program has in hand is in the file.
LEMMA TrueSays ==
    ASSUME StoreInv, TrueInv
    PROVE  StoreIsTrue
<1> SUFFICES ASSUME ~disturbed
             PROVE  /\ (\A p \in Programs : session[p] = Idle) => TypedIsKept /\ LooksAreKept
                    /\ \A p \in Programs : At(p, "look") => Load.consent = Op(p).scope
  BY DEF StoreIsTrue
<1>1. ASSUME NEW p \in Programs, At(p, "look") PROVE Load.consent = Op(p).scope
  BY <1>1, AtPlan
<1>2. ASSUME \A p \in Programs : session[p] = Idle
      PROVE  TypedIsKept /\ LooksAreKept
  <2>1. Coming(Idle) = Load /\ Idle.todo = <<>>
    BY DEF Coming, Idle
  <2>2. KeptIn(Load.nodes, told) /\ Settled(Load.nodes, looked)
    BY <1>2, <2>1, SettledBefore DEF TrueInv, Holds
  <2>3. TypedIsKept
    BY <2>2 DEF KeptIn, TypedIsKept
  <2>4. PICK nodes : nodes = Load.nodes /\ NodesOK(nodes, clock)
    BY LoadOK
  <2>5. ASSUME NEW id \in DOMAIN nodes, Address(nodes[id]) \in DOMAIN looked,
               MatchingAddress(nodes, Address(nodes[id]), "ollama") = {id}
        PROVE  /\ StatusOf(nodes[id]) = looked[Address(nodes[id])]
               /\ id \in Summarised(nodes) <=> looked[Address(nodes[id])] = "answering"
    <3>1. AddressFor(Address(nodes[id]), "ollama") = Address(nodes[id])
      <4>1. IsUrl(nodes[id].url) /\ nodes[id].kind \in NodeKinds
        BY <2>4 DEF NodesOK, NodeOK, IsNode
      <4> QED BY <4>1, AddressRead, AddressNamed DEF Address
    <3>2. Claimed(nodes, looked, id)
      <4> SUFFICES ASSUME NEW other \in DOMAIN nodes,
                          Address(nodes[other]) = Address(nodes[id])
                   PROVE  other = id
        BY <2>5 DEF Claimed
      <4>1. other \in MatchingAddress(nodes, Address(nodes[id]), "ollama")
        BY <3>1 DEF MatchingAddress
      <4> QED BY <2>5, <4>1
    <3>3. StatusOf(nodes[id]) = looked[Address(nodes[id])]
      BY <2>2, <2>4, <3>2 DEF Settled, LookOf
    <3>4. looked[Address(nodes[id])] \in {"answering", "not answering"}
      BY <2>5, LooksTyped DEF Answers
    <3>5. id \in Summarised(nodes) <=> StatusOf(nodes[id]) # "not answering"
      BY DEF Summarised, StatusOf
    <3> QED BY <3>3, <3>4, <3>5
  <2>6. LooksAreKept
    BY <2>4, <2>5 DEF LooksAreKept
  <2> QED BY <2>3, <2>6
<1> QED BY <1>1, <1>2

\* cli.py, gui/services/nodes.py: as long as commands are not run over one
\* another and run to their end, nothing a person typed is lost to a look, a
\* rescan or another computer, every card says what the last look found, and
\* no look is taken that the permission on file does not cover.
THEOREM StoreStaysTrue ==
    ASSUME \A text \in Stored \ {Absent, Emptied} : WellKept(text)
    PROVE  Spec => []StoreIsTrue
<1>1. Init => TrueInv
  BY TrueInit
<1>2. StoreInv /\ TrueInv /\ [Next]_vars => TrueInv'
  BY TrueKept
<1>3. StoreInv /\ TrueInv => StoreIsTrue
  BY TrueSays
<1> QED BY <1>1, <1>2, <1>3, StoreHolds, PTL DEF Spec
=============================================================================
