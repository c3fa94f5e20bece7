------------------------------- MODULE Nodes -------------------------------
(***************************************************************************)
(* The computers a person has told the runtime about: how an address is    *)
(* read and looked at (nodes/discovery.py), how a finding is merged into   *)
(* what is stored (nodes/store.py), and what graphs and people see of it   *)
(* (nodes/registry.py, nodes/summary.py).                                  *)
(*                                                                         *)
(* An address is a host, a port or NoPort, and a form: plain, malformed,   *)
(* or with a user name in it.  Labels and ids are tuples; an id is a slug  *)
(* and its number, 1 when it has no suffix.  The store is a function from  *)
(* ids to details, as the file is.                                         *)
(***************************************************************************)
EXTENDS Integers, Sequences, FiniteSets

CONSTANT Endpoints   \* what the runtime resolves without any computer, by id

ASSUME EndpointsAssumption == IsFiniteSet(DOMAIN Endpoints)

NodeKinds == {"ollama", "llamacpp"}
Ports     == [ollama |-> 11434, llamacpp |-> 8081]
NoPort    == 0
Never     == 0       \* last_probed_at of a computer nobody has looked at
Loopback  == "127.0.0.1"

(***************************************************************************)
(* Addresses.                                                              *)
(***************************************************************************)
NamesAPort(url) == url.port # NoPort

\* A host that names no port gets the one its program listens on.
AddressFor(url, kind) ==
    IF NamesAPort(url) THEN url ELSE [url EXCEPT !.port = Ports[kind]]

HasUserinfo(url) == url.form = "userinfo"

\* Refused when it is typed; a stored one is still read.
AddressProblem(url) == HasUserinfo(url) \/ url.form = "malformed"

Address(node) == AddressFor(node.url, node.kind)

\* The contract a stored computer is read by, and the id it is stored under.
IsUrl(url) == url = [host |-> url.host, port |-> url.port, form |-> url.form]

IsNode(node) ==
    /\ DOMAIN node = {"label", "kind", "url", "reachable", "last_probed_at", "declared"}
    /\ node.kind \in NodeKinds
    /\ IsUrl(node.url)
    /\ node.declared \subseteq {"label", "url", "kind"}

IsId(id) == id = <<id[1], id[2]>> /\ id[2] \in Nat \ {0}

\* Every address a permission allows, with the program to try there.
CandidateAddresses(scope, host) ==
    CASE scope = "NONE"         -> {}
      [] scope = "THIS_MACHINE" ->
            {<<[host |-> Loopback, port |-> Ports[k], form |-> "plain"], k>> : k \in NodeKinds}
      [] scope = "NAMED_HOST"   -> {<<AddressFor(host, k), k>> : k \in NodeKinds}

Slugify(label) == <<label, 1>>

\* What discover() makes of an address that answered as this program.
Discovered(address, kind, stamp) ==
    [node_id |-> Slugify(<<kind, address.host, address.port>>),
     node    |-> [label |-> <<kind, address.host>>, kind |-> kind, url |-> address,
                  reachable |-> TRUE, last_probed_at |-> stamp, declared |-> {}]]

\* What a person typed, contacted by nobody.
TypedIn(label, kind, url) ==
    [node_id |-> Slugify(label),
     node    |-> [label |-> label, kind |-> kind, url |-> url, reachable |-> FALSE,
                  last_probed_at |-> Never, declared |-> {"label", "url", "kind"}]]

(***************************************************************************)
(* The store's rules.                                                      *)
(***************************************************************************)
\* However either was written.
MatchingAddress(nodes, url, kind) ==
    {id \in DOMAIN nodes : Address(nodes[id]) = AddressFor(url, kind)}

RecordedAt(nodes, url, kind) == MatchingAddress(nodes, url, kind) # {}

NamesInUse == DOMAIN Endpoints

\* Mutant: a newcomer takes the id its name gives.
TakenId(node_id, nodes) == node_id

\* A newcomer whose id is taken gets the first number that is free.
WithUniqueId(node_id, nodes) ==
    LET taken == DOMAIN nodes \cup NamesInUse
        free  == {n \in 2..(Cardinality(taken) + 2) : <<node_id[1], n>> \notin taken}
    IN IF node_id \notin taken THEN node_id
       ELSE <<node_id[1], CHOOSE n \in free : \A m \in free : n <= m>>

\* Mutant: the name is taken from the look.
MergeRenaming(existing, found) ==
    [found EXCEPT !.kind     = IF "kind" \in existing.declared THEN existing.kind ELSE @,
                  !.declared = @ \cup existing.declared]

\* What was typed wins over what was found, except the spelling of the
\* address; the name stays, and with it who gave it.
Merge(existing, found) ==
    [found EXCEPT
        !.label    = existing.label,
        !.kind     = IF "kind" \in existing.declared THEN existing.kind ELSE @,
        !.declared = ((@ \cup existing.declared) \ {"label"})
                     \cup (existing.declared \cap {"label"})]

Ambiguous(nodes, finding) ==
    Cardinality(MatchingAddress(nodes, finding.node.url, finding.node.kind)) > 1

\* The id a finding is filed under, when it is not ambiguous.
FiledUnder(nodes, finding) ==
    LET same == MatchingAddress(nodes, finding.node.url, finding.node.kind)
    IN IF same # {} THEN CHOOSE id \in same : TRUE
       ELSE WithUniqueId(finding.node_id, nodes)

Upserted(nodes, finding) ==
    LET id   == FiledUnder(nodes, finding)
        same == RecordedAt(nodes, finding.node.url, finding.node.kind)
    IN [other \in DOMAIN nodes \cup {id} |->
            IF other # id THEN nodes[other]
            ELSE IF same THEN Merge(nodes[id], finding.node) ELSE finding.node]

Without(nodes, id) == [other \in DOMAIN nodes \ {id} |-> nodes[other]]

Silenced(nodes, id, stamp) ==
    [nodes EXCEPT ![id].reachable = FALSE, ![id].last_probed_at = stamp]

DuplicateGroups(nodes) ==
    LET at(address) == {id \in DOMAIN nodes : Address(nodes[id]) = address}
    IN {group \in {at(Address(nodes[id])) : id \in DOMAIN nodes} : Cardinality(group) > 1}

(***************************************************************************)
(* What graphs resolve and people read.                                    *)
(***************************************************************************)
\* A computer's entry wins; one with a user name in its address has none.
MergedEndpoints(nodes) ==
    LET usable == {id \in DOMAIN nodes : ~HasUserinfo(nodes[id].url)}
    IN [id \in usable \cup DOMAIN Endpoints |->
            IF id \in usable THEN [kind |-> nodes[id].kind, url |-> nodes[id].url]
            ELSE Endpoints[id]]

NeverContacted(node) == ~node.reachable /\ node.last_probed_at = Never

StatusOf(node) ==
    IF node.reachable THEN "answering"
    ELSE IF NeverContacted(node) THEN "not checked yet" ELSE "not answering"

\* The computers the panel says agent steps can run on.
Summarised(nodes) ==
    {id \in DOMAIN nodes : nodes[id].reachable \/ NeverContacted(nodes[id])}
=============================================================================
