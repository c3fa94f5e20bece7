---------------------------- MODULE MCNodeStore ----------------------------
EXTENDS NodeStore, TLC

Url(host, port) == [host |-> host, port |-> port, form |-> "plain"]

MCEndpoints == (<<<<"box">>, 1>> :> [kind |-> "ollama", url |-> Url("legacy", 11434)])
MCLabels    == {<<"gpu">>, <<"box">>}
MCTypedUrls == {Url("one", NoPort), Url("one", 8081),
                [host |-> "one", port |-> NoPort, form |-> "userinfo"]}

\* A first start, and two files written by hand: a computer with no port, and
\* beside it one at the address it is read as and one with the other program.
ByHand == (<<<<"gpu">>, 1>> :>
              [label |-> <<"gpu">>, kind |-> "ollama", url |-> Url("one", NoPort),
               reachable |-> FALSE, last_probed_at |-> Never, declared |-> {"label"}])
Beside == (<<<<"two">>, 1>> :> [ByHand[<<<<"gpu">>, 1>>] EXCEPT !.url = Url("one", 11434)])
Third  == (<<<<"tri">>, 1>> :> [ByHand[<<<<"gpu">>, 1>>] EXCEPT !.kind = "llamacpp"])
MCStored == {Absent, Text(ByHand, "NONE"), Text(ByHand @@ Beside @@ Third, "NONE")}

Symmetry == Permutations(Programs)
=============================================================================
