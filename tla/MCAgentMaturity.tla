-------------------------- MODULE MCAgentMaturity --------------------------
EXTENDS AgentMaturity, TLC

Brief(depth) == [approved |-> TRUE, depth_level |-> depth, escalation_target |-> "owner",
                 owned |-> <<"ROUTINE", "GUIDED">>]
MCBriefs    == {Brief(1), Brief(2)}
MCWorkspace == [markers |-> 0, doctrine |-> FALSE, paths |-> TRUE]

Case(id, scoring, depth, reviewed) ==
    [case_id |-> id, scoring |-> scoring, required_fields |-> {"invoice"},
     forbidden_claims |-> {"all checked"}, expected_depth |-> depth,
     expected_escalation |-> "owner", reviewed |-> reviewed]

\* The handoff and the claims; the package with the records; the depth
\* alone, which without a package is skipped.
MCCases ==
    {Case("continue", "handoff_completeness" :> TRUE @@ "observation_discipline" :> TRUE,
          AnyDepth, TRUE),
     Case("package", "depth_compliance" :> TRUE @@ "escalation_correctness" :> TRUE
                     @@ "complexity_reduction" :> TRUE, AnyDepth, TRUE),
     Case("process", "depth_compliance" :> TRUE @@ "observation_discipline" :> FALSE,
          1, FALSE)}

Run(outputs, left_handoff) ==
    [status |-> "complete", inputs |-> 0, outputs |-> outputs, next_action |-> "",
     completed_checks |-> <<"moved">>, text |-> {"invoice"}, packets |-> {{"seen"}},
     left_handoff |-> left_handoff]

\* A run to go on from, one that made nothing and one that left no handoff.
MCRuns == {Run(1, TRUE), Run(0, TRUE), Run(1, FALSE)}

Symmetry == Permutations(Programs) \cup Permutations(Records)
=============================================================================
