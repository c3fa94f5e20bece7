------------------------- MODULE MCWorkflowPipeline -------------------------
(***************************************************************************)
(* One command after another over many drafts: three steps joined in       *)
(* different ways, gates, recoveries, and a middle step whose facts hit    *)
(* each floor or none.                                                     *)
(***************************************************************************)
EXTENDS WorkflowLifecycle

\* What the middle step is like: nothing special, a step that cannot be
\* undone, one nobody has described, one nobody has authority over.
Kinds == {"routine", "irreversible", "unknown", "unauthorised"}

MCEditions == [joined : {"chain", "skip", "loop", "gated end"},
               gate : {"none", "plain", "approves"},
               recovery : {"none", "to first"},
               kind : Kinds]

MCContentWords == [f \in {"refused"} |-> {"refused"}]

Facts(kind) ==
    [judgment_load    |-> "NONE",
     repeatability    |-> "ROUTINE",
     determinism      |-> CASE kind = "unknown" -> "UNKNOWN"
                           [] kind = "mechanical" -> "DETERMINISTIC"
                           [] OTHER -> "MOSTLY_DETERMINISTIC",
     risk             |-> "LOW",
     reversibility    |-> IF kind = "irreversible" THEN "IRREVERSIBLE" ELSE "REVERSIBLE",
     data_sensitivity |-> "INTERNAL"]

Plain(text) == Prose(text, {}, {}, FALSE, "")

Step(id, authority, next, exceptions, kind) ==
    [step_id |-> id, actor |-> id, decision_authority |-> authority,
     inputs |-> {}, outputs |-> {[name |-> id, artifact_type |-> "file", evidence |-> id]},
     next_steps |-> next, exceptions |-> exceptions, characteristics |-> Facts(kind),
     description |-> Plain(""), exit_condition |-> Plain(""), notes |-> Plain("")]

Recovery(r) ==
    IF r = "none" THEN <<>>
    ELSE <<[failure |-> "refused", owner |-> "lead", handling |-> "call them",
            next_step |-> "open"]>>

NextOfStep(joined) ==
    CASE joined = "chain"     -> [open |-> <<"work">>, work |-> <<"close">>, close |-> <<>>]
      [] joined = "skip"      -> [open |-> <<"work", "close">>, work |-> <<"close">>,
                                  close |-> <<>>]
      [] joined = "loop"      -> [open |-> <<"work">>, work |-> <<"open", "close">>,
                                  close |-> <<>>]
      [] joined = "gated end" -> [open |-> <<"work">>, work |-> <<"open">>, close |-> <<>>]

MCContent == [e \in MCEditions |->
    [version |-> "1", trigger |-> "mail", claimed_outcome |-> Plain("closed"),
     steps |-> <<Step("open", "lead", NextOfStep(e.joined).open, <<>>, "mechanical"),
                 Step("work", IF e.kind = "unauthorised" THEN "" ELSE "lead",
                      NextOfStep(e.joined).work,
                      Recovery(e.recovery), e.kind),
                 Step("close", "lead", NextOfStep(e.joined).close, <<>>, "mechanical")>>,
     gates |-> IF e.gate = "none" THEN <<>>
               ELSE <<[gate_id |-> "review", at_step |-> "work", approver |-> "lead",
                       criteria |-> Plain("numbers match"),
                       on_approve |-> IF e.gate = "approves" THEN "close" ELSE "",
                       on_reject |-> "open"]>>,
     observed_exceptions |-> {}, unwritten_rules |-> {}]]

\* The workflow is never edited here.
ASSUME FactsAlwaysStand == FactsStand
ASSUME NamesAreApart == NamesApart
=============================================================================
