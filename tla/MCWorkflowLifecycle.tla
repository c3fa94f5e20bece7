------------------------ MODULE MCWorkflowLifecycle ------------------------
(***************************************************************************)
(* One step of work, captured three ways, by programs that overlap and die. *)
(***************************************************************************)
EXTENDS WorkflowLifecycle

MCEditions == {"vague", "open", "revised"}

MCContentWords == [f \in {"refused"} |-> {"refused"}]

\* An exit condition judged by feel: an advisory finding.
Judgement == Prose("looks good", {"good"}, {}, FALSE, "")
Plain(text) == Prose(text, {}, {}, FALSE, "")

\* The first version, as written down and with nothing that starts it; then
\* a second version, tidied, whose step cannot be undone.
MCContent == [e \in MCEditions |->
    [version |-> IF e = "revised" THEN "2" ELSE "1",
     trigger |-> IF e = "open" THEN "" ELSE "mail",
     claimed_outcome |-> Plain("closed"),
     steps |-> <<[step_id |-> "work", actor |-> "ben", decision_authority |-> "lead",
                  inputs |-> {},
                  outputs |-> {[name |-> "file", artifact_type |-> "file",
                                evidence |-> "link"]},
                  next_steps |-> <<>>, exceptions |-> <<>>,
                  characteristics |->
                    [judgment_load |-> "NONE", repeatability |-> "ROUTINE",
                     determinism |-> "MOSTLY_DETERMINISTIC", risk |-> "LOW",
                     reversibility |-> IF e = "revised" THEN "IRREVERSIBLE"
                                       ELSE "REVERSIBLE",
                     data_sensitivity |-> "INTERNAL"],
                  description |-> Plain(""), notes |-> Plain(""),
                  exit_condition |-> IF e = "revised" THEN Plain("filed")
                                     ELSE Judgement]>>,
     gates |-> <<>>, observed_exceptions |-> {}, unwritten_rules |-> {}]]
=============================================================================
