SPECIFICATION Spec
CONSTANTS
  Programs = {p1}
  Briefs <- MCBriefs
  Workspace <- MCWorkspace
  Cases <- MCCases
  Runs <- MCRuns
  Records = {r1, r2}
  Kinds = {"other"}
  Notes = {""}
  MaxCommands = 2
  MaxResults = 3
  MaxFailing = 1
  CompleteBefore = 2
  MaxComplete = 3
  MayDie = FALSE
INVARIANT OnlyReviewedCasesCount
CHECK_DEADLOCK FALSE
