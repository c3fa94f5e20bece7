SPECIFICATION Spec
CONSTANTS
  Programs = {p1, p2}
  Briefs <- MCBriefs
  Workspace <- MCWorkspace
  Cases <- MCCases
  Runs <- MCRuns
  Records = {r1, r2}
  Kinds = {"other"}
  Notes = {""}
  MaxCommands = 3
  MaxResults = 3
  MaxFailing = 1
  CompleteBefore = 2
  MaxComplete = 3
  MayDie = TRUE
SYMMETRY Symmetry
INVARIANTS TypeOK FilesFollowTrail TestedOnEvidence CleanPackagesAreWhole
CHECK_DEADLOCK FALSE
