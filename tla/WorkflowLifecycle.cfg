SPECIFICATION Spec
CONSTANTS
    Terminals = {"terminal"}
    Desktops = {"desktop"}
    Editions <- MCEditions
    Content <- MCContent
    ContentWords <- MCContentWords
    Claims = {"OBSERVED", "MAPPED", "ACCOUNTABLE"}
    People = {"ana"}
    Targets = {"AGENT_EXECUTED_HUMAN_SUPERVISED"}
    Commands = {"validate", "import", "accept", "promote", "edit", "assess", "override"}
    MaxCommands = 5
    Overlap = TRUE
    MayDie = TRUE
INVARIANTS
    TypeOK
    ArtifactsAreAccountable
    GrantsHaveArtifacts
    ClimbedStepByStep
    RowsRespectFloors
CHECK_DEADLOCK FALSE
