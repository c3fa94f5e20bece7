SPECIFICATION Spec
CONSTANTS
    Terminals = {"terminal"}
    Desktops = {"desktop"}
    Editions <- MCEditions
    Content <- MCContent
    ContentWords <- MCContentWords
    Claims = {"MAPPED"}
    People = {"ana"}
    Targets = {"AGENT_EXECUTED_HUMAN_SUPERVISED", "BOUNDED_AUTONOMOUS_AGENT"}
    Commands = {"promote", "assess", "override", "build", "export"}
    MaxCommands = 4
    Overlap = FALSE
    MayDie = FALSE
INVARIANTS
    ReachableIsLeast
    FlooredStepsWaitForAPerson
    ExportedWorkCanFinish
PROPERTY OverridesSurviveReassessment
CHECK_DEADLOCK FALSE
