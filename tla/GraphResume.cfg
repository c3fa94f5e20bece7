SPECIFICATION Spec
CONSTANTS
    draft = draft
    check = check
    done = done
    None = None
    States <- MCStates
    Initial = draft
    Transitions <- MCTransitions
    Graphs <- MCGraphs
    Runners = {p1}
    MaxEvents = 5
INVARIANT ResumesWhereItStopped
CHECK_DEADLOCK FALSE
