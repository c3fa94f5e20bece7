SPECIFICATION FairSpec
CONSTANTS
    draft = draft
    check = check
    done = done
    None = None
    States <- MCStates
    Initial = draft
    Transitions <- MCTransitions
    Graphs <- MCGraphs
    Runners = {p1}
    MaxEvents = 6
INVARIANTS
    TypeOK
    CursorFollowsCapsule
    StatusesFollowGraph
    ValidatedMovesExist
    GatesCanBeDecided
PROPERTIES
    GateMovesAreApproved
    ImplementsGraphWalk
    DrivenGraphRests
CHECK_DEADLOCK FALSE
