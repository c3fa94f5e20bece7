SPECIFICATION Spec
CONSTANTS
    draft = draft
    check = check
    done = done
    None = None
    States <- MCStates
    Initial = draft
    Transitions <- MCShortTransitions
    Sessions = {s1, s2}
    Commands = {}
    MaxEvents = 3
SYMMETRY Terminals
INVARIANTS
    GovernedMoves
    FailureIsExplained
    RecordFollowsEvent
    TrailCoversCapsule
