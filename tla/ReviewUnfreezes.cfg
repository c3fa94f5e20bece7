SPECIFICATION Spec
CONSTANTS
    draft = draft
    check = check
    done = done
    None = None
    States <- MCStates
    Initial = draft
    Transitions <- MCTransitions
    Sessions = {s1}
    Commands = {"review", "block", "complete"}
    MaxEvents = 3
PROPERTY FrozenStaysFrozen
