SPECIFICATION Spec
CONSTANTS
    Briefs = {old, new}
    Runs = {r1}
    Sessions = {s1, s2}
    MaxSnapshots = 3
    None = None
SYMMETRY Alike
INVARIANTS
    TypeOK
    RunsKeepTheirBrief
    PinNamesTheStart
    RefusedForAReason
    SnapshotsFollowBrief
