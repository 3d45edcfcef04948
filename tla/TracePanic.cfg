\* Two messages suffice: the first cannot be put.
SPECIFICATION Spec
CONSTANTS
    MsgCount = 2
    Limits = {4}
    RouteLength = 3
    Routes <- MCRoutes
    Branches = 2
    MaxOther = 0
INVARIANTS AllTested
