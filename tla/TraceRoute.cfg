\* Two tracer messages, routes of up to three activities, publications with two
\* branches, one message of another format; a limit above and one below the
\* length of a route, and none.
SPECIFICATION Spec
CONSTANTS
    MsgCount = 2
    Limits = {0, 2, 4}
    RouteLength = 3
    Routes <- MCRoutes
    Branches = 2
    MaxOther = 1
INVARIANTS TypeOK RouteComplete SummariesTell AllTestedUnlessFirstFails
PROPERTIES WaitEnds TestGoesNowhere
