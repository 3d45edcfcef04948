\* The cycles of the values in one report.
SPECIFICATION Spec
CONSTANTS
    Queues = {q1, q2}
    Channels = {c1}
    UsePublications = TRUE
    Warnings = TRUE
    recordmax = 2
    MaxPoints = 5
    MaxFaults = 5
INVARIANTS OnlyThisInterval
