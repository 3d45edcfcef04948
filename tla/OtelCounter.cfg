\* The counter of a channel when a poll fails part-way.
SPECIFICATION Spec
CONSTANTS
    MaxErrors = 1
    Deployments <- MCFull
    MaxCount = 2
    MaxFaults = 1
INVARIANTS NeverOvercounts
