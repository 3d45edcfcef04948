\* Polls that fail for good, in a collector that uses status only.
SPECIFICATION FairSpec
CONSTANTS
    Queues = {q1, q2}
    Channels = {c1}
    UsePublications = FALSE
    Warnings = TRUE
    recordmax = 2
    MaxPoints = 5
    MaxFaults = 0
PROPERTIES FailedPollsEnd
