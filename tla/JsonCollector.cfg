\* Reports, over polls that fail part-way and cycles without a poll.
SPECIFICATION Spec
CONSTANTS
    Queues = {q1, q2}
    Channels = {c1}
    UsePublications = TRUE
    Warnings = TRUE
    recordmax = 2
    MaxPoints = 5
    MaxFaults = 5
INVARIANTS TypeOK ReportsEverything PolledReportIsOwn FreshAfterGoodPoll
PROPERTIES EndsForCause
