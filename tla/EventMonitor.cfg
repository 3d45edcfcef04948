\* All outcomes of the set-up of two objects, two messages, trouble with or without a broken
\* connection and ENTER at any time, for every combination of options.
SPECIFICATION FairSpec
CONSTANTS
    NumObjects = 2
    MaxEvents = 2
INVARIANTS TypeOK ArrayInOrder NothingLost CleanupInOrder
PROPERTIES ClosedIfQuiet EndsWhenIdle IdleEnds TroubleEnds
