\* The counter of published deltas and the gauges, and the end of the process
\* after failures that last, in two deployments; any call may fail, and the
\* connection or the endpoint may be lost for good.
SPECIFICATION FairSpec
CONSTANTS
    MaxErrors = 1
    Deployments <- MCDeployments
    MaxCount = 1
    MaxFaults = 2
INVARIANTS TypeOK PublishedCountedOnce GaugesFreshUnlessRediscovered
PROPERTIES DeliversAsPromised BrokenEnds OutageEnds
