\* Gauges, when a failed poll meets a rediscovery.
SPECIFICATION Spec
CONSTANTS
    MaxErrors = 1
    Deployments <- MCFull
    MaxCount = 1
    MaxFaults = 2
INVARIANTS GaugesFresh
