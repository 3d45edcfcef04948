\* Safety with keepRunning: two concurrent scrapes, failover between two
\* hosts, one command level (which reports the host name).
SPECIFICATION Spec
CONSTANTS
    s1 = s1   s2 = s2   h1 = h1   h2 = h2
    l931 = l931   l932 = l932
    status = status   uptime = uptime   nha = nha
    Scrapers = {s1, s2}
    Hosts = {h1, h2}
    Levels = {l932}
    Metrics <- MCMetrics
    MetricsOf <- MCMetricsOf
    HostLevels <- MCHostLevels
    CollectRCs <- MCCollectRCs
    KeepRunning = TRUE
    Warnings = FALSE
    MaxFaults = 2
SYMMETRY MCSymmetry
INVARIANTS TypeOK MutexProtects NoBacklogPublished OneConnection KeepsRunning NoPanic
    HolderNeverStuck
PROPERTIES DataShowsStatus CollectUndisturbed KeepsPromise
