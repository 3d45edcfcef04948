\* A queue manager that comes back with another command level.
SPECIFICATION Spec
CONSTANTS
    s1 = s1   s2 = s2   h1 = h1   h2 = h2
    l931 = l931   l932 = l932
    status = status   uptime = uptime   nha = nha
    Scrapers = {s1}
    Hosts = {h1, h2}
    Levels = {l931, l932}
    Metrics <- MCMetrics
    MetricsOf <- MCMetricsOf
    HostLevels <- MCHostLevels
    CollectRCs <- MCCollectRCs
    KeepRunning = TRUE
    Warnings = FALSE
    MaxFaults = 2
INVARIANTS NoPanic
