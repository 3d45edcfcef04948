\* Progress of scrapes, of the main loop and of its reconnections: two scrapes
\* compete with the main loop for the mutex.
SPECIFICATION FairSpec
CONSTANTS
    s1 = s1   s2 = s2   h1 = h1   h2 = h2
    l931 = l931   l932 = l932
    status = status   uptime = uptime   nha = nha
    Scrapers = {s1, s2}
    Hosts = {h1}
    Levels = {l932}
    Metrics <- MCMetrics
    MetricsOf <- MCMetricsOf
    HostLevels <- MCHostLevels
    CollectRCs <- MCCollectRCs
    KeepRunning = TRUE
    Warnings = TRUE
    MaxFaults = 1
PROPERTIES EveryScrapeAnswered FailureEnds Reconnects
