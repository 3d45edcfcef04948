--------------------------- MODULE MCPromCollector ---------------------------
(***************************************************************************)
(* Instances of PromCollector for TLC.                                     *)
(***************************************************************************)
EXTENDS PromCollector, TLC

CONSTANTS s1, s2, h1, h2, l931, l932, status, uptime, nha

MCMetrics == {status, uptime, nha}

\* A queue manager upgraded from 9.3.1 to 9.3.2 reports its host; here it also
\* publishes one more class of metrics
MCMetricsOf ==
    [l \in Levels |-> IF l = l931 THEN {status, uptime} ELSE MCMetrics]
MCHostLevels == {l932} \cap Levels

\* What MQGET and MQPUT of a Collect return when the session or the queue
\* manager fails: connection broken, no reply in time
MCCollectRCs == {2009, 2033}

ScraperSymmetry == Permutations({s1, s2})
HostSymmetry == Permutations({h1, h2})
MCSymmetry == ScraperSymmetry \union HostSymmetry
=============================================================================
