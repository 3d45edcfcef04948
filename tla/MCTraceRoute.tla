----------------------------- MODULE MCTraceRoute -----------------------------
(***************************************************************************)
(* Instances of TraceRoute for TLC.                                        *)
(***************************************************************************)
EXTENDS TraceRoute

\* A message to a queue has one branch; a publication may also have two, the
\* shorter of which ends where the longer goes on.
MCRoutes == {<<1>>, <<2>>, <<3>>, <<1, 2>>}
=============================================================================
