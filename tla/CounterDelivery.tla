--------------------------- MODULE CounterDelivery ---------------------------
(***************************************************************************)
(* What a collector that pushes the counter of a published value promises, *)
(* without polls, SDK or errors: where the amounts the queue manager       *)
(* published are, and how they move.  What waited for the first collection *)
(* is skipped.  All that was taken since the last delivery is delivered    *)
(* together, or dropped together, never in parts and never twice, and only *)
(* the end of the collector leaves something behind.                       *)
(***************************************************************************)
EXTENDS Naturals

VARIABLES phase,                      \* of the collector
          waiting, held,              \* published; taken, and not yet sent
          skipped, delivered, dropped

Phases == {"new", "counting", "ended"}
amounts == <<waiting, held, skipped, delivered, dropped>>
dvars == <<phase, amounts>>

DeliveryInit ==
    /\ phase = "new"
    /\ waiting = 0 /\ held = 0 /\ skipped = 0 /\ delivered = 0 /\ dropped = 0

Publish ==
    /\ phase # "ended"
    /\ waiting' = waiting + 1
    /\ UNCHANGED <<phase, held, skipped, delivered, dropped>>

SkipBacklog ==
    /\ phase = "new" /\ phase' = "counting"
    /\ waiting' = 0 /\ skipped' = waiting
    /\ UNCHANGED <<held, delivered, dropped>>

Take ==
    /\ phase = "counting"
    /\ waiting' = 0 /\ held' = held + waiting
    /\ UNCHANGED <<phase, skipped, delivered, dropped>>

Deliver ==
    /\ phase = "counting"
    /\ held' = 0 /\ delivered' = delivered + held
    /\ UNCHANGED <<phase, waiting, skipped, dropped>>

Drop ==
    /\ phase = "counting"
    /\ held' = 0 /\ dropped' = dropped + held
    /\ UNCHANGED <<phase, waiting, skipped, delivered>>

End ==
    /\ phase # "ended" /\ phase' = "ended"
    /\ held' = 0
    /\ UNCHANGED <<waiting, skipped, delivered, dropped>>

DeliveryNext == Publish \/ SkipBacklog \/ Take \/ Deliver \/ Drop \/ End

DeliverySpec == DeliveryInit /\ [][DeliveryNext]_dvars
=============================================================================
