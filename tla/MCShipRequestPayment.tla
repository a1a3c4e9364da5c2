------------------------ MODULE MCShipRequestPayment ------------------------
(* ShipRequestPayment on small instances.  Intents and handlers are        *)
(* interchangeable; requests are too, but the runs use one or two of them. *)
EXTENDS ShipRequestPayment, TLC

CONSTANTS h1, h2, i1, i2, r1, r2    \* model values

MCTotals == {1000, 2000}
=============================================================================
