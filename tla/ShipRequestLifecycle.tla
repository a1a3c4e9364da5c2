------------------------ MODULE ShipRequestLifecycle ------------------------
(***************************************************************************)
(* A ship request from creation to manifest: the payment handlers and the  *)
(* fulfilment handlers over one table.  Neither side locks the other out;  *)
(* they meet only in the columns of the row.                               *)
(***************************************************************************)
EXTENDS ShipRequestPayment, ShipRequestFulfilment

(* Pricing finds some total: the value NoRow takes for the column.         *)
ASSUME LifecycleAssumption == Totals # {}

lifecycleVars == <<vars, fulfilVars>>

LifecycleInit ==
    /\ ships = [r \in Requests |-> NoRow]
    /\ now = 0
    /\ PayInit
    /\ FulfilmentInit

LifecycleNext ==
    \/ PaymentNext /\ UNCHANGED fulfilVars
    \/ FulfilmentNext /\ UNCHANGED payVars
    \/ Tick /\ UNCHANGED <<payVars, fulfilVars>>

LifecycleSpec == LifecycleInit /\ [][LifecycleNext]_lifecycleVars

(* Warehouse work is done only on paid requests: the queue lists paid rows *)
(* only, payment_status never goes back, so a clerk's page may be as old   *)
(* as it likes (with no status override to 'processing' or 'staged').      *)
FulfilledOnlyIfPaid ==
    \A r \in Requests :
        ships[r].status \in {"processing", "staged"} \/ ships[r].weight # None
            => ships[r].payment = "paid"
=============================================================================
