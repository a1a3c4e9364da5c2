-------------------------- MODULE ShipRequestTable --------------------------
(***************************************************************************)
(* The ship_requests table and the SQL statements the handlers run on one  *)
(* of its rows.  Every statement is an operator from the old row to the    *)
(* new one; which rows it touches and when it runs is the business of the  *)
(* modules that extend this one (ShipRequestPayment, ShipRequestFulfilment *)
(* and their composition ShipRequestLifecycle).                            *)
(*                                                                         *)
(* Amounts are cents.  updated_at has the granularity of one second        *)
(* (RFC3339), so it is a small natural number read from the clock `now`.   *)
(***************************************************************************)
EXTENDS Integers

CONSTANTS
    Requests,      \* ids of ship requests
    Totals,        \* the totals, in cents, pricing can produce
    Intents,       \* ids Stripe gives to PaymentIntents
    Weights,       \* consolidated weights a clerk can record
    Bays,          \* staging bays
    Manifests,     \* ids of manifests
    None,          \* SQL NULL
    MaxClock       \* bound: the last second the model runs to

ASSUME TableAssumption ==
    /\ Totals \subseteq Nat
    /\ MaxClock \in Nat
    /\ None \notin Intents \cup Weights \cup Bays \cup Manifests

VARIABLES
    ships,         \* the table: one row per request id
    now            \* the wall clock, in seconds

Clock == 0 .. MaxClock

(* The CHECK constraint on status; "absent" stands for no row with the id. *)
Statuses == {"draft", "pending_customs", "pending_payment", "paid",
             "processing", "staged", "shipped", "delivered", "cancelled",
             "expired"}
Absent == "absent"

(* The CHECK constraint on payment_status; "null" is SQL NULL.             *)
PaymentStatuses == {"null", "pending", "paid", "failed", "refunded"}

Row == [status   : Statuses \cup {Absent},
        payment  : PaymentStatuses,
        total    : Totals,
        intent   : Intents \cup {None},
        updated  : Clock,
        emailed  : BOOLEAN,           \* paid_email_sent_at IS NOT NULL
        weight   : Weights \cup {None},
        bay      : Bays \cup {None},
        manifest : Manifests \cup {None}]

TableTypeOK ==
    /\ ships \in [Requests -> Row]
    /\ now \in Clock

(* A statement whose new row breaks a CHECK is refused: the row stays.     *)
Unchecked(old, new) == new                     \* faulty: no CHECK in the schema
Checked(old, new) ==
    IF new.status \in Statuses /\ new.payment \in PaymentStatuses
    THEN new ELSE old

Exists(row) == row.status # Absent

(* INSERT by CreateShipRequest: a draft, priced, never paid.               *)
NewRow(total, t) ==
    [status |-> "draft", payment |-> "null", total |-> total,
     intent |-> None, updated |-> t, emailed |-> FALSE,
     weight |-> None, bay |-> None, manifest |-> None]

(* The value of the table at an id that has not been inserted.             *)
NoRow == [NewRow(CHOOSE t \in Totals : TRUE, 0) EXCEPT !.status = Absent]

(* UpdateShipRequestPricing, then UpdateShipRequestCustomsStatus: neither  *)
(* looks at the status the row has when it runs.                           *)
SubmitCustomsResetsPayment(row, total, t) ==   \* faulty: starts payment over
    [row EXCEPT !.total = total, !.status = "pending_payment", !.updated = t,
                !.payment = "pending"]
SubmitCustoms(row, total, t) ==
    [row EXCEPT !.total = total, !.status = "pending_payment", !.updated = t]

(* UpdateShipRequestPaymentIntent.                                         *)
SetIntent(row, i, t) == [row EXCEPT !.intent = i, !.updated = t]

(* The webhook's conditional UPDATE: its WHERE clause and its SET clause.  *)
NotYetPaidByStatus(row) == row.status # "paid" \* faulty: the other column
NotYetPaid(row) == row.payment # "paid"
SetPaid(row, t) ==
    [row EXCEPT !.status = "paid", !.payment = "paid",
                !.updated = t, !.emailed = TRUE]

(* The UPDATE the webhook runs on an amount mismatch, its result ignored.  *)
FlagForReview(row, t) ==
    IF row.payment = "paid" THEN row
    ELSE Checked(row, [row EXCEPT !.payment = "review_required", !.updated = t])

(* UpdateShipRequestPaymentReconcileForAdmin: by id only, whatever the row.*)
ReconcileRow(row, t) ==
    [row EXCEPT !.payment = "paid", !.status = "paid", !.updated = t]

(* AdminUpdateShipRequestStatus: applies when the row has status `from`.   *)
SetStatusIf(row, from, to, t) ==
    IF row.status = from
    THEN Checked(row, [row EXCEPT !.status = to, !.updated = t]) ELSE row

(* The inline UPDATE of warehouseShipQueueWeighed: status stays.           *)
SetWeight(row, w, t) == [row EXCEPT !.weight = w, !.updated = t]

(* UpdateShipRequestStaged: bay and manifest may be NULL.                  *)
SetStagedKeepsStatus(row, bay, m, t) ==        \* faulty: side fields only
    [row EXCEPT !.bay = bay, !.manifest = m, !.updated = t]
SetStaged(row, bay, m, t) ==
    [row EXCEPT !.status = "staged", !.bay = bay, !.manifest = m, !.updated = t]

(* What one manifest does to each of its rows.                             *)
ShipOn(row, m, t) ==
    [row EXCEPT !.status = "shipped", !.manifest = m, !.updated = t]

Tick ==
    /\ now < MaxClock
    /\ now' = now + 1
    /\ ships' = ships
=============================================================================
