------------------------- MODULE ShipRequestPayment -------------------------
(***************************************************************************)
(* How a ship request gets paid: the customer's customs and pay calls, the *)
(* Stripe webhook, the admin's manual reconcile and status override, and   *)
(* Stripe itself as the code sees it.                                      *)
(*                                                                         *)
(* Handlers run concurrently.  One that reads the row outside the          *)
(* statement (or transaction) that later writes it is several actions, and *)
(* handlers[h] holds what it read.  A handler may stop after any step      *)
(* (Abort): a failed statement, a provider error, a process restart.       *)
(***************************************************************************)
EXTENDS ShipRequestTable

CONSTANTS
    Handlers,      \* requests the server handles at the same time
    MinCents,      \* the smallest amount pay accepts
    MaxCents,      \* the largest amount pay accepts
    StripeOutages, \* whether a paymentintent.Get may fail
    AdminTargets   \* statuses an admin override may choose

ASSUME PaymentAssumption ==
    /\ MinCents \in Nat /\ MaxCents \in Nat
    /\ StripeOutages \in BOOLEAN
    /\ AdminTargets \subseteq Statuses

VARIABLES
    handlers,      \* the local variables of every running handler
    stripe,        \* the PaymentIntents Stripe holds
    delivery,      \* Stripe's view of each payment_intent.succeeded event
    handed,        \* intents whose client_secret the customer was given
    paidEmails,    \* ship_request_paid rows in outbound_emails, per request
    reconciled     \* history: requests an admin has reconciled by hand

payVars == <<handlers, stripe, delivery, handed, paidEmails, reconciled>>
vars == <<ships, now, handlers, stripe, delivery, handed, paidEmails,
          reconciled>>

Idle == [step |-> "idle"]
Locals ==
    {Idle}
    \cup [step : {"lookup"}, req : Requests, total : Totals,
          updated : Clock, intent : Intents]
    \cup [step : {"create"}, req : Requests, total : Totals,
          updated : Clock, intent : Intents \cup {None}]
    \cup [step : {"save"}, req : Requests, updated : Clock, intent : Intents]
    \cup [step : {"customs"}, req : Requests]
    \cup [step : {"webhook"}, req : Requests, intent : Intents]

Unused == [state |-> "unused"]
PaymentIntent == [state : {"open", "succeeded", "canceled"}, req : Requests,
                  amount : Totals, key : Requests \X Clock]

(* A step of handler h that leaves it with local variables `local`.        *)
Goto(h, local) == handlers' = [handlers EXCEPT ![h] = local]
Return(h) == Goto(h, Idle)

-----------------------------------------------------------------------------
(* POST /ship-requests/:id/customs                                         *)

CustomsRead(h, r) ==
    /\ handlers[h] = Idle
    /\ ships[r].status \in {"draft", "pending_customs"}
    /\ Goto(h, [step |-> "customs", req |-> r])
    /\ UNCHANGED <<ships, now, stripe, delivery, handed, paidEmails, reconciled>>

CustomsCommit(h) ==
    /\ handlers[h].step = "customs"
    /\ \E total \in Totals :
          ships' = [ships EXCEPT ![handlers[h].req] =
                       SubmitCustoms(@, total, now)]
    /\ Return(h)
    /\ UNCHANGED <<now, stripe, delivery, handed, paidEmails, reconciled>>

-----------------------------------------------------------------------------
(* POST /ship-requests/:id/pay                                             *)

Payable(row) == row.status = "pending_payment"

PayRead(h, r) ==
    /\ handlers[h] = Idle
    /\ Payable(ships[r])
    /\ ships[r].total \in MinCents .. MaxCents
    /\ Goto(h, [step    |-> IF ships[r].intent = None THEN "create" ELSE "lookup",
                req     |-> r,
                total   |-> ships[r].total,
                updated |-> ships[r].updated,
                intent  |-> ships[r].intent])
    /\ UNCHANGED <<ships, now, stripe, delivery, handed, paidEmails, reconciled>>

(* The intent on file can still be paid and asks for the right amount.     *)
Reusable(i, total) == stripe[i].state = "open" /\ stripe[i].amount = total

PayReuse(h) ==
    /\ handlers[h].step = "lookup"
    /\ Reusable(handlers[h].intent, handlers[h].total)
    /\ handed' = handed \cup {handlers[h].intent}
    /\ Return(h)
    /\ UNCHANGED <<ships, now, stripe, delivery, paidEmails, reconciled>>

(* Not reusable, or paymentintent.Get failed: open a fresh intent.         *)
PayFallThrough(h) ==
    /\ handlers[h].step = "lookup"
    /\ ~Reusable(handlers[h].intent, handlers[h].total) \/ StripeOutages
    /\ Goto(h, [handlers[h] EXCEPT !.step = "create"])
    /\ UNCHANGED <<ships, now, stripe, delivery, handed, paidEmails, reconciled>>

(* The Idempotency-Key of paymentintent.New: row id and updated_at.        *)
IdemKeyOfUpdate(local) == <<None, local.updated>>  \* faulty: no request id
IdemKeyOfCall(local) == <<local.req, now>>         \* faulty: time of the call
IdemKey(local) == <<local.req, local.updated>>

(* Stripe has seen the key: the same answer again, or, for other           *)
(* parameters, an idempotency error (502 to the customer).                 *)
PayReplay(h) ==
    LET me == handlers[h] IN
    /\ me.step = "create"
    /\ \E i \in Intents :
          /\ stripe[i] # Unused
          /\ stripe[i].key = IdemKey(me)
          /\ IF stripe[i].amount = me.total
             THEN Goto(h, [step |-> "save", req |-> me.req,
                           updated |-> me.updated, intent |-> i])
             ELSE Return(h)
    /\ UNCHANGED <<ships, now, stripe, delivery, handed, paidEmails, reconciled>>

PayCreate(h) ==
    LET me == handlers[h] IN
    /\ me.step = "create"
    /\ \A i \in Intents : stripe[i] # Unused => stripe[i].key # IdemKey(me)
    /\ \E i \in Intents :
          /\ stripe[i] = Unused
          /\ stripe' = [stripe EXCEPT ![i] =
                           [state |-> "open", req |-> me.req,
                            amount |-> me.total, key |-> IdemKey(me)]]
          /\ Goto(h, [step |-> "save", req |-> me.req,
                      updated |-> me.updated, intent |-> i])
    /\ UNCHANGED <<ships, now, delivery, handed, paidEmails, reconciled>>

PaySave(h) ==
    LET me == handlers[h] IN
    /\ me.step = "save"
    /\ ships' = [ships EXCEPT ![me.req] = SetIntent(@, me.intent, now)]
    /\ handed' = handed \cup {me.intent}
    /\ Return(h)
    /\ UNCHANGED <<now, stripe, delivery, paidEmails, reconciled>>

-----------------------------------------------------------------------------
(* POST /webhooks/stripe, event payment_intent.succeeded.  Stripe delivers *)
(* at least once: late, repeatedly, in any order.                          *)

AnyIntentEvent(i) == stripe[i] # Unused            \* faulty: status not checked
IntentSucceeded(i) == stripe[i].state = "succeeded"

AmountMatchesTruncated(i, row) == stripe[i].amount = row.total - 1  \* faulty
AmountMatches(i, row) == stripe[i].amount = row.total

(* No row carries the intent: logged and acknowledged with 200.            *)
WebhookUnknown(i) ==
    /\ IntentSucceeded(i)
    /\ \A r \in Requests : ships[r].intent # i
    /\ delivery' = [delivery EXCEPT ![i] = "acked"]
    /\ UNCHANGED <<ships, now, handlers, stripe, handed, paidEmails, reconciled>>

(* The amounts differ: try to flag the row, answer 400.                    *)
WebhookMismatch(i) ==
    /\ IntentSucceeded(i)
    /\ \E r \in Requests :
          /\ ships[r].intent = i
          /\ ~AmountMatches(i, ships[r])
          /\ ships' = [ships EXCEPT ![r] = FlagForReview(@, now)]
    /\ delivery' = [delivery EXCEPT ![i] = IF @ = "acked" THEN @ ELSE "refused"]
    /\ UNCHANGED <<now, handlers, stripe, handed, paidEmails, reconciled>>

WebhookRead(h, i) ==
    /\ handlers[h] = Idle
    /\ IntentSucceeded(i)
    /\ \E r \in Requests :
          /\ ships[r].intent = i
          /\ AmountMatches(i, ships[r])
          /\ Goto(h, [step |-> "webhook", req |-> r, intent |-> i])
    /\ UNCHANGED <<ships, now, stripe, delivery, handed, paidEmails, reconciled>>

(* One transaction: the conditional UPDATE and, when it took a row, the    *)
(* INSERT of the confirmation email.                                       *)
WebhookCommit(h) ==
    LET me == handlers[h] IN
    /\ me.step = "webhook"
    /\ IF NotYetPaid(ships[me.req])
       THEN /\ ships' = [ships EXCEPT ![me.req] = SetPaid(@, now)]
            /\ paidEmails' = [paidEmails EXCEPT ![me.req] = @ + 1]
       ELSE UNCHANGED <<ships, paidEmails>>
    /\ delivery' = [delivery EXCEPT ![me.intent] = "acked"]
    /\ Return(h)
    /\ UNCHANGED <<now, stripe, handed, reconciled>>

-----------------------------------------------------------------------------
(* POST /ship-requests/:id/reconcile (admin): existence check, then update *)
(* by id.  The activity log written after it (recordActivity) is best      *)
(* effort and no part of this model.                                       *)
Reconcile(r) ==
    /\ Exists(ships[r])
    /\ ships' = [ships EXCEPT ![r] = ReconcileRow(@, now)]
    /\ reconciled' = reconciled \cup {r}
    /\ UNCHANGED <<now, handlers, stripe, delivery, handed, paidEmails>>

(* PATCH /admin/ship-requests/:id/status.  The handler passes the status   *)
(* it just read as the expected one, so the UPDATE that takes a row is an  *)
(* atomic step from that status; otherwise it is a 409 and nothing changes.*)
AdminSetStatus(r, to) ==
    /\ Exists(ships[r])
    /\ ships' = [ships EXCEPT ![r] = SetStatusIf(@, ships[r].status, to, now)]
    /\ UNCHANGED <<now, payVars>>

(* A handler stops: failed statement, provider error, restart.             *)
Abort(h) ==
    /\ handlers[h] # Idle
    /\ Return(h)
    /\ UNCHANGED <<ships, now, stripe, delivery, handed, paidEmails, reconciled>>

-----------------------------------------------------------------------------
(* The customer and Stripe.                                                *)

CustomerPays(i) ==
    /\ i \in handed
    /\ stripe[i].state = "open"
    /\ stripe' = [stripe EXCEPT ![i].state = "succeeded"]
    /\ delivery' = [delivery EXCEPT ![i] = "due"]
    /\ UNCHANGED <<ships, now, handlers, handed, paidEmails, reconciled>>

IntentCanceled(i) ==
    /\ stripe[i].state = "open"
    /\ stripe' = [stripe EXCEPT ![i].state = "canceled"]
    /\ UNCHANGED <<ships, now, handlers, delivery, handed, paidEmails, reconciled>>

-----------------------------------------------------------------------------
TypeOK ==
    /\ TableTypeOK
    /\ handlers \in [Handlers -> Locals]
    /\ stripe \in [Intents -> {Unused} \cup PaymentIntent]
    /\ delivery \in [Intents -> {"none", "due", "acked", "refused"}]
    /\ handed \subseteq Intents
    /\ paidEmails \in [Requests -> Nat]
    /\ reconciled \subseteq Requests

PayInit ==
    /\ handlers = [h \in Handlers |-> Idle]
    /\ stripe = [i \in Intents |-> Unused]
    /\ delivery = [i \in Intents |-> "none"]
    /\ handed = {}
    /\ paidEmails = [r \in Requests |-> 0]
    /\ reconciled = {}

(* Every request has just been created, at any total.                      *)
Init ==
    /\ ships \in [Requests -> {NewRow(t, 0) : t \in Totals}]
    /\ now = 0
    /\ PayInit

HandlerStep(h) ==
    \/ \E r \in Requests : CustomsRead(h, r) \/ PayRead(h, r)
    \/ \E i \in Intents : WebhookRead(h, i)
    \/ CustomsCommit(h)
    \/ PayReuse(h) \/ PayFallThrough(h)
    \/ PayReplay(h) \/ PayCreate(h) \/ PaySave(h)
    \/ WebhookCommit(h)
    \/ Abort(h)

StripeStep(i) ==
    \/ WebhookUnknown(i) \/ WebhookMismatch(i)
    \/ CustomerPays(i) \/ IntentCanceled(i)

AdminStep(r) ==
    \/ Reconcile(r)
    \/ \E to \in AdminTargets : AdminSetStatus(r, to)

PaymentNext ==
    \/ \E h \in Handlers : HandlerStep(h)
    \/ \E i \in Intents : StripeStep(i)
    \/ \E r \in Requests : AdminStep(r)

Next ==
    \/ PaymentNext
    \/ Tick /\ UNCHANGED payVars

Spec == Init /\ [][Next]_vars

(* Stripe redelivers an event until it is acknowledged, so not every       *)
(* attempt finds the server busy or is aborted: while the event of i is    *)
(* not acknowledged, a webhook call that can start, or commit, again and   *)
(* again does so in the end.  A handler does not hang: it goes on or       *)
(* stops.  Nothing else is fair: customers and admins act as they like,    *)
(* and after the acknowledgement Stripe owes nothing.                      *)
Fairness ==
    /\ \A i \in Intents :
          /\ SF_vars(delivery[i] # "acked" /\ \E h \in Handlers : WebhookRead(h, i))
          /\ SF_vars(/\ delivery[i] # "acked"
                     /\ \E h \in Handlers :
                           /\ handlers[h].step = "webhook"
                           /\ handlers[h].intent = i
                           /\ WebhookCommit(h))
    /\ \A h \in Handlers :
          WF_vars(CustomsCommit(h) \/ PayReuse(h) \/ PayFallThrough(h)
                  \/ PayReplay(h) \/ PayCreate(h) \/ PaySave(h)
                  \/ WebhookCommit(h) \/ Abort(h))

FairSpec == Spec /\ Fairness

-----------------------------------------------------------------------------
(* Safety *)

(* Stripe has taken the money of intent i.                                 *)
Charged(i) == stripe[i].state = "succeeded"

(* The customer gets the payment confirmation exactly once: the            *)
(* outbound_emails row and paid_email_sent_at appear together, at most     *)
(* once per request, and only on a paid one -- whatever events Stripe      *)
(* repeats, and wherever a webhook handler or an admin's reconcile falls   *)
(* between another webhook's read and its transaction.                     *)
PaidEmailExactlyOnce ==
    \A r \in Requests :
        /\ paidEmails[r] = IF ships[r].emailed THEN 1 ELSE 0
        /\ ships[r].emailed => ships[r].payment = "paid"

(* A row is paid only because money moved or an admin said so: either the  *)
(* confirmation went out, and then a PaymentIntent opened for this very    *)
(* request has succeeded at Stripe, or an admin has reconciled it.         *)
PaidHasCause ==
    \A r \in Requests :
        /\ ships[r].payment = "paid" => ships[r].emailed \/ r \in reconciled
        /\ ships[r].emailed =>
              \E i \in Intents : Charged(i) /\ stripe[i].req = r

(* The intent id on a row is one Stripe opened for that row: a pay call    *)
(* that saves late never stores another request's intent, and no two rows  *)
(* share one (the UNIQUE index).                                           *)
IntentBelongsToRow ==
    \A r \in Requests :
        ships[r].intent # None =>
            stripe[ships[r].intent] # Unused /\ stripe[ships[r].intent].req = r

(* Pay calls that read the same version of a row never hold two intents:   *)
(* a double click within one updated_at collapses to one PaymentIntent.    *)
OneIntentPerVersion ==
    \A h, k \in Handlers :
        /\ handlers[h].step = "save" /\ handlers[k].step = "save"
        /\ handlers[h].req = handlers[k].req
        /\ handlers[h].updated = handlers[k].updated
        => handlers[h].intent = handlers[k].intent

(* Once paid, payment_status stays paid: no late customs commit, pay save, *)
(* mismatching event or status override takes it back.                     *)
PaymentSticky ==
    [][\A r \in Requests :
          ships[r].payment = "paid" => ships'[r].payment = "paid"]_vars

(* Refinement *)

Promise == INSTANCE ShipRequestPaymentPromise WITH
    charged  <- {r \in Requests : \E i \in Intents : Charged(i) /\ stripe[i].req = r},
    paid     <- {r \in Requests : ships[r].payment = "paid"},
    emails   <- paidEmails,
    declared <- reconciled

(* The handlers, statements and Stripe calls above implement the abstract  *)
(* promise: what a webhook records it records once, with the email, after  *)
(* a charge for that request; every other path to paid is an admin's call. *)
KeepsPromise == Promise!Spec

(* Liveness *)

(* A charge on the intent on file, for the total on file, is recorded as   *)
(* paid in the end, unless Stripe was already told 200 for it (the event   *)
(* came while another intent was on file) or the row moves on to another   *)
(* intent or total first.                                                  *)
ChargeGetsRecorded ==
    \A r \in Requests, i \in Intents :
        (/\ Charged(i) /\ delivery[i] # "acked"
         /\ ships[r].intent = i /\ stripe[i].amount = ships[r].total)
        ~> (\/ ships[r].payment = "paid"
            \/ ships[r].intent # i
            \/ stripe[i].amount # ships[r].total)

-----------------------------------------------------------------------------
(* What a document of the program says and the code does not do.           *)

(* CHANGELOG.md: the confirmation page shows a review_required card; a     *)
(* charge refused for its amount leaves the row flagged for review.        *)
RefusedChargeIsFlagged ==
    \A i \in Intents :
        delivery[i] = "refused" =>
            ships[stripe[i].req].payment \in {"review_required", "paid"}
=============================================================================
