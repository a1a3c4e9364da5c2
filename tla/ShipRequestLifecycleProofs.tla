---------------------- MODULE ShipRequestLifecycleProofs ----------------------
(***************************************************************************)
(* The safety properties of the payment protocol and of its composition    *)
(* with the warehouse, for every number of requests, packages, clerks,     *)
(* handlers, PaymentIntents, totals, manifests and seconds.                *)
(*                                                                         *)
(* The first part is about ShipRequestPayment alone and rests on IInv.     *)
(* The second is about ShipRequestLifecycle and rests on LInv: a payment   *)
(* step of the composition is a step of ShipRequestPayment, so the lemmas  *)
(* of the first part hold of it, and what is left is to show that no       *)
(* warehouse statement touches the payment columns, and what the payment   *)
(* statements leave of the warehouse's.                                    *)
(***************************************************************************)
EXTENDS ShipRequestLifecycle, TLAPS

(* What a handler between two of its steps may rely on: the intent a pay   *)
(* call is about to save was opened for its request under its own key, and *)
(* the event a webhook call is about to commit is of a charge that         *)
(* happened, for the request it found.                                     *)
LocalsHold ==
    \A h \in Handlers :
        LET me == handlers[h] IN
        /\ me.step = "save" =>
              /\ stripe[me.intent] # Unused
              /\ stripe[me.intent].req = me.req
              /\ stripe[me.intent].key = IdemKey(me)
        /\ me.step = "webhook" =>
              Charged(me.intent) /\ stripe[me.intent].req = me.req

(* Stripe opens one intent per Idempotency-Key, and the key names the      *)
(* request the intent was opened for.                                      *)
KeysHold ==
    \A i \in Intents :
        stripe[i] # Unused =>
            /\ stripe[i].key[1] = stripe[i].req
            /\ \A j \in Intents :
                  stripe[j] # Unused /\ stripe[j].key = stripe[i].key => i = j

IInv ==
    /\ TypeOK
    /\ LocalsHold
    /\ KeysHold
    /\ IntentBelongsToRow
    /\ PaidEmailExactlyOnce
    /\ PaidHasCause

-----------------------------------------------------------------------------
(* Every statement that writes a row keeps it within the table's type.     *)
LEMMA StatementsKeepRowType ==
    ASSUME NEW row \in Row, NEW t \in Clock
    PROVE  /\ \A total \in Totals : SubmitCustoms(row, total, t) \in Row
           /\ \A i \in Intents : SetIntent(row, i, t) \in Row
           /\ SetPaid(row, t) \in Row
           /\ FlagForReview(row, t) \in Row
           /\ ReconcileRow(row, t) \in Row
           /\ \A from, to : SetStatusIf(row, from, to, t) \in Row
<1>1. \A total \in Totals : SubmitCustoms(row, total, t) \in Row
  BY DEF Row, SubmitCustoms, Statuses
<1>2. \A i \in Intents : SetIntent(row, i, t) \in Row
  BY DEF Row, SetIntent
<1>3. SetPaid(row, t) \in Row
  BY DEF Row, SetPaid, Statuses, PaymentStatuses
<1>4. FlagForReview(row, t) \in Row
  BY DEF Row, FlagForReview, Checked, Statuses, PaymentStatuses
<1>5. ReconcileRow(row, t) \in Row
  BY DEF Row, ReconcileRow, Statuses, PaymentStatuses
<1>6. \A from, to : SetStatusIf(row, from, to, t) \in Row
  BY DEF Row, SetStatusIf, Checked
<1>7. QED
  BY <1>1, <1>2, <1>3, <1>4, <1>5, <1>6

(* The fields of a handler's locals, by the step it is at.                 *)
LEMMA LocalsFields ==
    ASSUME NEW me \in Locals
    PROVE  /\ me.step = "lookup" => me \in [step : {"lookup"}, req : Requests,
                 total : Totals, updated : Clock, intent : Intents]
           /\ me.step = "create" => me \in [step : {"create"}, req : Requests,
                 total : Totals, updated : Clock, intent : Intents \cup {None}]
           /\ me.step = "save" => me \in [step : {"save"}, req : Requests,
                 updated : Clock, intent : Intents]
           /\ me.step = "customs" => me \in [step : {"customs"}, req : Requests]
           /\ me.step = "webhook" => me \in [step : {"webhook"}, req : Requests,
                 intent : Intents]
  BY DEF Locals, Idle

LEMMA TypeInit == Init => TypeOK
<1> SUFFICES ASSUME Init PROVE TypeOK
  OBVIOUS
<1>1. 0 \in Clock
  BY TableAssumption DEF Clock
<1>2. \A t \in Totals : NewRow(t, 0) \in Row
  BY <1>1 DEF Row, NewRow, Statuses, PaymentStatuses
<1>3. ships \in [Requests -> Row]
  BY <1>2 DEF Init
<1>4. Idle \in Locals
  BY DEF Locals
<1>5. QED
  BY <1>1, <1>3, <1>4 DEF Init, PayInit, TypeOK, TableTypeOK

LEMMA TypeStep == TypeOK /\ [Next]_vars => TypeOK'
<1> SUFFICES ASSUME TypeOK, Next PROVE TypeOK'
  BY DEF TypeOK, TableTypeOK, vars
<1> USE DEF TypeOK, TableTypeOK, Goto, Return
<1>r. \A r \in Requests : ships[r] \in Row
  OBVIOUS
<1>h. \A h \in Handlers : handlers[h] \in Locals
  OBVIOUS
<1>i. Idle \in Locals
  BY DEF Locals
<1>1. ASSUME NEW h \in Handlers, NEW r \in Requests, CustomsRead(h, r)
      PROVE TypeOK'
  <2>1. [step |-> "customs", req |-> r] \in Locals
    BY DEF Locals
  <2>2. QED
    BY <1>1, <2>1 DEF CustomsRead
<1>2. ASSUME NEW h \in Handlers, CustomsCommit(h)
      PROVE TypeOK'
  BY <1>2, <1>r, <1>h, <1>i, StatementsKeepRowType, LocalsFields DEF CustomsCommit
<1>3. ASSUME NEW h \in Handlers, NEW r \in Requests, PayRead(h, r)
      PROVE TypeOK'
  <2>1. ships[r].intent = None => handlers'[h] \in Locals
    BY <1>3, <1>r DEF PayRead, Locals, Row
  <2>2. ships[r].intent # None => handlers'[h] \in Locals
    BY <1>3, <1>r DEF PayRead, Locals, Row
  <2>3. QED
    BY <1>3, <2>1, <2>2 DEF PayRead
<1>4. ASSUME NEW h \in Handlers, PayReuse(h)
      PROVE TypeOK'
  BY <1>4, <1>h, <1>i, LocalsFields DEF PayReuse
<1>5. ASSUME NEW h \in Handlers, PayFallThrough(h)
      PROVE TypeOK'
  <2>1. [handlers[h] EXCEPT !.step = "create"] \in
           [step : {"create"}, req : Requests, total : Totals,
            updated : Clock, intent : Intents \cup {None}]
    BY <1>5, <1>h, LocalsFields DEF PayFallThrough
  <2>2. [handlers[h] EXCEPT !.step = "create"] \in Locals
    BY <2>1 DEF Locals
  <2>3. QED
    BY <1>5, <2>2 DEF PayFallThrough
<1>6. ASSUME NEW h \in Handlers, PayReplay(h)
      PROVE TypeOK'
  <2>1. handlers'[h] \in Locals
    BY <1>6, <1>h, <1>i, LocalsFields DEF PayReplay, Locals
  <2>2. QED
    BY <1>6, <2>1 DEF PayReplay
<1>7. ASSUME NEW h \in Handlers, PayCreate(h)
      PROVE TypeOK'
  <2> DEFINE me == handlers[h]
  <2>1. PICK i \in Intents :
           /\ stripe' = [stripe EXCEPT ![i] =
                 [state |-> "open", req |-> me.req,
                  amount |-> me.total, key |-> IdemKey(me)]]
           /\ Goto(h, [step |-> "save", req |-> me.req,
                       updated |-> me.updated, intent |-> i])
    BY <1>7 DEF PayCreate
  <2>2. /\ me.req \in Requests
        /\ me.total \in Totals
        /\ me.updated \in Clock
    BY <1>7, <1>h, LocalsFields DEF PayCreate
  <2>3. [step |-> "save", req |-> me.req, updated |-> me.updated,
         intent |-> i] \in Locals
    BY <2>2 DEF Locals
  <2>4. [state |-> "open", req |-> me.req, amount |-> me.total,
         key |-> IdemKey(me)] \in PaymentIntent
    BY <2>2 DEF PaymentIntent, IdemKey
  <2>5. QED
    BY <1>7, <2>1, <2>3, <2>4 DEF PayCreate
<1>8. ASSUME NEW h \in Handlers, PaySave(h)
      PROVE TypeOK'
  BY <1>8, <1>r, <1>h, <1>i, StatementsKeepRowType, LocalsFields DEF PaySave
<1>9. ASSUME NEW i \in Intents, WebhookUnknown(i)
      PROVE TypeOK'
  BY <1>9 DEF WebhookUnknown
<1>10. ASSUME NEW i \in Intents, WebhookMismatch(i)
       PROVE TypeOK'
  BY <1>10, <1>r, StatementsKeepRowType DEF WebhookMismatch
<1>11. ASSUME NEW h \in Handlers, NEW i \in Intents, WebhookRead(h, i)
       PROVE TypeOK'
  <2>1. \A r \in Requests :
           [step |-> "webhook", req |-> r, intent |-> i] \in Locals
    BY DEF Locals
  <2>2. QED
    BY <1>11, <2>1 DEF WebhookRead
<1>12. ASSUME NEW h \in Handlers, WebhookCommit(h)
       PROVE TypeOK'
  <2>1. handlers[h].req \in Requests /\ handlers[h].intent \in Intents
    BY <1>12, <1>h, LocalsFields DEF WebhookCommit
  <2>2. SetPaid(ships[handlers[h].req], now) \in Row
    BY <2>1, <1>r, StatementsKeepRowType
  <2>3. QED
    <3>1. CASE NotYetPaid(ships[handlers[h].req])
      BY <1>12, <2>1, <2>2, <1>i, <3>1 DEF WebhookCommit
    <3>2. CASE ~NotYetPaid(ships[handlers[h].req])
      BY <1>12, <2>1, <1>i, <3>2 DEF WebhookCommit
    <3>3. QED
      BY <3>1, <3>2
<1>13. ASSUME NEW r \in Requests, Reconcile(r)
       PROVE TypeOK'
  BY <1>13, <1>r, StatementsKeepRowType DEF Reconcile
<1>14. ASSUME NEW r \in Requests, NEW to \in AdminTargets, AdminSetStatus(r, to)
       PROVE TypeOK'
  BY <1>14, <1>r, StatementsKeepRowType DEF AdminSetStatus, payVars
<1>15. ASSUME NEW h \in Handlers, Abort(h)
       PROVE TypeOK'
  BY <1>15, <1>i DEF Abort
<1>16. ASSUME NEW i \in Intents, CustomerPays(i)
       PROVE TypeOK'
  <2>1. stripe[i] \in PaymentIntent
    BY <1>16 DEF CustomerPays, Unused
  <2>2. [stripe[i] EXCEPT !.state = "succeeded"] \in PaymentIntent
    BY <2>1 DEF PaymentIntent
  <2>3. QED
    BY <1>16, <2>2 DEF CustomerPays
<1>17. ASSUME NEW i \in Intents, IntentCanceled(i)
       PROVE TypeOK'
  <2>1. stripe[i] \in PaymentIntent
    BY <1>17 DEF IntentCanceled, Unused
  <2>2. [stripe[i] EXCEPT !.state = "canceled"] \in PaymentIntent
    BY <2>1 DEF PaymentIntent
  <2>3. QED
    BY <1>17, <2>2 DEF IntentCanceled
<1>18. CASE Tick /\ UNCHANGED payVars
  BY <1>18, TableAssumption DEF Tick, Clock, payVars
<1>19. QED
  BY <1>1, <1>2, <1>3, <1>4, <1>5, <1>6, <1>7, <1>8, <1>9, <1>10, <1>11,
     <1>12, <1>13, <1>14, <1>15, <1>16, <1>17, <1>18
     DEF Next, PaymentNext, HandlerStep, StripeStep, AdminStep

(* The rows, the handlers' locals and Stripe's books keep their types      *)
(* whatever the handlers, Stripe and the admins do: in particular no       *)
(* statement gets a status or payment_status past the CHECK constraints.   *)
THEOREM TypeCorrect == Spec => []TypeOK
<1>1. Init => TypeOK
  BY TypeInit
<1>2. TypeOK /\ [Next]_vars => TypeOK'
  BY TypeStep
<1>3. QED
  BY <1>1, <1>2, PTL DEF Spec

-----------------------------------------------------------------------------
(* Which statements can touch payment_status, the email mark and the       *)
(* intent of a row: the review flag never gets past the CHECK constraint.  *)
LEMMA StatementsKeepPayment ==
    ASSUME NEW row \in Row, NEW t \in Clock,
           NEW new \in UNION {
              {row}, {SubmitCustoms(row, total, t) : total \in Totals},
              {FlagForReview(row, t)}, {SetStatusIf(row, row.status, to, t) : to \in Statuses}}
    PROVE  /\ new.payment = row.payment
           /\ new.emailed = row.emailed
           /\ new.intent = row.intent
<1>1. CASE new = row
  BY <1>1
<1>2. ASSUME NEW total \in Totals, new = SubmitCustoms(row, total, t)
      PROVE  /\ new.payment = row.payment
             /\ new.emailed = row.emailed
             /\ new.intent = row.intent
  BY <1>2 DEF Row, SubmitCustoms
<1>3. CASE new = FlagForReview(row, t)
  BY <1>3 DEF Row, FlagForReview, Checked, PaymentStatuses
<1>4. ASSUME NEW to \in Statuses, new = SetStatusIf(row, row.status, to, t)
      PROVE  /\ new.payment = row.payment
             /\ new.emailed = row.emailed
             /\ new.intent = row.intent
  BY <1>4 DEF Row, SetStatusIf, Checked
<1>5. QED
  BY <1>1, <1>2, <1>3, <1>4

(* The actions that neither save an intent nor record a payment.           *)
RowQuiet ==
    /\ \A r \in Requests : /\ ships'[r].payment = ships[r].payment
                           /\ ships'[r].emailed = ships[r].emailed
                           /\ ships'[r].intent = ships[r].intent
    /\ UNCHANGED <<paidEmails, reconciled>>

LEMMA RowSteps ==
    ASSUME TypeOK, Next
    PROVE  \/ \E h \in Handlers : PaySave(h) \/ WebhookCommit(h)
           \/ \E r \in Requests : Reconcile(r)
           \/ RowQuiet
<1> USE DEF RowQuiet
<1>r. /\ \A r \in Requests : ships[r] \in Row
      /\ ships \in [Requests -> Row]
      /\ now \in Clock
  BY DEF TypeOK, TableTypeOK
<1>h. \A h \in Handlers : handlers[h] \in Locals
  BY DEF TypeOK
<1>1. ASSUME NEW h \in Handlers, NEW r \in Requests,
             CustomsRead(h, r) \/ PayRead(h, r)
      PROVE  RowQuiet
  BY <1>1 DEF CustomsRead, PayRead
<1>2. ASSUME NEW h \in Handlers, CustomsCommit(h)
      PROVE  RowQuiet
  <2>1. PICK total \in Totals :
           ships' = [ships EXCEPT ![handlers[h].req] =
                       SubmitCustoms(@, total, now)]
    BY <1>2 DEF CustomsCommit
  <2>2. handlers[h].req \in Requests
    BY <1>2, <1>h, LocalsFields DEF CustomsCommit
  <2>3. ships'[handlers[h].req] = SubmitCustoms(ships[handlers[h].req], total, now)
    BY <2>1, <2>2, <1>r
  <2>4. QED
    BY <1>2, <2>1, <2>2, <2>3, <1>r, StatementsKeepPayment DEF CustomsCommit
<1>3. ASSUME NEW h \in Handlers,
             PayReuse(h) \/ PayFallThrough(h) \/ PayReplay(h) \/ PayCreate(h)
                \/ Abort(h)
      PROVE  RowQuiet
  BY <1>3 DEF PayReuse, PayFallThrough, PayReplay, PayCreate, Abort
<1>4. ASSUME NEW h \in Handlers, NEW i \in Intents, WebhookRead(h, i)
      PROVE  RowQuiet
  BY <1>4 DEF WebhookRead
<1>5. ASSUME NEW i \in Intents,
             WebhookUnknown(i) \/ CustomerPays(i) \/ IntentCanceled(i)
      PROVE  RowQuiet
  BY <1>5 DEF WebhookUnknown, CustomerPays, IntentCanceled
<1>6. ASSUME NEW i \in Intents, WebhookMismatch(i)
      PROVE  RowQuiet
  <2>1. PICK r \in Requests : ships' = [ships EXCEPT ![r] = FlagForReview(@, now)]
    BY <1>6 DEF WebhookMismatch
  <2>2. ships'[r] = FlagForReview(ships[r], now)
    BY <2>1, <1>r
  <2>3. QED
    BY <1>6, <2>1, <2>2, <1>r, StatementsKeepPayment DEF WebhookMismatch
<1>7. ASSUME NEW r \in Requests, NEW to \in AdminTargets, AdminSetStatus(r, to)
      PROVE  RowQuiet
  <2>1. ships'[r] = SetStatusIf(ships[r], ships[r].status, to, now)
    BY <1>7, <1>r DEF AdminSetStatus
  <2>2. to \in Statuses
    BY PaymentAssumption
  <2>3. QED
    BY <1>7, <2>1, <2>2, <1>r, StatementsKeepPayment DEF AdminSetStatus, payVars
<1>8. CASE Tick /\ UNCHANGED payVars
  BY <1>8 DEF Tick, payVars
<1>9. QED
  BY <1>1, <1>2, <1>3, <1>4, <1>5, <1>6, <1>7, <1>8
     DEF Next, PaymentNext, HandlerStep, StripeStep, AdminStep

(* Stripe never forgets an intent: who it was opened for, under which key, *)
(* and that it was charged.                                                *)
StripeRemembers ==
    \A i \in Intents :
        /\ stripe[i] # Unused =>
              /\ stripe'[i] # Unused
              /\ stripe'[i].req = stripe[i].req
              /\ stripe'[i].key = stripe[i].key
        /\ Charged(i) => Charged(i)'

LEMMA StripeSteps ==
    ASSUME TypeOK, Next
    PROVE  /\ \/ \E h \in Handlers : PayCreate(h)
              \/ \A i \in Intents : stripe'[i] # Unused => stripe[i] # Unused
           /\ StripeRemembers
<1> USE DEF StripeRemembers, Charged
<1>s. stripe \in [Intents -> {Unused} \cup PaymentIntent]
  BY DEF TypeOK
<1>1. ASSUME NEW h \in Handlers, PayCreate(h)
      PROVE  StripeRemembers
  <2>1. PICK i \in Intents :
           /\ stripe[i] = Unused
           /\ stripe' = [stripe EXCEPT ![i] =
                 [state |-> "open", req |-> handlers[h].req,
                  amount |-> handlers[h].total, key |-> IdemKey(handlers[h])]]
    BY <1>1 DEF PayCreate
  <2>2. QED
    BY <2>1, <1>s DEF Unused
<1>2. ASSUME NEW i \in Intents, CustomerPays(i) \/ IntentCanceled(i)
      PROVE  /\ \A j \in Intents : stripe'[j] # Unused => stripe[j] # Unused
             /\ StripeRemembers
  <2>1. stripe[i].state = "open"
    BY <1>2 DEF CustomerPays, IntentCanceled
  <2>2. stripe[i] \in PaymentIntent
    BY <2>1, <1>s DEF Unused
  <2>3. PICK s \in {"succeeded", "canceled"} :
           stripe' = [stripe EXCEPT ![i] = [@ EXCEPT !.state = s]]
    BY <1>2 DEF CustomerPays, IntentCanceled
  <2>4. QED
    BY <2>1, <2>2, <2>3, <1>s DEF PaymentIntent, Unused
<1>3. ASSUME UNCHANGED stripe
      PROVE  /\ \A j \in Intents : stripe'[j] # Unused => stripe[j] # Unused
             /\ StripeRemembers
  BY <1>3
<1>4. QED
  BY <1>1, <1>2, <1>3
     DEF Next, PaymentNext, HandlerStep, StripeStep, AdminStep, CustomsRead,
         CustomsCommit, PayRead, PayReuse, PayFallThrough, PayReplay, PaySave,
         WebhookUnknown, WebhookMismatch, WebhookRead, WebhookCommit,
         Reconcile, AdminSetStatus, Abort, payVars
-----------------------------------------------------------------------------
(* The conjuncts of IInv, one at a time.                                   *)

LEMMA InitIInv == Init => IInv
<1> SUFFICES ASSUME Init PROVE IInv
  OBVIOUS
<1>1. TypeOK
  BY TypeInit
<1>2. \A r \in Requests : /\ ships[r].payment = "null"
                          /\ ships[r].emailed = FALSE
                          /\ ships[r].intent = None
  BY DEF Init, NewRow
<1>3. LocalsHold /\ KeysHold
  BY DEF Init, PayInit, LocalsHold, KeysHold, Idle
<1>4. IntentBelongsToRow
  BY <1>2 DEF IntentBelongsToRow
<1>5. PaidEmailExactlyOnce /\ PaidHasCause
  BY <1>2 DEF Init, PayInit, PaidEmailExactlyOnce, PaidHasCause
<1>6. QED
  BY <1>1, <1>3, <1>4, <1>5 DEF IInv

(* A key in use is the key of one intent: PayCreate opens one only under a *)
(* key Stripe has not seen, and the key starts with the request id.        *)
LEMMA KeysStep ==
    ASSUME TypeOK, KeysHold, Next
    PROVE  KeysHold'
<1>s. stripe \in [Intents -> {Unused} \cup PaymentIntent]
  BY DEF TypeOK
<1>1. ASSUME NEW h \in Handlers, PayCreate(h)
      PROVE  KeysHold'
  <2> DEFINE me == handlers[h]
  <2>1. PICK i \in Intents :
           /\ stripe[i] = Unused
           /\ stripe' = [stripe EXCEPT ![i] =
                 [state |-> "open", req |-> me.req,
                  amount |-> me.total, key |-> IdemKey(me)]]
    BY <1>1 DEF PayCreate
  <2>2. \A j \in Intents : stripe[j] # Unused => stripe[j].key # IdemKey(me)
    BY <1>1 DEF PayCreate
  <2>3. /\ stripe'[i].key = IdemKey(me)
        /\ stripe'[i].req = me.req
        /\ IdemKey(me)[1] = me.req
        /\ \A j \in Intents \ {i} : stripe'[j] = stripe[j]
    BY <2>1, <1>s DEF IdemKey
  <2>4. QED
    BY <2>2, <2>3 DEF KeysHold
<1>2. CASE \A i \in Intents : stripe'[i] # Unused => stripe[i] # Unused
  BY <1>2, StripeSteps DEF KeysHold, StripeRemembers
<1>3. QED
  BY <1>1, <1>2, StripeSteps

(* Between its two steps a handler's view of Stripe stays true, because    *)
(* Stripe remembers; the step that fills the locals makes it true.         *)
LEMMA LocalsStep ==
    ASSUME TypeOK, LocalsHold, KeysHold, IntentBelongsToRow, Next
    PROVE  LocalsHold'
<1> DEFINE Holds(local, S) ==
      /\ local.step = "save" =>
            /\ S[local.intent] # Unused
            /\ S[local.intent].req = local.req
            /\ S[local.intent].key = IdemKey(local)
      /\ local.step = "webhook" =>
            /\ S[local.intent].state = "succeeded"
            /\ S[local.intent].req = local.req
<1>s. stripe \in [Intents -> {Unused} \cup PaymentIntent]
  BY DEF TypeOK
<1>h. handlers \in [Handlers -> Locals]
  BY DEF TypeOK
<1>1. LocalsHold <=> \A h \in Handlers : Holds(handlers[h], stripe)
  BY DEF LocalsHold, Charged
<1>2. LocalsHold' <=> \A h \in Handlers : Holds(handlers'[h], stripe')
  BY DEF LocalsHold, Charged, IdemKey
<1>3. \A h \in Handlers : Holds(handlers[h], stripe')
  <2> SUFFICES ASSUME NEW h \in Handlers PROVE Holds(handlers[h], stripe')
    OBVIOUS
  <2>1. Holds(handlers[h], stripe)
    BY <1>1
  <2>2. handlers[h].step \in {"save", "webhook"} => handlers[h].intent \in Intents
    BY <1>h, LocalsFields
  <2>3. \A i \in Intents : stripe[i].state = "succeeded" => stripe[i] # Unused
    BY DEF Unused
  <2>4. QED
    BY <2>1, <2>2, <2>3, StripeSteps DEF StripeRemembers, Charged
<1>4. Holds(Idle, stripe')
  BY DEF Idle
<1> SUFFICES \A h \in Handlers : handlers'[h] = handlers[h] \/ Holds(handlers'[h], stripe')
  BY <1>2, <1>3
<1> USE DEF Goto, Return
<1>5. ASSUME NEW h \in Handlers, NEW r \in Requests,
             CustomsRead(h, r) \/ PayRead(h, r)
      PROVE  \A k \in Handlers : handlers'[k] = handlers[k] \/ Holds(handlers'[k], stripe')
  BY <1>5, <1>h DEF CustomsRead, PayRead
<1>6. ASSUME NEW h \in Handlers,
             CustomsCommit(h) \/ PayReuse(h) \/ PaySave(h) \/ WebhookCommit(h)
                \/ Abort(h)
      PROVE  \A k \in Handlers : handlers'[k] = handlers[k] \/ Holds(handlers'[k], stripe')
  <2>1. handlers' = [handlers EXCEPT ![h] = Idle]
    BY <1>6 DEF CustomsCommit, PayReuse, PaySave, WebhookCommit, Abort
  <2>2. QED
    BY <2>1, <1>4, <1>h
<1>7. ASSUME NEW h \in Handlers, PayFallThrough(h)
      PROVE  \A k \in Handlers : handlers'[k] = handlers[k] \/ Holds(handlers'[k], stripe')
  <2>1. handlers'[h].step = "create"
    BY <1>7, <1>h, LocalsFields DEF PayFallThrough
  <2>2. QED
    BY <1>7, <2>1, <1>h DEF PayFallThrough
<1>8. ASSUME NEW h \in Handlers, PayReplay(h)
      PROVE  \A k \in Handlers : handlers'[k] = handlers[k] \/ Holds(handlers'[k], stripe')
  <2>1. PICK i \in Intents :
           /\ stripe[i] # Unused
           /\ stripe[i].key = IdemKey(handlers[h])
           /\ \/ handlers' = [handlers EXCEPT ![h] = Idle]
              \/ handlers' = [handlers EXCEPT ![h] =
                    [step |-> "save", req |-> handlers[h].req,
                     updated |-> handlers[h].updated, intent |-> i]]
    BY <1>8 DEF PayReplay
  <2>2. stripe' = stripe
    BY <1>8 DEF PayReplay
  <2>3. stripe[i].key[1] = stripe[i].req
    BY <2>1 DEF KeysHold
  <2>4. stripe[i].req = handlers[h].req
    BY <2>1, <2>3 DEF IdemKey
  <2>5. QED
    BY <2>1, <2>2, <2>4, <1>4, <1>h DEF IdemKey
<1>9. ASSUME NEW h \in Handlers, PayCreate(h)
      PROVE  \A k \in Handlers : handlers'[k] = handlers[k] \/ Holds(handlers'[k], stripe')
  <2>1. PICK i \in Intents :
           /\ stripe' = [stripe EXCEPT ![i] =
                 [state |-> "open", req |-> handlers[h].req,
                  amount |-> handlers[h].total, key |-> IdemKey(handlers[h])]]
           /\ handlers' = [handlers EXCEPT ![h] =
                 [step |-> "save", req |-> handlers[h].req,
                  updated |-> handlers[h].updated, intent |-> i]]
    BY <1>9 DEF PayCreate
  <2>2. QED
    BY <2>1, <1>h, <1>s DEF IdemKey, Unused
<1>10. ASSUME NEW h \in Handlers, NEW i \in Intents, WebhookRead(h, i)
       PROVE  \A k \in Handlers : handlers'[k] = handlers[k] \/ Holds(handlers'[k], stripe')
  <2>1. PICK r \in Requests :
           /\ ships[r].intent = i
           /\ handlers' = [handlers EXCEPT ![h] =
                 [step |-> "webhook", req |-> r, intent |-> i]]
    BY <1>10 DEF WebhookRead
  <2>2. stripe[i].req = r /\ stripe[i].state = "succeeded" /\ stripe' = stripe
    BY <1>10, <2>1, TableAssumption DEF WebhookRead, IntentSucceeded, IntentBelongsToRow
  <2>3. QED
    BY <2>1, <2>2, <1>h
<1>11. ASSUME UNCHANGED handlers
       PROVE  \A k \in Handlers : handlers'[k] = handlers[k] \/ Holds(handlers'[k], stripe')
  BY <1>11
<1>12. QED
  BY <1>5, <1>6, <1>7, <1>8, <1>9, <1>10, <1>11
     DEF Next, PaymentNext, HandlerStep, StripeStep, AdminStep, WebhookUnknown,
         WebhookMismatch, CustomerPays, IntentCanceled, Reconcile,
         AdminSetStatus, payVars
(* Only a pay call's save changes the intent of a row, and what it saves   *)
(* was opened for that row.                                                *)
LEMMA IntentStep ==
    ASSUME TypeOK, LocalsHold, IntentBelongsToRow, Next
    PROVE  IntentBelongsToRow'
<1>r. /\ ships \in [Requests -> Row]
      /\ \A r \in Requests : ships[r] \in Row
  BY DEF TypeOK, TableTypeOK
<1>n. \A r \in Requests : ships[r].intent # None => ships[r].intent \in Intents
  BY <1>r DEF Row
<1>1. ASSUME \A r \in Requests : ships'[r].intent = ships[r].intent
      PROVE  IntentBelongsToRow'
  BY <1>1, <1>n, StripeSteps DEF IntentBelongsToRow, StripeRemembers
<1>2. ASSUME NEW h \in Handlers, PaySave(h)
      PROVE  IntentBelongsToRow'
  <2> DEFINE me == handlers[h]
  <2>1. me.req \in Requests /\ stripe[me.intent] # Unused
           /\ stripe[me.intent].req = me.req
    <3>1. handlers[h] \in Locals
      BY DEF TypeOK
    <3>2. QED
      BY <1>2, <3>1, LocalsFields DEF PaySave, LocalsHold
  <2>2. \A r \in Requests :
           ships'[r].intent = IF r = me.req THEN me.intent ELSE ships[r].intent
    BY <1>2, <2>1, <1>r DEF PaySave, SetIntent, Row
  <2>3. stripe' = stripe
    BY <1>2 DEF PaySave
  <2>4. QED
    BY <2>1, <2>2, <2>3 DEF IntentBelongsToRow
<1>3. ASSUME NEW h \in Handlers, WebhookCommit(h)
      PROVE  \A r \in Requests : ships'[r].intent = ships[r].intent
  <2>1. \/ ships' = ships
        \/ ships' = [ships EXCEPT ![handlers[h].req] = SetPaid(@, now)]
    BY <1>3 DEF WebhookCommit
  <2>2. \A row \in Row : SetPaid(row, now).intent = row.intent
    BY DEF SetPaid, Row
  <2>3. QED
    BY <2>1, <2>2, <1>r
<1>4. ASSUME NEW r \in Requests, Reconcile(r)
      PROVE  \A q \in Requests : ships'[q].intent = ships[q].intent
  BY <1>4, <1>r DEF Reconcile, ReconcileRow, Row
<1>5. QED
  BY <1>1, <1>2, <1>3, <1>4, RowSteps DEF RowQuiet

(* What each step does to the payment columns of a row, the confirmation   *)
(* emails and the audit trail: a webhook transaction on an unpaid row sets *)
(* them all, a reconcile leaves an audit row, nothing else touches them.   *)
PaymentColumns ==
    \A r \in Requests :
        \/ /\ ships'[r].payment = ships[r].payment
           /\ ships'[r].emailed = ships[r].emailed
           /\ paidEmails'[r] = paidEmails[r]
        \/ /\ ships[r].payment # "paid"
           /\ ships'[r].payment = "paid" /\ ships'[r].emailed
           /\ paidEmails'[r] = paidEmails[r] + 1
           /\ \E i \in Intents : Charged(i) /\ stripe[i].req = r
        \/ /\ ships'[r].payment = "paid"
           /\ ships'[r].emailed = ships[r].emailed
           /\ paidEmails'[r] = paidEmails[r]
           /\ r \in reconciled'

LEMMA PaymentSteps ==
    ASSUME TypeOK, LocalsHold, Next
    PROVE  PaymentColumns /\ reconciled \subseteq reconciled'
<1> USE DEF PaymentColumns
<1>r. /\ ships \in [Requests -> Row]
      /\ \A r \in Requests : ships[r] \in Row
      /\ paidEmails \in [Requests -> Nat]
  BY DEF TypeOK, TableTypeOK
<1>h. \A h \in Handlers : handlers[h] \in Locals
  BY DEF TypeOK
<1>1. ASSUME NEW h \in Handlers, PaySave(h)
      PROVE  PaymentColumns /\ reconciled \subseteq reconciled'
  BY <1>1, <1>r DEF PaySave, SetIntent, Row
<1>2. ASSUME NEW h \in Handlers, WebhookCommit(h)
      PROVE  PaymentColumns /\ reconciled \subseteq reconciled'
  <2> DEFINE me == handlers[h]
  <2>1. /\ me.req \in Requests /\ me.intent \in Intents
        /\ Charged(me.intent) /\ stripe[me.intent].req = me.req
    BY <1>2, <1>h, LocalsFields DEF WebhookCommit, LocalsHold
  <2>2. CASE NotYetPaid(ships[me.req])
    <3>1. /\ ships' = [ships EXCEPT ![me.req] = SetPaid(@, now)]
          /\ paidEmails' = [paidEmails EXCEPT ![me.req] = @ + 1]
          /\ reconciled' = reconciled
      BY <1>2, <2>2 DEF WebhookCommit
    <3>2. /\ ships'[me.req].payment = "paid" /\ ships'[me.req].emailed
          /\ paidEmails'[me.req] = paidEmails[me.req] + 1
          /\ ships[me.req].payment # "paid"
      BY <3>1, <2>1, <2>2, <1>r DEF SetPaid, NotYetPaid, Row
    <3>3. \A r \in Requests \ {me.req} :
             ships'[r] = ships[r] /\ paidEmails'[r] = paidEmails[r]
      BY <3>1, <1>r
    <3>4. QED
      BY <3>1, <3>2, <3>3, <2>1
  <2>3. CASE ~NotYetPaid(ships[me.req])
    BY <1>2, <2>3 DEF WebhookCommit
  <2>4. QED
    BY <2>2, <2>3
<1>3. ASSUME NEW r \in Requests, Reconcile(r)
      PROVE  PaymentColumns /\ reconciled \subseteq reconciled'
  <2>1. /\ ships'[r].payment = "paid"
        /\ ships'[r].emailed = ships[r].emailed
        /\ r \in reconciled'
    BY <1>3, <1>r DEF Reconcile, ReconcileRow, Row
  <2>2. \A q \in Requests \ {r} : ships'[q] = ships[q]
    BY <1>3, <1>r DEF Reconcile
  <2>3. QED
    BY <1>3, <2>1, <2>2 DEF Reconcile
<1>4. CASE RowQuiet
  BY <1>4 DEF RowQuiet
<1>5. QED
  BY <1>1, <1>2, <1>3, <1>4, RowSteps

LEMMA EmailStep ==
    ASSUME TypeOK, TypeOK', LocalsHold, PaidEmailExactlyOnce, Next
    PROVE  PaidEmailExactlyOnce'
<1>1. \A r \in Requests : /\ ships[r].emailed \in BOOLEAN
                          /\ ships'[r].emailed \in BOOLEAN
  BY DEF TypeOK, TableTypeOK, Row
<1>2. QED
  BY <1>1, PaymentSteps DEF PaymentColumns, PaidEmailExactlyOnce

LEMMA CauseStep ==
    ASSUME TypeOK, TypeOK', LocalsHold, PaidHasCause, Next
    PROVE  PaidHasCause'
<1> SUFFICES ASSUME NEW r \in Requests
             PROVE  /\ ships'[r].payment = "paid" =>
                          ships'[r].emailed \/ r \in reconciled'
                    /\ ships'[r].emailed =>
                          \E i \in Intents : Charged(i)' /\ stripe'[i].req = r
  BY DEF PaidHasCause
<1>1. ships[r].emailed \in BOOLEAN /\ ships'[r].emailed \in BOOLEAN
  BY DEF TypeOK, TableTypeOK, Row
<1>2. \A i \in Intents : Charged(i) /\ stripe[i].req = r
                        => Charged(i)' /\ stripe'[i].req = r
  <2>1. \A i \in Intents : Charged(i) => stripe[i] # Unused
    BY DEF Charged, Unused
  <2>2. QED
    BY <2>1, StripeSteps DEF StripeRemembers
<1>3. ships'[r].payment = "paid" => ships'[r].emailed \/ r \in reconciled'
  BY <1>1, PaymentSteps DEF PaymentColumns, PaidHasCause
<1>4. ships'[r].emailed => \E i \in Intents : Charged(i) /\ stripe[i].req = r
  BY <1>1, PaymentSteps DEF PaymentColumns, PaidHasCause
<1>5. QED
  BY <1>2, <1>3, <1>4

LEMMA InductiveIInv == IInv /\ [Next]_vars => IInv'
<1>1. ASSUME IInv, Next
      PROVE  IInv'
  <2>1. TypeOK'
    BY <1>1, TypeStep DEF IInv
  <2>2. LocalsHold' /\ KeysHold'
    BY <1>1, LocalsStep, KeysStep DEF IInv
  <2>3. IntentBelongsToRow'
    BY <1>1, IntentStep DEF IInv
  <2>4. PaidEmailExactlyOnce' /\ PaidHasCause'
    BY <1>1, <2>1, EmailStep, CauseStep DEF IInv
  <2>5. QED
    BY <2>1, <2>2, <2>3, <2>4 DEF IInv
<1>2. ASSUME IInv, UNCHANGED vars
      PROVE  IInv'
  <2>1. TypeOK'
    BY <1>2 DEF IInv, vars, TypeOK, TableTypeOK
  <2>2. LocalsHold'
    BY <1>2 DEF IInv, vars, LocalsHold, Charged, IdemKey
  <2>3. KeysHold' /\ IntentBelongsToRow'
    BY <1>2 DEF IInv, vars, KeysHold, IntentBelongsToRow
  <2>4. PaidEmailExactlyOnce' /\ PaidHasCause'
    BY <1>2 DEF IInv, vars, PaidEmailExactlyOnce, PaidHasCause, Charged
  <2>5. QED
    BY <2>1, <2>2, <2>3, <2>4 DEF IInv
<1>3. QED
  BY <1>1, <1>2

LEMMA InvariantIInv == Spec => []IInv
<1>1. QED
  BY InitIInv, InductiveIInv, PTL DEF Spec

-----------------------------------------------------------------------------
(* One confirmation email for each request a webhook marked paid, none for *)
(* the others, for any number of concurrent webhook calls, repeated events *)
(* and admin reconciles (reconcileShipRequestByPaymentIntent).             *)
THEOREM EmailOnceCorrect == Spec => []PaidEmailExactlyOnce
<1>1. IInv => PaidEmailExactlyOnce
  BY DEF IInv
<1>2. QED
  BY <1>1, InvariantIInv, PTL

(* A request is paid only if a PaymentIntent opened for it was charged or  *)
(* an admin reconciled it (the webhook's lookup by intent id and the       *)
(* reconcile handler are the only ways to payment_status 'paid').          *)
THEOREM PaidHasCauseCorrect == Spec => []PaidHasCause
<1>1. IInv => PaidHasCause
  BY DEF IInv
<1>2. QED
  BY <1>1, InvariantIInv, PTL

(* The intent on file was opened for the row it is on, however pay calls   *)
(* of different requests interleave (shipRequestPay).                      *)
THEOREM IntentBelongsCorrect == Spec => []IntentBelongsToRow
<1>1. IInv => IntentBelongsToRow
  BY DEF IInv
<1>2. QED
  BY <1>1, InvariantIInv, PTL

(* Two pay calls about to save for one version of a row hold the same      *)
(* intent: the Idempotency-Key collapses a double click (shipRequestPay).  *)
THEOREM OneIntentCorrect == Spec => []OneIntentPerVersion
<1>1. IInv => OneIntentPerVersion
  <2> SUFFICES ASSUME IInv,
                      NEW h \in Handlers, NEW k \in Handlers,
                      handlers[h].step = "save", handlers[k].step = "save",
                      handlers[h].req = handlers[k].req,
                      handlers[h].updated = handlers[k].updated
               PROVE  handlers[h].intent = handlers[k].intent
    BY DEF OneIntentPerVersion
  <2>1. handlers[h].intent \in Intents /\ handlers[k].intent \in Intents
    BY LocalsFields DEF IInv, TypeOK
  <2>2. stripe[handlers[h].intent].key = stripe[handlers[k].intent].key
    BY DEF IInv, LocalsHold, IdemKey
  <2>3. QED
    BY <2>1, <2>2 DEF IInv, LocalsHold, KeysHold
<1>2. QED
  BY <1>1, InvariantIInv, PTL

(* No step takes payment_status away from 'paid': neither a customs commit *)
(* or pay save whose read is old, nor a mismatching event, nor an admin's  *)
(* status override.                                                        *)
THEOREM PaymentStickyCorrect == Spec => PaymentSticky
<1>1. IInv /\ [Next]_vars =>
         [\A r \in Requests :
             ships[r].payment = "paid" => ships'[r].payment = "paid"]_vars
  <2> SUFFICES ASSUME IInv, Next, NEW r \in Requests, ships[r].payment = "paid"
               PROVE  ships'[r].payment = "paid"
    OBVIOUS
  <2>1. PaymentColumns
    BY PaymentSteps DEF IInv
  <2>2. QED
    BY <2>1 DEF PaymentColumns
<1>2. QED
  BY <1>1, InvariantIInv, PTL DEF Spec, PaymentSticky
-----------------------------------------------------------------------------
(* Refinement.  A step of a webhook transaction on an unpaid row is a      *)
(* Confirm, a reconcile a Declare, a customer's payment a Charge, and      *)
(* every other step a stutter of the promise.                              *)

ChargedFor == {r \in Requests : \E i \in Intents : Charged(i) /\ stripe[i].req = r}
PaidRows == {r \in Requests : ships[r].payment = "paid"}

LEMMA PromiseUnfold ==
    /\ Promise!Init <=> /\ ChargedFor = {}
                        /\ PaidRows = {}
                        /\ paidEmails = [r \in Requests |-> 0]
                        /\ reconciled = {}
    /\ [Promise!Next]_(Promise!vars) <=>
          \/ \E r \in Requests :
                \/ /\ ChargedFor' = ChargedFor \cup {r}
                   /\ PaidRows' = PaidRows
                   /\ UNCHANGED <<paidEmails, reconciled>>
                \/ /\ r \in ChargedFor \ PaidRows
                   /\ PaidRows' = PaidRows \cup {r}
                   /\ paidEmails' = [paidEmails EXCEPT ![r] = @ + 1]
                   /\ ChargedFor' = ChargedFor
                   /\ UNCHANGED reconciled
                \/ /\ PaidRows' = PaidRows \cup {r}
                   /\ reconciled' = reconciled \cup {r}
                   /\ ChargedFor' = ChargedFor
                   /\ UNCHANGED paidEmails
          \/ /\ ChargedFor' = ChargedFor
             /\ PaidRows' = PaidRows
             /\ UNCHANGED <<paidEmails, reconciled>>
  BY DEF ChargedFor, PaidRows, Promise!Init, Promise!Next, Promise!vars,
     Promise!Charge, Promise!Confirm, Promise!Declare

(* Only a customer's payment adds a charge.                                *)
LEMMA ChargeSteps ==
    ASSUME TypeOK, Next
    PROVE  \/ \E i \in Intents : CustomerPays(i)
           \/ ChargedFor' = ChargedFor
<1>s. stripe \in [Intents -> {Unused} \cup PaymentIntent]
  BY DEF TypeOK
<1>1. ASSUME NEW h \in Handlers, PayCreate(h)
      PROVE  ChargedFor' = ChargedFor
  <2>1. PICK i \in Intents :
           /\ stripe[i] = Unused
           /\ stripe' = [stripe EXCEPT ![i] =
                 [state |-> "open", req |-> handlers[h].req,
                  amount |-> handlers[h].total, key |-> IdemKey(handlers[h])]]
    BY <1>1 DEF PayCreate
  <2>2. stripe[i].state # "succeeded" /\ stripe'[i].state # "succeeded"
    BY <2>1, <1>s DEF Unused
  <2>3. \A j \in Intents \ {i} : stripe'[j] = stripe[j]
    BY <2>1, <1>s
  <2>4. QED
    BY <2>2, <2>3 DEF ChargedFor, Charged
<1>2. ASSUME NEW i \in Intents, IntentCanceled(i)
      PROVE  ChargedFor' = ChargedFor
  <2>1. stripe[i] \in PaymentIntent /\ stripe[i].state = "open"
    BY <1>2, <1>s DEF IntentCanceled, Unused
  <2>2. stripe'[i].state = "canceled"
    BY <1>2, <2>1, <1>s DEF IntentCanceled, PaymentIntent
  <2>3. \A j \in Intents \ {i} : stripe'[j] = stripe[j]
    BY <1>2, <1>s DEF IntentCanceled
  <2>4. QED
    BY <2>1, <2>2, <2>3 DEF ChargedFor, Charged
<1>3. ASSUME UNCHANGED stripe
      PROVE  ChargedFor' = ChargedFor
  BY <1>3 DEF ChargedFor, Charged
<1>4. QED
  BY <1>1, <1>2, <1>3
     DEF Next, PaymentNext, HandlerStep, StripeStep, AdminStep, CustomsRead,
         CustomsCommit, PayRead, PayReuse, PayFallThrough, PayReplay, PaySave,
         WebhookUnknown, WebhookMismatch, WebhookRead, WebhookCommit,
         Reconcile, AdminSetStatus, Abort, payVars

LEMMA PromiseStep == IInv /\ [Next]_vars => [Promise!Next]_(Promise!vars)
<1> SUFFICES ASSUME IInv, [Next]_vars
             PROVE  [Promise!Next]_(Promise!vars)
  OBVIOUS
<1>r. /\ ships \in [Requests -> Row]
      /\ \A r \in Requests : ships[r] \in Row
      /\ stripe \in [Intents -> {Unused} \cup PaymentIntent]
      /\ handlers \in [Handlers -> Locals]
  BY DEF IInv, TypeOK, TableTypeOK
<1>1. CASE UNCHANGED vars
  <2>1. ChargedFor' = ChargedFor /\ PaidRows' = PaidRows
    BY <1>1 DEF vars, ChargedFor, PaidRows, Charged
  <2>2. UNCHANGED <<paidEmails, reconciled>>
    BY <1>1 DEF vars
  <2>3. QED
    BY <2>1, <2>2, PromiseUnfold
<1>2. ASSUME NEW i \in Intents, CustomerPays(i)
      PROVE  [Promise!Next]_(Promise!vars)
  <2>1. stripe[i] \in PaymentIntent
    BY <1>2, <1>r DEF CustomerPays, Unused
  <2>2. /\ stripe'[i].state = "succeeded" /\ stripe'[i].req = stripe[i].req
        /\ stripe[i].req \in Requests
        /\ \A j \in Intents \ {i} : stripe'[j] = stripe[j]
    BY <1>2, <2>1, <1>r DEF CustomerPays, PaymentIntent
  <2>3. ChargedFor' = ChargedFor \cup {stripe[i].req}
    BY <1>2, <2>2 DEF ChargedFor, Charged, CustomerPays
  <2>4. PaidRows' = PaidRows /\ UNCHANGED <<paidEmails, reconciled>>
    BY <1>2 DEF PaidRows, CustomerPays
  <2>5. QED
    BY <2>2, <2>3, <2>4, PromiseUnfold
<1>3. ASSUME NEW h \in Handlers, WebhookCommit(h)
      PROVE  [Promise!Next]_(Promise!vars)
  <2> DEFINE r == handlers[h].req
  <2>1. /\ r \in Requests /\ handlers[h].intent \in Intents
        /\ Charged(handlers[h].intent) /\ stripe[handlers[h].intent].req = r
    BY <1>3, <1>r, LocalsFields DEF WebhookCommit, IInv, LocalsHold
  <2>2. ChargedFor' = ChargedFor /\ UNCHANGED reconciled
    BY <1>3 DEF WebhookCommit, ChargedFor, Charged
  <2>3. CASE NotYetPaid(ships[r])
    <3>1. /\ ships' = [ships EXCEPT ![r] = SetPaid(@, now)]
          /\ paidEmails' = [paidEmails EXCEPT ![r] = @ + 1]
      BY <1>3, <2>3 DEF WebhookCommit
    <3>2. r \in ChargedFor \ PaidRows
      BY <2>1, <2>3 DEF ChargedFor, PaidRows, NotYetPaid
    <3>3. PaidRows' = PaidRows \cup {r}
      BY <3>1, <2>1, <1>r DEF PaidRows, SetPaid, Row
    <3>4. QED
      BY <2>1, <2>2, <3>1, <3>2, <3>3, PromiseUnfold
  <2>4. CASE ~NotYetPaid(ships[r])
    <3>1. UNCHANGED <<ships, paidEmails>>
      BY <1>3, <2>4 DEF WebhookCommit
    <3>2. PaidRows' = PaidRows
      BY <3>1 DEF PaidRows
    <3>3. QED
      BY <2>2, <3>1, <3>2, PromiseUnfold
  <2>5. QED
    BY <2>3, <2>4
<1>4. ASSUME NEW r \in Requests, Reconcile(r)
      PROVE  [Promise!Next]_(Promise!vars)
  <2>1. PaidRows' = PaidRows \cup {r}
    BY <1>4, <1>r DEF Reconcile, ReconcileRow, PaidRows, Row
  <2>2. /\ ChargedFor' = ChargedFor
        /\ reconciled' = reconciled \cup {r}
        /\ UNCHANGED paidEmails
    BY <1>4 DEF Reconcile, ChargedFor, Charged
  <2>3. QED
    BY <2>1, <2>2, PromiseUnfold
<1>5. ASSUME NEW h \in Handlers, PaySave(h)
      PROVE  [Promise!Next]_(Promise!vars)
  <2>1. PaidRows' = PaidRows
    BY <1>5, <1>r DEF PaySave, SetIntent, PaidRows, Row
  <2>2. ChargedFor' = ChargedFor /\ UNCHANGED <<paidEmails, reconciled>>
    BY <1>5 DEF PaySave, ChargedFor, Charged
  <2>3. QED
    BY <2>1, <2>2, PromiseUnfold
<1>6. ASSUME RowQuiet, ChargedFor' = ChargedFor
      PROVE  [Promise!Next]_(Promise!vars)
  <2>1. PaidRows' = PaidRows
    BY <1>6 DEF RowQuiet, PaidRows
  <2>2. QED
    BY <1>6, <2>1, PromiseUnfold DEF RowQuiet
<1>7. QED
  BY <1>1, <1>2, <1>3, <1>4, <1>5, <1>6, RowSteps, ChargeSteps DEF IInv

(* The handlers implement the promise for every number of requests,        *)
(* handlers and intents: what shipRequestPay, the webhook transaction, the *)
(* reconcile and every other handler do to a row is, seen from outside, a  *)
(* charge, one confirmation with its email, or an audited declaration.     *)
THEOREM ImplementsPromise == Spec => KeepsPromise
<1>1. Init => Promise!Init
  <2>1. Init => ChargedFor = {} /\ PaidRows = {}
    BY DEF Init, PayInit, ChargedFor, PaidRows, Charged, Unused, NewRow
  <2>2. QED
    BY <2>1, PromiseUnfold DEF Init, PayInit
<1>2. IInv /\ [Next]_vars => [Promise!Next]_(Promise!vars)
  BY PromiseStep
<1>3. QED
  BY <1>1, <1>2, InvariantIInv, PTL DEF Spec, KeepsPromise, Promise!Spec

-----------------------------------------------------------------------------
(* The composition.                                                        *)

(* A request that has not been inserted carries nothing.                   *)
AbsentIsBlank ==
    \A r \in Requests :
        ~Exists(ships[r]) =>
            /\ ships[r].payment = "null" /\ ships[r].emailed = FALSE
            /\ ships[r].intent = None /\ ships[r].weight = None
            /\ items[r] = {}

(* A handler under way found its row; rows are never deleted.              *)
LocalsExist ==
    \A h \in Handlers : handlers[h] # Idle => Exists(ships[handlers[h].req])

(* A page shows rows that were paid when it was loaded, and still are.     *)
PagesPaid ==
    \A c \in Clerks : Looking(c) => ships[clerks[c].req].payment = "paid"

(* Only requests that exist are on a manifest, and only packages that are  *)
(* on a request have left.                                                 *)
ManifestsHold ==
    /\ \A r \in Requests : (\E m \in manifests : <<m, r>> \in links) => Exists(ships[r])
    /\ \A p \in shipped : \E r \in Requests : p \in items[r]

(* What UNIQUE (ship_request_items.locker_package_id) says of the items.   *)
PackageOnOneRequest ==
    \A r, q \in Requests : r # q => items[r] \cap items[q] = {}

LInv ==
    /\ IInv
    /\ FulfilmentTypeOK
    /\ AbsentIsBlank
    /\ LocalsExist
    /\ PagesPaid
    /\ ManifestsHold
    /\ PackageOnOneRequest
    /\ ShippedWithRequest

-----------------------------------------------------------------------------
(* Every warehouse statement keeps a row within the table's type.          *)
LEMMA FulfilmentKeepsRowType ==
    ASSUME NEW row \in Row, NEW t \in Clock
    PROVE  /\ \A total \in Totals : NewRow(total, t) \in Row
           /\ \A w \in Weights : SetWeight(row, w, t) \in Row
           /\ \A bay \in Bays \cup {None}, m \in Manifests \cup {None} :
                 SetStaged(row, bay, m, t) \in Row
           /\ \A m \in Manifests : ShipOn(row, m, t) \in Row
<1>1. \A total \in Totals : NewRow(total, t) \in Row
  BY DEF Row, NewRow, Statuses, PaymentStatuses
<1>2. \A w \in Weights : SetWeight(row, w, t) \in Row
  BY DEF Row, SetWeight
<1>3. \A bay \in Bays \cup {None}, m \in Manifests \cup {None} :
         SetStaged(row, bay, m, t) \in Row
  BY DEF Row, SetStaged, Statuses
<1>4. \A m \in Manifests : ShipOn(row, m, t) \in Row
  BY DEF Row, ShipOn, Statuses
<1>5. QED
  BY <1>1, <1>2, <1>3, <1>4

(* What the warehouse's statements leave alone, and what they set.         *)
LEMMA FulfilmentStatements ==
    ASSUME NEW row \in Row, NEW t \in Clock
    PROVE  /\ \A from \in Statuses :
                 LET new == SetStatusIf(row, from, "processing", t) IN
                 /\ new.payment = row.payment /\ new.emailed = row.emailed
                 /\ new.intent = row.intent /\ new.weight = row.weight
                 /\ new.manifest = row.manifest
                 /\ row.status = from => new.status = "processing"
           /\ \A w \in Weights :
                 LET new == SetWeight(row, w, t) IN
                 /\ new.payment = row.payment /\ new.emailed = row.emailed
                 /\ new.intent = row.intent /\ new.weight = w
                 /\ new.manifest = row.manifest /\ new.status = row.status
           /\ \A bay \in Bays \cup {None}, m \in Manifests \cup {None} :
                 LET new == SetStaged(row, bay, m, t) IN
                 /\ new.payment = row.payment /\ new.emailed = row.emailed
                 /\ new.intent = row.intent /\ new.weight = row.weight
                 /\ new.status = "staged"
           /\ \A m \in Manifests :
                 LET new == ShipOn(row, m, t) IN
                 /\ new.payment = row.payment /\ new.emailed = row.emailed
                 /\ new.intent = row.intent /\ new.weight = row.weight
                 /\ new.status = "shipped" /\ new.manifest = m
<1>1. \A from \in Statuses :
         LET new == SetStatusIf(row, from, "processing", t) IN
         /\ new.payment = row.payment /\ new.emailed = row.emailed
         /\ new.intent = row.intent /\ new.weight = row.weight
         /\ new.manifest = row.manifest
         /\ row.status = from => new.status = "processing"
  BY DEF Row, SetStatusIf, Checked, Statuses, PaymentStatuses
<1>2. QED
  BY <1>1 DEF Row, SetWeight, SetStaged, ShipOn

-----------------------------------------------------------------------------
(* One warehouse step, row by row: who wrote what on which row.            *)
WarehouseRow(r) ==
    \/ ships'[r] = ships[r]
    \/ \E total \in Totals :
          ~Exists(ships[r]) /\ ships'[r] = NewRow(total, now)
    \/ \E c \in Clerks :
          /\ StillAsSeen(c) /\ clerks[c].req = r
          /\ \/ ships'[r] = SetStatusIf(ships[r], clerks[c].status, "processing", now)
             \/ /\ NotWeighed(ships[r])
                /\ \E w \in Weights : ships'[r] = SetWeight(ships[r], w, now)
             \/ \E bay \in Bays \cup {None}, m \in Manifests \cup {None} :
                   ships'[r] = SetStaged(ships[r], bay, m, now)
    \/ \E m \in Manifests :
          /\ Exists(ships[r]) /\ <<m, r>> \in links'
          /\ ships'[r] = ShipOn(ships[r], m, now)

LEMMA WarehouseRows ==
    ASSUME FulfilmentTypeOK, FulfilmentNext
    PROVE  /\ \A r \in Requests : WarehouseRow(r)
           /\ ships' = [r \in Requests |-> ships'[r]]
           /\ links \subseteq links'
           /\ now' = now
<1> USE DEF WarehouseRow
<1>r. ships \in [Requests -> Row]
  BY DEF FulfilmentTypeOK, TableTypeOK
<1>1. ASSUME NEW r \in Requests, NEW ps \in SUBSET Packages, Create(r, ps)
      PROVE  /\ \A q \in Requests : WarehouseRow(q)
             /\ ships' = [q \in Requests |-> ships'[q]]
             /\ links \subseteq links' /\ now' = now
  BY <1>1, <1>r DEF Create
<1>2. ASSUME NEW c \in Clerks, NEW r \in Requests, PickRow(c, r)
      PROVE  /\ \A q \in Requests : WarehouseRow(q)
             /\ ships' = [q \in Requests |-> ships'[q]]
             /\ links \subseteq links' /\ now' = now
  BY <1>2, <1>r DEF PickRow
<1>3. ASSUME NEW c \in Clerks, Looking(c)
      PROVE  clerks[c].req \in Requests
  BY <1>3 DEF FulfilmentTypeOK, Looking, View, NoView
<1>4. ASSUME NEW c \in Clerks, Process(c)
      PROVE  /\ \A q \in Requests : WarehouseRow(q)
             /\ ships' = [q \in Requests |-> ships'[q]]
             /\ links \subseteq links' /\ now' = now
  BY <1>3, <1>4, <1>r DEF Process, StillAsSeen
<1>5. ASSUME NEW c \in Clerks, Weigh(c)
      PROVE  /\ \A q \in Requests : WarehouseRow(q)
             /\ ships' = [q \in Requests |-> ships'[q]]
             /\ links \subseteq links' /\ now' = now
  BY <1>3, <1>5, <1>r DEF Weigh, StillAsSeen
<1>6. ASSUME NEW c \in Clerks, NEW bay \in Bays \cup {None},
             NEW m \in Manifests \cup {None}, Stage(c, bay, m)
      PROVE  /\ \A q \in Requests : WarehouseRow(q)
             /\ ships' = [q \in Requests |-> ships'[q]]
             /\ links \subseteq links' /\ now' = now
  BY <1>3, <1>6, <1>r DEF Stage, StillAsSeen
<1>7. ASSUME NEW m \in Manifests, NEW rs \in SUBSET Requests, CreateManifest(m, rs)
      PROVE  /\ \A q \in Requests : WarehouseRow(q)
             /\ ships' = [q \in Requests |-> ships'[q]]
             /\ links \subseteq links' /\ now' = now
  BY <1>7, <1>r DEF CreateManifest
<1>8. QED
  BY <1>1, <1>2, <1>4, <1>5, <1>6, <1>7 DEF FulfilmentNext, ClerkStep

-----------------------------------------------------------------------------
(* One payment step, row by row: it never inserts or deletes a row, never  *)
(* touches weight or manifest_id, and moves the status only to             *)
(* 'pending_payment', 'paid' or where an admin's override sends it.        *)
PaymentRow(old, new) ==
    /\ new.weight = old.weight /\ new.manifest = old.manifest
    /\ Exists(old) => Exists(new)
    /\ \/ new.status = old.status
       \/ new.status \in {"pending_payment", "paid"} \cup AdminTargets

LEMMA PaymentStatements ==
    ASSUME NEW row \in Row, NEW t \in Clock
    PROVE  /\ PaymentRow(row, row)
           /\ \A total \in Totals : PaymentRow(row, SubmitCustoms(row, total, t))
           /\ \A i \in Intents : PaymentRow(row, SetIntent(row, i, t))
           /\ PaymentRow(row, SetPaid(row, t))
           /\ PaymentRow(row, FlagForReview(row, t))
           /\ PaymentRow(row, ReconcileRow(row, t))
           /\ \A to \in AdminTargets : PaymentRow(row, SetStatusIf(row, row.status, to, t))
<1> USE DEF PaymentRow, Exists, Row
<1>1. PaymentRow(row, row)
  OBVIOUS
<1>2. \A total \in Totals : PaymentRow(row, SubmitCustoms(row, total, t))
  BY DEF SubmitCustoms, Absent
<1>3. \A i \in Intents : PaymentRow(row, SetIntent(row, i, t))
  BY DEF SetIntent
<1>4. PaymentRow(row, SetPaid(row, t)) /\ PaymentRow(row, ReconcileRow(row, t))
  BY DEF SetPaid, ReconcileRow, Absent
<1>5. PaymentRow(row, FlagForReview(row, t))
  BY DEF FlagForReview, Checked
<1>6. \A to \in AdminTargets : PaymentRow(row, SetStatusIf(row, row.status, to, t))
  <2>1. \A to \in AdminTargets : to # Absent
    BY PaymentAssumption DEF Statuses, Absent
  <2>2. QED
    BY <2>1 DEF SetStatusIf, Checked
<1>7. QED
  BY <1>1, <1>2, <1>3, <1>4, <1>5, <1>6

LEMMA PaymentRows ==
    ASSUME TypeOK, LocalsExist, Next
    PROVE  \A r \in Requests :
              /\ PaymentRow(ships[r], ships'[r])
              /\ ~Exists(ships[r]) =>
                    ships'[r] = ships[r] \/ \E i \in Intents : ships[r].intent = i
<1>r. /\ ships \in [Requests -> Row]
      /\ \A r \in Requests : ships[r] \in Row
      /\ now \in Clock
  BY DEF TypeOK, TableTypeOK
<1>h. \A h \in Handlers : handlers[h] \in Locals
  BY DEF TypeOK
<1> DEFINE Good == \A r \in Requests :
              /\ PaymentRow(ships[r], ships'[r])
              /\ ~Exists(ships[r]) =>
                    ships'[r] = ships[r] \/ \E i \in Intents : ships[r].intent = i
<1>0. ASSUME NEW q \in Requests, NEW new,
             ships' = [ships EXCEPT ![q] = new], PaymentRow(ships[q], new),
             Exists(ships[q]) \/ \E i \in Intents : ships[q].intent = i
      PROVE  Good
  <2>1. \A r \in Requests : ships'[r] = IF r = q THEN new ELSE ships[r]
    BY <1>0, <1>r
  <2>2. QED
    BY <1>0, <1>r, <2>1, PaymentStatements
<1>1. ASSUME UNCHANGED ships
      PROVE  Good
  BY <1>1, <1>r, PaymentStatements
<1>2. ASSUME NEW h \in Handlers, CustomsCommit(h)
      PROVE  Good
  <2>1. handlers[h].req \in Requests /\ handlers[h] # Idle
    BY <1>2, <1>h, LocalsFields DEF CustomsCommit, Idle
  <2>2. Exists(ships[handlers[h].req])
    BY <2>1 DEF LocalsExist
  <2>3. PICK total \in Totals :
           ships' = [ships EXCEPT ![handlers[h].req] =
              SubmitCustoms(ships[handlers[h].req], total, now)]
    BY <1>2 DEF CustomsCommit
  <2>4. PaymentRow(ships[handlers[h].req],
                   SubmitCustoms(ships[handlers[h].req], total, now))
    BY <2>1, <1>r, PaymentStatements
  <2> HIDE DEF Good
  <2>5. QED
    BY <2>1, <2>2, <2>3, <2>4, <1>0
<1>3. ASSUME NEW h \in Handlers, PaySave(h)
      PROVE  Good
  <2>1. /\ handlers[h].req \in Requests /\ handlers[h] # Idle
        /\ handlers[h].intent \in Intents
    BY <1>3, <1>h, LocalsFields DEF PaySave, Idle
  <2>2. Exists(ships[handlers[h].req])
    BY <2>1 DEF LocalsExist
  <2>3. ships' = [ships EXCEPT ![handlers[h].req] =
           SetIntent(ships[handlers[h].req], handlers[h].intent, now)]
    BY <1>3 DEF PaySave
  <2>4. PaymentRow(ships[handlers[h].req],
                   SetIntent(ships[handlers[h].req], handlers[h].intent, now))
    BY <2>1, <1>r, PaymentStatements
  <2> HIDE DEF Good
  <2>5. QED
    BY <2>1, <2>2, <2>3, <2>4, <1>0
<1>4. ASSUME NEW h \in Handlers, WebhookCommit(h)
      PROVE  Good
  <2>1. handlers[h].req \in Requests /\ handlers[h] # Idle
    BY <1>4, <1>h, LocalsFields DEF WebhookCommit, Idle
  <2>2. Exists(ships[handlers[h].req])
    BY <2>1 DEF LocalsExist
  <2>3. \/ ships' = [ships EXCEPT ![handlers[h].req] =
                       SetPaid(ships[handlers[h].req], now)]
        \/ UNCHANGED ships
    BY <1>4 DEF WebhookCommit
  <2>4. PaymentRow(ships[handlers[h].req], SetPaid(ships[handlers[h].req], now))
    BY <2>1, <1>r, PaymentStatements
  <2> HIDE DEF Good
  <2>5. QED
    BY <2>1, <2>2, <2>3, <2>4, <1>0, <1>1
<1>5. ASSUME NEW i \in Intents, WebhookMismatch(i)
      PROVE  Good
  <2>1. PICK r \in Requests :
           /\ ships[r].intent = i
           /\ ships' = [ships EXCEPT ![r] = FlagForReview(ships[r], now)]
    BY <1>5 DEF WebhookMismatch
  <2>2. PaymentRow(ships[r], FlagForReview(ships[r], now))
    BY <1>r, PaymentStatements
  <2> HIDE DEF Good
  <2>3. QED
    BY <2>1, <2>2, <1>0
<1>6. ASSUME NEW r \in Requests, Reconcile(r)
      PROVE  Good
  <2>1. /\ Exists(ships[r])
        /\ ships' = [ships EXCEPT ![r] = ReconcileRow(ships[r], now)]
    BY <1>6 DEF Reconcile
  <2>2. PaymentRow(ships[r], ReconcileRow(ships[r], now))
    BY <1>r, PaymentStatements
  <2> HIDE DEF Good
  <2>3. QED
    BY <2>1, <2>2, <1>0
<1>7. ASSUME NEW r \in Requests, NEW to \in AdminTargets, AdminSetStatus(r, to)
      PROVE  Good
  <2>1. /\ Exists(ships[r])
        /\ ships' = [ships EXCEPT ![r] = SetStatusIf(ships[r], ships[r].status, to, now)]
    BY <1>7 DEF AdminSetStatus
  <2>2. PaymentRow(ships[r], SetStatusIf(ships[r], ships[r].status, to, now))
    BY <1>r, PaymentStatements
  <2> HIDE DEF Good
  <2>3. QED
    BY <2>1, <2>2, <1>0
<1>8. QED
  BY <1>1, <1>2, <1>3, <1>4, <1>5, <1>6, <1>7
     DEF Next, PaymentNext, HandlerStep, StripeStep, AdminStep, CustomsRead,
         PayRead, PayReuse, PayFallThrough, PayReplay, PayCreate,
         WebhookUnknown, WebhookRead, CustomerPays, IntentCanceled, Abort, Tick

(* With blank absent rows, the second conjunct: no payment step reaches a  *)
(* row that is not there.                                                  *)
LEMMA AbsentStays ==
    ASSUME TypeOK, LocalsExist, AbsentIsBlank, Next
    PROVE  \A r \in Requests : ~Exists(ships[r]) => ships'[r] = ships[r]
  BY PaymentRows, TableAssumption DEF AbsentIsBlank

(* A handler that starts reads a row that is there, and rows stay.         *)
LEMMA LocalsExistStep ==
    ASSUME TypeOK, LocalsExist, AbsentIsBlank, Next
    PROVE  LocalsExist'
<1>h. /\ handlers \in [Handlers -> Locals]
      /\ \A h \in Handlers : handlers[h] \in Locals
  BY DEF TypeOK
<1>q. \A h \in Handlers : handlers[h] # Idle => handlers[h].req \in Requests
  BY <1>h DEF Locals
<1>0. ASSUME NEW r \in Requests, Exists(ships[r])
      PROVE  Exists(ships'[r])
  BY <1>0, PaymentRows DEF PaymentRow
<1> SUFFICES ASSUME NEW k \in Handlers
             PROVE  \/ handlers'[k] = handlers[k]
                    \/ handlers'[k] = Idle
                    \/ /\ handlers[k] # Idle
                       /\ handlers'[k].req = handlers[k].req
                    \/ /\ handlers'[k].req \in Requests
                       /\ Exists(ships[handlers'[k].req])
  BY <1>0, <1>q DEF LocalsExist, Exists
<1> USE DEF Goto, Return
<1>1. ASSUME NEW h \in Handlers, NEW r \in Requests,
             CustomsRead(h, r) \/ PayRead(h, r)
      PROVE  handlers'[k] = handlers[k] \/ (handlers'[k].req = r /\ Exists(ships[r]))
  BY <1>1, <1>h DEF CustomsRead, PayRead, Payable, Exists, Absent
<1>2. ASSUME NEW h \in Handlers,
             CustomsCommit(h) \/ PayReuse(h) \/ PaySave(h) \/ WebhookCommit(h)
                \/ Abort(h)
      PROVE  handlers'[k] = handlers[k] \/ handlers'[k] = Idle
  BY <1>2, <1>h DEF CustomsCommit, PayReuse, PaySave, WebhookCommit, Abort
<1>3. ASSUME NEW h \in Handlers, PayFallThrough(h)
      PROVE  \/ handlers'[k] = handlers[k]
             \/ handlers[k] # Idle /\ handlers'[k].req = handlers[k].req
  <2>1. handlers[h] # Idle
    BY <1>3 DEF PayFallThrough, Idle
  <2>2. [handlers[h] EXCEPT !.step = "create"].req = handlers[h].req
    BY <1>3, <1>h, LocalsFields DEF PayFallThrough
  <2>3. QED
    BY <1>3, <2>1, <2>2, <1>h DEF PayFallThrough
<1>4. ASSUME NEW h \in Handlers, PayReplay(h) \/ PayCreate(h)
      PROVE  \/ handlers'[k] = handlers[k]
             \/ handlers'[k] = Idle
             \/ handlers[k] # Idle /\ handlers'[k].req = handlers[k].req
  <2>1. handlers[h] # Idle
    BY <1>4 DEF PayReplay, PayCreate, Idle
  <2>2. \/ handlers' = [handlers EXCEPT ![h] = Idle]
        \/ \E i : handlers' = [handlers EXCEPT ![h] =
              [step |-> "save", req |-> handlers[h].req,
               updated |-> handlers[h].updated, intent |-> i]]
    BY <1>4 DEF PayReplay, PayCreate
  <2>3. QED
    BY <2>1, <2>2, <1>h
<1>5. ASSUME NEW h \in Handlers, NEW i \in Intents, WebhookRead(h, i)
      PROVE  \/ handlers'[k] = handlers[k]
             \/ handlers'[k].req \in Requests /\ Exists(ships[handlers'[k].req])
  <2>1. PICK r \in Requests :
           /\ ships[r].intent = i
           /\ handlers' = [handlers EXCEPT ![h] =
                 [step |-> "webhook", req |-> r, intent |-> i]]
    BY <1>5 DEF WebhookRead
  <2>2. Exists(ships[r])
    BY <2>1, TableAssumption DEF AbsentIsBlank
  <2>3. QED
    BY <2>1, <2>2, <1>h
<1>6. CASE UNCHANGED handlers
  BY <1>6
<1>7. QED
  BY <1>1, <1>2, <1>3, <1>4, <1>5, <1>6
     DEF Next, PaymentNext, HandlerStep, StripeStep, AdminStep, WebhookUnknown,
         WebhookMismatch, CustomerPays, IntentCanceled, Reconcile,
         AdminSetStatus, payVars

-----------------------------------------------------------------------------
(* The parts of LInv over a payment step: IInv by the proofs of            *)
(* ShipRequestPayment, the rest because the columns it reads stay.         *)
LEMMA PaymentKeepsLInv ==
    ASSUME LInv, Next, UNCHANGED fulfilVars
    PROVE  LInv'
<1> USE DEF LInv
<1>1. IInv'
  BY InductiveIInv
<1>2. TypeOK /\ TypeOK' /\ LocalsHold
  BY <1>1 DEF IInv
<1>3. FulfilmentTypeOK'
  <2>1. TableTypeOK'
    BY <1>2 DEF TypeOK
  <2>2. UNCHANGED <<items, shipped, manifests, links, clerks>>
    BY DEF fulfilVars
  <2>3. QED
    BY <2>1, <2>2 DEF FulfilmentTypeOK
<1>4. /\ \A r \in Requests : ~Exists(ships[r]) => ships'[r] = ships[r]
      /\ \A r \in Requests : Exists(ships[r]) => Exists(ships'[r])
  BY <1>2, AbsentStays, PaymentRows DEF PaymentRow
<1>5. \A r \in Requests : ships[r].payment = "paid" => ships'[r].payment = "paid"
  BY <1>2, PaymentSteps DEF PaymentColumns
<1>6. AbsentIsBlank'
  BY <1>4 DEF AbsentIsBlank, fulfilVars, Exists
<1>7. LocalsExist'
  BY <1>2, LocalsExistStep
<1>8. PagesPaid'
  <2>1. \A c \in Clerks : Looking(c) => clerks[c].req \in Requests
    BY DEF FulfilmentTypeOK, Looking, View, NoView
  <2>2. QED
    BY <2>1, <1>5 DEF PagesPaid, Looking, fulfilVars
<1>9. ManifestsHold'
  BY <1>4 DEF ManifestsHold, fulfilVars, Exists
<1>10. PackageOnOneRequest' /\ ShippedWithRequest'
  BY DEF PackageOnOneRequest, ShippedWithRequest, fulfilVars
<1>11. QED
  BY <1>1, <1>3, <1>6, <1>7, <1>8, <1>9, <1>10

-----------------------------------------------------------------------------
(* The parts of LInv over a warehouse step.                                *)

(* (A page lists paid rows, and a paid row is there.)                      *)
LEMMA FulfilmentTypeStep ==
    ASSUME FulfilmentTypeOK, AbsentIsBlank, FulfilmentNext
    PROVE  FulfilmentTypeOK'
<1>t. /\ ships \in [Requests -> Row]
      /\ \A r \in Requests : ships[r] \in Row
      /\ now \in Clock
      /\ clerks \in [Clerks -> View \cup {NoView}]
  BY DEF FulfilmentTypeOK, TableTypeOK
<1>c. \A c \in Clerks : Looking(c) =>
         clerks[c].req \in Requests /\ clerks[c].status \in Statuses
  BY DEF FulfilmentTypeOK, Looking, View, NoView
<1>1. TableTypeOK'
  <2> SUFFICES ASSUME NEW r \in Requests PROVE ships'[r] \in Row
    BY <1>t, WarehouseRows DEF TableTypeOK
  <2>1. WarehouseRow(r)
    BY WarehouseRows
  <2>2. \A from, to : SetStatusIf(ships[r], from, to, now) \in Row
    BY <1>t, StatementsKeepRowType
  <2>3. /\ ships[r] \in Row
        /\ \A total \in Totals : NewRow(total, now) \in Row
        /\ \A w \in Weights : SetWeight(ships[r], w, now) \in Row
        /\ \A bay \in Bays \cup {None}, m \in Manifests \cup {None} :
              SetStaged(ships[r], bay, m, now) \in Row
        /\ \A m \in Manifests : ShipOn(ships[r], m, now) \in Row
    BY <1>t, FulfilmentKeepsRowType
  <2>4. QED
    BY <2>1, <2>2, <2>3 DEF WarehouseRow
<1>2. ASSUME NEW r \in Requests, NEW ps \in SUBSET Packages, Create(r, ps)
      PROVE  FulfilmentTypeOK'
  BY <1>1, <1>2 DEF Create, FulfilmentTypeOK
<1>3. ASSUME NEW c \in Clerks, NEW r \in Requests, PickRow(c, r)
      PROVE  FulfilmentTypeOK'
  <2>1. ships[r].status \in Statuses /\ ships[r].bay \in Bays \cup {None}
    BY <1>3, <1>t DEF Row, PickRow, InQueue, AbsentIsBlank, Exists
  <2>2. [view |-> "row", req |-> r, status |-> ships[r].status,
         bay |-> ships[r].bay] \in View
    BY <2>1 DEF View
  <2>3. QED
    BY <1>1, <1>3, <2>2 DEF PickRow, FulfilmentTypeOK
<1>4. ASSUME NEW c \in Clerks,
             \/ Process(c) \/ Weigh(c)
             \/ \E bay \in Bays \cup {None}, m \in Manifests \cup {None} : Stage(c, bay, m)
      PROVE  FulfilmentTypeOK'
  <2>1. Close(c) /\ UNCHANGED <<items, shipped, manifests, links>>
    BY <1>4 DEF Process, Weigh, Stage
  <2>2. QED
    BY <1>1, <2>1 DEF Close, FulfilmentTypeOK
<1>5. ASSUME NEW m \in Manifests, NEW rs \in SUBSET Requests, CreateManifest(m, rs)
      PROVE  FulfilmentTypeOK'
  <2>1. PackagesOf(rs) \subseteq Packages
    BY DEF PackagesOf, FulfilmentTypeOK
  <2>2. QED
    BY <1>1, <1>5, <2>1 DEF CreateManifest, FulfilmentTypeOK
<1>6. QED
  BY <1>2, <1>3, <1>4, <1>5 DEF FulfilmentNext, ClerkStep

(* No warehouse statement touches the payment columns of a row: an insert  *)
(* leaves them as blank as they were.                                      *)
LEMMA WarehouseQuiet ==
    ASSUME LInv, FulfilmentNext, UNCHANGED payVars
    PROVE  /\ RowQuiet
           /\ \A r \in Requests : Exists(ships[r]) => Exists(ships'[r])
           /\ \A r \in Requests :
                 ships[r].weight # None => ships'[r].weight = ships[r].weight
<1>t. /\ \A r \in Requests : ships[r] \in Row
      /\ now \in Clock
      /\ AbsentIsBlank
  BY DEF LInv, FulfilmentTypeOK, TableTypeOK
<1>1. UNCHANGED <<paidEmails, reconciled>>
  BY DEF payVars
<1> SUFFICES ASSUME NEW r \in Requests
             PROVE  /\ ships'[r].payment = ships[r].payment
                    /\ ships'[r].emailed = ships[r].emailed
                    /\ ships'[r].intent = ships[r].intent
                    /\ Exists(ships[r]) => Exists(ships'[r])
                    /\ ships[r].weight # None => ships'[r].weight = ships[r].weight
  BY <1>1 DEF RowQuiet
<1>2. WarehouseRow(r)
  BY WarehouseRows DEF LInv
<1>3. ASSUME ~Exists(ships[r]), NEW total \in Totals, ships'[r] = NewRow(total, now)
      PROVE  /\ ships'[r].payment = ships[r].payment
             /\ ships'[r].emailed = ships[r].emailed
             /\ ships'[r].intent = ships[r].intent
             /\ ships[r].weight = None
  <2>1. /\ ships'[r].payment = "null" /\ ships'[r].emailed = FALSE
        /\ ships'[r].intent = None
    BY <1>3 DEF NewRow
  <2>2. /\ ships[r].payment = "null" /\ ships[r].emailed = FALSE
        /\ ships[r].intent = None /\ ships[r].weight = None
    BY <1>3, <1>t DEF AbsentIsBlank
  <2>3. QED
    BY <2>1, <2>2, Zenon
<1>4. ASSUME NEW c \in Clerks, StillAsSeen(c), clerks[c].req = r
      PROVE  clerks[c].status \in Statuses
  BY <1>4 DEF StillAsSeen, Looking, LInv, FulfilmentTypeOK, View, NoView
<1>5. CASE ships'[r] = ships[r]
  BY <1>5
<1>6. CASE \E c \in Clerks :
          /\ StillAsSeen(c) /\ clerks[c].req = r
          /\ ships'[r] = SetStatusIf(ships[r], clerks[c].status, "processing", now)
  BY <1>6, <1>4, <1>t, FulfilmentStatements DEF Exists, StillAsSeen, Absent
<1>7. CASE NotWeighed(ships[r]) /\ \E w \in Weights : ships'[r] = SetWeight(ships[r], w, now)
  BY <1>7, <1>t, FulfilmentStatements DEF Exists, NotWeighed
<1>8. CASE \E bay \in Bays \cup {None}, m \in Manifests \cup {None} :
              ships'[r] = SetStaged(ships[r], bay, m, now)
  BY <1>8, <1>t, FulfilmentStatements DEF Exists, Absent
<1>9. CASE \E m \in Manifests : ships'[r] = ShipOn(ships[r], m, now)
  BY <1>9, <1>t, FulfilmentStatements DEF Exists, Absent
<1>10. QED
  BY <1>2, <1>3, <1>5, <1>6, <1>7, <1>8, <1>9 DEF WarehouseRow

(* The payment invariant over a warehouse step: Stripe's books, the        *)
(* handlers and the payment columns are as before.                         *)
LEMMA WarehouseKeepsIInv ==
    ASSUME LInv, FulfilmentNext, UNCHANGED payVars
    PROVE  IInv'
<1>1. IInv /\ FulfilmentTypeOK' /\ RowQuiet
  BY FulfilmentTypeStep, WarehouseQuiet DEF LInv
<1>2. UNCHANGED <<handlers, stripe, delivery, handed, paidEmails, reconciled>>
  BY DEF payVars
<1>3. TypeOK'
  BY <1>1, <1>2 DEF IInv, TypeOK, FulfilmentTypeOK
<1>4. LocalsHold' /\ KeysHold'
  BY <1>1, <1>2 DEF IInv, LocalsHold, KeysHold, Charged, IdemKey
<1>5. IntentBelongsToRow'
  BY <1>1, <1>2 DEF IInv, IntentBelongsToRow, RowQuiet
<1>6. PaidEmailExactlyOnce'
  BY <1>1, <1>2 DEF IInv, PaidEmailExactlyOnce, RowQuiet
<1>7. PaidHasCause'
  <2>1. \A i \in Intents : Charged(i)' <=> Charged(i)
    BY <1>2 DEF Charged
  <2>2. QED
    BY <1>1, <1>2, <2>1 DEF IInv, PaidHasCause, RowQuiet
<1>8. QED
  BY <1>3, <1>4, <1>5, <1>6, <1>7 DEF IInv

(* The warehouse's own relations between requests, packages and manifests. *)
LEMMA WarehouseRelations ==
    ASSUME LInv, FulfilmentNext, UNCHANGED payVars
    PROVE  /\ PackageOnOneRequest' /\ ShippedWithRequest' /\ ManifestsHold'
           /\ \A r \in Requests : ~Exists(ships'[r]) => items'[r] = {}
<1> USE DEF LInv
<1>t. /\ items \in [Requests -> SUBSET Packages]
      /\ links \subseteq manifests \X Requests
  BY DEF FulfilmentTypeOK
<1>e. \A r \in Requests : Exists(ships[r]) => Exists(ships'[r])
  BY WarehouseQuiet
<1>1. ASSUME NEW r \in Requests, NEW ps \in SUBSET Packages, Create(r, ps)
      PROVE  /\ PackageOnOneRequest' /\ ShippedWithRequest' /\ ManifestsHold'
             /\ \A q \in Requests : ~Exists(ships'[q]) => items'[q] = {}
  <2>1. /\ items'[r] = ps
        /\ \A q \in Requests \ {r} : items'[q] = items[q]
        /\ UNCHANGED <<shipped, manifests, links>>
        /\ ~Exists(ships[r]) /\ items[r] = {}
    BY <1>1, <1>t DEF Create, AbsentIsBlank
  <2>2. \A q \in Requests : items[q] \cap ps = {}
    BY <1>1 DEF Create, OnFile
  <2>3. shipped \cap ps = {}
    BY <2>2 DEF ManifestsHold
  <2>4. ~ \E m \in manifests : <<m, r>> \in links
    BY <2>1 DEF ManifestsHold
  <2>5. PackageOnOneRequest'
    BY <2>1, <2>2 DEF PackageOnOneRequest
  <2>6. ShippedWithRequest'
    BY <2>1, <2>3, <2>4 DEF ShippedWithRequest
  <2>7. ManifestsHold'
    <3>1. \A q \in Requests : (\E m \in manifests' : <<m, q>> \in links') => Exists(ships'[q])
      BY <2>1, <1>e DEF ManifestsHold
    <3>2. \A p \in shipped : \E q \in Requests \ {r} : p \in items[q]
      BY <2>1 DEF ManifestsHold
    <3>3. QED
      BY <2>1, <3>1, <3>2 DEF ManifestsHold, Exists
  <2>8. Exists(ships'[r])
    BY <1>1 DEF Create, Exists, NewRow, Absent, FulfilmentTypeOK, TableTypeOK
  <2>9. QED
    BY <2>1, <2>5, <2>6, <2>7, <2>8, <1>e DEF AbsentIsBlank
<1>2. ASSUME UNCHANGED <<items, shipped, manifests, links>>
      PROVE  /\ PackageOnOneRequest' /\ ShippedWithRequest' /\ ManifestsHold'
             /\ \A q \in Requests : ~Exists(ships'[q]) => items'[q] = {}
  BY <1>2, <1>e DEF PackageOnOneRequest, ShippedWithRequest, ManifestsHold,
     AbsentIsBlank, Exists
<1>3. ASSUME NEW m \in Manifests, NEW rs \in SUBSET Requests, CreateManifest(m, rs)
      PROVE  /\ PackageOnOneRequest' /\ ShippedWithRequest' /\ ManifestsHold'
             /\ \A q \in Requests : ~Exists(ships'[q]) => items'[q] = {}
  <2>1. /\ items' = items
        /\ manifests' = manifests \cup {m}
        /\ links' = links \cup {<<m, r>> : r \in rs}
        /\ shipped' = shipped \cup UNION {items[r] : r \in rs}
        /\ \A r \in rs : Exists(ships[r])
        /\ m \notin manifests
    BY <1>3 DEF CreateManifest, PackagesOf
  <2>2. \A q \in Requests :
           (\E n \in manifests' : <<n, q>> \in links')
              <=> q \in rs \/ \E n \in manifests : <<n, q>> \in links
    BY <2>1, <1>t
  <2>3. PackageOnOneRequest'
    BY <2>1 DEF PackageOnOneRequest
  <2>4. ShippedWithRequest'
    <3> SUFFICES ASSUME NEW q \in Requests
                 PROVE  IF \E n \in manifests' : <<n, q>> \in links'
                        THEN items[q] \subseteq shipped'
                        ELSE items[q] \cap shipped' = {}
      BY <2>1 DEF ShippedWithRequest
    <3>1. CASE q \in rs
      BY <2>1, <2>2, <3>1
    <3>2. CASE q \notin rs /\ \E n \in manifests : <<n, q>> \in links
      BY <2>1, <2>2, <3>2 DEF ShippedWithRequest
    <3>3. CASE q \notin rs /\ ~ \E n \in manifests : <<n, q>> \in links
      <4>1. items[q] \cap shipped = {}
        BY <3>3 DEF ShippedWithRequest
      <4>2. \A r \in rs : items[q] \cap items[r] = {}
        BY <3>3 DEF PackageOnOneRequest
      <4>3. QED
        BY <2>1, <2>2, <3>3, <4>1, <4>2
    <3>4. QED
      BY <3>1, <3>2, <3>3
  <2>5. ManifestsHold'
    <3>1. \A q \in Requests : (\E n \in manifests' : <<n, q>> \in links') => Exists(ships'[q])
      BY <2>1, <2>2, <1>e DEF ManifestsHold
    <3>2. \A p \in shipped' : \E q \in Requests : p \in items'[q]
      BY <2>1 DEF ManifestsHold
    <3>3. QED
      BY <3>1, <3>2 DEF ManifestsHold, Exists
  <2>6. QED
    BY <2>1, <2>3, <2>4, <2>5, <1>e DEF AbsentIsBlank
<1>4. QED
  BY <1>1, <1>2, <1>3
     DEF FulfilmentNext, ClerkStep, PickRow, Process, Weigh, Stage

(* LInv over a warehouse step.                                             *)
LEMMA WarehouseKeepsLInv ==
    ASSUME LInv, FulfilmentNext, UNCHANGED payVars
    PROVE  LInv'
<1> USE DEF LInv
<1>q. /\ RowQuiet
      /\ \A r \in Requests : Exists(ships[r]) => Exists(ships'[r])
  BY WarehouseQuiet
<1>1. IInv'
  BY WarehouseKeepsIInv
<1>2. FulfilmentTypeOK'
  BY FulfilmentTypeStep
<1>3. /\ PackageOnOneRequest' /\ ShippedWithRequest' /\ ManifestsHold'
      /\ \A r \in Requests : ~Exists(ships'[r]) => items'[r] = {}
  BY WarehouseRelations
<1>4. AbsentIsBlank'
  <2> SUFFICES ASSUME NEW r \in Requests, ~Exists(ships'[r])
               PROVE  /\ ships'[r].payment = "null" /\ ships'[r].emailed = FALSE
                      /\ ships'[r].intent = None /\ ships'[r].weight = None
                      /\ items'[r] = {}
    BY DEF AbsentIsBlank, Exists
  <2>1. ~Exists(ships[r])
    BY <1>q
  <2>2. /\ ships[r].payment = "null" /\ ships[r].emailed = FALSE
        /\ ships[r].intent = None /\ ships[r].weight = None
    BY <2>1 DEF AbsentIsBlank
  <2>3. ships'[r] = ships[r]
    <3>1. WarehouseRow(r)
      BY WarehouseRows
    <3>2. \A total \in Totals : Exists(NewRow(total, now))
      BY DEF Exists, NewRow, Absent
    <3>3. ASSUME NEW c \in Clerks, StillAsSeen(c), clerks[c].req = r
          PROVE  FALSE
      BY <3>3, <2>2 DEF PagesPaid, StillAsSeen
    <3>4. QED
      BY <2>1, <3>1, <3>2, <3>3 DEF WarehouseRow, Exists
  <2>4. QED
    BY <2>2, <2>3, <1>3
<1>5. LocalsExist'
  <2>1. \A h \in Handlers : handlers[h] # Idle => handlers[h].req \in Requests
    BY DEF IInv, TypeOK, Locals
  <2>2. QED
    BY <2>1, <1>q DEF LocalsExist, Exists, payVars
<1>6. PagesPaid'
  <2>1. \A c \in Clerks : Looking(c) => clerks[c].req \in Requests
    BY DEF FulfilmentTypeOK, Looking, View, NoView
  <2>2. clerks \in [Clerks -> View \cup {NoView}]
    BY DEF FulfilmentTypeOK
  <2> SUFFICES ASSUME NEW c \in Clerks, Looking(c)'
               PROVE  ships'[clerks'[c].req].payment = "paid"
    BY DEF PagesPaid
  <2>3. CASE clerks'[c] = clerks[c]
    BY <2>1, <2>3, <1>q DEF PagesPaid, Looking, RowQuiet
  <2>4. ASSUME NEW d \in Clerks, NEW r \in Requests, PickRow(d, r), clerks'[c] # clerks[c]
        PROVE  ships'[clerks'[c].req].payment = "paid"
    BY <2>4, <2>2 DEF PickRow, InQueue
  <2>5. ASSUME NEW d \in Clerks, Close(d), clerks'[c] # clerks[c]
        PROVE  FALSE
    BY <2>5, <2>2 DEF Close, Looking, NoView
  <2>6. QED
    BY <2>3, <2>4, <2>5
       DEF FulfilmentNext, ClerkStep, Create, Process, Weigh, Stage, CreateManifest
<1>7. QED
  BY <1>1, <1>2, <1>3, <1>4, <1>5, <1>6

-----------------------------------------------------------------------------
(* Nothing is inserted yet, and the page of every clerk is closed.         *)
LEMMA LifecycleInitLInv == LifecycleInit => LInv
<1> SUFFICES ASSUME LifecycleInit PROVE LInv
  OBVIOUS
<1> USE DEF LifecycleInit, PayInit, FulfilmentInit
<1>1. 0 \in Clock /\ (CHOOSE t \in Totals : TRUE) \in Totals
  BY TableAssumption, LifecycleAssumption DEF Clock
<1>2. NoRow \in Row
  BY <1>1 DEF NoRow, NewRow, Row, Statuses, PaymentStatuses
<1>3. /\ NoRow.status = Absent /\ NoRow.payment = "null" /\ NoRow.emailed = FALSE
      /\ NoRow.intent = None /\ NoRow.weight = None
  BY DEF NoRow, NewRow
<1>4. \A r \in Requests : ships[r] = NoRow
  OBVIOUS
<1>5. TypeOK
  BY <1>1, <1>2 DEF TypeOK, TableTypeOK, Locals
<1>6. FulfilmentTypeOK
  BY <1>5 DEF FulfilmentTypeOK, TypeOK
<1>7. AbsentIsBlank
  BY <1>3, <1>4 DEF AbsentIsBlank
<1>8. LocalsExist /\ PagesPaid /\ ManifestsHold
  BY DEF LocalsExist, PagesPaid, Looking, NoView, ManifestsHold
<1>9. PackageOnOneRequest /\ ShippedWithRequest
  BY DEF PackageOnOneRequest, ShippedWithRequest
<1>10. LocalsHold /\ KeysHold
  BY DEF LocalsHold, KeysHold, Idle
<1>11. IntentBelongsToRow /\ PaidEmailExactlyOnce /\ PaidHasCause
  BY <1>3, <1>4 DEF IntentBelongsToRow, PaidEmailExactlyOnce, PaidHasCause
<1>12. QED
  BY <1>5, <1>6, <1>7, <1>8, <1>9, <1>10, <1>11 DEF LInv, IInv

(* The two kinds of step, for the theorems below: each is a payment step,  *)
(* a warehouse step, or leaves everything as it was.                       *)
LEMMA LifecycleCases ==
    ASSUME [LifecycleNext]_lifecycleVars
    PROVE  \/ Next /\ UNCHANGED fulfilVars
           \/ FulfilmentNext /\ UNCHANGED payVars
           \/ UNCHANGED <<vars, fulfilVars>>
  BY DEF LifecycleNext, lifecycleVars, Next, vars, payVars, fulfilVars

(* LInv is inductive: by PaymentKeepsLInv and WarehouseKeepsLInv.          *)
LEMMA LifecycleInvariant == LifecycleSpec => []LInv
<1>1. LifecycleInit => LInv
  BY LifecycleInitLInv
<1>2. LInv /\ [LifecycleNext]_lifecycleVars => LInv'
  <2> SUFFICES ASSUME LInv, [LifecycleNext]_lifecycleVars PROVE LInv'
    OBVIOUS
  <2>1. CASE UNCHANGED <<vars, fulfilVars>>
    <3> USE <2>1 DEF vars, fulfilVars
    <3>1. IInv'
      BY InductiveIInv DEF LInv
    <3>2. FulfilmentTypeOK'
      BY DEF LInv, FulfilmentTypeOK, TableTypeOK
    <3>3. AbsentIsBlank' /\ LocalsExist' /\ ManifestsHold'
      BY DEF LInv, AbsentIsBlank, LocalsExist, ManifestsHold, Exists
    <3>4. PagesPaid'
      BY DEF LInv, PagesPaid, Looking
    <3>5. PackageOnOneRequest' /\ ShippedWithRequest'
      BY DEF LInv, PackageOnOneRequest, ShippedWithRequest
    <3>6. QED
      BY <3>1, <3>2, <3>3, <3>4, <3>5 DEF LInv
  <2>2. QED
    BY <2>1, LifecycleCases, PaymentKeepsLInv, WarehouseKeepsLInv
<1>3. QED
  BY <1>1, <1>2, PTL DEF LifecycleSpec

-----------------------------------------------------------------------------
(* Rows, locals, pages, items and manifests keep their types when payment  *)
(* and warehouse work on one table: no page ever shows a row that is not   *)
(* there.                                                                  *)
THEOREM LifecycleTypeCorrect == LifecycleSpec => [](TypeOK /\ FulfilmentTypeOK)
<1>1. LInv => TypeOK /\ FulfilmentTypeOK
  BY DEF LInv, IInv
<1>2. QED
  BY <1>1, LifecycleInvariant, PTL

(* What the payment handlers promise they keep when the warehouse works on *)
(* the same rows: one confirmation per paid request, and a cause for it.   *)
THEOREM PaymentSurvivesWarehouse ==
    LifecycleSpec => [](PaidEmailExactlyOnce /\ PaidHasCause)
<1>1. LInv => PaidEmailExactlyOnce /\ PaidHasCause
  BY DEF LInv, IInv
<1>2. QED
  BY <1>1, LifecycleInvariant, PTL

(* The intent on a row was opened for that row, also when rows are         *)
(* inserted, weighed, staged and shipped meanwhile.                        *)
THEOREM LifecycleIntentCorrect == LifecycleSpec => []IntentBelongsToRow
<1>1. LInv => IntentBelongsToRow
  BY DEF LInv, IInv
<1>2. QED
  BY <1>1, LifecycleInvariant, PTL

(* Packages leave with their request's manifest, all of them and no other, *)
(* whatever requests one manifest or several take (the transaction of      *)
(* warehouseManifestsCreate).                                               *)
THEOREM ShippedWithRequestCorrect == LifecycleSpec => []ShippedWithRequest
<1>1. LInv => ShippedWithRequest
  BY DEF LInv
<1>2. QED
  BY <1>1, LifecycleInvariant, PTL

(* A recorded weight stays, however old the pages clerks weigh from and    *)
(* whatever payment does to the row (warehouseShipQueueWeighed).           *)
THEOREM WeightWriteOnceCorrect == LifecycleSpec => WeightWriteOnce
<1>1. LInv /\ [LifecycleNext]_lifecycleVars =>
         [\A r \in Requests :
             ships[r].weight # None => ships'[r].weight = ships[r].weight]_ships
  <2> SUFFICES ASSUME LInv, [LifecycleNext]_lifecycleVars, ships' # ships,
                      NEW r \in Requests, ships[r].weight # None
               PROVE  ships'[r].weight = ships[r].weight
    OBVIOUS
  <2>1. CASE Next
    BY <2>1, PaymentRows DEF LInv, IInv, PaymentRow
  <2>2. CASE FulfilmentNext /\ UNCHANGED payVars
    BY <2>2, WarehouseQuiet
  <2>3. QED
    BY <2>1, <2>2, LifecycleCases DEF vars
<1>2. QED
  BY <1>1, LifecycleInvariant, PTL DEF LifecycleSpec, WeightWriteOnce

-----------------------------------------------------------------------------
(* Nobody weighs a package nobody paid for: the queue lists paid rows      *)
(* only, and neither side takes payment_status back.                       *)
WeighedOnlyIfPaid ==
    \A r \in Requests : ships[r].weight # None => ships[r].payment = "paid"

(* Payment is never taken back by either side.                             *)
LEMMA PaidStays ==
    ASSUME LInv, [LifecycleNext]_lifecycleVars,
           NEW r \in Requests, ships[r].payment = "paid"
    PROVE  ships'[r].payment = "paid"
<1>1. CASE Next
  BY <1>1, PaymentSteps DEF LInv, IInv, PaymentColumns
<1>2. CASE FulfilmentNext /\ UNCHANGED payVars
  BY <1>2, WarehouseQuiet DEF RowQuiet
<1>3. QED
  BY <1>1, <1>2, LifecycleCases DEF vars

(* A step that puts a row to 'processing' or 'staged', or records a        *)
(* weight, is a clerk's on a paid row, or an admin's override.             *)
LEMMA WorkOnPaidRow ==
    ASSUME LInv, [LifecycleNext]_lifecycleVars, NEW r \in Requests
    PROVE  /\ ships'[r].weight # None =>
                 ships[r].weight # None \/ ships[r].payment = "paid"
           /\ ships'[r].status \in {"processing", "staged"} =>
                 \/ ships[r].status \in {"processing", "staged"}
                 \/ ships[r].payment = "paid"
                 \/ ships'[r].status \in AdminTargets
<1>t. ships[r] \in Row /\ now \in Clock /\ PagesPaid
  BY DEF LInv, FulfilmentTypeOK, TableTypeOK
<1>1. CASE Next
  BY <1>1, PaymentRows DEF LInv, IInv, PaymentRow
<1>2. CASE FulfilmentNext
  <2>1. WarehouseRow(r)
    BY <1>2, WarehouseRows DEF LInv
  <2>2. ASSUME NEW c \in Clerks, StillAsSeen(c), clerks[c].req = r
        PROVE  ships[r].payment = "paid"
    BY <2>2, <1>t DEF PagesPaid, StillAsSeen
  <2>3. \A total \in Totals : /\ NewRow(total, now).weight = None
                              /\ NewRow(total, now).status = "draft"
    BY DEF NewRow
  <2>4. CASE ships'[r] = ships[r] \/ \E total \in Totals : ships'[r] = NewRow(total, now)
    BY <2>3, <2>4
  <2>5. CASE \E c \in Clerks : StillAsSeen(c) /\ clerks[c].req = r
    BY <2>2, <2>5
  <2>6. CASE \E m \in Manifests : ships'[r] = ShipOn(ships[r], m, now)
    BY <2>6, <1>t, FulfilmentStatements
  <2>7. QED
    BY <2>1, <2>4, <2>5, <2>6 DEF WarehouseRow
<1>3. CASE UNCHANGED ships
  BY <1>3
<1>4. QED
  BY <1>1, <1>2, <1>3, LifecycleCases DEF vars

(* Paid stays paid when the warehouse works on the rows too: no weighing,  *)
(* staging or shipping from an old page writes an older payment_status     *)
(* back (the warehouse UPDATEs name their columns).                        *)
THEOREM LifecycleStickyCorrect == LifecycleSpec => PaymentSticky
<1>1. LInv /\ [LifecycleNext]_lifecycleVars =>
         [\A r \in Requests :
             ships[r].payment = "paid" => ships'[r].payment = "paid"]_vars
  BY PaidStays
<1>2. QED
  BY <1>1, LifecycleInvariant, PTL DEF LifecycleSpec, PaymentSticky

(* A row with a weight on it is paid, whatever statuses admins set: the    *)
(* half of FulfilledOnlyIfPaid that holds without a condition              *)
(* (warehouseShipQueueWeighed, warehouseShipQueueList).                    *)
THEOREM WeighedOnlyIfPaidCorrect == LifecycleSpec => []WeighedOnlyIfPaid
<1>1. LifecycleInit => WeighedOnlyIfPaid
  <2>1. NoRow.weight = None
    BY DEF NoRow, NewRow
  <2>2. QED
    BY <2>1 DEF LifecycleInit, WeighedOnlyIfPaid
<1>2. LInv /\ WeighedOnlyIfPaid /\ [LifecycleNext]_lifecycleVars => WeighedOnlyIfPaid'
  BY PaidStays, WorkOnPaidRow DEF WeighedOnlyIfPaid
<1>3. QED
  BY <1>1, <1>2, LifecycleInvariant, PTL DEF LifecycleSpec

(* Warehouse work is done only on paid requests, as long as no admin       *)
(* overrides a status to 'processing' or 'staged' by hand -- the handler   *)
(* adminShipRequestUpdateStatus takes any target.                          *)
THEOREM FulfilledOnlyIfPaidCorrect ==
    ASSUME AdminTargets \cap {"processing", "staged"} = {}
    PROVE  LifecycleSpec => []FulfilledOnlyIfPaid
<1>1. LifecycleInit => FulfilledOnlyIfPaid
  <2>1. NoRow.status = Absent /\ NoRow.weight = None
    BY DEF NoRow, NewRow
  <2>2. QED
    BY <2>1 DEF LifecycleInit, FulfilledOnlyIfPaid, Absent
<1>2. LInv /\ FulfilledOnlyIfPaid /\ [LifecycleNext]_lifecycleVars => FulfilledOnlyIfPaid'
  BY PaidStays, WorkOnPaidRow DEF FulfilledOnlyIfPaid
<1>3. QED
  BY <1>1, <1>2, LifecycleInvariant, PTL DEF LifecycleSpec

(* A row that says 'shipped' names a manifest it is linked to, as long as  *)
(* no admin overrides a status to 'shipped' by hand.                       *)
THEOREM ShippedOnManifestCorrect ==
    ASSUME "shipped" \notin AdminTargets
    PROVE  LifecycleSpec => []ShippedOnManifest
<1>1. LifecycleInit => ShippedOnManifest
  BY DEF LifecycleInit, ShippedOnManifest, NoRow, NewRow, Absent
<1>2. LInv /\ ShippedOnManifest /\ [LifecycleNext]_lifecycleVars => ShippedOnManifest'
  <2> SUFFICES ASSUME LInv, ShippedOnManifest, [LifecycleNext]_lifecycleVars,
                      NEW r \in Requests, ships'[r].status = "shipped"
               PROVE  <<ships'[r].manifest, r>> \in links'
    BY DEF ShippedOnManifest
  <2>t. ships[r] \in Row /\ now \in Clock /\ FulfilmentTypeOK
    BY DEF LInv, FulfilmentTypeOK, TableTypeOK
  <2>1. CASE Next /\ UNCHANGED fulfilVars
    BY <2>1, PaymentRows DEF LInv, IInv, PaymentRow, ShippedOnManifest, fulfilVars
  <2>2. CASE FulfilmentNext
    <3>1. WarehouseRow(r) /\ links \subseteq links'
      BY <2>2, <2>t, WarehouseRows
    <3>2. ASSUME NEW c \in Clerks, StillAsSeen(c), clerks[c].req = r
          PROVE  clerks[c].status \in Statuses /\ ships[r].status = clerks[c].status
      BY <3>2, <2>t DEF StillAsSeen, Looking, FulfilmentTypeOK, View, NoView
    <3>3. \A total \in Totals : NewRow(total, now).status = "draft"
      BY DEF NewRow
    <3>4. ships[r].status = "shipped" => <<ships[r].manifest, r>> \in links
      BY DEF ShippedOnManifest
    <3>5. CASE \E c \in Clerks :
              /\ StillAsSeen(c) /\ clerks[c].req = r
              /\ ships'[r] = SetStatusIf(ships[r], clerks[c].status, "processing", now)
      BY <3>2, <3>5, <2>t, FulfilmentStatements
    <3>6. CASE \E w \in Weights : ships'[r] = SetWeight(ships[r], w, now)
      BY <3>1, <3>4, <3>6, <2>t, FulfilmentStatements
    <3>7. CASE \E bay \in Bays \cup {None}, m \in Manifests \cup {None} :
                  ships'[r] = SetStaged(ships[r], bay, m, now)
      BY <3>7, <2>t, FulfilmentStatements
    <3>8. CASE \E m \in Manifests :
                  <<m, r>> \in links' /\ ships'[r] = ShipOn(ships[r], m, now)
      BY <3>8, <2>t, FulfilmentStatements
    <3>9. QED
      BY <3>1, <3>3, <3>4, <3>5, <3>6, <3>7, <3>8 DEF WarehouseRow
  <2>3. CASE UNCHANGED <<vars, fulfilVars>>
    BY <2>3 DEF ShippedOnManifest, vars, fulfilVars
  <2>4. QED
    BY <2>1, <2>2, <2>3, LifecycleCases
<1>3. QED
  BY <1>1, <1>2, LifecycleInvariant, PTL DEF LifecycleSpec

-----------------------------------------------------------------------------
(* Refinement.  The payment promise survives the composition: a payment    *)
(* step implements it as in ShipRequestPayment, a warehouse step is a      *)
(* stutter.                                                                *)
THEOREM LifecycleKeepsPromise == LifecycleSpec => KeepsPromise
<1>1. LifecycleInit => Promise!Init
  <2> SUFFICES ASSUME LifecycleInit PROVE Promise!Init
    OBVIOUS
  <2>1. NoRow.payment = "null"
    BY DEF NoRow, NewRow
  <2>2. ChargedFor = {} /\ PaidRows = {}
    BY <2>1 DEF LifecycleInit, PayInit, ChargedFor, PaidRows, Charged, Unused
  <2>3. QED
    BY <2>2, PromiseUnfold DEF LifecycleInit, PayInit
<1>2. LInv /\ [LifecycleNext]_lifecycleVars => [Promise!Next]_(Promise!vars)
  <2> SUFFICES ASSUME LInv, [LifecycleNext]_lifecycleVars
               PROVE  [Promise!Next]_(Promise!vars)
    OBVIOUS
  <2>1. CASE [Next]_vars
    BY <2>1, PromiseStep DEF LInv
  <2>2. CASE FulfilmentNext /\ UNCHANGED payVars
    <3>1. PaidRows' = PaidRows
      BY <2>2, WarehouseQuiet DEF RowQuiet, PaidRows
    <3>2. ChargedFor' = ChargedFor /\ UNCHANGED <<paidEmails, reconciled>>
      BY <2>2 DEF payVars, ChargedFor, Charged
    <3>3. QED
      BY <3>1, <3>2, PromiseUnfold
  <2>3. QED
    BY <2>1, <2>2, LifecycleCases
<1>3. QED
  BY <1>1, <1>2, LifecycleInvariant, PTL DEF LifecycleSpec, KeepsPromise, Promise!Spec
-----------------------------------------------------------------------------
(* What Stripe is told.  A 200 makes it forget the event, so it may be     *)
(* given only when nothing is left to do for it: the request of a charge   *)
(* that is acknowledged is paid by then, or the intent is on no row, and   *)
(* an acknowledgement is never asked for again.  That last case is the     *)
(* charge that ChargeGetsRecorded does not promise to record.              *)
AckSettles ==
    [][\A i \in Intents :
          /\ delivery[i] = "acked" => delivery'[i] = "acked"
          /\ delivery[i] # "acked" /\ delivery'[i] = "acked" =>
                /\ Charged(i)
                /\ \/ ships'[stripe[i].req].payment = "paid"
                   \/ \A r \in Requests : ships[r].intent # i]_lifecycleVars

(* Only a charge has an event.                                             *)
EventsHold == \A i \in Intents : delivery[i] # "none" => Charged(i)

(* What a step does to the event of one intent.                            *)
LEMMA EventSteps ==
    ASSUME LInv, EventsHold, [LifecycleNext]_lifecycleVars, NEW i \in Intents
    PROVE  /\ Charged(i) => Charged(i)'
           /\ \/ delivery'[i] = delivery[i]
              \/ delivery'[i] = "due" /\ ~Charged(i) /\ Charged(i)'
              \/ delivery'[i] = "refused" /\ Charged(i) /\ delivery[i] # "acked"
              \/ /\ delivery'[i] = "acked" /\ Charged(i)
                 /\ \/ ships'[stripe[i].req].payment = "paid"
                    \/ \A r \in Requests : ships[r].intent # i
<1> DEFINE Goal ==
       /\ Charged(i) => Charged(i)'
       /\ \/ delivery'[i] = delivery[i]
          \/ delivery'[i] = "due" /\ ~Charged(i) /\ Charged(i)'
          \/ delivery'[i] = "refused" /\ Charged(i) /\ delivery[i] # "acked"
          \/ /\ delivery'[i] = "acked" /\ Charged(i)
             /\ \/ ships'[stripe[i].req].payment = "paid"
                \/ \A r \in Requests : ships[r].intent # i
<1>t. /\ ships \in [Requests -> Row]
      /\ \A h \in Handlers : handlers[h] \in Locals
      /\ stripe \in [Intents -> {Unused} \cup PaymentIntent]
      /\ delivery \in [Intents -> {"none", "due", "acked", "refused"}]
      /\ LocalsHold
  BY DEF LInv, IInv, TypeOK, TableTypeOK
<1>1. CASE UNCHANGED <<stripe, delivery>>
  BY <1>1 DEF Charged
<1>2. ASSUME NEW h \in Handlers, WebhookCommit(h)
      PROVE  Goal
  <2> DEFINE me == handlers[h]
  <2>1. /\ me.req \in Requests /\ me.intent \in Intents
        /\ Charged(me.intent) /\ stripe[me.intent].req = me.req
    BY <1>2, <1>t, LocalsFields DEF WebhookCommit, LocalsHold
  <2>2. ships'[me.req].payment = "paid"
    <3>1. CASE NotYetPaid(ships[me.req])
      <4>1. ships'[me.req] = SetPaid(ships[me.req], now)
        BY <1>2, <1>t, <2>1, <3>1 DEF WebhookCommit
      <4>2. ships[me.req] \in Row
        BY <1>t, <2>1
      <4>3. QED
        BY <4>1, <4>2 DEF SetPaid, Row
    <3>2. CASE ~NotYetPaid(ships[me.req])
      BY <1>2, <3>2 DEF WebhookCommit, NotYetPaid
    <3>3. QED
      BY <3>1, <3>2
  <2>3. delivery' = [delivery EXCEPT ![me.intent] = "acked"] /\ stripe' = stripe
    BY <1>2 DEF WebhookCommit
  <2>4. QED
    BY <1>t, <2>1, <2>2, <2>3 DEF Charged
<1>3. ASSUME NEW j \in Intents, WebhookUnknown(j)
      PROVE  Goal
  BY <1>3, <1>t DEF WebhookUnknown, IntentSucceeded, Charged
<1>4. ASSUME NEW j \in Intents, WebhookMismatch(j)
      PROVE  Goal
  BY <1>4, <1>t DEF WebhookMismatch, IntentSucceeded, Charged
<1>5. ASSUME NEW j \in Intents, CustomerPays(j) \/ IntentCanceled(j)
      PROVE  Goal
  <2>1. stripe[j] \in PaymentIntent
    BY <1>5, <1>t DEF CustomerPays, IntentCanceled, Unused
  <2>2. CASE CustomerPays(j)
    <3>1. stripe'[j].state = "succeeded" /\ stripe[j].state = "open"
      BY <1>t, <2>1, <2>2 DEF CustomerPays, PaymentIntent
    <3>2. QED
      BY <1>t, <2>2, <3>1 DEF CustomerPays, Charged
  <2>3. CASE IntentCanceled(j)
    BY <1>t, <2>3 DEF IntentCanceled, Charged
  <2>4. QED
    BY <1>5, <2>2, <2>3
<1>6. ASSUME NEW h \in Handlers, PayCreate(h)
      PROVE  Goal
  <2>1. PICK j \in Intents :
           /\ stripe[j] = Unused
           /\ \A k \in Intents \ {j} : stripe'[k] = stripe[k]
    BY <1>6, <1>t DEF PayCreate
  <2>2. ~Charged(j)
    BY <2>1 DEF Charged, Unused
  <2>3. QED
    BY <1>6, <2>1, <2>2 DEF PayCreate, Charged
<1>7. CASE Next
  BY <1>1, <1>2, <1>3, <1>4, <1>5, <1>6, <1>7
     DEF Next, PaymentNext, HandlerStep, StripeStep, AdminStep, CustomsRead, PayRead,
         WebhookRead, CustomsCommit, PayReuse, PayFallThrough, PayReplay, PaySave,
         Abort, Reconcile, AdminSetStatus, Tick, payVars
<1>8. CASE UNCHANGED payVars
  BY <1>1, <1>8 DEF payVars
<1>9. QED
  BY <1>7, <1>8, LifecycleCases DEF vars, payVars

(* A webhook call that answers 200 to a charge leaves its request paid, or *)
(* found its intent on no row; whatever the warehouse, other events and    *)
(* admins do between its read and its transaction (stripeWebhook,          *)
(* reconcileShipRequestByPaymentIntent).                                   *)
THEOREM AckSettlesCorrect == LifecycleSpec => AckSettles
<1>1. LifecycleInit => EventsHold
  BY DEF LifecycleInit, PayInit, EventsHold
<1>2. LInv /\ EventsHold /\ [LifecycleNext]_lifecycleVars => EventsHold'
  <2> SUFFICES ASSUME LInv, EventsHold, [LifecycleNext]_lifecycleVars,
                      NEW i \in Intents, delivery'[i] # "none"
               PROVE  Charged(i)'
    BY DEF EventsHold
  <2>1. QED
    BY EventSteps DEF EventsHold
<1>3. LInv /\ EventsHold /\ [LifecycleNext]_lifecycleVars =>
         [\A i \in Intents :
             /\ delivery[i] = "acked" => delivery'[i] = "acked"
             /\ delivery[i] # "acked" /\ delivery'[i] = "acked" =>
                   /\ Charged(i)
                   /\ \/ ships'[stripe[i].req].payment = "paid"
                      \/ \A r \in Requests : ships[r].intent # i]_lifecycleVars
  <2> SUFFICES ASSUME LInv, EventsHold, [LifecycleNext]_lifecycleVars, NEW i \in Intents
               PROVE  /\ delivery[i] = "acked" => delivery'[i] = "acked"
                      /\ delivery[i] # "acked" /\ delivery'[i] = "acked" =>
                            /\ Charged(i)
                            /\ \/ ships'[stripe[i].req].payment = "paid"
                               \/ \A r \in Requests : ships[r].intent # i
    OBVIOUS
  <2>1. delivery[i] = "acked" => Charged(i)
    BY DEF EventsHold
  <2>2. QED
    BY <2>1, EventSteps
<1>4. QED
  BY <1>1, <1>2, <1>3, LifecycleInvariant, PTL DEF LifecycleSpec, AckSettles
=============================================================================
