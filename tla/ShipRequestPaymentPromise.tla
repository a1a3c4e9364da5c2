---------------------- MODULE ShipRequestPaymentPromise ----------------------
(***************************************************************************)
(* What paying for a ship request promises, without handlers, statements   *)
(* or PaymentIntents: money may be taken for a request; a request whose    *)
(* money was taken is confirmed at most once, and the confirmation and its *)
(* email are one step; an admin may declare a request paid at any time;    *)
(* nobody can make a paid request unpaid.  ShipRequestPayment implements   *)
(* this specification.                                                     *)
(***************************************************************************)
EXTENDS Naturals

CONSTANT Requests

VARIABLES
    charged,       \* requests money was taken for
    paid,          \* requests on record as paid
    emails,        \* confirmations sent, per request
    declared       \* requests an admin declared paid

vars == <<charged, paid, emails, declared>>

Init ==
    /\ charged = {}
    /\ paid = {}
    /\ emails = [r \in Requests |-> 0]
    /\ declared = {}

(* More than one charge for one request is possible: a changed row makes   *)
(* the next pay call open another intent.                                  *)
Charge(r) ==
    /\ charged' = charged \cup {r}
    /\ UNCHANGED <<paid, emails, declared>>

Confirm(r) ==
    /\ r \in charged \ paid
    /\ paid' = paid \cup {r}
    /\ emails' = [emails EXCEPT ![r] = @ + 1]
    /\ UNCHANGED <<charged, declared>>

Declare(r) ==
    /\ paid' = paid \cup {r}
    /\ declared' = declared \cup {r}
    /\ UNCHANGED <<charged, emails>>

Next == \E r \in Requests : Charge(r) \/ Confirm(r) \/ Declare(r)

Spec == Init /\ [][Next]_vars
=============================================================================
