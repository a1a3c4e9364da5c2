---------------------------- MODULE OutboxPromise ----------------------------
(***************************************************************************)
(* What the outbound email queue promises its callers: a queued email is   *)
(* handed to the provider until it is settled; settled is for good; 'sent' *)
(* means that the provider has it.                                         *)
(***************************************************************************)
CONSTANT Emails

VARIABLES
    state,         \* "absent", "queued", "sent" or "failed", per email
    accepted       \* emails the provider has accepted

vars == <<state, accepted>>

Init ==
    /\ state = [e \in Emails |-> "absent"]
    /\ accepted = {}

Enqueue(e) ==
    /\ state[e] = "absent"
    /\ state' = [state EXCEPT ![e] = "queued"]
    /\ UNCHANGED accepted

Accept(e) ==
    /\ state[e] = "queued"
    /\ accepted' = accepted \cup {e}
    /\ UNCHANGED state

Settle(e) ==
    /\ state[e] = "queued"
    /\ \/ e \in accepted /\ state' = [state EXCEPT ![e] = "sent"]
       \/ state' = [state EXCEPT ![e] = "failed"]
    /\ UNCHANGED accepted

Next == \E e \in Emails : Enqueue(e) \/ Accept(e) \/ Settle(e)

Spec == Init /\ [][Next]_vars
=============================================================================
