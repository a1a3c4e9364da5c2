---------------------------- MODULE RecencyPromise ----------------------------
(***************************************************************************)
(* What a bounded cache promises about which keys it keeps: a key that is  *)
(* used becomes younger than all others, and a key makes room for another  *)
(* only when the cache is full and no key is older.  The order in time is  *)
(* a relation; no list and no map are mentioned.                           *)
(***************************************************************************)
EXTENDS FiniteSets, Naturals

CONSTANTS Keys, Cap

VARIABLES
    held,          \* the keys that are kept
    before,        \* pairs <<j, k>>: j was last used before k
    latest         \* the key last used, which may be gone by now

vars == <<held, before, latest>>

Init == held = {} /\ before = {} /\ latest = "none"

(* The order after k is used, among the keys in S.                         *)
Last(k, S) == {p \in before : p[1] \in S \ {k} /\ p[2] \in S \ {k}}
              \cup ((S \ {k}) \X {k})

Use(k) ==
    /\ k \in held
    /\ before' = Last(k, held)
    /\ latest' = k
    /\ UNCHANGED held

Insert(k) ==
    /\ k \notin held
    /\ \E S \in SUBSET held :
          /\ IF Cardinality(held) < Cap THEN S = held
             ELSE /\ Cardinality(S) = Cap - 1
                  /\ \A s \in S, t \in held \ S : <<t, s>> \in before
          /\ held' = S \cup {k}
          /\ before' = Last(k, held')
    /\ latest' = k

Drop(k) ==
    /\ k \in held
    /\ held' = held \ {k}
    /\ before' = {p \in before : p[1] # k /\ p[2] # k}
    /\ UNCHANGED latest

(* The process starts anew.                                                *)
Clear == held' = {} /\ before' = {} /\ UNCHANGED latest

Next == (\E k \in Keys : Use(k) \/ Insert(k) \/ Drop(k)) \/ Clear

Spec == Init /\ [][Next]_vars
=============================================================================
