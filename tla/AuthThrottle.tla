----------------------------- MODULE AuthThrottle -----------------------------
(***************************************************************************)
(* services.CheckAndRecordAuthRequest for one bucket: at most MaxAttempts  *)
(* requests are let through in any window.  The check and the record are   *)
(* one transaction that begins with a write, so calls are serialised; any  *)
(* error refuses the request.  Rows older than the retention are deleted   *)
(* on the way, and a bucket with too many rows keeps only the newest.      *)
(*                                                                         *)
(* Rows are given by their age in units of time, oldest first.             *)
(***************************************************************************)
EXTENDS Integers, Sequences, FiniteSets

CONSTANTS
    MaxAttempts,
    Window,        \* how long an attempt counts
    Retention,     \* how long a row is kept (24 hours)
    VolumeCap      \* authThrottleBucketVolumeCap

ASSUME AuthThrottleAssumption ==
    /\ MaxAttempts \in Nat \ {0} /\ Window \in Nat
    /\ Retention \in Nat /\ Window <= Retention
    /\ VolumeCap \in Nat /\ MaxAttempts <= VolumeCap

VARIABLES
    log,           \* auth_request_log: the ages of the bucket's rows
    let            \* history: the ages of the requests let through

throttleVars == <<log, let>>

ThrottleInit == log = <<>> /\ let = <<>>

(* Rows are in the order of their age, so those of at most an age are the  *)
(* newest ones.                                                            *)
Recent(s, age) == {i \in DOMAIN s : s[i] <= age}
Younger(s, age) == SubSeq(s, Len(s) - Cardinality(Recent(s, age)) + 1, Len(s))

Oldest(s) == SubSeq(s, 1, VolumeCap)           \* faulty: keeps the oldest
Newest(s) == SubSeq(s, Len(s) - VolumeCap + 1, Len(s))

(* The cutoffs are computed before the transaction waits for its turn; a   *)
(* cutoff that is seconds early only counts and keeps more.                *)
Kept == Younger(log, Retention)
Counted == Len(Younger(log, Window))
Capped(s) == IF Counted > 0 /\ Len(s) > VolumeCap THEN Newest(s) ELSE s

LetThrough ==
    /\ Counted < MaxAttempts
    /\ log' = Append(Capped(Kept), 0)
    /\ let' = Append(let, 0)

(* Too many, or an error: the transaction is rolled back.                  *)
Refuse == UNCHANGED throttleVars

Aged(s) == [i \in DOMAIN s |-> s[i] + 1]
ThrottleAges ==
    /\ log' = [i \in DOMAIN log |-> IF log[i] > Retention THEN log[i] ELSE log[i] + 1]
    /\ let' = Younger(Aged(let), Window)

-----------------------------------------------------------------------------
ThrottleTypeOK == log \in Seq(Nat) /\ let \in Seq(0 .. Window)

(* No window ever sees more than MaxAttempts requests let through,         *)
(* whatever is pruned: what is deleted is never what a later request is    *)
(* judged on.                                                              *)
WindowHolds == Len(let) <= MaxAttempts
===============================================================================
