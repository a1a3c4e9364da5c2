---------------------------- MODULE ServicesProofs ----------------------------
(***************************************************************************)
(* What two of the services under the handlers guarantee, for every value  *)
(* of their constants.                                                     *)
(*                                                                         *)
(* The outbound email queue: what one worker guarantees, for any number of *)
(* emails, any batch size, attempt budget and number of faults.  With two  *)
(* workers the promise is broken (README, section 3), so its theorems      *)
(* assume one; what is left of it with more is SentIsAccepted.             *)
(*                                                                         *)
(* The destination cache: how stale a listing may be, for any lifetimes,   *)
(* any number of requests and any other use of the memory cache; and that  *)
(* the memory cache evicts by last use, for any capacity.                  *)
(***************************************************************************)
EXTENDS OutboundEmail, DestinationCache, FiniteSetTheorems, SequenceTheorems,
        TLAPS

(***************************************************************************)
(* The outbound email queue                                                *)
(***************************************************************************)

OneWorker == \A v, w \in Workers : v = w

(* While a pass is under way nobody else writes the rows of its batch:     *)
(* what it read in the SELECT is still so when it uses it.                 *)
BatchHolds ==
    \A w \in Workers :
        workers[w].step \in {"take", "send", "record"} =>
            \A claimed \in workers[w].batch :
                /\ rows[claimed[1]].status = "pending"
                /\ rows[claimed[1]].attempts = claimed[2]

(* The row being sent is in_progress with the attempts the pass saw, and   *)
(* a result is what the provider, or the template table, said.             *)
SendHolds ==
    \A w \in Workers :
        LET me == workers[w] IN
        /\ me.step \in {"send", "record"} =>
              /\ rows[me.row].status = "in_progress"
              /\ rows[me.row].attempts = me.attempts
        /\ me.step = "record" =>
              /\ me.result = "sent" => me.row \in accepted
              /\ me.result = "unknown_template" => me.row \in Retired

(* attempt_count is never ahead of the tries: it is behind them, if at     *)
(* all, by the one whose result nobody will record.                        *)
TriesCounted ==
    \A e \in Emails \ Retired :
        /\ rows[e].status \in {"pending", "in_progress"}
              => rows[e].attempts <= tries[e]
        /\ rows[e].status = "in_progress" =>
              \/ rows[e].attempts < tries[e]
              \/ \E w \in Workers : workers[w].step = "send" /\ workers[w].row = e

QueueInv ==
    TypeOK /\ BatchHolds /\ SendHolds /\ TriesCounted /\ FailedIsExhausted

(* The fields of a worker's locals, by the step it is at.                  *)
LEMMA WorkerFields ==
    ASSUME NEW me \in Worker
    PROVE  /\ me.step = "take" => me \in [step : {"take"}, batch : Batches]
           /\ me.step = "send" => me \in [step : {"send"}, batch : Batches,
                 row : Emails, attempts : Nat]
           /\ me.step = "record" => me \in [step : {"record"}, batch : Batches,
                 row : Emails, attempts : Nat,
                 result : {"sent", "error", "unknown_template"}]
  BY DEF Worker, Idle, Claiming

(* Recording a result keeps the row well typed.                            *)
LEMMA RecordedType ==
    ASSUME NEW r \in Row, NEW n \in Nat,
           NEW result \in {"sent", "error", "unknown_template"}
    PROVE  Recorded(r, result, n) \in Row
<1>1. CASE result = "sent"
  BY <1>1 DEF Recorded, Row
<1>2. CASE result = "error"
  <2>1. n + 1 \in {m \in Int : m >= Overdue}
    BY DEF Overdue
  <2>2. Recorded(r, result, n) =
           [status |-> IF LastAttempt(n) THEN "failed" ELSE "pending",
            attempts |-> r.attempts + 1, due |-> n + 1]
    BY <1>2 DEF Recorded
  <2>3. QED
    BY <2>1, <2>2 DEF Row
<1>3. CASE result = "unknown_template"
  <2>1. Recorded(r, result, n) =
           [status |-> "failed", attempts |-> r.attempts + 1, due |-> 0]
    BY <1>3 DEF Recorded
  <2>2. QED
    BY <2>1 DEF Row, Overdue
<1>4. QED
  BY <1>1, <1>2, <1>3

LEMMA QueueTypeStep == TypeOK /\ [Next]_vars => TypeOK'
<1> SUFFICES ASSUME TypeOK, Next PROVE TypeOK'
  BY DEF TypeOK, vars
<1> USE DEF TypeOK, Goto
<1>1. \A w \in Workers : workers[w] \in Worker
  OBVIOUS
<1>2. ASSUME NEW e \in Emails, Enqueue(e)
      PROVE  TypeOK'
  BY <1>2 DEF Enqueue, Row, Overdue
<1>3. ASSUME NEW w \in Workers, Reap(w)
      PROVE  TypeOK'
  <2>1. \A e \in Emails :
           [status |-> "pending", attempts |-> rows[e].attempts + 1, due |-> 0] \in Row
    BY DEF Row, Overdue
  <2>2. Claiming \in Worker
    BY DEF Worker
  <2>3. QED
    BY <1>3, <2>1, <2>2 DEF Reap
<1>4. ASSUME NEW w \in Workers, Claim(w)
      PROVE  TypeOK'
  <2>1. PICK S \in SUBSET DueRows :
           Goto(w, [step |-> "take",
                    batch |-> {<<e, rows[e].attempts>> : e \in S}])
    BY <1>4 DEF Claim
  <2>2. {<<e, rows[e].attempts>> : e \in S} \in Batches
    BY DEF Batches, DueRows, Row
  <2>3. [step |-> "take", batch |-> {<<e, rows[e].attempts>> : e \in S}] \in Worker
    BY <2>2 DEF Worker
  <2>4. QED
    BY <1>4, <2>1, <2>3 DEF Claim
<1>5. ASSUME NEW w \in Workers, Take(w)
      PROVE  TypeOK'
  <2>1. workers[w].batch \in Batches
    BY <1>1, <1>5, WorkerFields DEF Take
  <2>2. PICK claimed \in workers[w].batch :
           \/ /\ rows' = [rows EXCEPT ![claimed[1]].status = "in_progress"]
              /\ Goto(w, [step |-> "send", batch |-> workers[w].batch \ {claimed},
                          row |-> claimed[1], attempts |-> claimed[2]])
           \/ /\ Goto(w, [step |-> "take", batch |-> workers[w].batch \ {claimed}])
              /\ UNCHANGED rows
    BY <1>5 DEF Take
  <2>3. claimed[1] \in Emails /\ claimed[2] \in Nat
    BY <2>1 DEF Batches
  <2>4. workers[w].batch \ {claimed} \in Batches
    BY <2>1 DEF Batches
  <2>5. [rows EXCEPT ![claimed[1]].status = "in_progress"] \in [Emails -> Row]
    BY <2>3 DEF Row
  <2>6. /\ [step |-> "send", batch |-> workers[w].batch \ {claimed},
            row |-> claimed[1], attempts |-> claimed[2]] \in Worker
        /\ [step |-> "take", batch |-> workers[w].batch \ {claimed}] \in Worker
    BY <2>3, <2>4 DEF Worker
  <2>7. QED
    BY <1>5, <2>2, <2>5, <2>6 DEF Take
<1>6. ASSUME NEW w \in Workers, PassDone(w) \/ Die(w)
      PROVE  TypeOK'
  <2>1. Idle \in Worker
    BY DEF Worker
  <2>2. faults' \in 0 .. MaxFaults
    BY <1>6, OutboxAssumption DEF PassDone, Die
  <2>3. tries' \in [Emails -> Nat]
    <3>1. workers[w].step = "send" => workers[w].row \in Emails
      BY <1>1, WorkerFields
    <3>2. QED
      BY <1>6, <3>1 DEF PassDone, Die
  <2>4. QED
    BY <1>6, <2>1, <2>2, <2>3 DEF PassDone, Die
<1>7. ASSUME NEW w \in Workers, Send(w)
      PROVE  TypeOK'
  <2>1. workers[w] \in [step : {"send"}, batch : Batches, row : Emails, attempts : Nat]
    BY <1>1, <1>7, WorkerFields DEF Send
  <2>2. PICK result \in {"sent", "error", "unknown_template"} :
           /\ accepted' \in {accepted, accepted \cup {workers[w].row}}
           /\ Goto(w, [step |-> "record", batch |-> workers[w].batch,
                       row |-> workers[w].row, attempts |-> workers[w].attempts,
                       result |-> result])
    BY <1>7 DEF Send
  <2>3. [step |-> "record", batch |-> workers[w].batch, row |-> workers[w].row,
         attempts |-> workers[w].attempts, result |-> result] \in Worker
    BY <2>1 DEF Worker
  <2>4. tries' \in [Emails -> Nat]
    BY <1>7, <2>1 DEF Send
  <2>5. QED
    BY <1>7, <2>1, <2>2, <2>3, <2>4 DEF Send
<1>8. ASSUME NEW w \in Workers, Record(w)
      PROVE  TypeOK'
  <2>1. workers[w] \in [step : {"record"}, batch : Batches, row : Emails,
           attempts : Nat, result : {"sent", "error", "unknown_template"}]
    BY <1>1, <1>8, WorkerFields DEF Record
  <2>2. [step |-> "take", batch |-> workers[w].batch] \in Worker
    BY <2>1 DEF Worker
  <2>3. rows' \in [Emails -> Row]
    BY <1>8, <2>1, RecordedType DEF Record
  <2>4. QED
    BY <1>8, <2>2, <2>3 DEF Record
<1>9. ASSUME NEW w \in Workers, StatementLost(w)
      PROVE  TypeOK'
  <2>1. Claiming \in Worker
    BY DEF Worker
  <2>2. \A S \in Batches : [step |-> "take", batch |-> S] \in Worker
    BY DEF Worker
  <2>3. workers[w].step \in {"take", "record"} => workers[w].batch \in Batches
    BY <1>1, WorkerFields
  <2>4. \A S \in Batches : \A claimed : S \ {claimed} \in Batches
    BY DEF Batches
  <2>5. workers' \in [Workers -> Worker]
    <3>1. CASE Goto(w, Claiming)
      BY <2>1, <3>1
    <3>2. ASSUME workers[w].step = "take", NEW claimed \in workers[w].batch,
                 Goto(w, [step |-> "take", batch |-> workers[w].batch \ {claimed}])
          PROVE  workers' \in [Workers -> Worker]
      <4>1. [step |-> "take", batch |-> workers[w].batch \ {claimed}] \in Worker
        BY <2>2, <2>3, <2>4, <3>2
      <4>2. QED
        BY <3>2, <4>1
    <3>3. ASSUME workers[w].step = "record",
                 Goto(w, [step |-> "take", batch |-> workers[w].batch])
          PROVE  workers' \in [Workers -> Worker]
      <4>1. [step |-> "take", batch |-> workers[w].batch] \in Worker
        BY <2>2, <2>3, <3>3
      <4>2. QED
        BY <3>3, <4>1
    <3>4. QED
      BY <1>9, <3>1, <3>2, <3>3 DEF StatementLost
  <2>6. faults' \in 0 .. MaxFaults
    BY <1>9, OutboxAssumption DEF StatementLost
  <2>7. QED
    BY <1>9, <2>5, <2>6 DEF StatementLost
<1>10. CASE Tick
  <2>1. \A r \in Row : Later(r) \in Row
    BY DEF Later, Row, Overdue
  <2>2. QED
    BY <1>10, <2>1 DEF Tick
<1>11. QED
  BY <1>2, <1>3, <1>4, <1>5, <1>6, <1>7, <1>8, <1>9, <1>10 DEF Next, PassStep
-----------------------------------------------------------------------------
(* With one worker, what the rest of the step does not touch stays.        *)

LEMMA LocalsStep ==
    ASSUME OneWorker, TypeOK, TypeOK', BatchHolds, SendHolds, Next
    PROVE  BatchHolds' /\ SendHolds'
<1> USE DEF BatchHolds, SendHolds, Goto
<1>t. /\ rows \in [Emails -> Row]
      /\ workers \in [Workers -> Worker]
      /\ \A w \in Workers : workers[w] \in Worker
  BY DEF TypeOK
<1>b. \A w \in Workers :
         /\ workers[w].step \in {"take", "send", "record"} =>
               \A claimed \in workers[w].batch : claimed[1] \in Emails
         /\ workers[w].step \in {"send", "record"} => workers[w].row \in Emails
  BY <1>t, WorkerFields DEF Batches
<1>1. ASSUME NEW e \in Emails, Enqueue(e)
      PROVE  BatchHolds' /\ SendHolds'
  <2>1. /\ workers' = workers /\ accepted' = accepted
        /\ rows[e].status = "absent"
        /\ \A f \in Emails \ {e} : rows'[f] = rows[f]
    BY <1>1, <1>t DEF Enqueue
  <2>2. QED
    BY <2>1, <1>b
<1>2. ASSUME NEW w \in Workers, Reap(w) \/ PassDone(w) \/ Die(w)
      PROVE  BatchHolds' /\ SendHolds'
  <2>1. workers'[w] \in {Idle, Claiming}
    BY <1>2, <1>t DEF Reap, PassDone, Die
  <2>2. \A v \in Workers : workers'[v].step \in {"idle", "claim"}
    BY <2>1 DEF OneWorker, Idle, Claiming
  <2>3. QED
    BY <2>2
<1>3. ASSUME NEW w \in Workers, Claim(w)
      PROVE  BatchHolds' /\ SendHolds'
  <2>1. PICK S \in SUBSET DueRows :
           workers' = [workers EXCEPT ![w] =
              [step |-> "take", batch |-> {<<e, rows[e].attempts>> : e \in S}]]
    BY <1>3 DEF Claim
  <2> DEFINE batch == {<<e, rows[e].attempts>> : e \in S}
  <2>2. rows' = rows
    BY <1>3 DEF Claim
  <2>3. \A claimed \in batch : /\ rows'[claimed[1]].status = "pending"
                               /\ rows'[claimed[1]].attempts = claimed[2]
    BY <2>2 DEF DueRows
  <2>4. workers' = [workers EXCEPT ![w] = [step |-> "take", batch |-> batch]]
    BY <2>1
  <2> HIDE DEF batch
  <2>5. \A v \in Workers : workers'[v] = [step |-> "take", batch |-> batch]
    BY <2>4, <1>t DEF OneWorker
  <2>6. QED
    BY <2>3, <2>5
<1>4. ASSUME NEW w \in Workers, Take(w)
      PROVE  BatchHolds' /\ SendHolds'
  <2> DEFINE me == workers[w]
  <2>1. PICK claimed \in me.batch :
           IF Takeable(claimed[1])
           THEN /\ rows' = [rows EXCEPT ![claimed[1]].status = "in_progress"]
                /\ workers' = [workers EXCEPT ![w] =
                      [step |-> "send", batch |-> me.batch \ {claimed},
                       row |-> claimed[1], attempts |-> claimed[2]]]
           ELSE /\ workers' = [workers EXCEPT ![w] =
                      [step |-> "take", batch |-> me.batch \ {claimed}]]
                /\ UNCHANGED rows
    BY <1>4 DEF Take
  <2>2. /\ me.batch \in Batches
        /\ claimed[1] \in Emails /\ claimed[2] \in Nat
        /\ claimed = <<claimed[1], claimed[2]>>
        /\ me.step = "take"
    BY <1>4, <1>t, WorkerFields DEF Take, Batches
  <2>3. \A other \in me.batch \ {claimed} :
           other[1] \in Emails /\ other[1] # claimed[1]
    <3> SUFFICES ASSUME NEW other \in me.batch, other[1] = claimed[1]
                 PROVE  other = claimed
      BY <2>2 DEF Batches
    <3>1. other = <<other[1], other[2]>>
      BY <2>2 DEF Batches
    <3>2. rows[other[1]].attempts = other[2] /\ rows[claimed[1]].attempts = claimed[2]
      BY <2>2
    <3>3. QED
      BY <2>2, <3>1, <3>2
  <2>4. Takeable(claimed[1])
    BY <2>2 DEF Takeable
  <2>5. /\ rows'[claimed[1]].status = "in_progress"
        /\ rows'[claimed[1]].attempts = claimed[2]
        /\ \A f \in Emails \ {claimed[1]} : rows'[f] = rows[f]
    BY <2>1, <2>2, <2>4, <1>t DEF Row
  <2>6. \A v \in Workers : workers'[v] =
           [step |-> "send", batch |-> me.batch \ {claimed},
            row |-> claimed[1], attempts |-> claimed[2]]
    BY <2>1, <2>4, <1>t DEF OneWorker
  <2>7. BatchHolds'
    BY <2>2, <2>3, <2>5, <2>6
  <2>8. SendHolds'
    BY <2>5, <2>6
  <2>9. QED
    BY <2>7, <2>8
<1>5. ASSUME NEW w \in Workers, Send(w)
      PROVE  BatchHolds' /\ SendHolds'
  <2> DEFINE me == workers[w]
  <2>1. me.step = "send" /\ rows' = rows
    BY <1>5 DEF Send
  <2>2. PICK result \in {"sent", "error", "unknown_template"} :
           /\ workers' = [workers EXCEPT ![w] =
                 [step |-> "record", batch |-> me.batch, row |-> me.row,
                  attempts |-> me.attempts, result |-> result]]
           /\ result = "sent" => me.row \in accepted'
           /\ result = "unknown_template" => me.row \in Retired
    BY <1>5 DEF Send
  <2>3. \A v \in Workers : workers'[v] =
           [step |-> "record", batch |-> me.batch, row |-> me.row,
            attempts |-> me.attempts, result |-> result]
    BY <2>2, <1>t DEF OneWorker
  <2>4. QED
    BY <2>1, <2>2, <2>3
<1>6. ASSUME NEW w \in Workers, Record(w)
      PROVE  BatchHolds' /\ SendHolds'
  <2> DEFINE me == workers[w]
  <2>1. /\ me.step = "record"
        /\ me.row \in Emails
        /\ \A claimed \in me.batch : claimed[1] \in Emails
    BY <1>6, <1>b DEF Record
  <2>2. \A f \in Emails \ {me.row} : rows'[f] = rows[f]
    BY <1>6, <1>t DEF Record
  <2>3. \A claimed \in me.batch : claimed[1] # me.row
    BY <2>1
  <2>4. \A v \in Workers : workers'[v] = [step |-> "take", batch |-> me.batch]
    BY <1>6, <1>t DEF Record, OneWorker
  <2>5. QED
    BY <2>1, <2>2, <2>3, <2>4
<1>7. CASE Tick
  <2>1. \A e \in Emails : /\ rows'[e].status = rows[e].status
                         /\ rows'[e].attempts = rows[e].attempts
    BY <1>7, <1>t DEF Tick, Later, Row
  <2>2. workers' = workers /\ accepted' = accepted
    BY <1>7 DEF Tick
  <2>3. QED
    BY <2>1, <2>2, <1>b
<1>8. ASSUME NEW w \in Workers, StatementLost(w)
      PROVE  BatchHolds' /\ SendHolds'
  <2> DEFINE me == workers[w]
  <2>1. rows' = rows
    BY <1>8 DEF StatementLost
  <2>2. CASE workers'[w] = Claiming
    <3>1. \A v \in Workers : workers'[v].step = "claim"
      BY <2>2 DEF OneWorker, Claiming
    <3>2. QED
      BY <3>1
  <2>3. ASSUME me.step \in {"take", "record"}, NEW S \in SUBSET me.batch,
               workers' = [workers EXCEPT ![w] = [step |-> "take", batch |-> S]]
        PROVE  BatchHolds' /\ SendHolds'
    <3>1. \A v \in Workers : workers'[v] = [step |-> "take", batch |-> S]
      BY <2>3, <1>t DEF OneWorker
    <3>2. QED
      BY <2>1, <2>3, <3>1
  <2>4. QED
    BY <1>8, <2>2, <2>3, <1>t DEF StatementLost
<1>9. QED
  BY <1>1, <1>2, <1>3, <1>4, <1>5, <1>6, <1>7, <1>8 DEF Next, PassStep

(* What a step does to the status and attempts of a row, seen by row.      *)
LEMMA RowSteps ==
    ASSUME TypeOK, SendHolds, Next, NEW e \in Emails
    PROVE  \/ /\ rows'[e].status = rows[e].status
              /\ rows'[e].attempts >= rows[e].attempts
           \/ rows[e].status = "absent" /\ rows'[e].status = "pending"
           \/ rows[e].status = "pending" /\ rows'[e].status = "in_progress"
           \/ rows[e].status = "in_progress" /\ rows'[e].status = "pending"
           \/ /\ rows[e].status = "in_progress" /\ rows'[e].status = "sent"
              /\ e \in accepted
           \/ rows[e].status = "in_progress" /\ rows'[e].status = "failed"
<1>t. /\ rows \in [Emails -> Row]
      /\ \A f \in Emails : rows[f] \in Row
      /\ \A f \in Emails : rows[f].attempts \in Nat
      /\ \A w \in Workers : workers[w] \in Worker
  BY DEF TypeOK, Row
<1>1. ASSUME NEW f \in Emails, Enqueue(f)
      PROVE  rows'[e] = rows[e] \/ (rows[e].status = "absent" /\ rows'[e].status = "pending")
  BY <1>1, <1>t DEF Enqueue
<1>2. ASSUME NEW w \in Workers, Reap(w)
      PROVE  rows'[e] = rows[e]
                \/ (rows[e].status = "in_progress" /\ rows'[e].status = "pending")
  BY <1>2, <1>t DEF Reap, Stuck
<1>3. ASSUME NEW w \in Workers, Take(w)
      PROVE  rows'[e] = rows[e]
                \/ (rows[e].status = "pending" /\ rows'[e].status = "in_progress")
  BY <1>3, <1>t DEF Take, Takeable, Row
<1>4. ASSUME NEW w \in Workers, Record(w)
      PROVE  \/ rows'[e] = rows[e]
             \/ rows[e].status = "in_progress" /\ rows'[e].status = "pending"
             \/ /\ rows[e].status = "in_progress" /\ rows'[e].status = "sent"
                /\ e \in accepted
             \/ rows[e].status = "in_progress" /\ rows'[e].status = "failed"
  <2> DEFINE me == workers[w]
  <2>1. /\ me.step = "record" /\ me.row \in Emails /\ me.attempts \in Nat
        /\ me.result \in {"sent", "error", "unknown_template"}
    BY <1>4, <1>t, WorkerFields DEF Record
  <2>2. /\ rows[me.row].status = "in_progress"
        /\ rows[me.row].attempts = me.attempts
        /\ me.result = "sent" => me.row \in accepted
        /\ me.result = "unknown_template" => me.row \in Retired
    BY <2>1 DEF SendHolds
  <2>3. e # me.row => rows'[e] = rows[e]
    BY <1>4, <1>t DEF Record
  <2>4. e = me.row => rows'[e] = Recorded(rows[e], me.result, me.attempts)
    BY <1>4, <1>t DEF Record
  <2>5. CASE e = me.row /\ me.result = "sent"
    BY <2>2, <2>4, <2>5, <1>t DEF Recorded, Row
  <2>6. CASE e = me.row /\ me.result = "error"
    <3>1. rows'[e] = [status |-> IF LastAttempt(me.attempts) THEN "failed" ELSE "pending",
                      attempts |-> me.attempts + 1, due |-> me.attempts + 1]
      BY <2>2, <2>4, <2>6 DEF Recorded
    <3>2. QED
      BY <2>1, <2>2, <2>6, <3>1, OutboxAssumption DEF LastAttempt
  <2>7. CASE e = me.row /\ me.result = "unknown_template"
    BY <2>2, <2>4, <2>7 DEF Recorded
  <2>8. QED
    BY <2>1, <2>3, <2>5, <2>6, <2>7
<1>5. CASE Tick
  BY <1>5, <1>t DEF Tick, Later, Row
<1>6. ASSUME NEW w \in Workers,
             Claim(w) \/ PassDone(w) \/ Send(w) \/ StatementLost(w) \/ Die(w)
      PROVE  rows'[e] = rows[e]
  BY <1>6 DEF Claim, PassDone, Send, StatementLost, Die
<1>7. rows'[e] = rows[e] => /\ rows'[e].status = rows[e].status
                           /\ rows'[e].attempts >= rows[e].attempts
  BY <1>t
<1>8. QED
  BY <1>1, <1>2, <1>3, <1>4, <1>5, <1>6, <1>7 DEF Next, PassStep

(* With one worker, what a step does to the tries of a row and to who is   *)
(* about to send it.                                                       *)
LEMMA TriesStep ==
    ASSUME OneWorker, TypeOK, TypeOK', BatchHolds, SendHolds, TriesCounted,
           FailedIsExhausted, Next
    PROVE  TriesCounted' /\ FailedIsExhausted'
<1>t. /\ rows \in [Emails -> Row] /\ rows' \in [Emails -> Row]
      /\ \A e \in Emails : rows[e].attempts \in Nat /\ rows'[e].attempts \in Nat
      /\ tries \in [Emails -> Nat] /\ tries' \in [Emails -> Nat]
      /\ workers \in [Workers -> Worker]
      /\ \A w \in Workers : workers[w] \in Worker
  BY DEF TypeOK, Row
<1>k. TriesCounted /\ FailedIsExhausted
  OBVIOUS
(* Most steps send nothing, take nothing and end no sending.               *)
<1>q. ASSUME tries' = tries,
             \A e \in Emails :
                /\ rows'[e].status = rows[e].status
                /\ rows'[e].attempts = rows[e].attempts,
             \A w \in Workers : workers[w].step = "send" => workers'[w] = workers[w]
      PROVE  TriesCounted' /\ FailedIsExhausted'
  BY <1>q, <1>k, <1>t DEF TriesCounted, FailedIsExhausted
<1>1. ASSUME NEW e \in Emails, Enqueue(e)
      PROVE  TriesCounted' /\ FailedIsExhausted'
  <2>1. /\ workers' = workers /\ tries' = tries
        /\ rows'[e].status = "pending" /\ rows'[e].attempts = 0
        /\ \A f \in Emails \ {e} : rows'[f] = rows[f]
    BY <1>1, <1>t DEF Enqueue
  <2>2. QED
    BY <2>1, <1>k, <1>t DEF TriesCounted, FailedIsExhausted
<1>2. ASSUME NEW w \in Workers, Reap(w)
      PROVE  TriesCounted' /\ FailedIsExhausted'
  <2>1. \A v \in Workers : workers[v].step = "idle"
    BY <1>2 DEF Reap, OneWorker, Idle
  <2>2. \A e \in Emails :
           \/ rows'[e] = rows[e]
           \/ /\ rows[e].status = "in_progress" /\ rows'[e].status = "pending"
              /\ rows'[e].attempts = rows[e].attempts + 1
    BY <1>2, <1>t DEF Reap, Stuck
  <2>3. tries' = tries
    BY <1>2 DEF Reap
  <2>4. QED
    BY <2>1, <2>2, <2>3, <1>k, <1>t DEF TriesCounted, FailedIsExhausted
<1>3. ASSUME NEW w \in Workers, Take(w)
      PROVE  TriesCounted' /\ FailedIsExhausted'
  <2>1. workers[w].step = "take" /\ tries' = tries
    BY <1>3 DEF Take
  <2>2. \A v \in Workers : workers[v].step # "send"
    BY <2>1 DEF OneWorker
  <2>3. PICK claimed \in workers[w].batch :
           IF Takeable(claimed[1])
           THEN /\ rows' = [rows EXCEPT ![claimed[1]].status = "in_progress"]
                /\ workers' = [workers EXCEPT ![w] =
                      [step |-> "send", batch |-> workers[w].batch \ {claimed},
                       row |-> claimed[1], attempts |-> claimed[2]]]
           ELSE UNCHANGED rows
    BY <1>3 DEF Take, Goto
  <2>4. claimed[1] \in Emails
    BY <2>1, <1>t, WorkerFields DEF Batches
  <2>5. CASE Takeable(claimed[1])
    <3>1. /\ rows[claimed[1]].status = "pending"
          /\ rows'[claimed[1]].status = "in_progress"
          /\ rows'[claimed[1]].attempts = rows[claimed[1]].attempts
          /\ \A f \in Emails \ {claimed[1]} : rows'[f] = rows[f]
      BY <2>3, <2>4, <2>5, <1>t DEF Takeable, Row
    <3>2. workers'[w].step = "send" /\ workers'[w].row = claimed[1]
      BY <2>3, <2>5, <1>t
    <3>3. QED
      BY <2>1, <2>2, <2>4, <3>1, <3>2, <1>k, <1>t
         DEF TriesCounted, FailedIsExhausted
  <2>6. CASE ~Takeable(claimed[1])
    BY <2>1, <2>2, <2>3, <2>6, <1>q
  <2>7. QED
    BY <2>5, <2>6
<1>4. ASSUME NEW w \in Workers, Send(w) \/ (Die(w) /\ workers[w].step = "send")
      PROVE  TriesCounted' /\ FailedIsExhausted'
  <2> DEFINE e == workers[w].row
  <2>1. /\ e \in Emails /\ rows' = rows
        /\ rows[e].status = "in_progress"
    BY <1>4, <1>t, WorkerFields DEF Send, Die, SendHolds
  <2>2. \A f \in Emails : tries'[f] = tries[f] \/ tries'[f] = tries[f] + 1
    BY <1>4, <2>1, <1>t DEF Send, Die
  <2>3. e \notin Retired => tries'[e] = tries[e] + 1
    BY <1>4, <2>1, <1>t DEF Send, Die
  <2>4. \A v \in Workers : v = w
    BY DEF OneWorker
  <2>5. \A f \in Emails : /\ rows'[f] = rows[f]
                         /\ tries'[f] \in Nat /\ tries'[f] >= tries[f]
    BY <2>1, <2>2, <1>t
  <2>6. FailedIsExhausted'
    BY <2>5, <1>k, <1>t, OutboxAssumption DEF FailedIsExhausted
  <2>7. ASSUME NEW f \in Emails \ Retired
        PROVE  /\ rows'[f].status \in {"pending", "in_progress"}
                     => rows'[f].attempts <= tries'[f]
               /\ rows'[f].status = "in_progress" => rows'[f].attempts < tries'[f]
    <3>1. CASE f = e
      BY <2>1, <2>3, <3>1, <1>k, <1>t DEF TriesCounted
    <3>2. CASE f # e
      <4>1. ~ \E v \in Workers : workers[v].step = "send" /\ workers[v].row = f
        BY <2>4, <3>2
      <4>2. QED
        BY <2>5, <4>1, <1>k, <1>t DEF TriesCounted
    <3>3. QED
      BY <3>1, <3>2
  <2>8. QED
    BY <2>6, <2>7 DEF TriesCounted
<1>5. ASSUME NEW w \in Workers, Record(w)
      PROVE  TriesCounted' /\ FailedIsExhausted'
  <2> DEFINE me == workers[w]
             e == me.row
  <2>1. /\ me.step = "record" /\ e \in Emails /\ me.attempts \in Nat
        /\ me.result \in {"sent", "error", "unknown_template"}
        /\ tries' = tries
    BY <1>5, <1>t, WorkerFields DEF Record
  <2>2. /\ rows[e].status = "in_progress"
        /\ rows[e].attempts = me.attempts
        /\ me.result = "unknown_template" => e \in Retired
    BY <2>1 DEF SendHolds
  <2>3. /\ \A f \in Emails \ {e} : rows'[f] = rows[f]
        /\ rows'[e] = Recorded(rows[e], me.result, me.attempts)
    BY <1>5, <2>1, <1>t DEF Record
  <2>4. \A v \in Workers : v = w
    BY DEF OneWorker
  <2>5. e \notin Retired => rows[e].attempts < tries[e]
    BY <2>1, <2>2, <2>4, <1>k DEF TriesCounted
  <2>6. CASE me.result = "sent"
    <3>1. rows'[e].status = "sent"
      BY <2>1, <2>3, <2>6, <1>t DEF Recorded, Row
    <3>2. QED
      BY <2>1, <2>3, <2>4, <3>1, <1>k, <1>t DEF TriesCounted, FailedIsExhausted
  <2>7. CASE me.result = "unknown_template"
    <3>1. rows'[e].status = "failed" /\ e \in Retired
      BY <2>2, <2>3, <2>7 DEF Recorded
    <3>2. QED
      BY <2>1, <2>3, <2>4, <3>1, <1>k, <1>t DEF TriesCounted, FailedIsExhausted
  <2>8. CASE me.result = "error"
    <3>1. /\ rows'[e].status \in {"pending", "failed"}
          /\ rows'[e].status = "failed" => LastAttempt(me.attempts)
          /\ rows'[e].attempts = rows[e].attempts + 1
      BY <2>3, <2>8 DEF Recorded
    <3>2. rows'[e].status = "failed" => e \in Retired \/ tries[e] >= MaxAttempts
      BY <2>1, <2>2, <2>5, <3>1, <1>t, OutboxAssumption DEF LastAttempt
    <3>3. QED
      BY <2>1, <2>3, <2>4, <2>5, <3>1, <3>2, <1>k, <1>t
         DEF TriesCounted, FailedIsExhausted
  <2>9. QED
    BY <2>1, <2>6, <2>7, <2>8
<1>6. CASE Tick
  <2>1. \A e \in Emails : /\ rows'[e].status = rows[e].status
                         /\ rows'[e].attempts = rows[e].attempts
    BY <1>6, <1>t DEF Tick, Later, Row
  <2>2. QED
    BY <1>6, <2>1, <1>q DEF Tick
<1>7. ASSUME NEW w \in Workers,
             \/ Claim(w) \/ PassDone(w) \/ StatementLost(w)
             \/ Die(w) /\ workers[w].step # "send"
      PROVE  TriesCounted' /\ FailedIsExhausted'
  <2>1. rows' = rows /\ tries' = tries /\ workers[w].step # "send"
    BY <1>7 DEF Claim, PassDone, StatementLost, Die, Claiming
  <2>2. \A v \in Workers : v = w
    BY DEF OneWorker
  <2>3. QED
    BY <2>1, <2>2, <1>q
<1>8. QED
  BY <1>1, <1>2, <1>3, <1>4, <1>5, <1>6, <1>7 DEF Next, PassStep

LEMMA InitQueueInv == Init => QueueInv
<1> SUFFICES ASSUME Init PROVE QueueInv
  OBVIOUS
<1>1. [status |-> "absent", attempts |-> 0, due |-> 0] \in Row
  BY DEF Row, Overdue
<1>2. rows \in [Emails -> Row]
  BY <1>1 DEF Init
<1>3. Idle \in Worker
  BY DEF Worker
<1>4. TypeOK
  <2>1. workers \in [Workers -> Worker]
    BY <1>3 DEF Init
  <2>2. /\ accepted \subseteq Emails /\ faults \in 0 .. MaxFaults
        /\ tries \in [Emails -> Nat]
    BY OutboxAssumption DEF Init
  <2>3. QED
    BY <1>2, <2>1, <2>2 DEF TypeOK
<1>5. \A w \in Workers : workers[w].step = "idle"
  BY DEF Init, Idle
<1>6. BatchHolds /\ SendHolds
  BY <1>5 DEF BatchHolds, SendHolds
<1>7. TriesCounted /\ FailedIsExhausted
  BY DEF Init, TriesCounted, FailedIsExhausted
<1>8. QED
  BY <1>4, <1>6, <1>7 DEF QueueInv

LEMMA InductiveQueueInv == OneWorker /\ QueueInv /\ [Next]_vars => QueueInv'
<1>1. ASSUME OneWorker, QueueInv, Next
      PROVE  QueueInv'
  BY <1>1, QueueTypeStep, LocalsStep, TriesStep DEF QueueInv
<1>2. ASSUME QueueInv, UNCHANGED vars
      PROVE  QueueInv'
  BY <1>2 DEF QueueInv, vars, TypeOK, BatchHolds, SendHolds, TriesCounted,
              FailedIsExhausted
<1>3. QED
  BY <1>1, <1>2

-----------------------------------------------------------------------------
(* The table and the workers' locals keep their types, for any number of   *)
(* workers.                                                                *)
THEOREM QueueTypeCorrect == Spec => []TypeOK
<1>1. Init => TypeOK
  BY InitQueueInv DEF QueueInv
<1>2. TypeOK /\ [Next]_vars => TypeOK'
  BY QueueTypeStep
<1>3. QED
  BY <1>1, <1>2, PTL DEF Spec

(* With one worker, an email is given up only after maxOutboundAttempts    *)
(* calls of its provider, less one for each pass that died holding it      *)
(* before the call, or because its template is unknown: the attempts the   *)
(* reaper adds (ReapStuckOutboundEmails) take no call from an email whose  *)
(* call was made (dispatchOutboundEmail).                                  *)
THEOREM FailedCorrect == OneWorker => (Spec => []FailedIsExhausted)
<1> SUFFICES ASSUME OneWorker PROVE Spec => []FailedIsExhausted
  OBVIOUS
<1>1. Init => QueueInv
  BY InitQueueInv
<1>2. QueueInv /\ [Next]_vars => QueueInv'
  BY InductiveQueueInv
<1>3. QueueInv => FailedIsExhausted
  BY DEF QueueInv
<1>4. QED
  BY <1>1, <1>2, <1>3, PTL DEF Spec

(* With one worker the queue implements its promise: an email is sent only *)
(* after the provider accepted it, and sent and failed are final, whatever *)
(* passes die and results get lost (RunOutboundEmailJob).                  *)
THEOREM OneWorkerKeepsPromise == OneWorker => (Spec => KeepsPromise)
<1> SUFFICES ASSUME OneWorker PROVE Spec => KeepsPromise
  OBVIOUS
<1> DEFINE State == [e \in Emails |->
                       IF rows[e].status \in {"pending", "in_progress"} THEN "queued"
                       ELSE rows[e].status]
<1>1. Init => Promise!Init
  BY DEF Init, Promise!Init
<1>2. QueueInv /\ [Next]_vars => [Promise!Next]_(Promise!vars)
  <2> SUFFICES ASSUME QueueInv, [Next]_vars
               PROVE  [Promise!Next]_(Promise!vars)
    OBVIOUS
  <2> USE DEF Promise!Next, Promise!vars, Promise!Enqueue, Promise!Accept,
              Promise!Settle
  <2>t. /\ rows \in [Emails -> Row]
        /\ \A w \in Workers : workers[w] \in Worker
    BY DEF QueueInv, TypeOK
  <2>1. ASSUME \A e \in Emails : \/ rows'[e].status = rows[e].status
                                \/ /\ rows[e].status \in {"pending", "in_progress"}
                                   /\ rows'[e].status \in {"pending", "in_progress"},
               accepted' = accepted
        PROVE  [Promise!Next]_(Promise!vars)
    <3>1. State' = State
      BY <2>1
    <3>2. QED
      BY <2>1, <3>1
  <2>2. ASSUME NEW e \in Emails, Enqueue(e)
        PROVE  [Promise!Next]_(Promise!vars)
    <3>1. /\ State[e] = "absent"
          /\ State' = [State EXCEPT ![e] = "queued"]
      BY <2>2, <2>t DEF Enqueue
    <3>2. accepted' = accepted
      BY <2>2 DEF Enqueue
    <3>3. QED
      BY <3>1, <3>2
  <2>3. ASSUME NEW w \in Workers, Send(w)
        PROVE  [Promise!Next]_(Promise!vars)
    <3>1. /\ workers[w].row \in Emails
          /\ rows[workers[w].row].status = "in_progress"
      BY <2>3, <2>t, WorkerFields DEF Send, QueueInv, SendHolds
    <3>2. State[workers[w].row] = "queued" /\ State' = State
      BY <2>3, <3>1 DEF Send
    <3>3. accepted' = accepted \/ accepted' = accepted \cup {workers[w].row}
      BY <2>3 DEF Send
    <3>4. QED
      BY <3>1, <3>2, <3>3
  <2>4. ASSUME NEW w \in Workers, Record(w)
        PROVE  [Promise!Next]_(Promise!vars)
    <3> DEFINE e == workers[w].row
    <3>1. e \in Emails /\ rows[e].status = "in_progress" /\ accepted' = accepted
      BY <2>4, <2>t, WorkerFields DEF Record, QueueInv, SendHolds
    <3>2. \A f \in Emails \ {e} : rows'[f] = rows[f]
      BY <2>4, <2>t DEF Record
    <3>3. \/ rows'[e].status \in {"pending", "in_progress"}
          \/ rows'[e].status = "sent" /\ e \in accepted
          \/ rows'[e].status = "failed"
      <4>1. Next
        BY <2>4 DEF Next, PassStep
      <4>2. QED
        BY <3>1, <4>1, RowSteps DEF QueueInv
    <3>4. CASE rows'[e].status \in {"pending", "in_progress"}
      BY <3>1, <3>2, <3>4, <2>1
    <3>5. CASE rows'[e].status \in {"sent", "failed"}
      <4>1. State[e] = "queued" /\ State' = [State EXCEPT ![e] = rows'[e].status]
        BY <3>1, <3>2, <3>5, <2>t
      <4>2. QED
        BY <3>1, <3>3, <3>5, <4>1
    <3>6. QED
      BY <3>3, <3>4, <3>5
  <2>5. ASSUME NEW w \in Workers, Reap(w)
        PROVE  [Promise!Next]_(Promise!vars)
    BY <2>1, <2>5 DEF Reap, Stuck
  <2>6. ASSUME NEW w \in Workers, Take(w)
        PROVE  [Promise!Next]_(Promise!vars)
    <3>1. \A e \in Emails :
             \/ rows'[e] = rows[e]
             \/ rows[e].status = "pending" /\ rows'[e].status = "in_progress"
      BY <2>6, <2>t DEF Take, Takeable, Row
    <3>2. QED
      BY <2>1, <2>6, <3>1 DEF Take
  <2>7. CASE Tick
    <3>1. \A e \in Emails : rows'[e].status = rows[e].status
      BY <2>7, <2>t DEF Tick, Later, Row
    <3>2. QED
      BY <2>1, <2>7, <3>1 DEF Tick
  <2>8. CASE UNCHANGED <<rows, accepted>>
    BY <2>1, <2>8
  <2>9. QED
    BY <2>2, <2>3, <2>4, <2>5, <2>6, <2>7, <2>8
       DEF Next, PassStep, vars, Claim, PassDone, StatementLost, Die
<1>3. Init => QueueInv
  BY InitQueueInv
<1>4. QueueInv /\ [Next]_vars => QueueInv'
  BY InductiveQueueInv
<1>5. QED
  BY <1>1, <1>2, <1>3, <1>4, PTL DEF Spec, KeepsPromise, Promise!Spec
-----------------------------------------------------------------------------
(* A row that says sent was accepted by the provider, with any number of   *)
(* workers: the half of the promise that overlapping passes, reaped rows   *)
(* and lost results leave standing (dispatchOutboundEmail marks a row sent *)
(* only after sendFn returned nil).                                        *)
SentIsAccepted ==
    \A e \in Emails : rows[e].status = "sent" => e \in accepted

(* A worker that is about to mark a row sent has had it accepted, and what *)
(* the provider accepted stays accepted, whoever takes the row next.       *)
ResultsHold ==
    \A w \in Workers :
        workers[w].step = "record" /\ workers[w].result = "sent"
            => workers[w].row \in accepted

AcceptedInv == TypeOK /\ ResultsHold /\ SentIsAccepted

LEMMA AcceptedStep == AcceptedInv /\ [Next]_vars => AcceptedInv'
<1> SUFFICES ASSUME AcceptedInv, [Next]_vars PROVE ResultsHold' /\ SentIsAccepted'
  BY QueueTypeStep DEF AcceptedInv
<1>t. /\ rows \in [Emails -> Row]
      /\ workers \in [Workers -> Worker]
      /\ \A w \in Workers : workers[w] \in Worker
  BY DEF AcceptedInv, TypeOK
<1>k. ResultsHold /\ SentIsAccepted
  BY DEF AcceptedInv
(* Most steps lead no worker to "record" and mark no row sent.             *)
<1>q. ASSUME accepted \subseteq accepted',
             \A w \in Workers : workers'[w] = workers[w] \/ workers'[w].step # "record",
             \A e \in Emails : rows'[e].status = "sent" => rows[e].status = "sent"
      PROVE  ResultsHold' /\ SentIsAccepted'
  BY <1>q, <1>k DEF ResultsHold, SentIsAccepted
<1>1. ASSUME NEW e \in Emails, Enqueue(e)
      PROVE  ResultsHold' /\ SentIsAccepted'
  <2>1. \A f \in Emails : rows'[f].status = "sent" => rows[f].status = "sent"
    BY <1>1, <1>t DEF Enqueue
  <2>2. QED
    BY <1>1, <1>q, <2>1 DEF Enqueue
<1>2. ASSUME NEW w \in Workers, Reap(w)
      PROVE  ResultsHold' /\ SentIsAccepted'
  <2>1. \A f \in Emails : rows'[f].status = "sent" => rows[f].status = "sent"
    BY <1>2 DEF Reap
  <2>2. \A v \in Workers : workers'[v] = workers[v] \/ workers'[v].step # "record"
    BY <1>2, <1>t DEF Reap, Goto, Claiming
  <2>3. QED
    BY <1>2, <1>q, <2>1, <2>2 DEF Reap
<1>3. ASSUME NEW w \in Workers, Claim(w) \/ PassDone(w) \/ StatementLost(w) \/ Die(w)
      PROVE  ResultsHold' /\ SentIsAccepted'
  <2>1. \A v \in Workers : workers'[v] = workers[v] \/ workers'[v].step # "record"
    BY <1>3, <1>t DEF Claim, PassDone, StatementLost, Die, Goto, Idle, Claiming
  <2>2. UNCHANGED <<rows, accepted>>
    BY <1>3 DEF Claim, PassDone, StatementLost, Die
  <2>3. QED
    BY <1>q, <2>1, <2>2
<1>4. ASSUME NEW w \in Workers, Take(w)
      PROVE  ResultsHold' /\ SentIsAccepted'
  <2>1. \A v \in Workers : workers'[v] = workers[v] \/ workers'[v].step # "record"
    BY <1>4, <1>t DEF Take, Goto
  <2>2. \A f \in Emails : rows'[f].status = "sent" => rows[f].status = "sent"
    BY <1>4, <1>t DEF Take, Row
  <2>3. QED
    BY <1>4, <1>q, <2>1, <2>2 DEF Take
<1>5. ASSUME NEW w \in Workers, Send(w)
      PROVE  ResultsHold' /\ SentIsAccepted'
  <2>1. PICK result \in {"sent", "error", "unknown_template"} :
           /\ accepted \subseteq accepted'
           /\ result = "sent" => workers[w].row \in accepted'
           /\ Goto(w, [step |-> "record", batch |-> workers[w].batch,
                       row |-> workers[w].row, attempts |-> workers[w].attempts,
                       result |-> result])
    BY <1>5 DEF Send
  <2>2. SentIsAccepted'
    BY <1>5, <1>k, <2>1 DEF Send, SentIsAccepted
  <2>3. /\ workers'[w].row = workers[w].row
        /\ workers'[w].result = result
        /\ \A v \in Workers \ {w} : workers'[v] = workers[v]
    BY <2>1, <1>t DEF Goto
  <2>4. ResultsHold'
    BY <1>k, <2>1, <2>3 DEF ResultsHold
  <2>5. QED
    BY <2>2, <2>4
<1>6. ASSUME NEW w \in Workers, Record(w)
      PROVE  ResultsHold' /\ SentIsAccepted'
  <2> DEFINE me == workers[w]
  <2>1. /\ me.row \in Emails
        /\ me.attempts \in Nat
        /\ me.result \in {"sent", "error", "unknown_template"}
        /\ me.result = "sent" => me.row \in accepted
    BY <1>6, <1>t, <1>k, WorkerFields DEF Record, ResultsHold
  <2>2. /\ rows'[me.row] = Recorded(rows[me.row], me.result, me.attempts)
        /\ \A f \in Emails \ {me.row} : rows'[f] = rows[f]
    BY <1>6, <1>t, <2>1 DEF Record
  <2>3. rows'[me.row].status = "sent" => me.result = "sent"
    BY <2>1, <2>2 DEF Recorded
  <2>4. SentIsAccepted'
    BY <1>6, <1>k, <2>1, <2>2, <2>3 DEF Record, SentIsAccepted
  <2>5. \A v \in Workers : workers'[v] = workers[v] \/ workers'[v].step # "record"
    BY <1>6, <1>t DEF Record, Goto
  <2>6. ResultsHold'
    BY <1>6, <1>k, <2>5 DEF Record, ResultsHold
  <2>7. QED
    BY <2>4, <2>6
<1>7. CASE Tick
  <2>1. \A f \in Emails : rows'[f].status = rows[f].status
    BY <1>7, <1>t DEF Tick, Later, Row
  <2>2. QED
    BY <1>7, <1>q, <2>1 DEF Tick
<1>8. CASE UNCHANGED vars
  BY <1>8, <1>q DEF vars
<1>9. QED
  BY <1>1, <1>2, <1>3, <1>4, <1>5, <1>6, <1>7, <1>8 DEF Next, PassStep

(* However many workers run the job, no row is marked sent that the        *)
(* provider has not accepted: no email is lost behind a 'sent'             *)
(* (MarkOutboundEmailSent).                                                *)
THEOREM SentCorrect == Spec => []SentIsAccepted
<1>1. Init => AcceptedInv
  <2> SUFFICES ASSUME Init PROVE ResultsHold /\ SentIsAccepted
    BY InitQueueInv DEF AcceptedInv, QueueInv
  <2>1. QED
    BY DEF Init, Idle, ResultsHold, SentIsAccepted
<1>2. AcceptedInv => SentIsAccepted
  BY DEF AcceptedInv
<1>3. QED
  BY <1>1, <1>2, AcceptedStep, PTL DEF Spec

(***************************************************************************)
(* The destination cache                                                   *)
(***************************************************************************)

(* Lists of keys without repetition, as container/list is used here.       *)

LEMMA ListFacts ==
    ASSUME NEW S, NEW s \in Seq(S)
    PROVE  /\ Len(s) \in Nat /\ DOMAIN s = 1 .. Len(s)
           /\ \A i \in 1 .. Len(s) : s[i] \in S
           /\ ToSet(s) \subseteq S
           /\ \A x : x \in ToSet(s) <=> \E i \in 1 .. Len(s) : s[i] = x
<1>1. Len(s) \in Nat /\ DOMAIN s = 1 .. Len(s) /\ \A i \in 1 .. Len(s) : s[i] \in S
  BY LenProperties, ElementOfSeq
<1>2. QED
  BY <1>1 DEF ToSet

(* A list without repetition has as many keys as places.                   *)
LEMMA ListCardinality ==
    ASSUME NEW S, NEW s \in Seq(S), IsInjective(s)
    PROVE  IsFiniteSet(ToSet(s)) /\ Cardinality(ToSet(s)) = Len(s)
<1>1. Len(s) \in Nat /\ DOMAIN s = 1 .. Len(s)
  BY ListFacts
<1>2. s \in [1 .. Len(s) -> ToSet(s)]
  BY <1>1, LenProperties DEF ToSet
<1>3. s \in Bijection(1 .. Len(s), ToSet(s))
  BY <1>1, <1>2 DEF Bijection, Injection, Surjection, IsInjective, ToSet
<1>4. /\ IsFiniteSet(1 .. Len(s)) /\ Cardinality(1 .. Len(s)) = Len(s)
  <2>1. /\ IsFiniteSet(1 .. Len(s))
        /\ Cardinality(1 .. Len(s)) = IF 1 > Len(s) THEN 0 ELSE Len(s) - 1 + 1
    BY <1>1, FS_Interval
  <2>2. QED
    BY <1>1, <2>1
<1>5. ExistsBijection(1 .. Len(s), ToSet(s))
  BY <1>3 DEF ExistsBijection
<1>6. QED
  BY <1>4, <1>5, FS_Bijection

(* Some places of a list, in their order: what is left is in the same      *)
(* order of use as before.                                                 *)
Thinned(S, s, t, f) ==
    /\ s \in Seq(S) /\ t \in Seq(S)
    /\ IsInjective(s)
    /\ f \in [1 .. Len(t) -> 1 .. Len(s)]
    /\ \A i \in 1 .. Len(t) : t[i] = s[f[i]]
    /\ \A i, j \in 1 .. Len(t) : i < j => f[i] < f[j]

LEMMA ThinnedFacts ==
    ASSUME NEW S, NEW s, NEW t, NEW f, Thinned(S, s, t, f)
    PROVE  /\ IsInjective(t)
           /\ ToSet(t) \subseteq ToSet(s)
           /\ UsedBefore(t) = UsedBefore(s) \cap (ToSet(t) \X ToSet(t))
<1>0. /\ s \in Seq(S) /\ t \in Seq(S)
      /\ IsInjective(s)
      /\ f \in [1 .. Len(t) -> 1 .. Len(s)]
      /\ \A i \in 1 .. Len(t) : t[i] = s[f[i]]
      /\ \A i, j \in 1 .. Len(t) : i < j => f[i] < f[j]
  BY DEF Thinned
<1>1. /\ Len(s) \in Nat /\ DOMAIN s = 1 .. Len(s)
      /\ Len(t) \in Nat /\ DOMAIN t = 1 .. Len(t)
  BY <1>0, ListFacts
<1>2. \A i, j \in 1 .. Len(s) : s[i] = s[j] => i = j
  BY <1>0, <1>1 DEF IsInjective
<1>3. \A i, j \in 1 .. Len(t) : f[i] = f[j] => i = j
  <2> SUFFICES ASSUME NEW i \in 1 .. Len(t), NEW j \in 1 .. Len(t), i # j
               PROVE  f[i] # f[j]
    OBVIOUS
  <2>1. f[i] \in Nat /\ f[j] \in Nat
    BY <1>0, <1>1
  <2>2. i < j \/ j < i
    BY <1>1
  <2>3. f[i] < f[j] \/ f[j] < f[i]
    BY <1>0, <2>2
  <2>4. QED
    BY <2>1, <2>3
<1>4. IsInjective(t)
  BY <1>0, <1>1, <1>2, <1>3 DEF IsInjective
<1>5. ToSet(t) \subseteq ToSet(s)
  BY <1>0, <1>1 DEF ToSet
<1>6. ASSUME NEW p \in UsedBefore(t)
      PROVE  p \in UsedBefore(s) \cap (ToSet(t) \X ToSet(t))
  <2>1. PICK i \in 1 .. Len(t), j \in 1 .. Len(t) :
           i < j /\ t[i] = p[1] /\ t[j] = p[2]
    BY <1>1, <1>6 DEF UsedBefore
  <2>2. p \in ToSet(t) \X ToSet(t) /\ p \in ToSet(s) \X ToSet(s)
    BY <1>5, <1>6 DEF UsedBefore
  <2>3. f[i] < f[j] /\ s[f[i]] = p[1] /\ s[f[j]] = p[2]
    BY <1>0, <2>1
  <2>4. QED
    BY <1>0, <1>1, <2>2, <2>3 DEF UsedBefore
<1>7. ASSUME NEW p \in UsedBefore(s) \cap (ToSet(t) \X ToSet(t))
      PROVE  p \in UsedBefore(t)
  <2>1. PICK i \in 1 .. Len(s), j \in 1 .. Len(s) :
           i < j /\ s[i] = p[1] /\ s[j] = p[2]
    BY <1>1, <1>7 DEF UsedBefore
  <2>2. PICK m \in 1 .. Len(t) : t[m] = p[1]
    BY <1>1, <1>7 DEF ToSet
  <2>3. PICK n \in 1 .. Len(t) : t[n] = p[2]
    BY <1>1, <1>7 DEF ToSet
  <2>4. f[m] = i /\ f[n] = j
    <3>1. f[m] \in 1 .. Len(s) /\ f[n] \in 1 .. Len(s)
      BY <1>0
    <3>2. s[f[m]] = s[i] /\ s[f[n]] = s[j]
      BY <1>0, <2>1, <2>2, <2>3
    <3>3. QED
      BY ONLY <1>2, <3>1, <3>2, i \in 1 .. Len(s), j \in 1 .. Len(s)
  <2>5. m < n
    <3>1. i \in Nat /\ j \in Nat /\ m \in Nat /\ n \in Nat
      BY <1>1
    <3>2. n < m => j < i
      BY <1>0, <2>4
    <3>3. m # n
      BY <2>1, <2>4, <3>1
    <3>4. QED
      BY <2>1, <3>1, <3>2, <3>3
  <2>6. p \in ToSet(t) \X ToSet(t)
    BY <1>7
  <2>7. QED
    BY <1>1, <2>2, <2>3, <2>5, <2>6 DEF UsedBefore
<1>8. UsedBefore(t) = UsedBefore(s) \cap (ToSet(t) \X ToSet(t))
  BY <1>6, <1>7
<1>9. QED
  BY <1>4, <1>5, <1>8

(* list.Remove: the key goes, the others keep their order.                 *)
LEMMA WithoutFacts ==
    ASSUME NEW S, NEW s \in Seq(S), IsInjective(s), NEW k
    PROVE  LET t == Without(s, k) IN
           /\ t \in Seq(S) /\ IsInjective(t)
           /\ Len(t) = IF k \in ToSet(s) THEN Len(s) - 1 ELSE Len(s)
           /\ ToSet(t) = ToSet(s) \ {k}
           /\ UsedBefore(t) = UsedBefore(s) \cap (ToSet(t) \X ToSet(t))
<1> DEFINE t == Without(s, k)
<1>1. /\ Len(s) \in Nat /\ DOMAIN s = 1 .. Len(s)
      /\ \A i \in 1 .. Len(s) : s[i] \in S
  BY ListFacts
<1>2. \A i, j \in 1 .. Len(s) : s[i] = s[j] => i = j
  BY <1>1 DEF IsInjective
<1>3. CASE k \notin ToSet(s)
  <2>1. t = s
    BY <1>3 DEF Without
  <2>2. UsedBefore(s) \subseteq ToSet(s) \X ToSet(s)
    BY DEF UsedBefore
  <2>3. QED
    BY <1>3, <2>1, <2>2
<1>4. CASE k \in ToSet(s)
  <2> DEFINE n == CHOOSE j \in DOMAIN s : s[j] = k
             a == SubSeq(s, 1, n - 1)
             b == SubSeq(s, n + 1, Len(s))
  <2>1. n \in 1 .. Len(s) /\ s[n] = k
    BY <1>1, <1>4 DEF ToSet
  <2>2. t = a \o b
    BY <1>4 DEF Without, RemoveAt
  <2> HIDE DEF n
  <2>3. /\ a \in Seq(S) /\ Len(a) = n - 1
        /\ \A i \in 1 .. n - 1 : a[i] = s[i]
    BY <1>1, <2>1, SubSeqProperties
  <2>4. /\ b \in Seq(S) /\ Len(b) = Len(s) - n
        /\ \A i \in 1 .. Len(s) - n : b[i] = s[n + i]
    <3>1. \A i \in n + 1 .. Len(s) : s[i] \in S
      BY <1>1, <2>1
    <3>2. /\ b \in Seq(S)
          /\ Len(b) = IF n + 1 <= Len(s) THEN Len(s) - (n + 1) + 1 ELSE 0
          /\ \A i \in 1 .. Len(s) - (n + 1) + 1 : b[i] = s[(n + 1) + i - 1]
      BY <1>1, <2>1, <3>1, SubSeqProperties
    <3> HIDE DEF b
    <3>3. n \in Nat /\ n <= Len(s) /\ Len(s) \in Nat
      BY <1>1, <2>1
    <3>4. Len(b) = Len(s) - n
      BY ONLY <3>2, <3>3, SMT
    <3>5. ASSUME NEW i \in 1 .. Len(s) - n PROVE b[i] = s[n + i]
      <4>1. i \in 1 .. Len(s) - (n + 1) + 1 /\ (n + 1) + i - 1 = n + i
        BY <3>3
      <4>2. QED
        BY <3>2, <4>1
    <3>6. QED
      BY <3>2, <3>4, <3>5
  <2> HIDE DEF a, b, t
  <2>5. /\ t \in Seq(S) /\ Len(t) = Len(s) - 1
        /\ \A i \in 1 .. Len(s) - 1 : t[i] = IF i <= n - 1 THEN a[i] ELSE b[i - (n - 1)]
    <3>1. /\ t \in Seq(S) /\ Len(t) = Len(a) + Len(b)
          /\ \A i \in 1 .. Len(a) + Len(b) :
                t[i] = IF i <= Len(a) THEN a[i] ELSE b[i - Len(a)]
      BY <2>2, <2>3, <2>4, ConcatProperties
    <3>2. QED
      BY <1>1, <2>1, <2>3, <2>4, <3>1
  <2> DEFINE f == [i \in 1 .. Len(t) |-> IF i < n THEN i ELSE i + 1]
  <2>6. f \in [1 .. Len(t) -> 1 .. Len(s)]
    BY <1>1, <2>1, <2>5
  <2>7. \A i \in 1 .. Len(t) : t[i] = s[f[i]]
    <3>1. TAKE i \in 1 .. Len(t)
    <3>2. CASE i < n
      BY <1>1, <2>1, <2>3, <2>5, <3>2
    <3>3. CASE i >= n
      <4> DEFINE m == i - (n - 1)
      <4>1. m \in 1 .. Len(s) - n /\ n + m = i + 1
        <5>1. i \in Nat /\ n \in Nat /\ Len(s) \in Nat /\ i <= Len(s) - 1
          BY <1>1, <2>1, <2>5
        <5>2. QED
          BY ONLY <3>3, <5>1, SMT
      <4>2. b[m] = s[n + m]
        BY <2>4, <4>1
      <4>3. t[i] = b[m]
        BY <1>1, <2>1, <2>5, <3>3
      <4>4. f[i] = n + m
        BY <1>1, <2>1, <2>5, <3>3
      <4>5. QED
        BY <4>2, <4>3, <4>4
    <3>4. QED
      BY <1>1, <2>1, <2>5, <3>2, <3>3
  <2>8. \A i, j \in 1 .. Len(t) : i < j => f[i] < f[j]
    BY <1>1, <2>1, <2>5
  <2> HIDE DEF f
  <2>9. /\ IsInjective(t) /\ ToSet(t) \subseteq ToSet(s)
        /\ UsedBefore(t) = UsedBefore(s) \cap (ToSet(t) \X ToSet(t))
    <3>1. Thinned(S, s, t, f)
      BY <2>5, <2>6, <2>7, <2>8 DEF Thinned
    <3>2. QED
      BY ONLY <3>1, ThinnedFacts
  <2>10. k \notin ToSet(t)
    <3> SUFFICES ASSUME k \in ToSet(t) PROVE FALSE
      OBVIOUS
    <3>1. PICK i \in 1 .. Len(t) : t[i] = k
      BY <2>5, ListFacts
    <3>2. f[i] = n
      BY <1>2, <2>1, <2>6, <2>7, <3>1
    <3>3. QED
      BY <1>1, <2>1, <2>5, <3>1, <3>2 DEF f
  <2>11. ASSUME NEW x \in ToSet(s), x # k PROVE x \in ToSet(t)
    <3>1. PICK i \in 1 .. Len(s) : s[i] = x
      BY ListFacts
    <3>2. i # n
      BY <2>1, <2>11, <3>1
    <3> DEFINE j == IF i < n THEN i ELSE i - 1
    <3>3. j \in 1 .. Len(t) /\ f[j] = i
      BY <1>1, <2>1, <2>5, <3>2 DEF f
    <3>4. t[j] = x
      BY <2>7, <3>1, <3>3
    <3>5. QED
      BY <2>5, <3>3, <3>4, ListFacts
  <2>12. ToSet(t) = ToSet(s) \ {k}
    BY <2>9, <2>10, <2>11
  <2>13. QED
    BY <1>4, <2>5, <2>9, <2>12 DEF t
<1>5. QED
  BY <1>3, <1>4

(* PushBack and MoveToBack: the key is used after all others.              *)
LEMMA AppendFacts ==
    ASSUME NEW S, NEW s \in Seq(S), IsInjective(s), NEW k \in S \ ToSet(s)
    PROVE  LET t == Append(s, k) IN
           /\ t \in Seq(S) /\ IsInjective(t)
           /\ Len(t) = Len(s) + 1
           /\ ToSet(t) = ToSet(s) \cup {k}
           /\ UsedBefore(t) = UsedBefore(s) \cup (ToSet(s) \X {k})
<1> DEFINE t == Append(s, k)
<1>1. /\ Len(s) \in Nat /\ DOMAIN s = 1 .. Len(s)
  BY ListFacts
<1>2. /\ t \in Seq(S) /\ Len(t) = Len(s) + 1
      /\ \A i \in 1 .. Len(s) : t[i] = s[i]
      /\ t[Len(s) + 1] = k
  BY AppendProperties
<1> HIDE DEF t
<1>3. DOMAIN t = 1 .. Len(s) + 1
  BY <1>2, ListFacts
<1>4. \A i \in 1 .. Len(s) : s[i] # k /\ s[i] \in ToSet(s)
  BY <1>1 DEF ToSet
<1>5. \A i \in 1 .. Len(s) + 1 : i \in 1 .. Len(s) \/ i = Len(s) + 1
  BY <1>1
<1>6. IsInjective(t)
  BY <1>1, <1>2, <1>3, <1>4, <1>5 DEF IsInjective
<1>7. ToSet(t) = ToSet(s) \cup {k}
  BY <1>1, <1>2, <1>3, <1>5 DEF ToSet
<1>8. ASSUME NEW p \in UsedBefore(t)
      PROVE  p \in UsedBefore(s) \cup (ToSet(s) \X {k})
  <2>1. PICK i \in 1 .. Len(s) + 1, j \in 1 .. Len(s) + 1 :
           i < j /\ t[i] = p[1] /\ t[j] = p[2]
    BY <1>3, <1>8 DEF UsedBefore
  <2>2. p = <<p[1], p[2]>>
    BY <1>8 DEF UsedBefore
  <2>3. i \in 1 .. Len(s) /\ s[i] = p[1]
    BY <1>1, <1>2, <2>1
  <2>4. CASE j = Len(s) + 1
    BY <1>2, <1>4, <2>1, <2>2, <2>3, <2>4
  <2>5. CASE j \in 1 .. Len(s)
    <3>1. s[j] = p[2] /\ p \in ToSet(s) \X ToSet(s)
      BY <1>2, <1>4, <2>1, <2>2, <2>3, <2>5
    <3>2. QED
      BY <1>1, <2>1, <2>3, <2>5, <3>1 DEF UsedBefore
  <2>6. QED
    BY <1>5, <2>4, <2>5
<1>9. ASSUME NEW p \in UsedBefore(s)
      PROVE  p \in UsedBefore(t)
  <2>1. PICK i \in 1 .. Len(s), j \in 1 .. Len(s) :
           i < j /\ s[i] = p[1] /\ s[j] = p[2]
    BY <1>1, <1>9 DEF UsedBefore
  <2>2. p \in ToSet(t) \X ToSet(t)
    BY <1>7, <1>9 DEF UsedBefore
  <2>3. i \in DOMAIN t /\ j \in DOMAIN t
    BY <1>1, <1>3
  <2>4. QED
    BY <1>2, <2>1, <2>2, <2>3 DEF UsedBefore
<1>10. ASSUME NEW p \in ToSet(s) \X {k}
       PROVE  p \in UsedBefore(t)
  <2>1. PICK i \in 1 .. Len(s) : s[i] = p[1]
    BY <1>1 DEF ToSet
  <2>2. p \in ToSet(t) \X ToSet(t) /\ p[2] = k
    BY <1>7
  <2>3. i \in DOMAIN t /\ Len(s) + 1 \in DOMAIN t /\ i < Len(s) + 1
    BY <1>1, <1>3
  <2>4. QED
    BY <1>2, <2>1, <2>2, <2>3 DEF UsedBefore
<1>11. UsedBefore(t) = UsedBefore(s) \cup (ToSet(s) \X {k})
  BY <1>8, <1>9, <1>10
<1>12. QED
  BY <1>2, <1>6, <1>7, <1>11 DEF t

(* Eviction from the front: the rest keeps its order, and each of it was   *)
(* used after each that went.                                              *)
LEMMA KeptFacts ==
    ASSUME NEW S, NEW s \in Seq(S), IsInjective(s), NEW n \in 0 .. Len(s)
    PROVE  LET gone == ToSet(SubSeq(s, 1, n))
               kept == SubSeq(s, n + 1, Len(s)) IN
           /\ kept \in Seq(S) /\ IsInjective(kept)
           /\ Len(kept) = Len(s) - n
           /\ ToSet(kept) = ToSet(s) \ gone
           /\ n = 0 => gone = {}
           /\ UsedBefore(kept) = UsedBefore(s) \cap (ToSet(kept) \X ToSet(kept))
           /\ \A x \in ToSet(kept), y \in ToSet(s) \ ToSet(kept) :
                 <<y, x>> \in UsedBefore(s)
<1> DEFINE front == SubSeq(s, 1, n)
           kept == SubSeq(s, n + 1, Len(s))
<1>1. /\ Len(s) \in Nat /\ DOMAIN s = 1 .. Len(s)
      /\ \A i \in 1 .. Len(s) : s[i] \in S
  BY ListFacts
<1>2. \A i, j \in 1 .. Len(s) : s[i] = s[j] => i = j
  BY <1>1 DEF IsInjective
<1>3. n \in Nat /\ n <= Len(s)
  BY <1>1
<1>4. /\ front \in Seq(S) /\ Len(front) = n
      /\ \A i \in 1 .. n : front[i] = s[i]
  <2>1. \A i \in 1 .. n : s[i] \in S
    BY <1>1, <1>3
  <2>2. /\ front \in Seq(S)
        /\ Len(front) = IF 1 <= n THEN n - 1 + 1 ELSE 0
        /\ \A i \in 1 .. n - 1 + 1 : front[i] = s[1 + i - 1]
    BY <1>3, <2>1, SubSeqProperties
  <2> HIDE DEF front
  <2>3. Len(front) = n
    BY ONLY <1>3, <2>2, SMT
  <2>4. ASSUME NEW i \in 1 .. n PROVE front[i] = s[i]
    <3>1. i \in 1 .. n - 1 + 1 /\ 1 + i - 1 = i
      BY <1>3
    <3>2. QED
      BY <2>2, <3>1
  <2>5. QED
    BY <2>2, <2>3, <2>4
<1>5. /\ kept \in Seq(S) /\ Len(kept) = Len(s) - n
      /\ \A i \in 1 .. Len(s) - n : kept[i] = s[n + i]
  <2>1. \A i \in n + 1 .. Len(s) : s[i] \in S
    BY <1>1, <1>3
  <2>2. /\ kept \in Seq(S)
        /\ Len(kept) = IF n + 1 <= Len(s) THEN Len(s) - (n + 1) + 1 ELSE 0
        /\ \A i \in 1 .. Len(s) - (n + 1) + 1 : kept[i] = s[(n + 1) + i - 1]
    BY <1>1, <1>3, <2>1, SubSeqProperties
  <2> HIDE DEF kept
  <2>3. Len(kept) = Len(s) - n
    <3>1. Len(s) \in Nat
      BY <1>1
    <3>2. CASE n + 1 <= Len(s)
      BY <1>3, <2>2, <3>1, <3>2
    <3>3. CASE n = Len(s)
      BY <1>3, <2>2, <3>1, <3>3
    <3>4. QED
      BY <1>3, <3>1, <3>2, <3>3
  <2>4. ASSUME NEW i \in 1 .. Len(s) - n PROVE kept[i] = s[n + i]
    <3>1. i \in 1 .. Len(s) - (n + 1) + 1 /\ (n + 1) + i - 1 = n + i
      BY <1>1, <1>3
    <3>2. QED
      BY <2>2, <3>1
  <2>5. QED
    BY <2>2, <2>3, <2>4
<1> HIDE DEF front, kept
<1> DEFINE f == [i \in 1 .. Len(kept) |-> n + i]
<1>6. /\ f \in [1 .. Len(kept) -> 1 .. Len(s)]
      /\ \A i \in 1 .. Len(kept) : kept[i] = s[f[i]]
      /\ \A i, j \in 1 .. Len(kept) : i < j => f[i] < f[j]
  BY <1>1, <1>3, <1>5
<1> HIDE DEF f
<1>7. /\ IsInjective(kept) /\ ToSet(kept) \subseteq ToSet(s)
      /\ UsedBefore(kept) = UsedBefore(s) \cap (ToSet(kept) \X ToSet(kept))
  <2>1. Thinned(S, s, kept, f)
    BY <1>5, <1>6 DEF Thinned
  <2>2. QED
    BY ONLY <2>1, ThinnedFacts
<1>8. \A x : x \in ToSet(front) <=> \E i \in 1 .. n : s[i] = x
  BY <1>4, ListFacts
<1>9. ASSUME NEW x
      PROVE  x \in ToSet(kept) <=> \E i \in 1 .. Len(s) : n < i /\ s[i] = x
  <2>1. x \in ToSet(kept) <=> \E i \in 1 .. Len(s) - n : s[n + i] = x
    <3>1. x \in ToSet(kept) <=> \E i \in 1 .. Len(kept) : kept[i] = x
      BY <1>5, ListFacts
    <3>2. QED
      BY <1>5, <3>1
  <2>2. ASSUME NEW i \in 1 .. Len(s) - n, s[n + i] = x
        PROVE  \E j \in 1 .. Len(s) : n < j /\ s[j] = x
    <3>1. n + i \in 1 .. Len(s) /\ n < n + i
      BY <1>1, <1>3
    <3>2. QED
      BY <2>2, <3>1
  <2>3. ASSUME NEW j \in 1 .. Len(s), n < j, s[j] = x
        PROVE  \E i \in 1 .. Len(s) - n : s[n + i] = x
    <3>1. j - n \in 1 .. Len(s) - n /\ n + (j - n) = j
      BY <1>1, <1>3, <2>3
    <3>2. QED
      BY <2>3, <3>1
  <2>4. QED
    BY <2>1, <2>2, <2>3
<1>10. \A x : x \in ToSet(s) <=> \E i \in 1 .. Len(s) : s[i] = x
  BY ListFacts
<1>11. ToSet(kept) = ToSet(s) \ ToSet(front)
  <2>1. ASSUME NEW x \in ToSet(s) PROVE x \in ToSet(kept) <=> x \notin ToSet(front)
    <3>1. PICK i \in 1 .. Len(s) : s[i] = x
      BY <1>10
    <3>2. x \in ToSet(front) <=> i <= n
      BY <1>1, <1>2, <1>3, <1>8, <3>1
    <3>3. x \in ToSet(kept) <=> n < i
      BY <1>2, <1>9, <3>1
    <3>4. QED
      BY <1>1, <1>3, <3>2, <3>3
  <2>2. QED
    BY <1>7, <2>1
<1>12. n = 0 => ToSet(front) = {}
  BY <1>8
<1>13. ASSUME NEW x \in ToSet(kept), NEW y \in ToSet(s) \ ToSet(kept)
       PROVE  <<y, x>> \in UsedBefore(s)
  <2>1. PICK j \in 1 .. Len(s) : n < j /\ s[j] = x
    BY <1>9
  <2>2. PICK i \in 1 .. Len(s) : s[i] = y
    BY <1>10
  <2>3. ~ (n < i)
    BY <1>9, <2>2
  <2>4. i < j
    BY <1>1, <1>3, <2>1, <2>3
  <2>5. <<y, x>> \in ToSet(s) \X ToSet(s)
    BY <1>7
  <2>6. QED
    BY <1>1, <2>1, <2>2, <2>4, <2>5 DEF UsedBefore
<1>14. QED
  BY <1>5, <1>7, <1>11, <1>12, <1>13 DEF front, kept

-----------------------------------------------------------------------------
(* Each method of MemoryCache keeps list and map in agreement, and does    *)
(* one step of RecencyPromise or none.                                     *)

LEMMA SameCardinality == \A S : Recency!Cardinality(S) = Cardinality(S)
  BY DEF Recency!Cardinality, Cardinality, Recency!IsFiniteSet, IsFiniteSet

LEMMA MemoryFacts ==
    ASSUME MemoryTypeOK
    PROVE  /\ Len(lru) \in Nat /\ Cap \in Nat \ {0}
           /\ IsFiniteSet(Held) /\ Cardinality(Held) = Len(lru)
           /\ UsedBefore(lru) \subseteq Held \X Held
<1>1. Len(lru) \in Nat
  BY ListFacts DEF MemoryTypeOK
<1>2. IsFiniteSet(Held) /\ Cardinality(Held) = Len(lru)
  <2>1. IsFiniteSet(ToSet(lru)) /\ Cardinality(ToSet(lru)) = Len(lru)
    BY ListCardinality DEF MemoryTypeOK
  <2>2. QED
    BY <2>1 DEF MemoryTypeOK
<1>3. UsedBefore(lru) \subseteq ToSet(lru) \X ToSet(lru)
  BY DEF UsedBefore
<1>4. QED
  BY <1>1, <1>2, <1>3, MemoryCacheAssumption DEF MemoryTypeOK

(* removeLocked.                                                           *)
LEMMA RemoveStep ==
    ASSUME MemoryTypeOK, NEW k \in Held, RemoveLocked(k)
    PROVE  /\ MemoryTypeOK'
           /\ Held' = Held \ {k}
           /\ \A x \in Held' : items'[x] = items[x]
           /\ Recency!Drop(k)
<1> DEFINE t == Without(lru, k)
<1>1. /\ lru' = t /\ latest' = latest
      /\ items' = [x \in Held \ {k} |-> items[x]]
  BY DEF RemoveLocked
<1>2. /\ t \in Seq(Keys) /\ IsInjective(t)
      /\ Len(t) = IF k \in ToSet(lru) THEN Len(lru) - 1 ELSE Len(lru)
      /\ ToSet(t) = ToSet(lru) \ {k}
      /\ UsedBefore(t) = UsedBefore(lru) \cap (ToSet(t) \X ToSet(t))
  BY WithoutFacts DEF MemoryTypeOK
<1> HIDE DEF t
<1>3. Held' = Held \ {k} /\ \A x \in Held' : items'[x] = items[x]
  BY <1>1 DEF Held
<1>4. MemoryTypeOK'
  <2>1. Len(lru') <= Cap
    BY <1>1, <1>2, MemoryFacts DEF MemoryTypeOK
  <2>2. items' \in [Held' -> [value : Values, left : Nat \cup {Lapsed, Forever}]]
    BY <1>1, <1>3 DEF MemoryTypeOK
  <2>3. QED
    BY <1>1, <1>2, <1>3, <2>1, <2>2 DEF MemoryTypeOK
<1>5. Recency!Drop(k)
  <2>1. UsedBefore(lru') = {p \in UsedBefore(lru) : p[1] # k /\ p[2] # k}
    BY <1>1, <1>2, MemoryFacts DEF MemoryTypeOK
  <2>2. QED
    BY <1>1, <1>3, <2>1 DEF Recency!Drop
<1>6. QED
  BY <1>3, <1>4, <1>5

(* MoveToBack of a key that is held.                                       *)
LEMMA MovedFacts ==
    ASSUME MemoryTypeOK, NEW k \in Held
    PROVE  /\ Moved(k) \in Seq(Keys) /\ IsInjective(Moved(k))
           /\ Len(Moved(k)) = Len(lru)
           /\ ToSet(Moved(k)) = Held
           /\ UsedBefore(Moved(k)) = Recency!Last(k, Held)
<1> DEFINE t == Without(lru, k)
<1>1. /\ t \in Seq(Keys) /\ IsInjective(t)
      /\ Len(t) = Len(lru) - 1
      /\ ToSet(t) = Held \ {k}
      /\ UsedBefore(t) = UsedBefore(lru) \cap (ToSet(t) \X ToSet(t))
  BY WithoutFacts DEF MemoryTypeOK
<1>2. k \in Keys \ ToSet(t)
  BY <1>1 DEF MemoryTypeOK
<1>3. /\ Moved(k) \in Seq(Keys) /\ IsInjective(Moved(k))
      /\ Len(Moved(k)) = Len(t) + 1
      /\ ToSet(Moved(k)) = ToSet(t) \cup {k}
      /\ UsedBefore(Moved(k)) = UsedBefore(t) \cup (ToSet(t) \X {k})
  BY <1>1, <1>2, AppendFacts DEF Moved
<1> HIDE DEF t
<1>4. Len(Moved(k)) = Len(lru)
  BY <1>1, <1>3, MemoryFacts
<1>5. UsedBefore(Moved(k)) = Recency!Last(k, Held)
  BY <1>1, <1>3, MemoryFacts DEF Recency!Last
<1>6. QED
  BY <1>1, <1>3, <1>4, <1>5

LEMMA GetStep ==
    ASSUME MemoryTypeOK, NEW k \in Keys, Get(k)
    PROVE  /\ MemoryTypeOK'
           /\ Held' \subseteq Held
           /\ \A x \in Held' : items'[x] = items[x]
           /\ [Recency!Next]_(Recency!vars)
<1>1. CASE k \in Held /\ lru' = Moved(k) /\ latest' = k /\ UNCHANGED items
  <2>1. Held' = Held /\ Len(lru') <= Cap
    BY <1>1, MovedFacts DEF Held, MemoryTypeOK
  <2>2. MemoryTypeOK'
    BY <1>1, <2>1, MovedFacts DEF MemoryTypeOK
  <2>3. Recency!Use(k)
    BY <1>1, <2>1, MovedFacts DEF Recency!Use
  <2>4. QED
    BY <1>1, <2>1, <2>2, <2>3 DEF Recency!Next
<1>2. CASE k \in Held /\ RemoveLocked(k)
  BY <1>2, RemoveStep DEF Recency!Next
<1>3. CASE UNCHANGED memoryVars
  BY <1>3 DEF memoryVars, Held, MemoryTypeOK, Recency!vars
<1>4. QED
  BY <1>1, <1>2, <1>3 DEF Get, Live

LEMMA SetStep ==
    ASSUME MemoryTypeOK, NEW k \in Keys, NEW v \in Values,
           NEW left \in Nat \cup {Lapsed, Forever}, Set(k, v, left)
    PROVE  /\ MemoryTypeOK'
           /\ Held' \subseteq Held \cup {k}
           /\ items'[k] = [value |-> v, left |-> left]
           /\ \A x \in Held' \ {k} : items'[x] = items[x]
           /\ [Recency!Next]_(Recency!vars)
<1> DEFINE n == Evictions(k)
           gone == ToSet(SubSeq(lru, 1, n))
           kept == SubSeq(lru, n + 1, Len(lru))
           t == Without(kept, k)
           entry == [value |-> v, left |-> left]
<1>1. /\ items' = [x \in (Held \ gone) \cup {k} |-> IF x = k THEN entry ELSE items[x]]
      /\ lru' = Append(t, k)
      /\ latest' = k
  BY DEF Set
<1>2. n = IF k \in Held \/ Len(lru) < Cap THEN 0 ELSE Len(lru) - Cap + 1
  BY DEF Evictions
<1>3. n \in 0 .. Len(lru) /\ Len(lru) \in Nat /\ Len(lru) <= Cap /\ Cap \in Nat \ {0}
  BY <1>2, MemoryFacts DEF MemoryTypeOK
<1> HIDE DEF n
<1>4. /\ kept \in Seq(Keys) /\ IsInjective(kept)
      /\ Len(kept) = Len(lru) - n
      /\ ToSet(kept) = Held \ gone
      /\ n = 0 => gone = {}
      /\ UsedBefore(kept) = UsedBefore(lru) \cap (ToSet(kept) \X ToSet(kept))
      /\ \A x \in ToSet(kept), y \in Held \ ToSet(kept) : <<y, x>> \in UsedBefore(lru)
  BY <1>3, KeptFacts DEF MemoryTypeOK
<1> HIDE DEF gone, kept
<1>5. /\ t \in Seq(Keys) /\ IsInjective(t)
      /\ Len(t) = IF k \in ToSet(kept) THEN Len(kept) - 1 ELSE Len(kept)
      /\ ToSet(t) = ToSet(kept) \ {k}
      /\ UsedBefore(t) = UsedBefore(kept) \cap (ToSet(t) \X ToSet(t))
  BY <1>4, WithoutFacts
<1> HIDE DEF t
<1>6. k \in Keys \ ToSet(t)
  BY <1>5
<1>7. /\ lru' \in Seq(Keys) /\ IsInjective(lru')
      /\ Len(lru') = Len(t) + 1
      /\ ToSet(lru') = ToSet(t) \cup {k}
      /\ UsedBefore(lru') = UsedBefore(t) \cup (ToSet(t) \X {k})
  BY <1>1, <1>5, <1>6, AppendFacts
<1>8. Held' = (Held \ gone) \cup {k}
  BY <1>1 DEF Held
<1>9. ToSet(lru') = Held'
  BY <1>4, <1>5, <1>7, <1>8
<1>10. Len(lru') <= Cap
  <2>1. CASE k \in Held
    <3>1. n = 0 /\ k \in ToSet(kept)
      BY <1>2, <1>4, <2>1
    <3>2. QED
      BY <1>3, <1>4, <1>5, <1>7, <3>1
  <2>2. CASE k \notin Held
    <3>1. k \notin ToSet(kept)
      BY <1>4, <2>2
    <3>2. Len(lru') = Len(lru) - n + 1
      BY <1>4, <1>5, <1>7, <3>1
    <3>3. QED
      BY <1>2, <1>3, <2>2, <3>2
  <2>3. QED
    BY <2>1, <2>2
<1>11. items'[k] = entry /\ \A x \in Held' \ {k} : items'[x] = items[x] /\ x \in Held
  BY <1>1, <1>8
<1>12. MemoryTypeOK'
  <2>1. entry \in [value : Values, left : Nat \cup {Lapsed, Forever}]
    OBVIOUS
  <2>2. items \in [Held -> [value : Values, left : Nat \cup {Lapsed, Forever}]]
    BY DEF MemoryTypeOK
  <2> HIDE DEF entry
  <2>3. items' \in [Held' -> [value : Values, left : Nat \cup {Lapsed, Forever}]]
    BY <1>1, <1>8, <2>1, <2>2
  <2>4. Held' \subseteq Keys
    BY <1>8 DEF MemoryTypeOK
  <2>5. QED
    BY <1>1, <1>7, <1>9, <1>10, <2>3, <2>4 DEF MemoryTypeOK
<1>13. UsedBefore(lru') = Recency!Last(k, Held')
  <2>1. Held' \ {k} = ToSet(t)
    BY <1>4, <1>5, <1>8
  <2>2. UsedBefore(lru) \subseteq Held \X Held
    BY MemoryFacts
  <2>3. UsedBefore(t) = {p \in UsedBefore(lru) : p[1] \in ToSet(t) /\ p[2] \in ToSet(t)}
    BY <1>4, <1>5, <2>2
  <2>4. QED
    BY <1>7, <2>1, <2>3 DEF Recency!Last
<1>14. CASE k \in Held
  <2>1. Held' = Held
    BY <1>2, <1>4, <1>8, <1>14
  <2>2. Recency!Use(k)
    BY <1>1, <1>13, <1>14, <2>1 DEF Recency!Use
  <2>3. QED
    BY <1>8, <1>11, <1>12, <2>2 DEF Recency!Next
<1>15. CASE k \notin Held
  <2> DEFINE S == Held \ gone
  <2>1. S \in SUBSET Held /\ Held' = S \cup {k} /\ S = ToSet(kept)
    BY <1>4, <1>8
  <2>2. Cardinality(Held) = Len(lru)
    BY MemoryFacts
  <2>3. IF Cardinality(Held) < Cap THEN S = Held
        ELSE /\ Cardinality(S) = Cap - 1
             /\ \A x \in S, y \in Held \ S : <<y, x>> \in UsedBefore(lru)
    <3>1. CASE Len(lru) < Cap
      <4>1. S = Held
        BY <1>2, <1>4, <3>1
      <4>2. QED
        BY <2>2, <3>1, <4>1
    <3>2. CASE ~ (Len(lru) < Cap)
      <4>1. Len(kept) = Cap - 1
        BY <1>2, <1>3, <1>4, <1>15, <3>2
      <4>2. Cardinality(ToSet(kept)) = Len(kept)
        BY <1>4, ListCardinality
      <4>3. Cardinality(S) = Cap - 1
        BY <2>1, <4>1, <4>2
      <4>4. \A x \in S, y \in Held \ S : <<y, x>> \in UsedBefore(lru)
        BY <1>4, <2>1
      <4>5. QED
        BY <2>2, <3>2, <4>3, <4>4
    <3>3. QED
      BY <3>1, <3>2
  <2> HIDE DEF S
  <2>4. Recency!Insert(k)
    BY <1>1, <1>13, <1>15, <2>1, <2>3, SameCardinality DEF Recency!Insert
  <2>5. QED
    BY <1>8, <1>11, <1>12, <2>4 DEF Recency!Next
<1>16. QED
  BY <1>14, <1>15

LEMMA AgesStep ==
    ASSUME MemoryTypeOK, MemoryAges
    PROVE  /\ MemoryTypeOK'
           /\ Held' = Held
           /\ \A x \in Held : /\ items'[x].value = items[x].value
                              /\ items'[x].left = Older(items[x].left)
           /\ UNCHANGED Recency!vars
<1> DEFINE Entries == [value : Values, left : Nat \cup {Lapsed, Forever}]
<1>1. /\ items' = [x \in Held |-> [items[x] EXCEPT !.left = Older(@)]]
      /\ lru' = lru /\ latest' = latest
  BY DEF MemoryAges
<1>2. \A x \in Held : items[x] \in Entries
  BY DEF MemoryTypeOK
<1>3. \A left \in Nat \cup {Lapsed, Forever} :
         Older(left) \in Nat \cup {Lapsed, Forever}
  BY DEF Older, Lapsed, Forever
<1>4. Held' = Held
  BY <1>1 DEF Held
<1>5. \A x \in Held : /\ items'[x] \in Entries
                     /\ items'[x].value = items[x].value
                     /\ items'[x].left = Older(items[x].left)
  <2> SUFFICES ASSUME NEW x \in Held
               PROVE  /\ items'[x] \in Entries
                      /\ items'[x].value = items[x].value
                      /\ items'[x].left = Older(items[x].left)
    OBVIOUS
  <2>1. items'[x] = [items[x] EXCEPT !.left = Older(items[x].left)]
    BY <1>1
  <2>2. Older(items[x].left) \in Nat \cup {Lapsed, Forever}
    BY <1>2, <1>3
  <2>3. QED
    BY <1>2, <2>1, <2>2
<1>6. MemoryTypeOK'
  <2>1. items' \in [Held' -> Entries]
    BY <1>1, <1>4, <1>5
  <2>2. QED
    BY <1>1, <1>4, <2>1 DEF MemoryTypeOK
<1>7. QED
  BY <1>1, <1>4, <1>5, <1>6 DEF Recency!vars

-----------------------------------------------------------------------------
(* How fresh a listing is, wherever it is: the time it may still be kept   *)
(* is so much less the longer it has not been the answer.                  *)

(* The entry in memory was stored by the request that loaded it, at most   *)
(* one unit after the load.                                                *)
MemoryFresh ==
    ListKey \in Held =>
        /\ items[ListKey].value \in Listings
        /\ items[ListKey].left \in {Lapsed} \cup 0 .. TTL
        /\ Live(ListKey) =>
              unseen[items[ListKey].value] + items[ListKey].left <= TTL + 1

(* Redis has it from such a request, or as a copy of the entry in memory.  *)
RedisFresh == redis # None => unseen[redis.value] + redis.left <= Bound + 1

(* A request that has loaded the listing, or found it in memory, has seen  *)
(* at most one unit pass.                                                  *)
Delay(h) == IF h \in late THEN 1 ELSE 0

RequestFresh(h) ==
    /\ requests[h].step \in {"store", "storeFallback"} =>
          unseen[requests[h].value] <= Delay(h)
    /\ requests[h].step = "copy" =>
          unseen[requests[h].value] <= TTL + 1 + Delay(h)

RequestsFresh == \A h \in Handlers : RequestFresh(h)

FreshInv == DestinationTypeOK /\ MemoryFresh /\ RedisFresh /\ RequestsFresh

LEMMA BoundFacts ==
    /\ TTL \in Nat \ {0} /\ CopyTTL \in Nat \ {0}
    /\ Bound \in Nat /\ Bound = TTL + CopyTTL + 1
    /\ Listings \subseteq Values /\ Fallback \in Listings /\ ListKey \in Keys
  BY DestinationAssumption DEF Bound, Listings

(* The fields of a request, by the step it is at.                          *)
LEMMA RequestFields ==
    ASSUME NEW r \in Request
    PROVE  /\ r.step \in {"copy", "store", "storeFallback"} => r.value \in Listings
           /\ r.step = "write" => r.row \in DestinationRow
           /\ r # NoRequest => r.step # "idle"
  BY DEF Request, NoRequest

LEMMA RequestTypes ==
    /\ NoRequest \in Request
    /\ \A x \in {"fallback", "load", "drop", "dropFallback"} : [step |-> x] \in Request
    /\ \A x \in {"copy", "store", "storeFallback"}, v \in Listings :
          [step |-> x, value |-> v] \in Request
    /\ \A r \in DestinationRow : [step |-> "write", row |-> r] \in Request
  BY DEF Request, NoRequest

LEMMA ListingType == \A r \in DestinationRow : Listing(r) \in Listings
  BY DEF Listing, Listings, DestinationRow

(* What a step of one handler does to the requests.                        *)
LEMMA ProceedFacts ==
    ASSUME requests \in [Handlers -> Request], late \subseteq Handlers,
           NEW h \in Handlers, NEW r \in Request,
           \/ Proceed(h, r)
           \/ r = NoRequest /\ Done(h)
    PROVE  /\ requests' \in [Handlers -> Request] /\ late' \subseteq Handlers
           /\ requests'[h] = r
           /\ \A g \in Handlers \ {h} : requests'[g] = requests[g]
           /\ Proceed(h, r) => late' = late
           /\ \A g \in Handlers \ {h} : g \in late' <=> g \in late
  BY DEF Proceed, Done

-----------------------------------------------------------------------------
(* What a step leaves alone stays fresh, also when a listing becomes the   *)
(* answer again.                                                           *)

Younger == /\ unseen' \in [Listings -> 0 .. Bound + 1]
           /\ \A v \in Listings : unseen'[v] <= unseen[v]

LEMMA YoungerFacts ==
    ASSUME unseen \in [Listings -> 0 .. Bound + 1]
    PROVE  /\ unseen' = unseen => Younger
           /\ \A v \in Listings : unseen' = [unseen EXCEPT ![v] = 0] => Younger
<1>1. \A v \in Listings : unseen[v] \in Nat /\ unseen[v] <= unseen[v]
  BY BoundFacts
<1>2. 0 \in 0 .. Bound + 1
  BY BoundFacts
<1>3. unseen' = unseen => Younger
  BY <1>1 DEF Younger
<1>4. ASSUME NEW v \in Listings, unseen' = [unseen EXCEPT ![v] = 0]
      PROVE  Younger
  <2>1. unseen' \in [Listings -> 0 .. Bound + 1]
    BY <1>2, <1>4
  <2>2. \A w \in Listings : unseen'[w] = IF w = v THEN 0 ELSE unseen[w]
    BY <1>4
  <2>3. \A w \in Listings : unseen'[w] <= unseen[w]
    BY <1>1, <2>2
  <2>4. QED
    BY <2>1, <2>3 DEF Younger
<1>5. QED
  BY <1>3, <1>4

LEMMA MemoryStays ==
    ASSUME FreshInv, Younger,
           ListKey \in Held' => ListKey \in Held /\ items'[ListKey] = items[ListKey]
    PROVE  MemoryFresh'
<1> SUFFICES ASSUME ListKey \in Held'
             PROVE  /\ items'[ListKey].value \in Listings
                    /\ items'[ListKey].left \in {Lapsed} \cup 0 .. TTL
                    /\ items'[ListKey].left # Lapsed =>
                          unseen'[items'[ListKey].value] + items'[ListKey].left <= TTL + 1
  BY DEF MemoryFresh, Live
<1>1. PICK v \in Listings, left \in {Lapsed} \cup 0 .. TTL :
         /\ items[ListKey].value = v /\ items[ListKey].left = left
         /\ left # Lapsed => unseen[v] + left <= TTL + 1
  BY DEF FreshInv, MemoryFresh, Live
<1>2. unseen'[v] <= unseen[v] /\ unseen'[v] \in Nat /\ unseen[v] \in Nat
  BY BoundFacts DEF Younger, FreshInv, DestinationTypeOK
<1>3. left \in Int /\ TTL \in Nat
  BY BoundFacts DEF Lapsed
<1>4. left # Lapsed => unseen'[v] + left <= TTL + 1
  BY <1>1, <1>2, <1>3
<1>5. QED
  BY <1>1, <1>4

LEMMA RedisStays ==
    ASSUME FreshInv, Younger, redis' = redis
    PROVE  RedisFresh'
<1> SUFFICES ASSUME redis # None
             PROVE  unseen'[redis.value] + redis.left <= Bound + 1
  BY DEF RedisFresh
<1>1. PICK v \in Listings, left \in 1 .. TTL + CopyTTL :
         redis.value = v /\ redis.left = left
  BY DEF FreshInv, DestinationTypeOK
<1>2. unseen[v] + left <= Bound + 1
  BY <1>1 DEF FreshInv, RedisFresh
<1>3. unseen'[v] <= unseen[v] /\ unseen'[v] \in Nat /\ unseen[v] \in Nat
  BY BoundFacts DEF Younger, FreshInv, DestinationTypeOK
<1>4. left \in Nat /\ Bound \in Nat
  BY BoundFacts
<1>5. QED
  BY <1>1, <1>2, <1>3, <1>4

LEMMA RequestsStay ==
    ASSUME FreshInv, Younger,
           \A g \in Handlers :
              \/ requests'[g] = requests[g] /\ (g \in late' <=> g \in late)
              \/ RequestFresh(g)'
    PROVE  RequestsFresh'
<1> SUFFICES ASSUME NEW g \in Handlers,
                    requests'[g] = requests[g], g \in late' <=> g \in late
             PROVE  RequestFresh(g)'
  BY DEF RequestsFresh
<1>1. requests[g] \in Request /\ RequestFresh(g)
  BY DEF FreshInv, DestinationTypeOK, RequestsFresh
<1>2. requests'[g] = requests[g] /\ Delay(g)' = Delay(g) /\ Delay(g) \in Nat
  BY DEF Delay
<1>3. CASE requests[g].step \in {"copy", "store", "storeFallback"}
  <2>1. PICK v \in Listings : requests[g].value = v
    BY <1>1, <1>3, RequestFields
  <2>2. unseen'[v] <= unseen[v] /\ unseen'[v] \in Nat /\ unseen[v] \in Nat
    BY BoundFacts DEF Younger, FreshInv, DestinationTypeOK
  <2>3. TTL + 1 + Delay(g) \in Nat
    BY <1>2, BoundFacts
  <2>4. /\ unseen[v] <= Delay(g) => unseen'[v] <= Delay(g)
        /\ unseen[v] <= TTL + 1 + Delay(g) => unseen'[v] <= TTL + 1 + Delay(g)
    BY <1>2, <2>2, <2>3
  <2>5. QED
    BY <1>1, <1>2, <2>1, <2>4 DEF RequestFresh
<1>4. CASE requests[g].step \notin {"copy", "store", "storeFallback"}
  BY <1>2, <1>4 DEF RequestFresh
<1>5. QED
  BY <1>3, <1>4

LEMMA StaleFollows == FreshInv => StaleBounded
<1> SUFFICES ASSUME FreshInv PROVE StaleBounded
  OBVIOUS
<1>1. ASSUME Live(ListKey)
      PROVE  unseen[items[ListKey].value] <= TTL + 1
  <2>1. PICK v \in Listings, left \in 0 .. TTL :
           items[ListKey].value = v /\ unseen[v] + left <= TTL + 1
    BY <1>1 DEF Live, FreshInv, MemoryFresh
  <2>2. unseen[v] \in Nat /\ left \in Nat /\ TTL \in Nat
    BY BoundFacts DEF FreshInv, DestinationTypeOK
  <2>3. QED
    BY <2>1, <2>2
<1>2. ASSUME redis # None
      PROVE  unseen[redis.value] <= Bound
  <2>1. PICK v \in Listings, left \in 1 .. TTL + CopyTTL :
           redis.value = v /\ redis.left = left
    BY <1>2 DEF FreshInv, DestinationTypeOK
  <2>2. unseen[v] + left <= Bound + 1
    BY <1>2, <2>1 DEF FreshInv, RedisFresh
  <2>3. unseen[v] \in Nat /\ left \in Nat /\ left >= 1 /\ Bound \in Nat
    BY BoundFacts DEF FreshInv, DestinationTypeOK
  <2>4. QED
    BY <2>1, <2>2, <2>3
<1>3. QED
  BY <1>1, <1>2 DEF StaleBounded

-----------------------------------------------------------------------------
(* The steps, one by one.                                                  *)

MemoryStep == [Recency!Next]_(Recency!vars)

LEMMA MemoryUnchanged ==
    ASSUME UNCHANGED memoryVars
    PROVE  /\ MemoryTypeOK => MemoryTypeOK'
           /\ Held' = Held /\ items' = items
           /\ MemoryStep
  BY DEF memoryVars, MemoryTypeOK, Held, MemoryStep, Recency!vars

(* A step of one request that leaves the memory cache and the row alone.   *)
LEMMA RequestOnly ==
    ASSUME FreshInv, NEW h \in Handlers, NEW r \in Request,
           \/ Proceed(h, r)
           \/ r = NoRequest /\ Done(h),
           UNCHANGED <<memoryVars, row>>,
           redis' = redis,
           Younger,
           RequestFresh(h)'
    PROVE  FreshInv' /\ MemoryStep
<1>1. /\ MemoryTypeOK' /\ Held' = Held /\ items' = items /\ MemoryStep
  BY MemoryUnchanged DEF FreshInv, DestinationTypeOK
<1>2. /\ requests' \in [Handlers -> Request] /\ late' \subseteq Handlers
      /\ \A g \in Handlers \ {h} : requests'[g] = requests[g] /\ (g \in late' <=> g \in late)
  BY ProceedFacts DEF FreshInv, DestinationTypeOK
<1>3. DestinationTypeOK'
  BY <1>1, <1>2 DEF FreshInv, DestinationTypeOK, Younger
<1>4. MemoryFresh'
  BY <1>1, MemoryStays
<1>5. RedisFresh'
  BY RedisStays
<1>6. RequestsFresh'
  BY <1>2, RequestsStay
<1>7. QED
  BY <1>1, <1>3, <1>4, <1>5, <1>6 DEF FreshInv

LEMMA MissPrimaryStep ==
    ASSUME FreshInv, NEW h \in Handlers, MissPrimary(h)
    PROVE  FreshInv' /\ MemoryStep
<1> DEFINE r == [step |-> "fallback"]
<1>1. r \in Request /\ Proceed(h, r)
  BY RequestTypes DEF MissPrimary
<1>2. requests'[h] = r
  BY <1>1, ProceedFacts DEF FreshInv, DestinationTypeOK
<1>3. RequestFresh(h)'
  BY <1>2 DEF RequestFresh
<1>4. Younger
  BY YoungerFacts DEF MissPrimary, FreshInv, DestinationTypeOK
<1>5. QED
  BY <1>1, <1>3, <1>4, RequestOnly DEF MissPrimary

(* The request takes the entry as it is in memory; Get itself only moves   *)
(* or removes it.                                                          *)
LEMMA ReadFallbackStep ==
    ASSUME FreshInv, NEW h \in Handlers, ReadFallback(h)
    PROVE  FreshInv' /\ MemoryStep
<1>1. /\ MemoryTypeOK' /\ Held' \subseteq Held
      /\ \A x \in Held' : items'[x] = items[x]
      /\ MemoryStep
  BY GetStep, BoundFacts DEF ReadFallback, FreshInv, DestinationTypeOK, MemoryStep
<1>2. Younger /\ redis' = redis /\ row' = row /\ unseen' = unseen
  BY YoungerFacts DEF ReadFallback, FreshInv, DestinationTypeOK
<1>3. PICK r \in Request :
         /\ Proceed(h, r)
         /\ \/ r = [step |-> "load"]
            \/ /\ Live(ListKey)
               /\ r = [step |-> "copy", value |-> items[ListKey].value]
  <2>1. Live(ListKey) => items[ListKey].value \in Listings
    BY DEF FreshInv, MemoryFresh, Live
  <2>2. QED
    BY <2>1, RequestTypes DEF ReadFallback
<1>4. /\ requests' \in [Handlers -> Request] /\ late' = late
      /\ requests'[h] = r
      /\ \A g \in Handlers \ {h} : requests'[g] = requests[g] /\ (g \in late' <=> g \in late)
  BY <1>3, ProceedFacts DEF FreshInv, DestinationTypeOK
<1>5. RequestFresh(h)'
  <2>1. CASE r = [step |-> "load"]
    BY <1>4, <2>1 DEF RequestFresh
  <2>2. CASE Live(ListKey) /\ r = [step |-> "copy", value |-> items[ListKey].value]
    <3>1. unseen[items[ListKey].value] <= TTL + 1 /\ items[ListKey].value \in Listings
      BY <2>2, StaleFollows DEF StaleBounded, FreshInv, MemoryFresh, Live
    <3>2. /\ unseen[items[ListKey].value] \in Nat /\ TTL \in Nat
          /\ Delay(h)' \in Nat
      BY <3>1, BoundFacts DEF FreshInv, DestinationTypeOK, Delay
    <3>3. unseen[items[ListKey].value] <= TTL + 1 + Delay(h)'
      BY <3>1, <3>2
    <3>4. QED
      BY <1>2, <1>4, <2>2, <3>3 DEF RequestFresh
  <2>3. QED
    BY <1>3, <2>1, <2>2
<1>6. RequestsFresh'
  BY <1>2, <1>4, <1>5, RequestsStay
<1>7. MemoryFresh' /\ RedisFresh'
  BY <1>1, <1>2, MemoryStays, RedisStays
<1>8. DestinationTypeOK'
  BY <1>1, <1>2, <1>4 DEF FreshInv, DestinationTypeOK, Younger
<1>9. QED
  BY <1>1, <1>6, <1>7, <1>8 DEF FreshInv

(* The query's answer, or the built-in list, is what visitors get now.     *)
LEMMA LoadStep ==
    ASSUME FreshInv, NEW h \in Handlers, Load(h)
    PROVE  FreshInv' /\ MemoryStep
<1>1. PICK v \in Listings : /\ Proceed(h, [step |-> "store", value |-> v])
                            /\ unseen' = [unseen EXCEPT ![v] = 0]
  BY ListingType, BoundFacts DEF Load, FreshInv, DestinationTypeOK
<1> DEFINE r == [step |-> "store", value |-> v]
<1>2. r \in Request /\ Proceed(h, r)
  BY <1>1, RequestTypes
<1>3. requests'[h] = r
  BY <1>2, ProceedFacts DEF FreshInv, DestinationTypeOK
<1>4. unseen'[v] = 0
  BY <1>1 DEF FreshInv, DestinationTypeOK
<1>5. RequestFresh(h)'
  BY <1>3, <1>4 DEF RequestFresh, Delay
<1>6. Younger
  BY <1>1, YoungerFacts DEF FreshInv, DestinationTypeOK
<1>7. QED
  BY <1>2, <1>5, <1>6, RequestOnly DEF Load

(* A listing goes to Redis for left units.                                 *)
LEMMA RedisWrite ==
    ASSUME FreshInv, NEW h \in Handlers, NEW r \in Request,
           \/ Proceed(h, r)
           \/ r = NoRequest /\ Done(h),
           NEW v \in Listings, NEW left \in 1 .. TTL + CopyTTL,
           unseen[v] + left <= Bound + 1,
           RedisMayBecome([value |-> v, left |-> left]),
           UNCHANGED <<memoryVars, row, unseen>>,
           RequestFresh(h)'
    PROVE  FreshInv' /\ MemoryStep
<1>1. Younger
  BY YoungerFacts DEF FreshInv, DestinationTypeOK
<1>2. CASE redis' = redis
  BY <1>1, <1>2, RequestOnly
<1>3. CASE redis' = [value |-> v, left |-> left]
  <2>1. /\ MemoryTypeOK' /\ Held' = Held /\ items' = items /\ MemoryStep
    BY MemoryUnchanged DEF FreshInv, DestinationTypeOK
  <2>2. /\ requests' \in [Handlers -> Request] /\ late' \subseteq Handlers
        /\ \A g \in Handlers \ {h} : requests'[g] = requests[g] /\ (g \in late' <=> g \in late)
    BY ProceedFacts DEF FreshInv, DestinationTypeOK
  <2>3. redis' \in [value : Listings, left : 1 .. TTL + CopyTTL]
    BY <1>3
  <2>4. DestinationTypeOK'
    BY <2>1, <2>2, <2>3, <1>1 DEF FreshInv, DestinationTypeOK, Younger
  <2>5. MemoryFresh'
    BY <1>1, <2>1, MemoryStays
  <2>6. RedisFresh'
    BY <1>3 DEF RedisFresh
  <2>7. RequestsFresh'
    BY <1>1, <2>2, RequestsStay
  <2>8. QED
    BY <2>1, <2>4, <2>5, <2>6, <2>7 DEF FreshInv
<1>4. QED
  BY <1>2, <1>3 DEF RedisMayBecome

LEMMA CopyToPrimaryStep ==
    ASSUME FreshInv, NEW h \in Handlers, CopyToPrimary(h)
    PROVE  FreshInv' /\ MemoryStep
<1>1. requests[h] \in Request /\ requests[h].step = "copy" /\ RequestFresh(h)
  BY DEF FreshInv, DestinationTypeOK, RequestsFresh, CopyToPrimary
<1>2. PICK v \in Listings : requests[h].value = v
  BY <1>1, RequestFields
<1>3. /\ NoRequest \in Request /\ Done(h)
      /\ RedisMayBecome([value |-> v, left |-> CopyTTL])
      /\ UNCHANGED <<memoryVars, row, unseen>>
  BY <1>2, RequestTypes DEF CopyToPrimary
<1>4. CopyTTL \in 1 .. TTL + CopyTTL
  BY BoundFacts
<1>5. unseen[v] + CopyTTL <= Bound + 1
  <2>1. unseen[v] <= TTL + 1 + Delay(h) /\ Delay(h) \in {0, 1}
    BY <1>1, <1>2 DEF RequestFresh, Delay
  <2>2. unseen[v] \in Nat
    BY BoundFacts DEF FreshInv, DestinationTypeOK
  <2>3. QED
    BY <2>1, <2>2, BoundFacts
<1>6. RequestFresh(h)'
  <2>1. requests'[h] = NoRequest
    BY <1>3, ProceedFacts DEF FreshInv, DestinationTypeOK
  <2>2. QED
    BY <2>1 DEF RequestFresh, NoRequest
<1>7. QED
  BY <1>3, <1>4, <1>5, <1>6, RedisWrite

LEMMA StorePrimaryStep ==
    ASSUME FreshInv, NEW h \in Handlers, StorePrimary(h)
    PROVE  FreshInv' /\ MemoryStep
<1>1. requests[h] \in Request /\ requests[h].step = "store" /\ RequestFresh(h)
  BY DEF FreshInv, DestinationTypeOK, RequestsFresh, StorePrimary
<1>2. PICK v \in Listings : requests[h].value = v
  BY <1>1, RequestFields
<1> DEFINE r == [step |-> "storeFallback", value |-> v]
<1>3. /\ r \in Request /\ Proceed(h, r)
      /\ RedisMayBecome([value |-> v, left |-> TTL])
      /\ UNCHANGED <<memoryVars, row, unseen>>
  BY <1>2, RequestTypes DEF StorePrimary
<1>4. TTL \in 1 .. TTL + CopyTTL
  BY BoundFacts
<1>5. unseen[v] <= Delay(h) /\ Delay(h) \in {0, 1} /\ unseen[v] \in Nat
  BY <1>1, <1>2, BoundFacts DEF RequestFresh, Delay, FreshInv, DestinationTypeOK
<1>6. unseen[v] + TTL <= Bound + 1
  BY <1>5, BoundFacts
<1>7. RequestFresh(h)'
  <2>1. requests'[h] = r /\ late' = late
    BY <1>3, ProceedFacts DEF FreshInv, DestinationTypeOK
  <2>2. unseen' = unseen /\ Delay(h)' = Delay(h)
    BY <1>3, <2>1 DEF Delay
  <2>3. QED
    BY <1>5, <2>1, <2>2 DEF RequestFresh
<1>8. QED
  BY <1>3, <1>4, <1>6, <1>7, RedisWrite

(* The listing goes into memory, where it may evict another key.           *)
LEMMA StoreFallbackStep ==
    ASSUME FreshInv, NEW h \in Handlers, StoreFallback(h)
    PROVE  FreshInv' /\ MemoryStep
<1>1. requests[h] \in Request /\ requests[h].step = "storeFallback" /\ RequestFresh(h)
  BY DEF FreshInv, DestinationTypeOK, RequestsFresh, StoreFallback
<1>2. PICK v \in Listings : requests[h].value = v
  BY <1>1, RequestFields
<1>3. /\ Set(ListKey, v, TTL) /\ Done(h)
      /\ row' = row /\ redis' = redis /\ unseen' = unseen
  BY <1>2 DEF StoreFallback, StoreInMemory
<1>4. /\ MemoryTypeOK'
      /\ items'[ListKey] = [value |-> v, left |-> TTL]
      /\ MemoryStep
  <2>1. v \in Values /\ TTL \in Nat \cup {Lapsed, Forever} /\ ListKey \in Keys
    BY BoundFacts
  <2>2. QED
    BY <1>3, <2>1, SetStep DEF FreshInv, DestinationTypeOK, MemoryStep
<1>5. /\ requests' \in [Handlers -> Request] /\ late' \subseteq Handlers
      /\ requests'[h] = NoRequest
      /\ \A g \in Handlers \ {h} : requests'[g] = requests[g] /\ (g \in late' <=> g \in late)
  BY <1>3, ProceedFacts, RequestTypes DEF FreshInv, DestinationTypeOK
<1>6. Younger
  BY <1>3, YoungerFacts DEF FreshInv, DestinationTypeOK
<1>7. MemoryFresh'
  <2>1. unseen[v] <= Delay(h) /\ Delay(h) \in {0, 1} /\ unseen[v] \in Nat
    BY <1>1, <1>2, BoundFacts DEF RequestFresh, Delay, FreshInv, DestinationTypeOK
  <2>2. unseen[v] + TTL <= TTL + 1 /\ TTL \in 0 .. TTL
    BY <2>1, BoundFacts
  <2>3. QED
    BY <1>3, <1>4, <2>2 DEF MemoryFresh
<1>8. RedisFresh'
  BY <1>3, <1>6, RedisStays
<1>9. RequestsFresh'
  <2>1. RequestFresh(h)'
    BY <1>5 DEF RequestFresh, NoRequest
  <2>2. QED
    BY <1>5, <1>6, <2>1, RequestsStay
<1>10. DestinationTypeOK'
  BY <1>3, <1>4, <1>5, <1>6 DEF FreshInv, DestinationTypeOK, Younger
<1>11. QED
  BY <1>4, <1>7, <1>8, <1>9, <1>10 DEF FreshInv

(* The administrator's requests hold no listing.                           *)
LEMMA AdminReadStep ==
    ASSUME FreshInv, NEW h \in Handlers, AdminRead(h)
    PROVE  FreshInv' /\ MemoryStep
<1>1. PICK new \in DestinationRow : Proceed(h, [step |-> "write", row |-> new])
  <2>1. row \in DestinationRow
    BY DEF FreshInv, DestinationTypeOK
  <2>2. /\ \A x \in Rates : [row EXCEPT !.rate = x] \in DestinationRow
        /\ \A b \in BOOLEAN : [row EXCEPT !.active = b] \in DestinationRow
    BY <2>1 DEF DestinationRow
  <2>3. QED
    BY <2>2 DEF AdminRead
<1> DEFINE r == [step |-> "write", row |-> new]
<1>2. r \in Request /\ Proceed(h, r)
  BY <1>1, RequestTypes
<1>3. requests'[h] = r
  BY <1>2, ProceedFacts DEF FreshInv, DestinationTypeOK
<1>4. RequestFresh(h)'
  BY <1>3 DEF RequestFresh
<1>5. Younger
  BY YoungerFacts DEF AdminRead, FreshInv, DestinationTypeOK
<1>6. QED
  BY <1>2, <1>4, <1>5, RequestOnly DEF AdminRead

LEMMA AdminWriteStep ==
    ASSUME FreshInv, NEW h \in Handlers, AdminWrite(h)
    PROVE  FreshInv' /\ MemoryStep
<1> DEFINE r == [step |-> "drop"]
<1>1. requests[h] \in Request /\ requests[h].step = "write"
  BY DEF FreshInv, DestinationTypeOK, AdminWrite
<1>2. row' \in DestinationRow
  BY <1>1, RequestFields DEF AdminWrite
<1>3. PICK v \in Listings : unseen' = [unseen EXCEPT ![v] = 0]
  BY <1>2, ListingType DEF AdminWrite
<1>4. Younger
  BY <1>3, YoungerFacts DEF FreshInv, DestinationTypeOK
<1>5. r \in Request /\ Proceed(h, r)
  BY RequestTypes DEF AdminWrite
<1>6. /\ requests' \in [Handlers -> Request] /\ late' = late
      /\ requests'[h] = r
      /\ \A g \in Handlers \ {h} : requests'[g] = requests[g] /\ (g \in late' <=> g \in late)
  BY <1>5, ProceedFacts DEF FreshInv, DestinationTypeOK
<1>7. /\ MemoryTypeOK' /\ Held' = Held /\ items' = items /\ MemoryStep /\ redis' = redis
  BY MemoryUnchanged DEF FreshInv, DestinationTypeOK, AdminWrite
<1>8. DestinationTypeOK'
  BY <1>2, <1>4, <1>6, <1>7 DEF FreshInv, DestinationTypeOK, Younger
<1>9. MemoryFresh' /\ RedisFresh'
  BY <1>4, <1>7, MemoryStays, RedisStays
<1>10. RequestsFresh'
  <2>1. RequestFresh(h)'
    BY <1>6 DEF RequestFresh
  <2>2. QED
    BY <1>4, <1>6, <2>1, RequestsStay
<1>11. QED
  BY <1>7, <1>8, <1>9, <1>10 DEF FreshInv

LEMMA AdminWriteFailsStep ==
    ASSUME FreshInv, NEW h \in Handlers, AdminWriteFails(h)
    PROVE  FreshInv' /\ MemoryStep
<1>1. NoRequest \in Request /\ Done(h)
  BY RequestTypes DEF AdminWriteFails
<1>2. requests'[h] = NoRequest
  BY <1>1, ProceedFacts DEF FreshInv, DestinationTypeOK
<1>3. RequestFresh(h)'
  BY <1>2 DEF RequestFresh, NoRequest
<1>4. Younger
  BY YoungerFacts DEF AdminWriteFails, FreshInv, DestinationTypeOK
<1>5. QED
  BY <1>1, <1>3, <1>4, RequestOnly DEF AdminWriteFails

LEMMA DropPrimaryStep ==
    ASSUME FreshInv, NEW h \in Handlers, DropPrimary(h)
    PROVE  FreshInv' /\ MemoryStep
<1> DEFINE r == [step |-> "dropFallback"]
<1>1. r \in Request /\ Proceed(h, r)
  BY RequestTypes DEF DropPrimary
<1>2. /\ requests' \in [Handlers -> Request] /\ late' = late
      /\ requests'[h] = r
      /\ \A g \in Handlers \ {h} : requests'[g] = requests[g] /\ (g \in late' <=> g \in late)
  BY <1>1, ProceedFacts DEF FreshInv, DestinationTypeOK
<1>3. RequestFresh(h)'
  BY <1>2 DEF RequestFresh
<1>4. Younger
  BY YoungerFacts DEF DropPrimary, FreshInv, DestinationTypeOK
<1>5. CASE redis' = redis
  BY <1>1, <1>3, <1>4, <1>5, RequestOnly DEF DropPrimary
<1>6. CASE redis' = None
  <2>1. /\ MemoryTypeOK' /\ Held' = Held /\ items' = items /\ MemoryStep
    BY MemoryUnchanged DEF FreshInv, DestinationTypeOK, DropPrimary
  <2>2. DestinationTypeOK'
    BY <1>2, <1>4, <1>6, <2>1 DEF FreshInv, DestinationTypeOK, Younger, DropPrimary
  <2>3. MemoryFresh' /\ RedisFresh' /\ RequestsFresh'
    BY <1>2, <1>3, <1>4, <1>6, <2>1, MemoryStays, RequestsStay DEF RedisFresh
  <2>4. QED
    BY <2>1, <2>2, <2>3 DEF FreshInv
<1>7. QED
  BY <1>5, <1>6 DEF DropPrimary, RedisMayBecome

LEMMA DropFallbackStep ==
    ASSUME FreshInv, NEW h \in Handlers, DropFallback(h)
    PROVE  FreshInv' /\ MemoryStep
<1>1. /\ MemoryTypeOK' /\ Held' \subseteq Held
      /\ \A x \in Held' : items'[x] = items[x]
      /\ MemoryStep
  <2>1. MemoryTypeOK
    BY DEF FreshInv, DestinationTypeOK
  <2>2. CASE ListKey \in Held /\ RemoveLocked(ListKey)
    BY <2>1, <2>2, RemoveStep, BoundFacts DEF MemoryStep, Recency!Next
  <2>3. CASE UNCHANGED memoryVars
    BY <2>1, <2>3, MemoryUnchanged
  <2>4. QED
    BY <2>2, <2>3 DEF DropFallback, Delete
<1>2. Younger /\ redis' = redis /\ row' = row
  BY YoungerFacts DEF DropFallback, FreshInv, DestinationTypeOK
<1>3. /\ requests' \in [Handlers -> Request] /\ late' \subseteq Handlers
      /\ requests'[h] = NoRequest
      /\ \A g \in Handlers \ {h} : requests'[g] = requests[g] /\ (g \in late' <=> g \in late)
  BY ProceedFacts, RequestTypes DEF DropFallback, FreshInv, DestinationTypeOK
<1>4. RequestFresh(h)'
  BY <1>3 DEF RequestFresh, NoRequest
<1>5. MemoryFresh' /\ RedisFresh' /\ RequestsFresh'
  BY <1>1, <1>2, <1>3, <1>4, MemoryStays, RedisStays, RequestsStay
<1>6. DestinationTypeOK'
  BY <1>1, <1>2, <1>3 DEF FreshInv, DestinationTypeOK, Younger
<1>7. QED
  BY <1>1, <1>5, <1>6 DEF FreshInv

(* Other callers may push the listing out, and never replace it.           *)
LEMMA UseOtherStep ==
    ASSUME FreshInv, NEW k \in Keys, UseOther(k)
    PROVE  FreshInv' /\ MemoryStep
<1>1. /\ MemoryTypeOK' /\ MemoryStep
      /\ ListKey \in Held' => ListKey \in Held /\ items'[ListKey] = items[ListKey]
  <2>1. MemoryTypeOK /\ k # ListKey
    BY DEF FreshInv, DestinationTypeOK, UseOther
  <2>2. CASE Get(k)
    BY <2>1, <2>2, GetStep DEF MemoryStep
  <2>3. CASE Set(k, Fallback, Forever)
    <3>1. Fallback \in Values /\ Forever \in Nat \cup {Lapsed, Forever}
      BY BoundFacts
    <3>2. QED
      BY <2>1, <2>3, <3>1, SetStep DEF MemoryStep
  <2>4. QED
    BY <2>2, <2>3 DEF UseOther
<1>2. /\ Younger /\ redis' = redis /\ row' = row
      /\ requests' = requests /\ late' = late
  BY YoungerFacts DEF UseOther, FreshInv, DestinationTypeOK
<1>3. MemoryFresh' /\ RedisFresh' /\ RequestsFresh'
  BY <1>1, <1>2, MemoryStays, RedisStays, RequestsStay
<1>4. DestinationTypeOK'
  BY <1>1, <1>2 DEF FreshInv, DestinationTypeOK, Younger
<1>5. QED
  BY <1>1, <1>3, <1>4 DEF FreshInv

(* A unit passes: every listing may be one older, and every entry has one  *)
(* less to live.                                                           *)
LEMMA TimePassesStep ==
    ASSUME FreshInv, TimePasses
    PROVE  FreshInv' /\ MemoryStep
<1>t. /\ unseen \in [Listings -> 0 .. Bound + 1]
      /\ requests \in [Handlers -> Request]
      /\ late = {} /\ requests' = requests /\ row' = row
      /\ late' = {h \in Handlers : requests[h] # NoRequest}
      /\ redis' = IF redis = None \/ redis.left = 1 THEN None
                  ELSE [redis EXCEPT !.left = @ - 1]
  BY DEF FreshInv, DestinationTypeOK, TimePasses
<1>1. /\ MemoryTypeOK' /\ Held' = Held
      /\ \A x \in Held : /\ items'[x].value = items[x].value
                         /\ items'[x].left = Older(items[x].left)
      /\ MemoryStep
  BY AgesStep DEF FreshInv, DestinationTypeOK, TimePasses, MemoryStep
<1>2. \A v \in Listings : /\ unseen'[v] \in 0 .. Bound + 1
                         /\ unseen[v] \in Nat /\ unseen'[v] \in Nat
                         /\ unseen'[v] <= unseen[v] + 1
  <2> SUFFICES ASSUME NEW v \in Listings
               PROVE  /\ unseen'[v] \in 0 .. Bound + 1
                      /\ unseen[v] \in Nat /\ unseen'[v] \in Nat
                      /\ unseen'[v] <= unseen[v] + 1
    OBVIOUS
  <2>1. unseen'[v] = IF v = Listing(row) \/ unseen[v] > Bound THEN unseen[v]
                     ELSE unseen[v] + 1
    BY DEF TimePasses
  <2>2. unseen[v] \in 0 .. Bound + 1 /\ Bound \in Nat
    BY <1>t, BoundFacts
  <2>3. QED
    BY <2>1, <2>2
<1>3. unseen' \in [Listings -> 0 .. Bound + 1]
  <2>1. DOMAIN unseen' = Listings /\ unseen' = [v \in Listings |-> unseen'[v]]
    BY DEF TimePasses
  <2>2. QED
    BY <1>2, <2>1
<1>4. MemoryFresh'
  <2> SUFFICES ASSUME ListKey \in Held
               PROVE  /\ items'[ListKey].value \in Listings
                      /\ items'[ListKey].left \in {Lapsed} \cup 0 .. TTL
                      /\ items'[ListKey].left # Lapsed =>
                            unseen'[items'[ListKey].value] + items'[ListKey].left <= TTL + 1
    BY <1>1 DEF MemoryFresh, Live
  <2>1. PICK v \in Listings, left \in {Lapsed} \cup 0 .. TTL :
           /\ items[ListKey].value = v /\ items[ListKey].left = left
           /\ left # Lapsed => unseen[v] + left <= TTL + 1
    BY DEF FreshInv, MemoryFresh, Live
  <2>2. items'[ListKey].value = v /\ items'[ListKey].left = Older(left)
    BY <1>1, <2>1
  <2>3. TTL \in Nat /\ unseen[v] \in Nat /\ unseen'[v] \in Nat /\ unseen'[v] <= unseen[v] + 1
    BY <1>2, BoundFacts
  <2>4. CASE left = Lapsed
    <3>1. Older(left) = Lapsed
      BY <2>4 DEF Older
    <3>2. QED
      BY <2>2, <3>1
  <2>5. CASE left \in 0 .. TTL
    <3>1. left \in Int /\ left >= 0 /\ left <= TTL
      BY <2>3, <2>5
    <3>2. left # Lapsed /\ Older(left) = left - 1
      BY <3>1 DEF Older, Lapsed, Forever
    <3>3. left - 1 \in {Lapsed} \cup 0 .. TTL
      BY <2>3, <3>1 DEF Lapsed
    <3>4. unseen'[v] + (left - 1) <= TTL + 1
      BY <2>1, <2>3, <3>1, <3>2
    <3>5. QED
      BY <2>2, <3>2, <3>3, <3>4
  <2>6. QED
    BY <2>4, <2>5
<1>5. RedisFresh' /\ (redis' = None \/ redis' \in [value : Listings, left : 1 .. TTL + CopyTTL])
  <2>1. CASE redis = None \/ redis.left = 1
    BY <1>t, <2>1 DEF RedisFresh
  <2>2. CASE redis # None /\ redis.left # 1
    <3>1. PICK v \in Listings, left \in 1 .. TTL + CopyTTL :
             redis = [value |-> v, left |-> left]
      <4>1. redis \in [value : Listings, left : 1 .. TTL + CopyTTL]
        BY <2>2 DEF FreshInv, DestinationTypeOK
      <4>2. redis.value \in Listings /\ redis.left \in 1 .. TTL + CopyTTL
        BY <4>1
      <4>3. redis = [value |-> redis.value, left |-> redis.left]
        BY <4>1
      <4>4. QED
        BY <4>2, <4>3
    <3>2. redis' = [value |-> v, left |-> left - 1]
      BY <1>t, <2>2, <3>1
    <3>3. unseen[v] + left <= Bound + 1
      BY <2>2, <3>1 DEF FreshInv, RedisFresh
    <3>4. /\ left \in Nat /\ left >= 1 /\ left # 1 /\ left <= TTL + CopyTTL
          /\ TTL + CopyTTL \in Nat /\ Bound \in Nat
      BY <2>2, <3>1, BoundFacts
    <3>5. left - 1 \in 1 .. TTL + CopyTTL
      BY ONLY <3>4, SMT
    <3>6. unseen'[v] + (left - 1) <= Bound + 1
      BY <1>2, <3>3, <3>4
    <3>7. QED
      BY <3>2, <3>5, <3>6 DEF RedisFresh
  <2>3. QED
    BY <2>1, <2>2
<1>6. RequestsFresh'
  <2> SUFFICES ASSUME NEW h \in Handlers
               PROVE  /\ requests[h].step \in {"store", "storeFallback"} =>
                            unseen'[requests[h].value] <= Delay(h)'
                      /\ requests[h].step = "copy" =>
                            unseen'[requests[h].value] <= TTL + 1 + Delay(h)'
    BY <1>t DEF RequestsFresh, RequestFresh
  <2>1. CASE requests[h].step \in {"copy", "store", "storeFallback"}
    <3>1. requests[h] # NoRequest /\ requests[h] \in Request
      BY <1>t, <2>1 DEF NoRequest
    <3>2. Delay(h) = 0 /\ Delay(h)' = 1
      BY <1>t, <3>1 DEF Delay
    <3>3. PICK v \in Listings : requests[h].value = v
      BY <2>1, <3>1, RequestFields
    <3>4. /\ requests[h].step \in {"store", "storeFallback"} => unseen[v] <= 0
          /\ requests[h].step = "copy" => unseen[v] <= TTL + 1
      BY <3>2, <3>3, BoundFacts DEF FreshInv, RequestsFresh, RequestFresh
    <3>5. QED
      BY <1>2, <3>2, <3>3, <3>4, BoundFacts
  <2>2. QED
    BY <2>1
<1>7. DestinationTypeOK'
  BY <1>t, <1>1, <1>3, <1>5 DEF FreshInv, DestinationTypeOK
<1>8. QED
  BY <1>1, <1>4, <1>5, <1>6, <1>7 DEF FreshInv

(* A process that has just started.                                        *)
NoMemory ==
    /\ DOMAIN items = {} /\ items = [x \in {} |-> items[x]]
    /\ lru = <<>>
    /\ latest \in Keys \cup {"none"}

LEMMA EmptyMemory ==
    NoMemory => MemoryTypeOK /\ MemoryFresh /\ UsedBefore(lru) = {}
<1> SUFFICES ASSUME NoMemory
             PROVE  MemoryTypeOK /\ MemoryFresh /\ UsedBefore(lru) = {}
  OBVIOUS
<1> USE DEF NoMemory
<1>1. Held = {}
  BY DEF Held
<1>2. /\ lru \in Seq(Keys) /\ ToSet(lru) = {} /\ IsInjective(lru) /\ Len(lru) = 0
  BY DEF ToSet, IsInjective
<1>3. items \in [Held -> [value : Values, left : Nat \cup {Lapsed, Forever}]]
  BY <1>1
<1>4. UsedBefore(lru) = {}
  BY <1>2 DEF UsedBefore
<1>5. QED
  BY <1>1, <1>2, <1>3, <1>4, MemoryCacheAssumption DEF MemoryTypeOK, MemoryFresh

LEMMA RestartStep ==
    ASSUME FreshInv, Restart
    PROVE  FreshInv' /\ MemoryStep
<1>1. Held' = {} /\ latest' = latest
  BY DEF Restart, Held
<1>2. MemoryTypeOK' /\ MemoryFresh' /\ UsedBefore(lru)' = {}
  <2>1. NoMemory'
    BY DEF Restart, NoMemory, FreshInv, DestinationTypeOK, MemoryTypeOK
  <2>2. (MemoryTypeOK /\ MemoryFresh /\ UsedBefore(lru) = {})'
    BY <2>1, EmptyMemory, PTL
  <2>3. QED
    BY <2>2
<1>3. /\ Younger /\ redis' = redis /\ row' = row
      /\ requests' = [h \in Handlers |-> NoRequest] /\ late' = {}
  BY YoungerFacts DEF Restart, FreshInv, DestinationTypeOK
<1>4. RedisFresh'
  BY <1>3, RedisStays
<1>5. RequestsFresh'
  <2>1. \A h \in Handlers : requests'[h] = NoRequest
    BY <1>3
  <2>2. QED
    BY <2>1 DEF RequestsFresh, RequestFresh, NoRequest
<1>6. DestinationTypeOK'
  <2>1. requests' \in [Handlers -> Request]
    BY <1>3, RequestTypes
  <2>2. QED
    BY <1>2, <1>3, <2>1 DEF FreshInv, DestinationTypeOK, Younger
<1>7. MemoryStep
  BY <1>1, <1>2 DEF MemoryStep, Recency!Next, Recency!Clear
<1>8. QED
  BY <1>2, <1>4, <1>5, <1>6, <1>7 DEF FreshInv

LEMMA FreshStep ==
    ASSUME FreshInv, [DestinationNext]_destinationVars
    PROVE  FreshInv' /\ MemoryStep
<1>1. CASE DestinationNext
  BY <1>1, MissPrimaryStep, ReadFallbackStep, CopyToPrimaryStep, LoadStep,
     StorePrimaryStep, StoreFallbackStep, AdminReadStep, AdminWriteStep,
     AdminWriteFailsStep, DropPrimaryStep, DropFallbackStep, UseOtherStep,
     TimePassesStep, RestartStep
     DEF DestinationNext, ListStep, AdminStep
<1>2. CASE UNCHANGED destinationVars
  <2>1. UNCHANGED memoryVars
    BY <1>2 DEF destinationVars, memoryVars
  <2>2. FreshInv'
    BY <1>2 DEF destinationVars, FreshInv, DestinationTypeOK, MemoryTypeOK, Held,
       MemoryFresh, Live, RedisFresh, RequestsFresh, RequestFresh, Delay
  <2>3. QED
    BY <2>1, <2>2, MemoryUnchanged
<1>3. QED
  BY <1>1, <1>2

LEMMA FreshInit == DestinationInit => FreshInv /\ Recency!Init
<1> SUFFICES ASSUME DestinationInit PROVE FreshInv /\ Recency!Init
  OBVIOUS
<1>1. NoMemory /\ DOMAIN items = {} /\ latest = "none"
  BY DEF DestinationInit, MemoryInit, NoMemory
<1>2. MemoryTypeOK /\ MemoryFresh /\ UsedBefore(lru) = {}
  BY <1>1, EmptyMemory
<1>3. unseen \in [Listings -> 0 .. Bound + 1]
  <2>1. 0 \in 0 .. Bound + 1 /\ Bound + 1 \in 0 .. Bound + 1
    BY BoundFacts
  <2>2. QED
    BY <2>1 DEF DestinationInit
<1>4. requests \in [Handlers -> Request] /\ \A h \in Handlers : requests[h] = NoRequest
  BY RequestTypes DEF DestinationInit
<1>5. DestinationTypeOK
  BY <1>2, <1>3, <1>4 DEF DestinationInit, DestinationTypeOK
<1>6. RequestsFresh /\ RedisFresh
  BY <1>4 DEF RequestsFresh, RequestFresh, NoRequest, RedisFresh, DestinationInit
<1>7. Recency!Init
  BY <1>1, <1>2 DEF Recency!Init, Held
<1>8. QED
  BY <1>2, <1>5, <1>6, <1>7 DEF FreshInv

-----------------------------------------------------------------------------
(* The table, both tiers and the requests keep their types, and the list   *)
(* and the map of MemoryCache agree: a key is in both, once, or in         *)
(* neither, and they never hold more than the capacity.                    *)
THEOREM CacheTypeCorrect == DestinationSpec => []DestinationTypeOK
<1>1. DestinationInit => FreshInv
  BY FreshInit
<1>2. FreshInv /\ [DestinationNext]_destinationVars => FreshInv'
  BY FreshStep
<1>3. FreshInv => DestinationTypeOK
  BY DEF FreshInv
<1>4. QED
  BY <1>1, <1>2, <1>3, PTL DEF DestinationSpec

(* However updates, loads, copies and drops of listDestinations and        *)
(* adminDestinationUpdate interleave, and whichever calls to Redis fail:   *)
(* a listing that is shown was the answer at most the two lifetimes and    *)
(* one request ago, and one from memory the first lifetime and a request.  *)
THEOREM StaleBoundedCorrect == DestinationSpec => []StaleBounded
<1>1. DestinationInit => FreshInv
  BY FreshInit
<1>2. FreshInv /\ [DestinationNext]_destinationVars => FreshInv'
  BY FreshStep
<1>3. FreshInv => StaleBounded
  BY StaleFollows
<1>4. QED
  BY <1>1, <1>2, <1>3, PTL DEF DestinationSpec

(* The list and the map of MemoryCache implement eviction by last use, for *)
(* any capacity and whatever its callers do.                               *)
THEOREM EvictsTheOldestCorrect == DestinationSpec => EvictsTheOldest
<1>1. DestinationInit => FreshInv /\ Recency!Init
  BY FreshInit
<1>2. FreshInv /\ [DestinationNext]_destinationVars
         => FreshInv' /\ [Recency!Next]_(Recency!vars)
  BY FreshStep DEF MemoryStep
<1>3. QED
  BY <1>1, <1>2, PTL DEF DestinationSpec, EvictsTheOldest, Recency!Spec
===============================================================================
