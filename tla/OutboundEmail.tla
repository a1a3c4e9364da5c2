---------------------------- MODULE OutboundEmail ----------------------------
(***************************************************************************)
(* The outbound_emails queue and its workers (RunOutboundEmailJob).  A     *)
(* pass reaps rows stuck in 'in_progress', selects a batch of due rows,    *)
(* and takes, sends and records them one by one.  A pass may die at any    *)
(* point (crash, panic in a sender), and a statement may fail without the  *)
(* pass stopping.                                                          *)
(*                                                                         *)
(* Time is counted in units of outboundRescheduleBy, 5 minutes, which is   *)
(* also the reaper's cutoff.  rows[e].due is scheduled_at relative to now; *)
(* it falls as time passes, down to Overdue, where nothing distinguishes   *)
(* it from an older one.                                                   *)
(***************************************************************************)
EXTENDS Integers, FiniteSets

CONSTANTS
    Emails,        \* ids of outbound_emails rows
    Workers,       \* goroutines or processes that run the job
    MaxAttempts,   \* maxOutboundAttempts
    BatchSize,     \* drainBatchSize
    Retired,       \* rows whose template this binary does not register
    MaxFaults      \* bound: passes that die and statements that fail

ASSUME OutboxAssumption ==
    /\ MaxAttempts \in Nat \ {0} /\ BatchSize \in Nat \ {0}
    /\ Retired \subseteq Emails
    /\ MaxFaults \in Nat

VARIABLES
    rows,          \* the table outbound_emails
    workers,       \* the local variables of each worker
    accepted,      \* emails the provider has accepted
    tries,         \* history: for each email, the calls of its provider and
                   \* the passes that died after taking it and before the call
    faults         \* faults so far

vars == <<rows, workers, accepted, tries, faults>>

Overdue == -2

Row == [status   : {"absent", "pending", "in_progress", "sent", "failed"},
        attempts : Nat,
        due      : {n \in Int : n >= Overdue}]

(* A batch is what the SELECT saw: ids, each with its attempt_count.       *)
Batches == SUBSET (Emails \X Nat)
Idle == [step |-> "idle"]
Claiming == [step |-> "claim"]
Worker ==
    {Idle, Claiming}
    \cup [step : {"take"}, batch : Batches]
    \cup [step : {"send"}, batch : Batches, row : Emails, attempts : Nat]
    \cup [step : {"record"}, batch : Batches, row : Emails, attempts : Nat,
          result : {"sent", "error", "unknown_template"}]

Goto(w, local) == workers' = [workers EXCEPT ![w] = local]

-----------------------------------------------------------------------------
(* EnqueueEmail, EnqueueEmailTx: the row appears when its transaction does.*)
Enqueue(e) ==
    /\ rows[e].status = "absent"
    /\ rows' = [rows EXCEPT ![e] = [status |-> "pending", attempts |-> 0, due |-> 0]]
    /\ UNCHANGED <<workers, accepted, tries, faults>>

-----------------------------------------------------------------------------
(* ReapStuckOutboundEmails: in_progress and due before now - 5 minutes,    *)
(* however recently the row was taken.                                     *)
NeverStuck(row) == FALSE                       \* faulty: no reaper
StuckInAnyStatus(row) ==                       \* faulty: no filter on status
    row.status # "absent" /\ row.due < -1
Stuck(row) == row.status = "in_progress" /\ row.due < -1

Reap(w) ==
    /\ workers[w] = Idle
    /\ rows' = [e \in Emails |->
                   IF Stuck(rows[e])
                   THEN [status |-> "pending", attempts |-> rows[e].attempts + 1,
                         due |-> 0]
                   ELSE rows[e]]
    /\ Goto(w, Claiming)
    /\ UNCHANGED <<accepted, tries, faults>>

(* ClaimPendingOutboundEmails: a SELECT, the longest due first.            *)
DueRows == {e \in Emails : rows[e].status = "pending" /\ rows[e].due <= 0}

Claim(w) ==
    /\ workers[w] = Claiming
    /\ \E S \in SUBSET DueRows :
          /\ \/ S = DueRows /\ Cardinality(S) <= BatchSize
             \/ /\ Cardinality(S) = BatchSize
                /\ \A e \in S, f \in DueRows \ S : rows[e].due <= rows[f].due
          /\ Goto(w, [step |-> "take",
                      batch |-> {<<e, rows[e].attempts>> : e \in S}])
    /\ UNCHANGED <<rows, accepted, tries, faults>>

(* MarkOutboundEmailInProgress decides who sends; the loser goes on.       *)
Takeable(e) == rows[e].status = "pending"

Take(w) ==
    LET me == workers[w] IN
    /\ me.step = "take"
    /\ \E claimed \in me.batch :
          LET e == claimed[1]
              rest == me.batch \ {claimed} IN
          IF Takeable(e)
          THEN /\ rows' = [rows EXCEPT ![e].status = "in_progress"]
               /\ Goto(w, [step |-> "send", batch |-> rest, row |-> e,
                           attempts |-> claimed[2]])
          ELSE /\ Goto(w, [step |-> "take", batch |-> rest])
               /\ UNCHANGED rows
    /\ UNCHANGED <<accepted, tries, faults>>

PassDone(w) ==
    /\ workers[w].step = "take"
    /\ workers[w].batch = {}
    /\ Goto(w, Idle)
    /\ UNCHANGED <<rows, accepted, tries, faults>>

(* The provider call.  It may accept the email and the answer be lost.     *)
Send(w) ==
    LET me == workers[w] IN
    /\ me.step = "send"
    /\ \E result \in IF me.row \in Retired THEN {"unknown_template"}
                                           ELSE {"sent", "error"} :
          /\ accepted' \in IF result = "sent" THEN {accepted \cup {me.row}}
                           ELSE IF result = "error"
                                THEN {accepted, accepted \cup {me.row}}
                           ELSE {accepted}
          /\ Goto(w, [step |-> "record", batch |-> me.batch, row |-> me.row,
                      attempts |-> me.attempts, result |-> result])
          /\ tries' = IF result = "unknown_template" THEN tries
                       ELSE [tries EXCEPT ![me.row] = @ + 1]
    /\ UNCHANGED <<rows, faults>>

(* MarkOutboundEmailSent / MarkOutboundEmailFailed.  The verdict is made   *)
(* from the attempt_count of the SELECT, the column is incremented.        *)
LastAttemptOnFirst(n) == TRUE                  \* faulty: no retry at all
LastAttempt(n) == n + 1 >= MaxAttempts

RecordedCountsDown(row, result, n) ==          \* faulty: budget counted down
    [row EXCEPT !.status = IF result = "sent" THEN "sent" ELSE "pending",
                !.attempts = @ - 1]
Recorded(row, result, n) ==
    CASE result = "sent" ->
            [row EXCEPT !.status = "sent"]
      [] result = "error" ->
            [status |-> IF LastAttempt(n) THEN "failed" ELSE "pending",
             attempts |-> row.attempts + 1, due |-> n + 1]
      [] result = "unknown_template" ->
            [status |-> "failed", attempts |-> row.attempts + 1, due |-> 0]

Record(w) ==
    LET me == workers[w] IN
    /\ me.step = "record"
    /\ rows' = [rows EXCEPT ![me.row] = Recorded(@, me.result, me.attempts)]
    /\ Goto(w, [step |-> "take", batch |-> me.batch])
    /\ UNCHANGED <<accepted, tries, faults>>

(* A statement fails and the pass goes on: without reaping, past the row   *)
(* it could not take, or with the result unrecorded.                       *)
StatementLost(w) ==
    LET me == workers[w] IN
    /\ faults < MaxFaults
    /\ faults' = faults + 1
    /\ \/ me.step = "idle" /\ Goto(w, Claiming)
       \/ /\ me.step = "take"
          /\ \E claimed \in me.batch :
                Goto(w, [step |-> "take", batch |-> me.batch \ {claimed}])
       \/ me.step = "record" /\ Goto(w, [step |-> "take", batch |-> me.batch])
    /\ UNCHANGED <<rows, accepted, tries>>

(* The pass dies, or its SELECT fails; the next one starts from the table. *)
Die(w) ==
    /\ workers[w] # Idle
    /\ faults < MaxFaults
    /\ faults' = faults + 1
    /\ Goto(w, Idle)
    /\ tries' = IF workers[w].step = "send"
                THEN [tries EXCEPT ![workers[w].row] = @ + 1] ELSE tries
    /\ UNCHANGED <<rows, accepted>>

Later(row) == [row EXCEPT !.due = IF @ > Overdue THEN @ - 1 ELSE @]

Tick ==
    /\ rows' = [e \in Emails |-> Later(rows[e])]
    /\ UNCHANGED <<workers, accepted, tries, faults>>

-----------------------------------------------------------------------------
TypeOK ==
    /\ rows \in [Emails -> Row]
    /\ workers \in [Workers -> Worker]
    /\ accepted \subseteq Emails
    /\ tries \in [Emails -> Nat]
    /\ faults \in 0 .. MaxFaults

Init ==
    /\ rows = [e \in Emails |-> [status |-> "absent", attempts |-> 0, due |-> 0]]
    /\ workers = [w \in Workers |-> Idle]
    /\ accepted = {}
    /\ tries = [e \in Emails |-> 0]
    /\ faults = 0

PassStep(w) ==
    Reap(w) \/ Claim(w) \/ Take(w) \/ PassDone(w) \/ Send(w) \/ Record(w)

Next ==
    \/ \E e \in Emails : Enqueue(e)
    \/ \E w \in Workers : PassStep(w) \/ StatementLost(w) \/ Die(w)
    \/ Tick

Spec == Init /\ [][Next]_vars

(* The ticker of runOutboundEmailWorker starts a pass every minute and a   *)
(* pass runs to its end unless it dies; time passes.                       *)
FairSpec ==
    /\ Spec
    /\ WF_vars(Tick)
    /\ \A w \in Workers : WF_vars(PassStep(w))

-----------------------------------------------------------------------------
(* Safety *)

(* An email is given up only after maxOutboundAttempts calls of the        *)
(* provider for it, or its template is unknown.  A pass that dies between  *)
(* taking the row and the call costs it one of them, for the reaper counts *)
(* an attempt nobody made; a death after the call, a result that was not   *)
(* recorded and whatever befalls other emails cost it none.                *)
FailedIsExhausted ==
    \A e \in Emails :
        rows[e].status = "failed" => e \in Retired \/ tries[e] >= MaxAttempts

(* Refinement *)

Promise == INSTANCE OutboxPromise WITH
    state <- [e \in Emails |->
                 IF rows[e].status \in {"pending", "in_progress"} THEN "queued"
                 ELSE rows[e].status]

(* One worker keeps the promise whatever dies and gets lost: sent means    *)
(* accepted, and a settled row is never taken up again.                    *)
KeepsPromise == Promise!Spec

(* Liveness *)

(* No email is stranded: a queued row is sent or failed in the end, also   *)
(* one left in 'in_progress' by a pass that died.                          *)
EmailsSettle ==
    \A e \in Emails :
        rows[e].status = "pending" ~> rows[e].status \in {"sent", "failed"}

=============================================================================
