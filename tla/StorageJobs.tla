----------------------------- MODULE StorageJobs -----------------------------
(***************************************************************************)
(* The two daily jobs over the packages in the locker: RunStorageFeeJob    *)
(* charges every package past its free days and queues a notice,           *)
(* RunExpiryNotifierJob queues up to three warnings per package.  A run    *)
(* iterates over what its query found while packages leave and accounts    *)
(* are erased; every statement of the loop is a step and may fail, and the *)
(* process may die between any two.  runDailyJobs runs both at startup and *)
(* then once a day, so a day may see no run, or several.                   *)
(*                                                                         *)
(* Package ids are random, so the order of a query is any order.  Every    *)
(* package has an owner of its own.                                        *)
(***************************************************************************)
EXTENDS FiniteSets, Integers, Sequences

CONSTANTS
    Packages,
    Runners,       \* processes that run the jobs
    FreeDays,      \* free_storage_days of the owners
    Warn5, Warn1,  \* the warnings reach that many days ahead (5 and 1)
    FinalAfter,    \* days in the locker until the final notice (55)
    LastDay,       \* bound on the days
    MaxSlips,      \* bound on deaths, lost statements and overlapping runs
    None

ASSUME StorageJobsAssumption ==
    /\ IsFiniteSet(Runners) /\ None \notin Nat      \* NULL is no date
    /\ FreeDays \in Nat \ {0} /\ FinalAfter \in Nat /\ LastDay \in Nat
    /\ Warn1 \in Nat \ {0} /\ Warn5 \in Nat /\ Warn1 <= Warn5
    /\ Warn5 < FreeDays
    /\ MaxSlips \in Nat

VARIABLES
    day,           \* today
    arrived,       \* locker_packages.arrived_at, None before the package is there
    stored,        \* the packages with status stored
    address,       \* users.email of the owner: "own", "erased" once anonymized
    charged,       \* storage_fees: the fee dates of each package
    mails,         \* outbound_emails: how many of each notice were queued
    sent,          \* sent_notifications
    job,           \* what each runner is doing
    slips,         \* history: deaths, lost statements, overlapping runs
    notified       \* history: the days the notifier ran to its end

database == <<arrived, stored, address, charged, mails, sent>>
vars == <<day, arrived, stored, address, charged, mails, sent, job, slips, notified>>

Warnings == <<"storage_warning_5d", "storage_warning_1d", "storage_final_notice">>
FeeNotice == "storage_fee_charged"
Addresses == {"own", "erased"}
Notices == [kind : {Warnings[i] : i \in 1 .. 3} \cup {FeeNotice},
            package : Packages, to : Addresses]

(* free_storage_expires_at, in days, as the dock sets it on arrival.       *)
Expiry(p) == arrived[p] + FreeDays

(* The rows of the fee query: on the day of expiry it depends on the hour. *)
FeeRows(today) ==
    LET due == {p \in stored : Expiry(p) < today}
    IN  {due \cup S : S \in SUBSET {p \in stored : Expiry(p) = today}}

OnTheDay(p, today, ahead) == Expiry(p) = today + ahead    \* faulty: no range
Within(p, today, ahead) == Expiry(p) > today /\ Expiry(p) <= today + ahead

(* The rows of the query of the i-th warning.                              *)
InWindow(i, p, today) ==
    CASE i = 1 -> Within(p, today, Warn5)
      [] i = 2 -> Within(p, today, Warn1)
      [] i = 3 -> arrived[p] + FinalAfter <= today

Idle == [step |-> "idle"]
Goto(r, local) == job' = [job EXCEPT ![r] = local]
NextRow(r, step) ==
    Goto(r, [step |-> step, today |-> job[r].today, i |-> job[r].i,
             rest |-> job[r].rest \ {job[r].package}])
WithRow(r, step, to) ==
    Goto(r, [job[r] EXCEPT !.step = step, !.to = to])

(* A statement is lost, a process dies, a run overlaps another.            *)
Slip == slips < MaxSlips /\ slips' = slips + 1

Init ==
    /\ day = 0
    /\ arrived = [p \in Packages |-> None]
    /\ stored = {}
    /\ address = [p \in Packages |-> "own"]
    /\ charged = [p \in Packages |-> {}]
    /\ mails = [n \in Notices |-> 0]
    /\ sent = {}
    /\ job = [r \in Runners |-> Idle]
    /\ slips = 0
    /\ notified = {}

-----------------------------------------------------------------------------
(* What goes on beside the jobs.                                           *)
Arrive(p) ==
    /\ arrived[p] = None
    /\ arrived' = [arrived EXCEPT ![p] = day]
    /\ stored' = stored \cup {p}
    /\ UNCHANGED <<day, address, charged, mails, sent, job, slips, notified>>

Ship(p) ==
    /\ p \in stored
    /\ stored' = stored \ {p}
    /\ UNCHANGED <<day, arrived, address, charged, mails, sent, job, slips, notified>>

(* AnonymizeUserData: the address is replaced by one that no mail reaches, *)
(* not by an empty one, for which the jobs would skip the customer.        *)
ErasedAddress == "erased"
Erase(p) ==
    /\ address[p] = "own"
    /\ address' = [address EXCEPT ![p] = ErasedAddress]
    /\ UNCHANGED <<day, arrived, stored, charged, mails, sent, job, slips, notified>>

NextDay ==
    /\ day < LastDay
    /\ day' = day + 1
    /\ UNCHANGED <<database, job, slips, notified>>

-----------------------------------------------------------------------------
(* RunStorageFeeJob.                                                       *)
StartFees(r) ==
    /\ job[r] = Idle
    /\ IF \A q \in Runners : job[q] = Idle THEN UNCHANGED slips ELSE Slip
    /\ \E rows \in FeeRows(day) :
          Goto(r, [step |-> "fees", today |-> day, i |-> 0, rest |-> rows])
    /\ UNCHANGED <<day, database, notified>>

(* The insert, which does nothing when the fee is on file.  A duplicate is *)
(* not announced again.                                                    *)
AnnounceAnyway(p, today) == TRUE               \* faulty: ignores RowsAffected
Inserted(p, today) == today \notin charged[p]
Charge(r, p) ==
    /\ job[r].step = "fees" /\ p \in job[r].rest
    /\ charged' = [charged EXCEPT ![p] = @ \cup {job[r].today}]
    /\ IF Inserted(p, job[r].today)
       THEN Goto(r, [step |-> "feeAddress", today |-> job[r].today, i |-> 0,
                     rest |-> job[r].rest, package |-> p, to |-> None])
       ELSE Goto(r, [job[r] EXCEPT !.rest = @ \ {p}])
    /\ UNCHANGED <<day, arrived, stored, address, mails, sent, slips, notified>>

(* userEmailForID; when the lookup fails the notice is skipped.            *)
FeeAddress(r) ==
    /\ job[r].step = "feeAddress"
    /\ \/ /\ WithRow(r, "feeEnqueue", address[job[r].package])
          /\ UNCHANGED slips
       \/ Slip /\ NextRow(r, "fees")
    /\ UNCHANGED <<day, database, notified>>

Queue(n) == mails' = [mails EXCEPT ![n] = @ + 1]
Notice(r, kind) == [kind |-> kind, package |-> job[r].package, to |-> job[r].to]

(* EnqueueEmail; an error is logged and the loop goes on.                  *)
FeeEnqueue(r) ==
    /\ job[r].step = "feeEnqueue"
    /\ \/ Queue(Notice(r, FeeNotice)) /\ UNCHANGED slips
       \/ Slip /\ UNCHANGED mails
    /\ NextRow(r, "fees")
    /\ UNCHANGED <<day, arrived, stored, address, charged, sent, notified>>

(* The loop is done, or the query or an insert failed and ended it.        *)
FeesEnd(r) ==
    /\ job[r].step = "fees"
    /\ IF job[r].rest = {} THEN UNCHANGED slips ELSE Slip
    /\ Goto(r, [step |-> "query", today |-> day, i |-> 1])
    /\ UNCHANGED <<day, database, notified>>

-----------------------------------------------------------------------------
(* RunExpiryNotifierJob: notifyExpiryWindow for each of the Warnings.      *)
QueryWindow(r) ==
    /\ job[r].step = "query"
    /\ Goto(r, [step |-> "window", today |-> job[r].today, i |-> job[r].i,
                rest |-> {p \in stored : InWindow(job[r].i, p, job[r].today)}])
    /\ UNCHANGED <<day, database, slips, notified>>

QueryFails(r) ==
    /\ job[r].step \in {"query", "window"}
    /\ Slip
    /\ Goto(r, Idle)
    /\ UNCHANGED <<day, database, notified>>

WarnAddress(r, p) ==
    /\ job[r].step = "window" /\ p \in job[r].rest
    /\ \/ /\ Goto(r, [step |-> "check", today |-> job[r].today, i |-> job[r].i,
                      rest |-> job[r].rest, package |-> p, to |-> address[p]])
          /\ UNCHANGED slips
       \/ Slip /\ Goto(r, [job[r] EXCEPT !.rest = @ \ {p}])
    /\ UNCHANGED <<day, database, notified>>

Warning(r) == Notice(r, Warnings[job[r].i])

(* CheckSentNotification; when it fails the count is 0.                    *)
Check(r) ==
    /\ job[r].step = "check"
    /\ \/ /\ IF Warning(r) \in sent THEN NextRow(r, "window")
             ELSE WithRow(r, "enqueue", job[r].to)
          /\ UNCHANGED slips
       \/ Slip /\ WithRow(r, "enqueue", job[r].to)
    /\ UNCHANGED <<day, database, notified>>

Enqueue(r) ==
    /\ job[r].step = "enqueue"
    /\ \/ /\ Queue(Warning(r))
          /\ WithRow(r, "record", job[r].to)
          /\ UNCHANGED slips
       \/ Slip /\ NextRow(r, "window") /\ UNCHANGED mails
    /\ UNCHANGED <<day, arrived, stored, address, charged, sent, notified>>

(* CreateSentNotification, whose error is ignored.                         *)
NotRecorded(n) == sent                         \* faulty: keeps no record
Recorded(n) == sent \cup {n}
Record(r) ==
    /\ job[r].step = "record"
    /\ \/ sent' = Recorded(Warning(r)) /\ UNCHANGED slips
       \/ Slip /\ UNCHANGED sent
    /\ NextRow(r, "window")
    /\ UNCHANGED <<day, arrived, stored, address, charged, mails, notified>>

WindowEnd(r) ==
    /\ job[r].step = "window" /\ job[r].rest = {}
    /\ IF job[r].i < 3
       THEN /\ Goto(r, [step |-> "query", today |-> job[r].today, i |-> job[r].i + 1])
            /\ UNCHANGED notified
       ELSE /\ Goto(r, Idle)
            /\ notified' = notified \cup {job[r].today}
    /\ UNCHANGED <<day, database, slips>>

(* The process dies, or the job panics and runJob recovers.                *)
Die(r) ==
    /\ job[r] # Idle
    /\ Slip
    /\ Goto(r, Idle)
    /\ UNCHANGED <<day, database, notified>>

FeeStep(r) ==
    \/ StartFees(r) \/ FeeAddress(r) \/ FeeEnqueue(r) \/ FeesEnd(r)
    \/ \E p \in Packages : Charge(r, p)
WarnStep(r) ==
    \/ QueryWindow(r) \/ QueryFails(r) \/ Check(r) \/ Enqueue(r) \/ Record(r)
    \/ WindowEnd(r) \/ Die(r)
    \/ \E p \in Packages : WarnAddress(r, p)

Next ==
    \/ \E r \in Runners : FeeStep(r) \/ WarnStep(r)
    \/ \E p \in Packages : Arrive(p) \/ Ship(p) \/ Erase(p)
    \/ NextDay

Spec == Init /\ [][Next]_vars

-----------------------------------------------------------------------------
Days == 0 .. LastDay
Local ==
    {Idle}
    \cup [step : {"fees"}, today : Days, i : {0}, rest : SUBSET Packages]
    \cup [step : {"window"}, today : Days, i : 1 .. 3, rest : SUBSET Packages]
    \cup [step : {"query"}, today : Days, i : 1 .. 3]
    \cup [step : {"feeAddress"}, today : Days, i : {0},
          rest : SUBSET Packages, package : Packages, to : {None}]
    \cup [step : {"feeEnqueue"}, today : Days, i : {0},
          rest : SUBSET Packages, package : Packages, to : Addresses]
    \cup [step : {"check", "enqueue", "record"}, today : Days, i : 1 .. 3,
          rest : SUBSET Packages, package : Packages, to : Addresses]

(* The steps that deal with one package.                                   *)
Serving == {"feeAddress", "feeEnqueue", "check", "enqueue", "record"}

(* Type correctness of the tables and the runs; also that what is stored   *)
(* has arrived, and a run keeps to packages it has not dealt with.         *)
TypeOK ==
    /\ day \in Days
    /\ arrived \in [Packages -> Days \cup {None}]
    /\ stored \subseteq {p \in Packages : arrived[p] # None}
    /\ address \in [Packages -> Addresses]
    /\ charged \in [Packages -> SUBSET Days]
    /\ mails \in [Notices -> Nat]
    /\ sent \subseteq Notices
    /\ job \in [Runners -> Local]
    /\ \A r \in Runners : job[r].step \in Serving => job[r].package \in job[r].rest
    /\ slips \in 0 .. MaxSlips
    /\ notified \subseteq Days

Queued(kind, p) == mails[[kind |-> kind, package |-> p, to |-> "own"]]
                   + mails[[kind |-> kind, package |-> p, to |-> "erased"]]

(* However often the fee job runs on a day, in one process or several, a   *)
(* customer gets at most one notice per fee.  (A notice may be missing: it *)
(* is lost when the run dies after the insert, for the next run finds the  *)
(* fee on file.)                                                           *)
OneNoticePerFee ==
    \A p \in Packages : Queued(FeeNotice, p) <= Cardinality(charged[p])

(* A warning is queued twice to one address only for a reason: each death, *)
(* lost statement or overlapping run accounts for one more at most.        *)
WarnedOncePerSlip ==
    \A n \in Notices : n.kind # FeeNotice => mails[n] <= 1 + slips

(* Nobody is charged out of the blue: unless a statement or a run failed,  *)
(* a package that is charged was warned of if the notifier ran on any one  *)
(* of the days of the window.                                              *)
WarnedBeforeCharged ==
    slips = 0 =>
        \A p \in Packages, w \in {<<1, Warn5>>, <<2, Warn1>>} :
            /\ charged[p] # {}
            /\ \E d \in notified : Expiry(p) - d \in 1 .. w[2]
            => Queued(Warnings[w[1]], p) > 0
=============================================================================
