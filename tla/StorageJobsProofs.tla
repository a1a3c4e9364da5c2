---------------------------- MODULE StorageJobsProofs ----------------------------
(***************************************************************************)
(* What customers are told by the two daily jobs, for any packages, any    *)
(* number of processes that run the jobs, any days and limits.             *)
(***************************************************************************)
EXTENDS StorageJobs, FiniteSetTheorems, TLAPS

Feeing == {"fees", "feeAddress", "feeEnqueue"}
Noticing == {"query", "window", "check", "enqueue", "record"}

-----------------------------------------------------------------------------
(* A fee is announced by the one run that put it on file.                  *)

Announcing(p) ==
    {r \in Runners : job[r].step \in {"feeAddress", "feeEnqueue"} /\ job[r].package = p}

FeesCounted ==
    \A p \in Packages :
       Queued(FeeNotice, p) + Cardinality(Announcing(p)) <= Cardinality(charged[p])

-----------------------------------------------------------------------------
(* Warnings.  Until one is recorded, every run under way may still queue   *)
(* it, except one that just did; the first run is free, each further one   *)
(* is a slip.  Once it is recorded only runs that looked before may.       *)

Handling(r, step, n) == job[r].step = step /\ Warning(r) = n
Running == {r \in Runners : job[r] # Idle}
MayQueue(n) == {r \in Running : ~Handling(r, "record", n)}
WillQueue(n) == {r \in Running : Handling(r, "enqueue", n)}

Counted(n) ==
    /\ n \notin sent => mails[n] + Cardinality(MayQueue(n))
                           <= slips + (IF Running = {} THEN 0 ELSE 1)
    /\ n \in sent => mails[n] + Cardinality(WillQueue(n)) <= 1 + slips
WarningsCounted == \A n \in Notices : n.kind # FeeNotice => Counted(n)

(* What is recorded was queued.                                            *)
RecordedWasQueued ==
    /\ \A n \in sent : mails[n] >= 1
    /\ \A r \in Runners : job[r].step = "record" => mails[Warning(r)] >= 1

-----------------------------------------------------------------------------
(* Dates: nothing is dated after today, no fee before the expiry.          *)
Dates ==
    /\ \A p \in Packages : arrived[p] # None => arrived[p] <= day
    /\ \A d \in notified : d <= day
    /\ \A p \in Packages : \A d \in charged[p] :
          d <= day /\ arrived[p] # None /\ Expiry(p) <= d
    /\ \A r \in Runners : job[r] # Idle => job[r].today <= day
    /\ \A r \in Runners : job[r].step \in Feeing =>
          \A p \in job[r].rest : arrived[p] # None /\ Expiry(p) <= job[r].today

(* While nothing slips, one run is under way at most, and the notifier     *)
(* comes after the fees.                                                   *)
OneRun ==
    slips = 0 =>
       /\ \A q, r \in Running : q = r
       /\ \A r \in Runners : job[r].step \in Noticing =>
             \A p \in Packages : \A d \in charged[p] : d <= job[r].today

(* A package whose warning the notifier of a day had to queue: it was      *)
(* queued, or the package had left uncharged and never is charged.         *)
DueWarning(p, w, d) == arrived[p] # None /\ Expiry(p) - d \in 1 .. w[2]
LeftUncharged(p) ==
    /\ p \notin stored /\ charged[p] = {}
    /\ \A r \in Runners : job[r].step \in Feeing => p \notin job[r].rest
Settled(p, w) == Queued(Warnings[w[1]], p) > 0 \/ LeftUncharged(p)
Windows == {<<1, Warn5>>, <<2, Warn1>>}

(* The windows that a run of the notifier has dealt with for a package.    *)
Past(r, p, w) ==
    /\ job[r].step \in Noticing
    /\ \/ w[1] < job[r].i
       \/ w[1] = job[r].i /\ job[r].step # "query" /\ p \notin job[r].rest

WarnedInTime ==
    slips = 0 =>
       \A p \in Packages, w \in Windows :
          /\ \A d \in notified : DueWarning(p, w, d) => Settled(p, w)
          /\ \A r \in Runners : Past(r, p, w) /\ DueWarning(p, w, job[r].today)
                                   => Settled(p, w)

IInv ==
    /\ TypeOK /\ FeesCounted /\ WarningsCounted /\ RecordedWasQueued
    /\ Dates /\ OneRun /\ WarnedInTime

-----------------------------------------------------------------------------
(* The locals of a run, by its step.                                       *)
LEMMA Constants ==
    /\ FreeDays \in Nat \ {0} /\ FinalAfter \in Nat /\ LastDay \in Nat
    /\ Warn1 \in Nat \ {0} /\ Warn5 \in Nat /\ Warn1 <= Warn5 /\ Warn5 < FreeDays
    /\ MaxSlips \in Nat /\ IsFiniteSet(Runners) /\ None \notin Nat
    /\ Days \subseteq Nat
BY StorageJobsAssumption DEF Days

LEMMA LocalFields ==
    ASSUME NEW l \in Local
    PROVE  /\ l.step \in Feeing \cup Noticing \cup {"idle"}
           /\ l = Idle <=> l.step = "idle"
           /\ l.step # "idle" => l.today \in Days
           /\ l.step \in Feeing => l.i = 0
           /\ l.step \in Noticing => l.i \in 1 .. 3
           /\ l.step \notin {"idle", "query"} => l.rest \in SUBSET Packages
           /\ l.step \in Serving => l.package \in Packages
           /\ l.step \in {"feeEnqueue", "check", "enqueue", "record"} => l.to \in Addresses
BY DEF Local, Idle, Feeing, Noticing, Serving

(* What moving one run leaves of the others, and of the types.             *)
Moved(r) ==
    /\ job' \in [Runners -> Local]
    /\ \A q \in Runners \ {r} : job'[q] = job[q]
    /\ job'[r].step \in Serving => job'[r].package \in job'[r].rest

LEMMA GotoFacts ==
    ASSUME TypeOK, NEW r \in Runners, NEW m \in Local, Goto(r, m),
           m.step \in Serving => m.package \in m.rest
    PROVE  Moved(r) /\ job'[r] = m
BY DEF TypeOK, Goto, Moved

LEMMA NextRowFacts ==
    ASSUME TypeOK, NEW r \in Runners, job[r].step \in Serving,
           NEW step \in {"fees", "window"}, NextRow(r, step),
           step = "fees" <=> job[r].step \in Feeing
    PROVE  LET l == job[r]
               m == job'[r] IN
           /\ Moved(r)
           /\ m.step = step /\ m.today = l.today /\ m.i = l.i
           /\ m.rest = l.rest \ {l.package}
<1> DEFINE l == job[r]
           n == [step |-> step, today |-> l.today, i |-> l.i, rest |-> l.rest \ {l.package}]
<1>1. l \in Local
  BY DEF TypeOK
<1>2. l.today \in Days /\ l.rest \in SUBSET Packages
  BY <1>1, LocalFields DEF Serving, Feeing, Noticing
<1>3. (step = "fees" => l.i = 0) /\ (step = "window" => l.i \in 1 .. 3)
  BY <1>1, LocalFields DEF Serving, Feeing, Noticing
<1>4. n \in Local /\ n.step = step
  BY <1>2, <1>3 DEF Local
<1>5. Goto(r, n)
  BY DEF NextRow
<1>6. n.step \notin Serving
  BY <1>4 DEF Serving
<1>7. Moved(r) /\ job'[r] = n
  BY <1>4, <1>5, <1>6, GotoFacts DEF Serving
<1>8. QED
  BY <1>7

LEMMA WithRowFacts ==
    ASSUME TypeOK, NEW r \in Runners, job[r].step \in Serving,
           NEW step \in {"feeEnqueue", "enqueue", "record"}, NEW to \in Addresses,
           WithRow(r, step, to),
           step \in Feeing <=> job[r].step \in Feeing
    PROVE  LET l == job[r]
               m == job'[r] IN
           /\ Moved(r)
           /\ m.step = step /\ m.today = l.today /\ m.i = l.i
           /\ m.rest = l.rest /\ m.package = l.package /\ m.to = to
<1> DEFINE l == job[r]
           n == [l EXCEPT !.step = step, !.to = to]
<1>1. l \in Local /\ l.package \in l.rest
  BY DEF TypeOK
<1> DEFINE Fee(steps, tos) ==
        [step : steps, today : Days, i : {0},
         rest : SUBSET Packages, package : Packages, to : tos]
           Warn == [step : {"check", "enqueue", "record"}, today : Days, i : 1 .. 3,
                    rest : SUBSET Packages, package : Packages, to : Addresses]
<1>2. \/ l \in Fee({"feeAddress"}, {None})
      \/ l \in Fee({"feeEnqueue"}, Addresses)
      \/ l \in Warn
  BY <1>1 DEF Local, Serving, Idle
<1>3. CASE l \in Fee({"feeAddress"}, {None}) \/ l \in Fee({"feeEnqueue"}, Addresses)
  <2>1. step = "feeEnqueue"
    BY <1>3 DEF Serving, Feeing
  <2>2. /\ n \in Fee({"feeEnqueue"}, Addresses)
        /\ n.step = step /\ n.today = l.today /\ n.i = l.i
        /\ n.rest = l.rest /\ n.package = l.package /\ n.to = to
    BY <1>3, <2>1
  <2>3. n \in Local
    BY <2>2 DEF Local
  <2>4. Moved(r) /\ job'[r] = n
    BY <1>1, <2>2, <2>3, GotoFacts DEF WithRow
  <2>5. QED
    BY <2>2, <2>4
<1>4. CASE l \in Warn
  <2>1. step \in {"check", "enqueue", "record"}
    BY <1>4 DEF Serving, Feeing
  <2>2. /\ n \in Warn
        /\ n.step = step /\ n.today = l.today /\ n.i = l.i
        /\ n.rest = l.rest /\ n.package = l.package /\ n.to = to
    BY <1>4, <2>1
  <2>3. n \in Local /\ n.step # "feeEnqueue"
    BY <2>1, <2>2 DEF Local
  <2>4. Moved(r) /\ job'[r] = n
    BY <1>1, <2>2, <2>3, GotoFacts DEF WithRow
  <2>5. QED
    BY <2>2, <2>4
<1>5. QED
  BY <1>2, <1>3, <1>4

LEMMA IdleFacts ==
    ASSUME TypeOK, NEW r \in Runners, Goto(r, Idle)
    PROVE  Moved(r) /\ job'[r] = Idle /\ job'[r].step = "idle"
<1>1. Idle \in Local /\ Idle.step = "idle"
  BY DEF Idle, Local
<1>2. QED
  BY <1>1, GotoFacts DEF Serving

-----------------------------------------------------------------------------
(* The steps of a run, one by one: where it was and where it is then.      *)
LEMMA StartFeesFacts ==
    ASSUME TypeOK, NEW r \in Runners, StartFees(r)
    PROVE  /\ Moved(r) /\ job[r] = Idle /\ job[r].step = "idle"
           /\ job'[r].step = "fees" /\ job'[r].today = day /\ job'[r].i = 0
           /\ job'[r].rest \in SUBSET stored
           /\ \A p \in job'[r].rest : arrived[p] # None /\ Expiry(p) <= day
<1>1. stored \subseteq {p \in Packages : arrived[p] # None} /\ day \in Days
  BY DEF TypeOK
<1>2. PICK rows \in FeeRows(day) :
         Goto(r, [step |-> "fees", today |-> day, i |-> 0, rest |-> rows])
  BY DEF StartFees
<1>3. rows \subseteq stored /\ \A p \in rows : Expiry(p) < day \/ Expiry(p) = day
  BY <1>2 DEF FeeRows
<1>4. \A p \in rows : arrived[p] # None /\ Expiry(p) <= day
  <2> SUFFICES ASSUME NEW p \in rows PROVE arrived[p] # None /\ Expiry(p) <= day
    OBVIOUS
  <2>1. p \in Packages /\ arrived[p] # None
    BY <1>1, <1>3
  <2>2. arrived[p] \in Nat /\ day \in Nat
    BY <1>1, <2>1, Constants DEF TypeOK
  <2>3. Expiry(p) \in Int
    BY <2>2, Constants DEF Expiry
  <2>4. QED
    BY <1>3, <2>1, <2>2, <2>3
<1> DEFINE m == [step |-> "fees", today |-> day, i |-> 0, rest |-> rows]
<1>5. m \in Local
  BY <1>1, <1>3 DEF Local
<1>6. Moved(r) /\ job'[r] = m
  BY <1>2, <1>5, GotoFacts DEF Serving
<1>7. job[r] = Idle /\ job[r].step = "idle"
  BY DEF StartFees, Idle
<1>8. QED
  BY <1>3, <1>4, <1>6, <1>7

LEMMA ChargeFacts ==
    ASSUME TypeOK, NEW r \in Runners, NEW p \in Packages, Charge(r, p)
    PROVE  LET l == job[r]
               m == job'[r] IN
           /\ Moved(r) /\ l.step = "fees" /\ p \in l.rest
           /\ m.today = l.today /\ m.i = 0
           /\ IF l.today \in charged[p]
              THEN m.step = "fees" /\ m.rest = l.rest \ {p}
              ELSE m.step = "feeAddress" /\ m.rest = l.rest /\ m.package = p
<1> DEFINE l == job[r]
<1>1. l \in Local /\ l.step = "fees" /\ p \in l.rest
  BY DEF TypeOK, Charge
<1>2. l \in [step : {"fees"}, today : Days, i : {0}, rest : SUBSET Packages]
  BY <1>1 DEF Local, Idle
<1>3. CASE l.today \in charged[p]
  <2> DEFINE m == [l EXCEPT !.rest = l.rest \ {p}]
  <2>1. Goto(r, m)
    BY <1>3 DEF Charge, Inserted
  <2>2. /\ m \in [step : {"fees"}, today : Days, i : {0}, rest : SUBSET Packages]
        /\ m.step = "fees" /\ m.today = l.today /\ m.i = 0 /\ m.rest = l.rest \ {p}
    BY <1>2
  <2>3. m \in Local
    BY <2>2 DEF Local
  <2> HIDE DEF m
  <2>4. Moved(r) /\ job'[r] = m
    BY <2>1, <2>2, <2>3, GotoFacts DEF Serving
  <2>5. QED
    BY <1>1, <1>3, <2>2, <2>4
<1>4. CASE l.today \notin charged[p]
  <2> DEFINE m == [step |-> "feeAddress", today |-> l.today, i |-> 0,
                   rest |-> l.rest, package |-> p, to |-> None]
  <2>1. Goto(r, m)
    BY <1>4 DEF Charge, Inserted
  <2>2. m \in Local /\ m.package \in m.rest
    BY <1>1, <1>2 DEF Local
  <2>3. Moved(r) /\ job'[r] = m
    BY <2>1, <2>2, GotoFacts
  <2>4. QED
    BY <1>1, <1>4, <2>3
<1>5. QED
  BY <1>3, <1>4

LEMMA FeeAddressFacts ==
    ASSUME TypeOK, NEW r \in Runners, FeeAddress(r)
    PROVE  LET l == job[r]
               m == job'[r] IN
           /\ Moved(r) /\ l.step = "feeAddress" /\ l.package \in Packages
           /\ m.today = l.today /\ m.i = l.i
           /\ \/ m.step = "feeEnqueue" /\ m.rest = l.rest /\ m.package = l.package
              \/ m.step = "fees" /\ m.rest = l.rest \ {l.package}
<1> DEFINE l == job[r]
<1>1. l \in Local /\ l.step = "feeAddress"
  BY DEF TypeOK, FeeAddress
<1>2. l.package \in Packages
  BY <1>1, LocalFields DEF Serving
<1>3. address[l.package] \in Addresses
  BY <1>2 DEF TypeOK
<1>4. CASE WithRow(r, "feeEnqueue", address[l.package])
  BY <1>1, <1>2, <1>3, <1>4, WithRowFacts DEF Serving, Feeing
<1>5. CASE NextRow(r, "fees")
  BY <1>1, <1>2, <1>5, NextRowFacts DEF Serving, Feeing
<1>6. QED
  BY <1>4, <1>5 DEF FeeAddress

LEMMA FeeEnqueueFacts ==
    ASSUME TypeOK, NEW r \in Runners, FeeEnqueue(r)
    PROVE  LET l == job[r]
               m == job'[r] IN
           /\ Moved(r) /\ l.step = "feeEnqueue"
           /\ l.package \in Packages /\ l.to \in Addresses
           /\ m.today = l.today /\ m.i = l.i
           /\ m.step = "fees" /\ m.rest = l.rest \ {l.package}
<1> DEFINE l == job[r]
<1>1. l \in Local /\ l.step = "feeEnqueue"
  BY DEF TypeOK, FeeEnqueue
<1>2. l.package \in Packages /\ l.to \in Addresses
  BY <1>1, LocalFields DEF Serving
<1>3. NextRow(r, "fees")
  BY DEF FeeEnqueue
<1>4. QED
  BY <1>1, <1>2, <1>3, NextRowFacts DEF Serving, Feeing

LEMMA FeesEndFacts ==
    ASSUME TypeOK, NEW r \in Runners, FeesEnd(r)
    PROVE  LET l == job[r]
               m == job'[r] IN
           /\ Moved(r) /\ l.step = "fees"
           /\ m.step = "query" /\ m.today = day /\ m.i = 1
<1> DEFINE m == [step |-> "query", today |-> day, i |-> 1]
<1>1. m \in Local
  BY DEF TypeOK, Local
<1>2. Moved(r) /\ job'[r] = m
  BY <1>1, GotoFacts DEF FeesEnd, Serving
<1>3. QED
  BY <1>2 DEF FeesEnd

LEMMA QueryWindowFacts ==
    ASSUME TypeOK, NEW r \in Runners, QueryWindow(r)
    PROVE  LET l == job[r]
               m == job'[r] IN
           /\ Moved(r) /\ l.step = "query" /\ l.i \in 1 .. 3
           /\ m.step = "window" /\ m.today = l.today /\ m.i = l.i
           /\ m.rest = {p \in stored : InWindow(l.i, p, l.today)}
<1> DEFINE l == job[r]
           m == [step |-> "window", today |-> l.today, i |-> l.i,
                 rest |-> {p \in stored : InWindow(l.i, p, l.today)}]
<1>1. l \in Local /\ l.step = "query" /\ stored \subseteq Packages
  BY DEF TypeOK, QueryWindow
<1>2. l.today \in Days /\ l.i \in 1 .. 3
  BY <1>1, LocalFields DEF Noticing
<1>3. m.rest \in SUBSET Packages
  BY <1>1
<1>4. m \in Local
  BY <1>2, <1>3 DEF Local
<1>5. Goto(r, m)
  BY DEF QueryWindow
<1>6. m.step = "window"
  OBVIOUS
<1>7. Moved(r) /\ job'[r] = m
  BY <1>4, <1>5, <1>6, GotoFacts DEF Serving
<1>8. QED
  BY <1>1, <1>2, <1>7

LEMMA WarnAddressFacts ==
    ASSUME TypeOK, NEW r \in Runners, NEW p \in Packages, WarnAddress(r, p)
    PROVE  LET l == job[r]
               m == job'[r] IN
           /\ Moved(r) /\ l.step = "window" /\ p \in l.rest
           /\ m.today = l.today /\ m.i = l.i
           /\ \/ m.step = "check" /\ m.rest = l.rest /\ m.package = p /\ UNCHANGED slips
              \/ m.step = "window" /\ m.rest = l.rest \ {p} /\ slips' = slips + 1
<1> DEFINE l == job[r]
<1>1. l \in Local /\ l.step = "window" /\ p \in l.rest /\ address[p] \in Addresses
  BY DEF TypeOK, WarnAddress
<1>2. l \in [step : {"window"}, today : Days, i : 1 .. 3, rest : SUBSET Packages]
  BY <1>1 DEF Local, Idle
<1> DEFINE m == [step |-> "check", today |-> l.today, i |-> l.i,
                 rest |-> l.rest, package |-> p, to |-> address[p]]
           n == [l EXCEPT !.rest = l.rest \ {p}]
<1>3. CASE Goto(r, m) /\ UNCHANGED slips
  <2>1. m \in Local /\ m.package \in m.rest /\ m.step = "check"
    BY <1>1, <1>2 DEF Local
  <2>2. Moved(r) /\ job'[r] = m
    BY <1>3, <2>1, GotoFacts
  <2>3. QED
    BY <1>1, <1>3, <2>2
<1>4. CASE Slip /\ Goto(r, n)
  <2>1. /\ n \in [step : {"window"}, today : Days, i : 1 .. 3, rest : SUBSET Packages]
        /\ n.step = "window" /\ n.today = l.today /\ n.i = l.i /\ n.rest = l.rest \ {p}
    BY <1>2
  <2>2. n \in Local
    BY <2>1 DEF Local
  <2> HIDE DEF n
  <2>3. Moved(r) /\ job'[r] = n
    BY <1>4, <2>1, <2>2, GotoFacts DEF Serving
  <2>4. QED
    BY <1>1, <1>4, <2>1, <2>3 DEF Slip
<1>5. QED
  BY <1>3, <1>4 DEF WarnAddress

LEMMA CheckFacts ==
    ASSUME TypeOK, NEW r \in Runners, Check(r)
    PROVE  LET l == job[r]
               m == job'[r] IN
           /\ Moved(r) /\ l.step = "check" /\ l.package \in Packages
           /\ m.today = l.today /\ m.i = l.i
           /\ \/ /\ m.step = "window" /\ m.rest = l.rest \ {l.package}
                 /\ Warning(r) \in sent /\ UNCHANGED slips
              \/ /\ m.step = "enqueue" /\ m.rest = l.rest
                 /\ m.package = l.package /\ m.to = l.to
                 /\ \/ Warning(r) \notin sent /\ UNCHANGED slips
                    \/ slips' = slips + 1
<1> DEFINE l == job[r]
<1>1. l \in Local /\ l.step = "check"
  BY DEF TypeOK, Check
<1>2. l.package \in Packages /\ l.to \in Addresses
  BY <1>1, LocalFields DEF Serving
<1>3. CASE Warning(r) \in sent /\ NextRow(r, "window") /\ UNCHANGED slips
  BY <1>1, <1>2, <1>3, NextRowFacts DEF Serving, Feeing
<1>4. CASE WithRow(r, "enqueue", l.to)
           /\ \/ Warning(r) \notin sent /\ UNCHANGED slips
              \/ slips' = slips + 1
  BY <1>1, <1>2, <1>4, WithRowFacts DEF Serving, Feeing
<1>5. QED
  BY <1>3, <1>4 DEF Check, Slip

LEMMA EnqueueFacts ==
    ASSUME TypeOK, NEW r \in Runners, Enqueue(r)
    PROVE  LET l == job[r]
               m == job'[r] IN
           /\ Moved(r) /\ l.step = "enqueue" /\ l.package \in Packages
           /\ m.today = l.today /\ m.i = l.i
           /\ \/ /\ m.step = "record" /\ m.rest = l.rest
                 /\ m.package = l.package /\ m.to = l.to
                 /\ Queue(Warning(r)) /\ UNCHANGED slips
              \/ /\ m.step = "window" /\ m.rest = l.rest \ {l.package}
                 /\ slips' = slips + 1 /\ UNCHANGED mails
<1> DEFINE l == job[r]
<1>1. l \in Local /\ l.step = "enqueue"
  BY DEF TypeOK, Enqueue
<1>2. l.package \in Packages /\ l.to \in Addresses
  BY <1>1, LocalFields DEF Serving
<1>3. CASE Queue(Warning(r)) /\ WithRow(r, "record", l.to) /\ UNCHANGED slips
  BY <1>1, <1>2, <1>3, WithRowFacts DEF Serving, Feeing
<1>4. CASE Slip /\ NextRow(r, "window") /\ UNCHANGED mails
  BY <1>1, <1>2, <1>4, NextRowFacts DEF Serving, Feeing, Slip
<1>5. QED
  BY <1>3, <1>4 DEF Enqueue

LEMMA RecordFacts ==
    ASSUME TypeOK, NEW r \in Runners, Record(r)
    PROVE  LET l == job[r]
               m == job'[r] IN
           /\ Moved(r) /\ l.step = "record" /\ l.package \in Packages
           /\ m.today = l.today /\ m.i = l.i
           /\ m.step = "window" /\ m.rest = l.rest \ {l.package}
           /\ \/ sent' = sent \cup {Warning(r)} /\ UNCHANGED slips
              \/ slips' = slips + 1 /\ UNCHANGED sent
<1> DEFINE l == job[r]
<1>1. l \in Local /\ l.step = "record"
  BY DEF TypeOK, Record
<1>2. l.package \in Packages /\ l.to \in Addresses
  BY <1>1, LocalFields DEF Serving
<1>3. NextRow(r, "window")
  BY DEF Record
<1>4. /\ Moved(r) /\ job'[r].today = l.today /\ job'[r].i = l.i
      /\ job'[r].step = "window" /\ job'[r].rest = l.rest \ {l.package}
  BY <1>1, <1>3, NextRowFacts DEF Serving, Feeing
<1>5. QED
  BY <1>1, <1>2, <1>4 DEF Record, Recorded, Slip

LEMMA WindowEndFacts ==
    ASSUME TypeOK, NEW r \in Runners, WindowEnd(r)
    PROVE  LET l == job[r]
               m == job'[r] IN
           /\ Moved(r) /\ l.step = "window" /\ l.rest = {} /\ l.i \in 1 .. 3
           /\ l.today \in Days
           /\ \/ /\ l.i < 3 /\ UNCHANGED notified
                 /\ m.step = "query" /\ m.today = l.today /\ m.i = l.i + 1
              \/ /\ l.i = 3 /\ notified' = notified \cup {l.today}
                 /\ m.step = "idle"
<1> DEFINE l == job[r]
           m == [step |-> "query", today |-> l.today, i |-> l.i + 1]
<1>1. l \in Local /\ l.step = "window" /\ l.rest = {}
  BY DEF TypeOK, WindowEnd
<1>2. l.today \in Days /\ l.i \in 1 .. 3
  BY <1>1, LocalFields DEF Noticing
<1>3. CASE l.i < 3
  <2>1. m \in Local /\ m.step = "query"
    BY <1>2, <1>3 DEF Local
  <2>2. Goto(r, m) /\ UNCHANGED notified
    BY <1>3 DEF WindowEnd
  <2>3. Moved(r) /\ job'[r] = m
    BY <2>1, <2>2, GotoFacts DEF Serving
  <2>4. QED
    BY <1>1, <1>2, <1>3, <2>2, <2>3
<1>4. CASE l.i = 3
  <2>1. Goto(r, Idle) /\ notified' = notified \cup {l.today}
    BY <1>4 DEF WindowEnd
  <2>2. QED
    BY <1>1, <1>2, <1>4, <2>1, IdleFacts
<1>5. QED
  BY <1>2, <1>3, <1>4

(* A run that is given up, for which something slipped.                    *)
LEMMA StopFacts ==
    ASSUME TypeOK, NEW r \in Runners, QueryFails(r) \/ Die(r)
    PROVE  Moved(r) /\ job'[r].step = "idle" /\ job[r] # Idle /\ slips' = slips + 1
<1>1. Goto(r, Idle) /\ slips' = slips + 1
  BY DEF QueryFails, Die, Slip
<1>2. job[r] # Idle
  BY DEF QueryFails, Die, Idle
<1>3. QED
  BY <1>1, <1>2, IdleFacts

-----------------------------------------------------------------------------
(* The notices of a package.                                               *)
LEMMA NoticeFacts ==
    /\ \A i \in 1 .. 3, p \in Packages, to \in Addresses :
          LET n == [kind |-> Warnings[i], package |-> p, to |-> to] IN
          n \in Notices /\ n.kind = Warnings[i] /\ n.package = p /\ n.kind # FeeNotice
    /\ \A p \in Packages, to \in Addresses :
          LET n == [kind |-> FeeNotice, package |-> p, to |-> to] IN
          n \in Notices /\ n.kind = FeeNotice /\ n.package = p
<1>1. Warnings[1] = "storage_warning_5d" /\ Warnings[2] = "storage_warning_1d"
      /\ Warnings[3] = "storage_final_notice" /\ FeeNotice = "storage_fee_charged"
  BY DEF Warnings, FeeNotice
<1>2. \A i \in 1 .. 3 : i = 1 \/ i = 2 \/ i = 3
  OBVIOUS
<1>3. \A i \in 1 .. 3 : Warnings[i] # FeeNotice
  BY <1>1, <1>2
<1>4. QED
  BY <1>3 DEF Notices

LEMMA WarningFacts ==
    ASSUME TypeOK, NEW r \in Runners, job[r].step \in {"check", "enqueue", "record"}
    PROVE  /\ Warning(r) \in Notices /\ Warning(r).kind # FeeNotice
           /\ Warning(r) = [kind |-> Warnings[job[r].i], package |-> job[r].package,
                            to |-> job[r].to]
           /\ job[r].i \in 1 .. 3 /\ job[r].package \in Packages /\ job[r].to \in Addresses
<1>1. job[r] \in Local
  BY DEF TypeOK
<1>2. job[r].i \in 1 .. 3 /\ job[r].package \in Packages /\ job[r].to \in Addresses
  BY <1>1, LocalFields DEF Serving, Noticing
<1>3. Warning(r) = [kind |-> Warnings[job[r].i], package |-> job[r].package,
                    to |-> job[r].to]
  BY DEF Warning, Notice
<1>4. QED
  BY <1>2, <1>3, NoticeFacts

-----------------------------------------------------------------------------
LEMMA TypeStep == TypeOK /\ [Next]_vars => TypeOK'
<1> SUFFICES ASSUME TypeOK, [Next]_vars PROVE TypeOK'
  OBVIOUS
<1>1. slips \in Nat /\ MaxSlips \in Nat /\ day \in Days /\ Days \subseteq Nat
  BY Constants DEF TypeOK
<1>2. ASSUME NEW r \in Runners, Moved(r)
      PROVE  /\ job' \in [Runners -> Local]
             /\ \A q \in Runners : job'[q].step \in Serving => job'[q].package \in job'[q].rest
  BY <1>2 DEF Moved, TypeOK
<1>3. ASSUME Slip PROVE slips' \in 0 .. MaxSlips
  BY <1>1, <1>3 DEF Slip
<1>4. ASSUME NEW n \in Notices, Queue(n) PROVE mails' \in [Notices -> Nat]
  BY <1>4 DEF Queue, TypeOK
<1>5. ASSUME NEW r \in Runners, FeeStep(r) PROVE TypeOK'
  <2>1. CASE StartFees(r)
    <3>1. Moved(r)
      BY <2>1, StartFeesFacts
    <3>2. slips' \in 0 .. MaxSlips
      BY <1>3, <2>1 DEF StartFees, TypeOK
    <3>3. QED
      BY <1>2, <2>1, <3>1, <3>2 DEF StartFees, database, TypeOK
  <2>2. ASSUME NEW p \in Packages, Charge(r, p) PROVE TypeOK'
    <3>1. Moved(r) /\ job[r].step = "fees" /\ job[r].today \in Days
      BY <2>2, ChargeFacts, LocalFields DEF TypeOK
    <3>2. charged' = [charged EXCEPT ![p] = charged[p] \cup {job[r].today}]
      BY <2>2 DEF Charge
    <3>3. charged' \in [Packages -> SUBSET Days]
      BY <3>1, <3>2 DEF TypeOK
    <3>4. QED
      BY <1>2, <2>2, <3>1, <3>3 DEF Charge, TypeOK
  <2>3. CASE FeeAddress(r)
    <3>1. Moved(r)
      BY <2>3, FeeAddressFacts
    <3>2. slips' \in 0 .. MaxSlips
      BY <1>3, <2>3 DEF FeeAddress, TypeOK
    <3>3. QED
      BY <1>2, <2>3, <3>1, <3>2 DEF FeeAddress, database, TypeOK
  <2>4. CASE FeeEnqueue(r)
    <3>1. Moved(r) /\ job[r].package \in Packages /\ job[r].to \in Addresses
      BY <2>4, FeeEnqueueFacts
    <3>2. Notice(r, FeeNotice) \in Notices
      BY <3>1, NoticeFacts DEF Notice
    <3>3. mails' \in [Notices -> Nat] /\ slips' \in 0 .. MaxSlips
      BY <1>3, <1>4, <2>4, <3>2 DEF FeeEnqueue, TypeOK
    <3>4. QED
      BY <1>2, <2>4, <3>1, <3>3 DEF FeeEnqueue, TypeOK
  <2>5. CASE FeesEnd(r)
    <3>1. Moved(r)
      BY <2>5, FeesEndFacts
    <3>2. slips' \in 0 .. MaxSlips
      BY <1>3, <2>5 DEF FeesEnd, TypeOK
    <3>3. QED
      BY <1>2, <2>5, <3>1, <3>2 DEF FeesEnd, database, TypeOK
  <2>6. QED
    BY <1>5, <2>1, <2>2, <2>3, <2>4, <2>5 DEF FeeStep
<1>6. ASSUME NEW r \in Runners, WarnStep(r) PROVE TypeOK'
  <2>1. CASE QueryWindow(r)
    BY <1>2, <2>1, QueryWindowFacts DEF QueryWindow, database, TypeOK
  <2>2. CASE QueryFails(r) \/ Die(r)
    <3>1. Moved(r)
      BY <2>2, StopFacts
    <3>2. slips' \in 0 .. MaxSlips
      BY <1>3, <2>2 DEF QueryFails, Die
    <3>3. QED
      BY <1>2, <2>2, <3>1, <3>2 DEF QueryFails, Die, database, TypeOK
  <2>3. ASSUME NEW p \in Packages, WarnAddress(r, p) PROVE TypeOK'
    <3>1. Moved(r)
      BY <2>3, WarnAddressFacts
    <3>2. slips' \in 0 .. MaxSlips
      BY <1>3, <2>3 DEF WarnAddress, TypeOK
    <3>3. QED
      BY <1>2, <2>3, <3>1, <3>2 DEF WarnAddress, database, TypeOK
  <2>4. CASE Check(r)
    <3>1. Moved(r)
      BY <2>4, CheckFacts
    <3>2. slips' \in 0 .. MaxSlips
      BY <1>3, <2>4 DEF Check, TypeOK
    <3>3. QED
      BY <1>2, <2>4, <3>1, <3>2 DEF Check, database, TypeOK
  <2>5. CASE Enqueue(r)
    <3>1. Moved(r) /\ job[r].step = "enqueue"
      BY <2>5, EnqueueFacts
    <3>2. Warning(r) \in Notices
      BY <3>1, WarningFacts
    <3>3. mails' \in [Notices -> Nat] /\ slips' \in 0 .. MaxSlips
      BY <1>3, <1>4, <2>5, <3>2 DEF Enqueue, TypeOK
    <3>4. QED
      BY <1>2, <2>5, <3>1, <3>3 DEF Enqueue, TypeOK
  <2>6. CASE Record(r)
    <3>1. Moved(r) /\ job[r].step = "record"
      BY <2>6, RecordFacts
    <3>2. Warning(r) \in Notices
      BY <3>1, WarningFacts
    <3>3. sent' \subseteq Notices /\ slips' \in 0 .. MaxSlips
      BY <1>3, <2>6, <3>2 DEF Record, Recorded, TypeOK
    <3>4. QED
      BY <1>2, <2>6, <3>1, <3>3 DEF Record, TypeOK
  <2>7. CASE WindowEnd(r)
    <3>1. Moved(r) /\ notified' \subseteq Days
      BY <2>7, WindowEndFacts DEF TypeOK
    <3>2. QED
      BY <1>2, <2>7, <3>1 DEF WindowEnd, database, TypeOK
  <2>8. QED
    BY <1>6, <2>1, <2>2, <2>3, <2>4, <2>5, <2>6, <2>7 DEF WarnStep
<1>7. ASSUME NEW p \in Packages, Arrive(p) \/ Ship(p) \/ Erase(p) PROVE TypeOK'
  <2>1. CASE Arrive(p)
    <3>1. arrived' = [arrived EXCEPT ![p] = day] /\ stored' = stored \cup {p}
      BY <2>1 DEF Arrive
    <3>2. arrived' \in [Packages -> Days \cup {None}] /\ arrived'[p] # None
      BY <1>1, <3>1, Constants DEF TypeOK
    <3>3. stored' \subseteq {q \in Packages : arrived'[q] # None}
      BY <3>1, <3>2 DEF TypeOK
    <3>4. QED
      BY <2>1, <3>2, <3>3 DEF Arrive, TypeOK
  <2>2. CASE Ship(p)
    BY <2>2 DEF Ship, TypeOK
  <2>3. CASE Erase(p)
    BY <2>3 DEF Erase, ErasedAddress, Addresses, TypeOK
  <2>4. QED
    BY <1>7, <2>1, <2>2, <2>3
<1>8. CASE NextDay
  <2>1. day' \in Days
    BY <1>1, <1>8, Constants DEF NextDay, Days
  <2>2. QED
    BY <1>8, <2>1 DEF NextDay, database, TypeOK
<1>9. CASE UNCHANGED vars
  BY <1>9 DEF vars, TypeOK
<1>10. QED
  BY <1>5, <1>6, <1>7, <1>8, <1>9 DEF Next

-----------------------------------------------------------------------------
(* Counting runs and fees.                                                 *)
LEMMA RunSetFacts ==
    ASSUME NEW P \in SUBSET Runners, NEW r \in Runners
    PROVE  /\ IsFiniteSet(P) /\ Cardinality(P) \in Nat
           /\ Cardinality(P \ {r}) \in Nat /\ Cardinality(P \cup {r}) \in Nat
           /\ Cardinality(P \ {r}) =
                 IF r \in P THEN Cardinality(P) - 1 ELSE Cardinality(P)
           /\ Cardinality(P \cup {r}) =
                 IF r \in P THEN Cardinality(P) ELSE Cardinality(P) + 1
<1>1. IsFiniteSet(P)
  BY Constants, FS_Subset
<1>2. /\ IsFiniteSet(P \ {r})
      /\ Cardinality(P \ {r}) = IF r \in P THEN Cardinality(P) - 1 ELSE Cardinality(P)
  BY <1>1, FS_RemoveElement
<1>3. /\ IsFiniteSet(P \cup {r})
      /\ Cardinality(P \cup {r}) = IF r \in P THEN Cardinality(P) ELSE Cardinality(P) + 1
  BY <1>1, FS_AddElement
<1>4. /\ Cardinality(P) \in Nat /\ Cardinality(P \ {r}) \in Nat
      /\ Cardinality(P \cup {r}) \in Nat
  BY <1>1, <1>2, <1>3, FS_CardinalityType
<1>5. QED
  BY <1>1, <1>2, <1>3, <1>4

LEMMA FeesOnFile ==
    ASSUME TypeOK, NEW p \in Packages, NEW d \in Days
    PROVE  /\ Cardinality(charged[p]) \in Nat
           /\ Cardinality(charged[p] \cup {d}) =
                 IF d \in charged[p] THEN Cardinality(charged[p])
                 ELSE Cardinality(charged[p]) + 1
<1>1. IsFiniteSet(Days)
  <2>1. 0 \in Int /\ LastDay \in Int
    BY Constants
  <2>2. IsFiniteSet(0 .. LastDay)
    BY ONLY <2>1, FS_Interval, Zenon
  <2>3. QED
    BY <2>2 DEF Days
<1>2. charged[p] \in SUBSET Days
  BY DEF TypeOK
<1>3. IsFiniteSet(charged[p])
  BY <1>1, <1>2, FS_Subset
<1>4. QED
  BY <1>3, FS_CardinalityType, FS_AddElement

LEMMA QueueFacts ==
    ASSUME TypeOK, NEW n \in Notices, Queue(n), NEW p \in Packages
    PROVE  /\ mails' \in [Notices -> Nat]
           /\ \A m \in Notices : mails'[m] = IF m = n THEN mails[m] + 1 ELSE mails[m]
           /\ Queued(FeeNotice, p) \in Nat
           /\ n.kind # FeeNotice => Queued(FeeNotice, p)' = Queued(FeeNotice, p)
           /\ n.kind = FeeNotice =>
                 Queued(FeeNotice, p)' = IF n.package = p THEN Queued(FeeNotice, p) + 1
                                         ELSE Queued(FeeNotice, p)
<1>1. /\ mails' \in [Notices -> Nat]
      /\ \A m \in Notices : mails'[m] = IF m = n THEN mails[m] + 1 ELSE mails[m]
  BY DEF Queue, TypeOK
<1> DEFINE own == [kind |-> FeeNotice, package |-> p, to |-> "own"]
           erased == [kind |-> FeeNotice, package |-> p, to |-> "erased"]
<1>2. /\ own \in Notices /\ own.kind = FeeNotice /\ own.package = p
      /\ erased \in Notices /\ erased.kind = FeeNotice /\ erased.package = p
      /\ own # erased
  BY NoticeFacts DEF Addresses
<1>3. n.kind = FeeNotice /\ n.package = p => n = own \/ n = erased
  BY DEF Notices, Addresses
<1>4. /\ Queued(FeeNotice, p) = mails[own] + mails[erased]
      /\ Queued(FeeNotice, p)' = mails'[own] + mails'[erased]
  BY DEF Queued
<1> HIDE DEF own, erased
<1>5. mails[own] \in Nat /\ mails[erased] \in Nat
  BY <1>2 DEF TypeOK
<1>6. CASE n = own
  BY <1>1, <1>2, <1>4, <1>5, <1>6
<1>7. CASE n = erased
  BY <1>1, <1>2, <1>4, <1>5, <1>7
<1>8. CASE n # own /\ n # erased
  BY <1>1, <1>2, <1>3, <1>4, <1>5, <1>8
<1>9. QED
  BY <1>6, <1>7, <1>8

(* Announcing when one run moves.                                          *)
LEMMA AnnouncingFacts ==
    ASSUME TypeOK, NEW r \in Runners, Moved(r), NEW p \in Packages
    PROVE  /\ job'[r].step \notin {"feeAddress", "feeEnqueue"} =>
                 Announcing(p)' = Announcing(p) \ {r}
           /\ job'[r].step \in {"feeAddress", "feeEnqueue"} =>
                 Announcing(p)' = IF job'[r].package = p THEN Announcing(p) \cup {r}
                                  ELSE Announcing(p) \ {r}
<1>1. Announcing(p)' = {q \in Runners : /\ job'[q].step \in {"feeAddress", "feeEnqueue"}
                                        /\ job'[q].package = p}
  BY DEF Announcing
<1>2. \A q \in Runners \ {r} : job'[q] = job[q]
  BY DEF Moved
<1>3. QED
  BY <1>1, <1>2 DEF Announcing

LEMMA FeesStep == TypeOK /\ FeesCounted /\ [Next]_vars => FeesCounted'
<1> SUFFICES ASSUME TypeOK, FeesCounted, [Next]_vars, NEW p \in Packages
             PROVE  Queued(FeeNotice, p)' + Cardinality(Announcing(p)')
                       <= Cardinality(charged'[p])
  BY DEF FeesCounted
<1> DEFINE Q == Queued(FeeNotice, p)
           A == Announcing(p)
           F == charged[p]
<1>1. Q + Cardinality(A) <= Cardinality(F)
  BY DEF FeesCounted
<1>2. A \in SUBSET Runners
  BY DEF Announcing
<1>3. Q \in Nat /\ Cardinality(F) \in Nat
  <2>1. mails \in [Notices -> Nat]
    BY DEF TypeOK
  <2>2. /\ [kind |-> FeeNotice, package |-> p, to |-> "own"] \in Notices
        /\ [kind |-> FeeNotice, package |-> p, to |-> "erased"] \in Notices
    BY NoticeFacts DEF Addresses
  <2>3. Q \in Nat
    BY <2>1, <2>2 DEF Queued
  <2>4. 0 \in Days
    BY Constants DEF Days
  <2>5. Cardinality(F) \in Nat
    BY <2>4, FeesOnFile
  <2>6. QED
    BY <2>3, <2>5
<1> DEFINE Goal == Queued(FeeNotice, p)' + Cardinality(Announcing(p)')
                      <= Cardinality(charged'[p])
<1>4. ASSUME NEW r \in Runners, Moved(r), Announcing(p)' = A \ {r},
             Queued(FeeNotice, p)' = Q, UNCHANGED charged
      PROVE  Goal
  <2>1. /\ Cardinality(A \ {r}) \in Nat /\ Cardinality(A) \in Nat
        /\ \/ Cardinality(A \ {r}) = Cardinality(A)
           \/ Cardinality(A \ {r}) = Cardinality(A) - 1
    BY <1>2, RunSetFacts
  <2>2. Cardinality(Announcing(p)') = Cardinality(A \ {r}) /\ charged'[p] = F
    BY <1>4
  <2> HIDE DEF Q, A, F
  <2>3. QED
    BY <1>1, <1>3, <1>4, <2>1, <2>2
<1>5. ASSUME UNCHANGED <<mails, charged, job>> PROVE Goal
  BY <1>1, <1>5 DEF Queued, Announcing
<1>6. ASSUME UNCHANGED mails PROVE Queued(FeeNotice, p)' = Q
  BY <1>6 DEF Queued
<1>7. ASSUME NEW r \in Runners, NEW q \in Packages, Charge(r, q) PROVE Goal
  <2> DEFINE d == job[r].today
  <2>1. /\ Moved(r) /\ job[r].step = "fees"
        /\ IF d \in charged[q] THEN job'[r].step = "fees"
           ELSE job'[r].step = "feeAddress" /\ job'[r].package = q
    BY <1>7, ChargeFacts
  <2>2. d \in Days
    BY <2>1, LocalFields DEF TypeOK
  <2>3. charged' = [charged EXCEPT ![q] = charged[q] \cup {d}] /\ UNCHANGED mails
    BY <1>7 DEF Charge
  <2>4. r \notin A /\ A \ {r} = A
    BY <2>1 DEF Announcing
  <2>5. charged'[p] = IF p = q THEN F \cup {d} ELSE F
    BY <2>3 DEF TypeOK
  <2>6. CASE d \in charged[q]
    <3>1. Announcing(p)' = A
      BY <2>1, <2>4, <2>6, AnnouncingFacts
    <3>2. charged'[p] = F
      BY <2>5, <2>6
    <3>3. QED
      BY <1>1, <1>6, <2>3, <3>1, <3>2
  <2>7. CASE d \notin charged[q]
    <3>1. Announcing(p)' = IF p = q THEN A \cup {r} ELSE A
      BY <2>1, <2>4, <2>7, AnnouncingFacts
    <3>2. CASE p # q
      BY <1>1, <1>6, <2>3, <2>5, <3>1, <3>2
    <3>3. CASE p = q
      <4>1. Cardinality(A \cup {r}) = Cardinality(A) + 1 /\ Cardinality(A) \in Nat
        BY <1>2, <2>4, RunSetFacts
      <4>2. Cardinality(F \cup {d}) = Cardinality(F) + 1
        BY <2>2, <2>7, <3>3, FeesOnFile
      <4>3. Announcing(p)' = A \cup {r} /\ charged'[p] = F \cup {d}
        BY <2>5, <3>1, <3>3
      <4>4. Queued(FeeNotice, p)' = Q
        BY <1>6, <2>3
      <4> HIDE DEF Q, A, F, d
      <4>5. QED
        BY <1>1, <1>3, <4>1, <4>2, <4>3, <4>4
    <3>4. QED
      BY <3>2, <3>3
  <2>8. QED
    BY <2>6, <2>7
<1>8. ASSUME NEW r \in Runners, FeeAddress(r) PROVE Goal
  <2>1. /\ Moved(r) /\ job[r].step = "feeAddress"
        /\ \/ job'[r].step = "feeEnqueue" /\ job'[r].package = job[r].package
           \/ job'[r].step = "fees"
    BY <1>8, FeeAddressFacts
  <2>2. UNCHANGED <<mails, charged>>
    BY <1>8 DEF FeeAddress, database
  <2>3. CASE job'[r].step = "fees"
    BY <1>4, <1>6, <2>1, <2>2, <2>3, AnnouncingFacts
  <2>4. CASE job'[r].step = "feeEnqueue" /\ job'[r].package = job[r].package
    <3>1. Announcing(p)' = IF job[r].package = p THEN A \cup {r} ELSE A \ {r}
      BY <2>1, <2>4, AnnouncingFacts
    <3>2. r \in A <=> job[r].package = p
      BY <2>1 DEF Announcing
    <3>3. Announcing(p)' = A
      BY <3>1, <3>2
    <3>4. QED
      BY <1>1, <1>6, <2>2, <3>3
  <2>5. QED
    BY <2>1, <2>3, <2>4
<1>9. ASSUME NEW r \in Runners, FeeEnqueue(r) PROVE Goal
  <2>1. /\ Moved(r) /\ job[r].step = "feeEnqueue" /\ job'[r].step = "fees"
        /\ job[r].package \in Packages /\ job[r].to \in Addresses
    BY <1>9, FeeEnqueueFacts
  <2>2. UNCHANGED charged /\ (Queue(Notice(r, FeeNotice)) \/ UNCHANGED mails)
    BY <1>9 DEF FeeEnqueue
  <2>3. Announcing(p)' = A \ {r}
    BY <2>1, AnnouncingFacts
  <2>4. CASE UNCHANGED mails
    BY <1>4, <1>6, <2>1, <2>2, <2>3, <2>4
  <2>5. CASE Queue(Notice(r, FeeNotice))
    <3>1. Notice(r, FeeNotice) = [kind |-> FeeNotice, package |-> job[r].package,
                                  to |-> job[r].to]
      BY DEF Notice
    <3>2. /\ Notice(r, FeeNotice) \in Notices /\ Notice(r, FeeNotice).kind = FeeNotice
          /\ Notice(r, FeeNotice).package = job[r].package
      BY <2>1, <3>1, NoticeFacts
    <3>3. Queued(FeeNotice, p)' = IF job[r].package = p THEN Q + 1 ELSE Q
      BY <2>5, <3>2, QueueFacts
    <3>4. CASE job[r].package # p
      BY <1>4, <2>1, <2>2, <2>3, <3>3, <3>4
    <3>5. CASE job[r].package = p
      <4>1. r \in A
        BY <2>1, <3>5 DEF Announcing
      <4>2. Cardinality(A \ {r}) = Cardinality(A) - 1 /\ Cardinality(A) \in Nat
        BY <1>2, <4>1, RunSetFacts
      <4>3. Queued(FeeNotice, p)' = Q + 1 /\ charged'[p] = F
        BY <2>2, <3>3, <3>5
      <4> HIDE DEF Q, A, F
      <4>4. QED
        BY <1>1, <1>3, <2>3, <4>2, <4>3
    <3>6. QED
      BY <3>4, <3>5
  <2>6. QED
    BY <2>2, <2>4, <2>5
<1>10. ASSUME NEW r \in Runners, FeeStep(r) PROVE Goal
  <2>1. CASE StartFees(r)
    <3>1. Moved(r) /\ job'[r].step = "fees" /\ UNCHANGED <<mails, charged>>
      BY <2>1, StartFeesFacts DEF StartFees, database
    <3>2. QED
      BY <1>4, <1>6, <3>1, AnnouncingFacts
  <2>2. CASE FeesEnd(r)
    <3>1. Moved(r) /\ job'[r].step = "query" /\ UNCHANGED <<mails, charged>>
      BY <2>2, FeesEndFacts DEF FeesEnd, database
    <3>2. QED
      BY <1>4, <1>6, <3>1, AnnouncingFacts
  <2>3. QED
    BY <1>7, <1>8, <1>9, <1>10, <2>1, <2>2 DEF FeeStep
<1>11. ASSUME NEW r \in Runners, WarnStep(r) PROVE Goal
  <2>1. Moved(r) /\ job'[r].step \notin {"feeAddress", "feeEnqueue"} /\ UNCHANGED charged
    <3>1. CASE QueryWindow(r)
      BY <3>1, QueryWindowFacts DEF QueryWindow, database
    <3>2. CASE QueryFails(r) \/ Die(r)
      BY <3>2, StopFacts DEF QueryFails, Die, database
    <3>3. ASSUME NEW q \in Packages, WarnAddress(r, q)
          PROVE  /\ Moved(r) /\ job'[r].step \notin {"feeAddress", "feeEnqueue"}
                 /\ UNCHANGED charged
      BY <3>3, WarnAddressFacts DEF WarnAddress, database
    <3>4. CASE Check(r)
      BY <3>4, CheckFacts DEF Check, database
    <3>5. CASE Enqueue(r)
      BY <3>5, EnqueueFacts DEF Enqueue
    <3>6. CASE Record(r)
      BY <3>6, RecordFacts DEF Record
    <3>7. CASE WindowEnd(r)
      BY <3>7, WindowEndFacts DEF WindowEnd, database
    <3>8. QED
      BY <1>11, <3>1, <3>2, <3>3, <3>4, <3>5, <3>6, <3>7 DEF WarnStep
  <2>2. Queued(FeeNotice, p)' = Q
    <3>1. CASE UNCHANGED mails
      BY <1>6, <3>1
    <3>2. CASE Enqueue(r) /\ ~(UNCHANGED mails)
      <4>1. job[r].step = "enqueue" /\ Queue(Warning(r))
        BY <3>2, EnqueueFacts
      <4>2. Warning(r) \in Notices /\ Warning(r).kind # FeeNotice
        BY <4>1, WarningFacts
      <4>3. QED
        BY <4>1, <4>2, QueueFacts
    <3>3. Enqueue(r) \/ UNCHANGED mails
      BY <1>11 DEF WarnStep, QueryWindow, QueryFails, Die, WarnAddress, Check, Record,
         WindowEnd, database
    <3>4. QED
      BY <3>1, <3>2, <3>3
  <2>3. QED
    BY <1>4, <2>1, <2>2, AnnouncingFacts
<1>12. ASSUME NEW q \in Packages, Arrive(q) \/ Ship(q) \/ Erase(q) PROVE Goal
  BY <1>5, <1>12 DEF Arrive, Ship, Erase
<1>13. CASE NextDay
  BY <1>5, <1>13 DEF NextDay, database
<1>14. CASE UNCHANGED vars
  BY <1>5, <1>14 DEF vars
<1>15. QED
  BY <1>10, <1>11, <1>12, <1>13, <1>14 DEF Next
-----------------------------------------------------------------------------
(* Counting runs that may queue a warning, when one run moves.             *)
LEMMA OneMoves ==
    ASSUME NEW P \in SUBSET Runners, NEW Q \in SUBSET Runners, NEW r \in Runners,
           P \ {r} = Q \ {r}
    PROVE  /\ Cardinality(P) \in Nat /\ Cardinality(Q) \in Nat
           /\ (r \in P <=> r \in Q) => Cardinality(Q) = Cardinality(P)
           /\ r \in P /\ r \notin Q => Cardinality(Q) = Cardinality(P) - 1
           /\ r \notin P /\ r \in Q => Cardinality(Q) = Cardinality(P) + 1
<1>1. Cardinality(P) \in Nat /\ Cardinality(Q) \in Nat
  BY RunSetFacts
<1>2. CASE r \in P <=> r \in Q
  <2>1. P = Q
    BY <1>2
  <2>2. QED
    BY <1>1, <1>2, <2>1
<1>3. CASE r \in P /\ r \notin Q
  <2>1. Q = P \ {r}
    BY <1>3
  <2>2. QED
    BY <1>1, <1>3, <2>1, RunSetFacts
<1>4. CASE r \notin P /\ r \in Q
  <2>1. Q = P \cup {r}
    BY <1>4
  <2>2. QED
    BY <1>1, <1>4, <2>1, RunSetFacts
<1>5. QED
  BY <1>2, <1>3, <1>4

LEMMA RunningFacts ==
    ASSUME TypeOK, NEW r \in Runners, Moved(r), NEW n \in Notices
    PROVE  LET may == MayQueue(n)
               will == WillQueue(n) IN
           /\ may \in SUBSET Runners /\ will \in SUBSET may
           /\ may' \in SUBSET Runners /\ will' \in SUBSET may'
           /\ may \ {r} = may' \ {r} /\ will \ {r} = will' \ {r}
           /\ r \in Running <=> job[r].step # "idle"
           /\ r \in Running' <=> job'[r].step # "idle"
           /\ r \in may <=> job[r].step # "idle" /\ ~Handling(r, "record", n)
           /\ r \in may' <=> job'[r].step # "idle" /\ ~Handling(r, "record", n)'
           /\ r \in will <=> Handling(r, "enqueue", n)
           /\ r \in will' <=> Handling(r, "enqueue", n)'
<1>1. /\ \A q \in Runners : job[q] = Idle <=> job[q].step = "idle"
      /\ \A q \in Runners : job'[q] = Idle <=> job'[q].step = "idle"
  BY LocalFields DEF TypeOK, Moved
<1>2. \A q \in Runners \ {r} : job'[q] = job[q]
  BY DEF Moved
<1>3. \A q \in Runners \ {r} : /\ Handling(q, "record", n)' <=> Handling(q, "record", n)
                               /\ Handling(q, "enqueue", n)' <=> Handling(q, "enqueue", n)
  BY <1>2 DEF Handling, Warning, Notice
<1>4. /\ \A q \in Runners : Handling(q, "enqueue", n) =>
            job[q].step # "idle" /\ ~Handling(q, "record", n)
      /\ \A q \in Runners : Handling(q, "enqueue", n)' =>
            job'[q].step # "idle" /\ ~Handling(q, "record", n)'
  BY DEF Handling
<1>5. /\ MayQueue(n) = {q \in Runners : job[q] # Idle /\ ~Handling(q, "record", n)}
      /\ MayQueue(n)' = {q \in Runners : job'[q] # Idle /\ ~Handling(q, "record", n)'}
      /\ WillQueue(n) = {q \in Runners : job[q] # Idle /\ Handling(q, "enqueue", n)}
      /\ WillQueue(n)' = {q \in Runners : job'[q] # Idle /\ Handling(q, "enqueue", n)'}
  BY DEF MayQueue, WillQueue, Running
<1>6. Running = {q \in Runners : job[q] # Idle} /\ Running' = {q \in Runners : job'[q] # Idle}
  BY DEF Running
<1> HIDE DEF MayQueue, WillQueue, Running, Handling
<1>7. /\ MayQueue(n) \in SUBSET Runners /\ MayQueue(n)' \in SUBSET Runners
  BY <1>5
<1>8. WillQueue(n) \in SUBSET MayQueue(n) /\ WillQueue(n)' \in SUBSET MayQueue(n)'
  BY <1>4, <1>5
<1>9. MayQueue(n) \ {r} = MayQueue(n)' \ {r} /\ WillQueue(n) \ {r} = WillQueue(n)' \ {r}
  BY <1>2, <1>3, <1>5
<1>10. /\ r \in Running <=> job[r].step # "idle"
       /\ r \in Running' <=> job'[r].step # "idle"
       /\ r \in MayQueue(n) <=> job[r].step # "idle" /\ ~Handling(r, "record", n)
       /\ r \in MayQueue(n)' <=> job'[r].step # "idle" /\ ~Handling(r, "record", n)'
       /\ r \in WillQueue(n) <=> Handling(r, "enqueue", n)
       /\ r \in WillQueue(n)' <=> Handling(r, "enqueue", n)'
  BY <1>1, <1>4, <1>5, <1>6
<1>11. QED
  BY <1>7, <1>8, <1>9, <1>10

LEMMA MoveCounts ==
    ASSUME TypeOK, NEW r \in Runners, Moved(r), NEW n \in Notices
    PROVE  LET may == MayQueue(n)
               will == WillQueue(n) IN
           /\ Cardinality(may) \in Nat /\ Cardinality(may') \in Nat
           /\ Cardinality(will) \in Nat /\ Cardinality(will') \in Nat
           /\ Cardinality(will) <= Cardinality(may)
           /\ (r \in may <=> r \in may') => Cardinality(may') = Cardinality(may)
           /\ r \in may /\ r \notin may' => Cardinality(may') = Cardinality(may) - 1
           /\ r \notin may /\ r \in may' => Cardinality(may') = Cardinality(may) + 1
           /\ (r \in will <=> r \in will') => Cardinality(will') = Cardinality(will)
           /\ r \in will /\ r \notin will' => Cardinality(will') = Cardinality(will) - 1
           /\ r \notin will /\ r \in will' => Cardinality(will') = Cardinality(will) + 1
<1> DEFINE may == MayQueue(n)
           will == WillQueue(n)
           mayN == MayQueue(n)'
           willN == WillQueue(n)'
<1>1. /\ may \in SUBSET Runners /\ will \in SUBSET may
      /\ mayN \in SUBSET Runners /\ willN \in SUBSET mayN
      /\ may \ {r} = mayN \ {r} /\ will \ {r} = willN \ {r}
  BY RunningFacts
<1> HIDE DEF may, will, mayN, willN
<1>2. will \in SUBSET Runners /\ willN \in SUBSET Runners
  BY <1>1
<1>3. Cardinality(will) <= Cardinality(may)
  <2>1. IsFiniteSet(may)
    BY <1>1, RunSetFacts
  <2>2. QED
    BY <1>1, <2>1, FS_Subset
<1>4. /\ Cardinality(may) \in Nat /\ Cardinality(mayN) \in Nat
      /\ (r \in may <=> r \in mayN) => Cardinality(mayN) = Cardinality(may)
      /\ r \in may /\ r \notin mayN => Cardinality(mayN) = Cardinality(may) - 1
      /\ r \notin may /\ r \in mayN => Cardinality(mayN) = Cardinality(may) + 1
  BY <1>1, OneMoves
<1>5. /\ Cardinality(will) \in Nat /\ Cardinality(willN) \in Nat
      /\ (r \in will <=> r \in willN) => Cardinality(willN) = Cardinality(will)
      /\ r \in will /\ r \notin willN => Cardinality(willN) = Cardinality(will) - 1
      /\ r \notin will /\ r \in willN => Cardinality(willN) = Cardinality(will) + 1
  BY <1>1, <1>2, OneMoves
<1>6. QED
  BY <1>3, <1>4, <1>5 DEF may, will, mayN, willN

(* A run goes on, and neither queues nor records.                          *)
LEMMA QuietCounted ==
    ASSUME TypeOK, NEW r \in Runners, Moved(r), NEW n \in Notices, Counted(n),
           job[r].step \notin {"idle", "record"},
           job'[r].step \notin {"idle", "record", "enqueue"},
           mails'[n] = mails[n], sent' = sent, slips' \in Nat, slips' >= slips
    PROVE  Counted(n)'
<1> DEFINE m == Cardinality(MayQueue(n))
           mN == Cardinality(MayQueue(n)')
           w == Cardinality(WillQueue(n))
           wN == Cardinality(WillQueue(n)')
           k == mails[n]
<1>1. r \in MayQueue(n) /\ r \in MayQueue(n)' /\ r \notin WillQueue(n)'
  BY RunningFacts DEF Handling
<1>2. Running # {} /\ Running' # {}
  BY RunningFacts
<1>3. m \in Nat /\ w \in Nat /\ mN = m /\ (wN = w \/ wN = w - 1)
  BY <1>1, MoveCounts
<1>4. k \in Nat /\ slips \in Nat
  BY DEF TypeOK
<1>5. (n \notin sent => k + m <= slips + 1) /\ (n \in sent => k + w <= 1 + slips)
  BY <1>2 DEF Counted
<1>6. Counted(n)' <=> /\ n \notin sent => k + mN <= slips' + 1
                      /\ n \in sent => k + wN <= 1 + slips'
  BY <1>2 DEF Counted
<1> HIDE DEF m, mN, w, wN, k
<1>7. QED
  BY <1>3, <1>4, <1>5, <1>6

(* A run ends.                                                             *)
LEMMA EndCounted ==
    ASSUME TypeOK, NEW r \in Runners, Moved(r), NEW n \in Notices, Counted(n),
           job[r].step # "idle", job'[r].step = "idle",
           mails'[n] = mails[n], sent' = sent,
           slips' = slips + 1 \/ (job[r].step = "window" /\ slips' = slips)
    PROVE  Counted(n)'
<1> DEFINE m == Cardinality(MayQueue(n))
           mN == Cardinality(MayQueue(n)')
           w == Cardinality(WillQueue(n))
           wN == Cardinality(WillQueue(n)')
           k == mails[n]
           e == IF Running' = {} THEN 0 ELSE 1
<1>1. /\ r \notin MayQueue(n)' /\ r \notin WillQueue(n)'
      /\ job[r].step = "window" => r \in MayQueue(n)
  BY RunningFacts DEF Handling
<1>2. Running # {} /\ e \in {0, 1}
  BY RunningFacts
<1>3. /\ m \in Nat /\ w \in Nat /\ (wN = w \/ wN = w - 1)
      /\ mN = m - 1 \/ mN = m
      /\ job[r].step = "window" => mN = m - 1
  BY <1>1, MoveCounts
<1>4. k \in Nat /\ slips \in Nat
  BY DEF TypeOK
<1>5. (n \notin sent => k + m <= slips + 1) /\ (n \in sent => k + w <= 1 + slips)
  BY <1>2 DEF Counted
<1>6. Counted(n)' <=> /\ n \notin sent => k + mN <= slips' + e
                      /\ n \in sent => k + wN <= 1 + slips'
  BY DEF Counted
<1>7. slips' = slips + 1 \/ (slips' = slips /\ mN = m - 1)
  BY <1>3
<1> HIDE DEF m, mN, w, wN, k, e
<1>8. QED
  BY <1>2, <1>3, <1>4, <1>5, <1>6, <1>7

(* A run starts: the first is free.                                        *)
LEMMA StartCounted ==
    ASSUME TypeOK, NEW r \in Runners, StartFees(r), NEW n \in Notices, Counted(n)
    PROVE  Counted(n)'
<1> DEFINE m == Cardinality(MayQueue(n))
           mN == Cardinality(MayQueue(n)')
           w == Cardinality(WillQueue(n))
           wN == Cardinality(WillQueue(n)')
           k == mails[n]
           e == IF Running = {} THEN 0 ELSE 1
<1>1. /\ Moved(r) /\ job[r].step = "idle" /\ job'[r].step = "fees"
      /\ UNCHANGED <<mails, sent>>
  BY StartFeesFacts DEF StartFees, database
<1>2. /\ r \notin MayQueue(n) /\ r \in MayQueue(n)'
      /\ r \notin WillQueue(n) /\ r \notin WillQueue(n)'
  BY <1>1, RunningFacts DEF Handling
<1>3. Running' # {} /\ e \in {0, 1} /\ (Running = {} <=> e = 0)
  BY <1>1, RunningFacts
<1>4. m \in Nat /\ w \in Nat /\ wN = w /\ mN = m + 1
  BY <1>1, <1>2, MoveCounts
<1>5. k \in Nat /\ slips \in Nat
  BY DEF TypeOK
<1>6. (n \notin sent => k + m <= slips + e) /\ (n \in sent => k + w <= 1 + slips)
  BY DEF Counted
<1>7. Counted(n)' <=> /\ n \notin sent => k + mN <= slips' + 1
                      /\ n \in sent => k + wN <= 1 + slips'
  BY <1>1, <1>3 DEF Counted
<1>8. (slips' = slips /\ e = 0) \/ slips' = slips + 1
  BY DEF StartFees, Slip, Running
<1> HIDE DEF m, mN, w, wN, k, e
<1>9. QED
  BY <1>3, <1>4, <1>5, <1>6, <1>7, <1>8

(* The warning is looked up, queued, recorded.                             *)
LEMMA CheckCounted ==
    ASSUME TypeOK, NEW r \in Runners, Check(r), NEW n \in Notices, Counted(n)
    PROVE  Counted(n)'
<1> DEFINE m == Cardinality(MayQueue(n))
           mN == Cardinality(MayQueue(n)')
           w == Cardinality(WillQueue(n))
           wN == Cardinality(WillQueue(n)')
           k == mails[n]
<1>1. /\ Moved(r) /\ job[r].step = "check" /\ UNCHANGED <<mails, sent>>
      /\ slips' = slips \/ slips' = slips + 1
  BY CheckFacts DEF Check, database
<1>2. slips \in Nat /\ k \in Nat
  BY DEF TypeOK
<1>3. CASE job'[r].step = "window"
  <2>1. slips' \in Nat /\ slips' >= slips
    BY <1>1, <1>2
  <2>2. QED
    BY <1>1, <1>3, <2>1, QuietCounted
<1>4. CASE job'[r].step = "enqueue"
  <2>1. /\ job'[r].i = job[r].i /\ job'[r].package = job[r].package
        /\ job'[r].to = job[r].to
        /\ Warning(r) \notin sent \/ slips' = slips + 1
    BY <1>4, CheckFacts
  <2>2. Warning(r)' = Warning(r)
    BY <2>1 DEF Warning, Notice
  <2>3. /\ r \in MayQueue(n) /\ r \in MayQueue(n)' /\ r \notin WillQueue(n)
        /\ r \in WillQueue(n)' <=> Warning(r) = n
    BY <1>1, <1>4, <2>2, RunningFacts DEF Handling
  <2>4. Running # {} /\ Running' # {}
    BY <1>1, <1>4, RunningFacts
  <2>5. m \in Nat /\ w \in Nat /\ mN = m /\ wN = IF Warning(r) = n THEN w + 1 ELSE w
    BY <1>1, <2>3, MoveCounts
  <2>6. (n \notin sent => k + m <= slips + 1) /\ (n \in sent => k + w <= 1 + slips)
    BY <2>4 DEF Counted
  <2>7. Counted(n)' <=> /\ n \notin sent => k + mN <= slips' + 1
                        /\ n \in sent => k + wN <= 1 + slips'
    BY <1>1, <2>4 DEF Counted
  <2>8. n \in sent => slips' = slips + 1 \/ wN = w
    BY <2>1, <2>5
  <2>9. wN = w \/ wN = w + 1
    BY <2>5
  <2> HIDE DEF m, mN, w, wN, k
  <2>10. QED
    BY <1>1, <1>2, <2>5, <2>6, <2>7, <2>8, <2>9
<1>5. QED
  BY <1>3, <1>4, CheckFacts

LEMMA EnqueueCounted ==
    ASSUME TypeOK, NEW r \in Runners, Enqueue(r), NEW n \in Notices, Counted(n)
    PROVE  Counted(n)'
<1> DEFINE m == Cardinality(MayQueue(n))
           mN == Cardinality(MayQueue(n)')
           w == Cardinality(WillQueue(n))
           wN == Cardinality(WillQueue(n)')
           k == mails[n]
<1>1. Moved(r) /\ job[r].step = "enqueue" /\ UNCHANGED sent
  BY EnqueueFacts DEF Enqueue
<1>2. slips \in Nat /\ k \in Nat
  BY DEF TypeOK
<1>3. CASE job'[r].step = "window"
  <2>1. UNCHANGED mails /\ slips' = slips + 1
    BY <1>3, EnqueueFacts
  <2>2. slips' \in Nat /\ slips' >= slips
    BY <1>2, <2>1
  <2>3. QED
    BY <1>1, <1>3, <2>1, <2>2, QuietCounted
<1>4. CASE job'[r].step = "record"
  <2>1. /\ job'[r].i = job[r].i /\ job'[r].package = job[r].package
        /\ job'[r].to = job[r].to /\ Queue(Warning(r)) /\ UNCHANGED slips
    BY <1>4, EnqueueFacts
  <2>2. Warning(r)' = Warning(r)
    BY <2>1 DEF Warning, Notice
  <2>3. Warning(r) \in Notices
    BY <1>1, WarningFacts
  <2>4. /\ r \in MayQueue(n) /\ (r \in MayQueue(n)' <=> Warning(r) # n)
        /\ r \in WillQueue(n) <=> Warning(r) = n
        /\ r \notin WillQueue(n)'
    BY <1>1, <1>4, <2>2, RunningFacts DEF Handling
  <2>5. Running # {} /\ Running' # {}
    BY <1>1, <1>4, RunningFacts
  <2>6. /\ m \in Nat /\ w \in Nat
        /\ Warning(r) = n => mN = m - 1 /\ wN = w - 1
        /\ Warning(r) # n => mN = m /\ wN = w
    BY <1>1, <2>4, MoveCounts
  <2>7. mails'[n] = IF Warning(r) = n THEN k + 1 ELSE k
    BY <2>1, <2>3 DEF Queue, TypeOK
  <2>8. (n \notin sent => k + m <= slips + 1) /\ (n \in sent => k + w <= 1 + slips)
    BY <2>5 DEF Counted
  <2>9. Counted(n)' <=> /\ n \notin sent => mails'[n] + mN <= slips + 1
                        /\ n \in sent => mails'[n] + wN <= 1 + slips
    BY <1>1, <2>1, <2>5 DEF Counted
  <2> HIDE DEF m, mN, w, wN, k
  <2>10. CASE Warning(r) = n
    BY <1>2, <2>6, <2>7, <2>8, <2>9, <2>10
  <2>11. CASE Warning(r) # n
    BY <1>2, <2>6, <2>7, <2>8, <2>9, <2>11
  <2>12. QED
    BY <2>10, <2>11
<1>5. QED
  BY <1>3, <1>4, EnqueueFacts

LEMMA RecordCounted ==
    ASSUME TypeOK, NEW r \in Runners, Record(r), NEW n \in Notices, Counted(n)
    PROVE  Counted(n)'
<1> DEFINE m == Cardinality(MayQueue(n))
           mN == Cardinality(MayQueue(n)')
           w == Cardinality(WillQueue(n))
           wN == Cardinality(WillQueue(n)')
           k == mails[n]
<1>1. /\ Moved(r) /\ job[r].step = "record" /\ job'[r].step = "window"
      /\ UNCHANGED mails
      /\ \/ sent' = sent \cup {Warning(r)} /\ UNCHANGED slips
         \/ slips' = slips + 1 /\ UNCHANGED sent
  BY RecordFacts DEF Record
<1>2. slips \in Nat /\ k \in Nat
  BY DEF TypeOK
<1>3. /\ r \in MayQueue(n) <=> Warning(r) # n
      /\ r \in MayQueue(n)' /\ r \notin WillQueue(n) /\ r \notin WillQueue(n)'
  BY <1>1, RunningFacts DEF Handling
<1>4. Running # {} /\ Running' # {}
  BY <1>1, RunningFacts
<1>5. /\ m \in Nat /\ w \in Nat /\ w <= m /\ wN = w
      /\ Warning(r) = n => mN = m + 1
      /\ Warning(r) # n => mN = m
  BY <1>1, <1>3, MoveCounts
<1>6. (n \notin sent => k + m <= slips + 1) /\ (n \in sent => k + w <= 1 + slips)
  BY <1>4 DEF Counted
<1>7. Counted(n)' <=> /\ n \notin sent' => k + mN <= slips' + 1
                      /\ n \in sent' => k + wN <= 1 + slips'
  BY <1>1, <1>4 DEF Counted
<1>8. /\ Warning(r) # n => (n \in sent' <=> n \in sent)
      /\ Warning(r) = n => slips' = slips + 1 \/ n \in sent'
      /\ n \in sent => n \in sent'
      /\ slips' = slips \/ slips' = slips + 1
  BY <1>1
<1> HIDE DEF m, mN, w, wN, k
<1>9. CASE Warning(r) = n
  BY <1>2, <1>5, <1>6, <1>7, <1>8, <1>9
<1>10. CASE Warning(r) # n
  BY <1>2, <1>5, <1>6, <1>7, <1>8, <1>10
<1>11. QED
  BY <1>9, <1>10

LEMMA WarningsStep == TypeOK /\ WarningsCounted /\ [Next]_vars => WarningsCounted'
<1> SUFFICES ASSUME TypeOK, WarningsCounted, [Next]_vars,
                    NEW n \in Notices, n.kind # FeeNotice
             PROVE  Counted(n)'
  BY DEF WarningsCounted
<1>1. Counted(n) /\ slips \in Nat
  BY DEF WarningsCounted, TypeOK
<1>2. ASSUME UNCHANGED <<mails, sent, job, slips>> PROVE Counted(n)'
  BY <1>1, <1>2 DEF Counted, MayQueue, WillQueue, Running, Handling, Warning, Notice
<1>3. ASSUME NEW r \in Runners, FeeStep(r) PROVE Counted(n)'
  <2>1. CASE StartFees(r)
    BY <1>1, <2>1, StartCounted
  <2>2. CASE FeeEnqueue(r)
    <3>1. /\ Moved(r) /\ job[r].step = "feeEnqueue" /\ job'[r].step = "fees"
          /\ job[r].package \in Packages /\ job[r].to \in Addresses
      BY <2>2, FeeEnqueueFacts
    <3>2. sent' = sent /\ (slips' = slips \/ slips' = slips + 1)
      BY <2>2 DEF FeeEnqueue, Slip
    <3>3. Notice(r, FeeNotice) \in Notices /\ Notice(r, FeeNotice).kind = FeeNotice
      BY <3>1, NoticeFacts DEF Notice
    <3>4. mails'[n] = mails[n]
      BY <2>2, <3>3 DEF FeeEnqueue, Queue, TypeOK
    <3>5. slips' \in Nat /\ slips' >= slips
      BY <1>1, <3>2
    <3>6. QED
      BY <1>1, <3>1, <3>2, <3>4, <3>5, QuietCounted
  <2>3. ASSUME ~StartFees(r), ~FeeEnqueue(r) PROVE Counted(n)'
    <3>1. /\ Moved(r) /\ job[r].step \in Feeing
          /\ job'[r].step \in {"fees", "feeAddress", "feeEnqueue", "query"}
      BY <1>3, <2>3, ChargeFacts, FeeAddressFacts, FeesEndFacts DEF FeeStep, Feeing
    <3>2. UNCHANGED <<mails, sent>> /\ (slips' = slips \/ slips' = slips + 1)
      BY <1>3, <2>3 DEF FeeStep, Charge, FeeAddress, FeesEnd, database, Slip
    <3>3. slips' \in Nat /\ slips' >= slips
      BY <1>1, <3>2
    <3>4. QED
      BY <1>1, <3>1, <3>2, <3>3, QuietCounted DEF Feeing
  <2>4. QED
    BY <2>1, <2>2, <2>3
<1>4. ASSUME NEW r \in Runners, WarnStep(r) PROVE Counted(n)'
  <2>1. CASE QueryWindow(r)
    BY <1>1, <2>1, QueryWindowFacts, QuietCounted DEF QueryWindow, database
  <2>2. CASE QueryFails(r) \/ Die(r)
    <3>1. /\ Moved(r) /\ job[r].step # "idle" /\ job'[r].step = "idle"
          /\ slips' = slips + 1
      BY <2>2, StopFacts, LocalFields DEF TypeOK
    <3>2. UNCHANGED <<mails, sent>>
      BY <2>2 DEF QueryFails, Die, database
    <3>3. QED
      BY <1>1, <3>1, <3>2, EndCounted
  <2>3. ASSUME NEW p \in Packages, WarnAddress(r, p) PROVE Counted(n)'
    <3>1. /\ Moved(r) /\ job[r].step = "window" /\ job'[r].step \in {"check", "window"}
          /\ slips' = slips \/ slips' = slips + 1
      BY <2>3, WarnAddressFacts
    <3>2. UNCHANGED <<mails, sent>>
      BY <2>3 DEF WarnAddress, database
    <3>3. slips' \in Nat /\ slips' >= slips
      BY <1>1, <3>1
    <3>4. QED
      BY <1>1, <3>1, <3>2, <3>3, QuietCounted
  <2>4. CASE Check(r)
    BY <1>1, <2>4, CheckCounted
  <2>5. CASE Enqueue(r)
    BY <1>1, <2>5, EnqueueCounted
  <2>6. CASE Record(r)
    BY <1>1, <2>6, RecordCounted
  <2>7. CASE WindowEnd(r)
    <3>1. Moved(r) /\ job[r].step = "window" /\ job'[r].step \in {"query", "idle"}
      BY <2>7, WindowEndFacts
    <3>2. UNCHANGED <<mails, sent, slips>> /\ slips' \in Nat /\ slips' >= slips
      BY <1>1, <2>7 DEF WindowEnd, database
    <3>3. QED
      BY <1>1, <3>1, <3>2, QuietCounted, EndCounted
  <2>8. QED
    BY <1>4, <2>1, <2>2, <2>3, <2>4, <2>5, <2>6, <2>7 DEF WarnStep
<1>5. ASSUME NEW q \in Packages, Arrive(q) \/ Ship(q) \/ Erase(q) PROVE Counted(n)'
  BY <1>2, <1>5 DEF Arrive, Ship, Erase
<1>6. CASE NextDay
  BY <1>2, <1>6 DEF NextDay, database
<1>7. CASE UNCHANGED vars
  BY <1>2, <1>7 DEF vars
<1>8. QED
  BY <1>3, <1>4, <1>5, <1>6, <1>7 DEF Next

-----------------------------------------------------------------------------
(* Any step of a run.                                                      *)
LEMMA RunFacts ==
    ASSUME TypeOK, NEW r \in Runners, FeeStep(r) \/ WarnStep(r)
    PROVE  LET l == job[r]
               m == job'[r] IN
           /\ Moved(r)
           /\ UNCHANGED <<day, arrived, stored, address>>
           /\ slips' = slips \/ slips' = slips + 1
           /\ \/ m.step = "idle" /\ l.step # "idle"
              \/ m.step \in Feeing /\ StartFees(r)
              \/ /\ m.step \in Feeing /\ l.step \in Feeing
                 /\ m.today = l.today /\ m.rest \in SUBSET l.rest
              \/ m.step = "query" /\ l.step = "fees" /\ m.today = day /\ FeesEnd(r)
              \/ /\ m.step \in Noticing /\ l.step \in Noticing /\ m.today = l.today
                 /\ ~FeeStep(r)
<1> DEFINE l == job[r]
           m == job'[r]
           Move == \/ m.step = "idle" /\ l.step # "idle"
                   \/ m.step \in Feeing /\ StartFees(r)
                   \/ /\ m.step \in Feeing /\ l.step \in Feeing
                      /\ m.today = l.today /\ m.rest \in SUBSET l.rest
                   \/ m.step = "query" /\ l.step = "fees" /\ m.today = day /\ FeesEnd(r)
                   \/ /\ m.step \in Noticing /\ l.step \in Noticing /\ m.today = l.today
                      /\ ~FeeStep(r)
<1>1. UNCHANGED <<day, arrived, stored, address>> /\ (slips' = slips \/ slips' = slips + 1)
  BY DEF FeeStep, WarnStep, StartFees, Charge, FeeAddress, FeeEnqueue, FeesEnd,
     QueryWindow, QueryFails, Check, Enqueue, Record, WindowEnd, Die, WarnAddress,
     database, Slip
<1>2. CASE StartFees(r)
  BY <1>1, <1>2, StartFeesFacts DEF Feeing
<1>3. ASSUME NEW p \in Packages, Charge(r, p) PROVE Moved(r) /\ Move
  BY <1>3, ChargeFacts DEF Feeing
<1>4. CASE FeeAddress(r)
  BY <1>1, <1>4, FeeAddressFacts DEF Feeing
<1>5. CASE FeeEnqueue(r)
  BY <1>1, <1>5, FeeEnqueueFacts DEF Feeing
<1>6. CASE FeesEnd(r)
  BY <1>1, <1>6, FeesEndFacts
<1>7. l.step \in Noticing => ~FeeStep(r)
  <2>1. StartFees(r) => l.step = "idle"
    BY DEF StartFees, Idle
  <2>2. \A p \in Packages : Charge(r, p) => l.step = "fees"
    BY DEF Charge
  <2>3. FeeStep(r) => l.step \in {"idle", "fees", "feeAddress", "feeEnqueue"}
    BY <2>1, <2>2 DEF FeeStep, FeeAddress, FeeEnqueue, FeesEnd
  <2>4. QED
    BY <2>3 DEF Noticing
<1>8. CASE QueryWindow(r)
  BY <1>1, <1>7, <1>8, QueryWindowFacts DEF Noticing
<1>9. CASE QueryFails(r) \/ Die(r)
  BY <1>1, <1>9, StopFacts, LocalFields DEF TypeOK
<1>10. ASSUME NEW p \in Packages, WarnAddress(r, p) PROVE Moved(r) /\ Move
  BY <1>7, <1>10, WarnAddressFacts DEF Noticing
<1>11. CASE Check(r)
  BY <1>1, <1>7, <1>11, CheckFacts DEF Noticing
<1>12. CASE Enqueue(r)
  BY <1>1, <1>7, <1>12, EnqueueFacts DEF Noticing
<1>13. CASE Record(r)
  BY <1>1, <1>7, <1>13, RecordFacts DEF Noticing
<1>14. CASE WindowEnd(r)
  BY <1>1, <1>7, <1>14, WindowEndFacts DEF Noticing
<1>15. Moved(r) /\ Move
  <2>1. CASE FeeStep(r)
    BY <1>2, <1>3, <1>4, <1>5, <1>6, <2>1 DEF FeeStep
  <2>2. CASE WarnStep(r)
    BY <1>8, <1>9, <1>10, <1>11, <1>12, <1>13, <1>14, <2>2 DEF WarnStep
  <2>3. QED
    BY <2>1, <2>2
<1>16. QED
  BY <1>1, <1>15

LEMMA MailsGrow ==
    ASSUME TypeOK, [Next]_vars
    PROVE  /\ \A n \in Notices : mails[n] \in Nat /\ mails'[n] \in Nat
           /\ \A n \in Notices : mails'[n] >= mails[n]
<1>1. mails \in [Notices -> Nat] /\ mails' \in [Notices -> Nat]
  BY TypeStep DEF TypeOK
<1>2. ASSUME NEW k \in Notices, Queue(k), NEW n \in Notices PROVE mails'[n] >= mails[n]
  BY <1>1, <1>2 DEF Queue
<1>3. UNCHANGED mails \/ \E k \in Notices : Queue(k)
  <2>1. ASSUME NEW r \in Runners, FeeEnqueue(r) \/ Enqueue(r)
        PROVE  UNCHANGED mails \/ \E k \in Notices : Queue(k)
    <3>1. CASE FeeEnqueue(r)
      <4>1. job[r].package \in Packages /\ job[r].to \in Addresses
        BY <3>1, FeeEnqueueFacts
      <4>2. Notice(r, FeeNotice) \in Notices
        BY <4>1, NoticeFacts DEF Notice
      <4>3. QED
        BY <3>1, <4>2 DEF FeeEnqueue
    <3>2. CASE Enqueue(r)
      BY <3>2, EnqueueFacts, WarningFacts DEF Enqueue
    <3>3. QED
      BY <2>1, <3>1, <3>2
  <2>2. \/ UNCHANGED mails
        \/ \E r \in Runners : FeeEnqueue(r) \/ Enqueue(r)
    BY DEF Next, vars, FeeStep, WarnStep, StartFees, Charge, FeeAddress, FeesEnd,
       QueryWindow, QueryFails, Check, Record, WindowEnd, Die, WarnAddress,
       database, Arrive, Ship, Erase, NextDay
  <2>3. QED
    BY <2>1, <2>2
<1>4. QED
  BY <1>1, <1>2, <1>3

LEMMA RecordedStep ==
    TypeOK /\ RecordedWasQueued /\ [Next]_vars => RecordedWasQueued'
<1> SUFFICES ASSUME TypeOK, RecordedWasQueued, [Next]_vars PROVE RecordedWasQueued'
  OBVIOUS
<1>1. ASSUME NEW n \in Notices, mails[n] >= 1 PROVE mails'[n] >= 1
  BY <1>1, MailsGrow
<1>2. \A n \in sent : n \in Notices /\ mails[n] >= 1
  BY DEF RecordedWasQueued, TypeOK
<1>3. ASSUME NEW r \in Runners, FeeStep(r) \/ WarnStep(r) PROVE RecordedWasQueued'
  <2>1. Moved(r)
    BY <1>3, RunFacts
  <2>2. ASSUME NEW q \in Runners \ {r}, job'[q].step = "record"
        PROVE  mails'[Warning(q)'] >= 1
    <3>1. job'[q] = job[q] /\ job[q].step = "record"
      BY <2>1, <2>2 DEF Moved
    <3>2. Warning(q)' = Warning(q)
      BY <3>1 DEF Warning, Notice
    <3>3. QED
      BY <1>1, <3>1, <3>2, WarningFacts DEF RecordedWasQueued
  <2>3. ASSUME job'[r].step = "record" PROVE mails'[Warning(r)'] >= 1
    <3>1. Enqueue(r)
      BY <1>3, <2>3, StartFeesFacts, ChargeFacts, FeeAddressFacts, FeeEnqueueFacts,
         FeesEndFacts, QueryWindowFacts, StopFacts, WarnAddressFacts, CheckFacts,
         RecordFacts, WindowEndFacts DEF FeeStep, WarnStep
    <3>2. /\ job[r].step = "enqueue" /\ Queue(Warning(r))
          /\ job'[r].i = job[r].i /\ job'[r].package = job[r].package
          /\ job'[r].to = job[r].to
      BY <2>3, <3>1, EnqueueFacts
    <3>3. Warning(r)' = Warning(r)
      BY <3>2 DEF Warning, Notice
    <3>4. Warning(r) \in Notices
      BY <3>2, WarningFacts
    <3>5. mails'[Warning(r)] = mails[Warning(r)] + 1 /\ mails[Warning(r)] \in Nat
      BY <3>2, <3>4 DEF Queue, TypeOK
    <3>6. QED
      BY <3>3, <3>5
  <2>4. ASSUME NEW n \in sent' PROVE mails'[n] >= 1
    <3>1. CASE n \in sent
      BY <1>1, <1>2, <3>1
    <3>2. CASE n \notin sent
      <4>1. Record(r)
        BY <1>3, <2>4, <3>2 DEF FeeStep, WarnStep, StartFees, Charge, FeeAddress,
           FeeEnqueue, FeesEnd, QueryWindow, QueryFails, Check, Enqueue, WindowEnd, Die,
           WarnAddress, database
      <4>2. job[r].step = "record" /\ sent' \subseteq sent \cup {Warning(r)}
        BY <4>1, RecordFacts
      <4>3. n = Warning(r) /\ n \in Notices
        BY <2>4, <3>2, <4>2, WarningFacts
      <4>4. QED
        BY <1>1, <4>2, <4>3 DEF RecordedWasQueued
    <3>3. QED
      BY <3>1, <3>2
  <2>5. QED
    BY <2>2, <2>3, <2>4 DEF RecordedWasQueued
<1>4. ASSUME UNCHANGED <<mails, sent, job>> PROVE RecordedWasQueued'
  BY <1>4 DEF RecordedWasQueued, Warning, Notice
<1>5. QED
  BY <1>3, <1>4 DEF Next, vars, Arrive, Ship, Erase, NextDay, database

LEMMA DatesStep == TypeOK /\ Dates /\ [Next]_vars => Dates'
<1> SUFFICES ASSUME TypeOK, Dates, [Next]_vars PROVE Dates'
  OBVIOUS
<1>1. /\ day \in Nat /\ \A d \in notified : d \in Nat
      /\ \A p \in Packages : arrived[p] \in Nat \cup {None}
      /\ \A p \in Packages : \A d \in charged[p] : d \in Nat
      /\ \A r \in Runners : job[r] # Idle => job[r].today \in Nat
      /\ \A r \in Runners : job[r] = Idle <=> job[r].step = "idle"
      /\ \A r \in Runners : job[r].step \in Feeing => job[r].rest \in SUBSET Packages
  BY Constants, LocalFields DEF TypeOK, Feeing
<1>2. ASSUME NEW r \in Runners, FeeStep(r) \/ WarnStep(r) PROVE Dates'
  <2> DEFINE l == job[r]
             m == job'[r]
  <2>1. /\ Moved(r) /\ UNCHANGED <<day, arrived, stored>>
        /\ \/ m.step = "idle" /\ l.step # "idle"
           \/ m.step \in Feeing /\ StartFees(r)
           \/ /\ m.step \in Feeing /\ l.step \in Feeing
              /\ m.today = l.today /\ m.rest \in SUBSET l.rest
           \/ m.step = "query" /\ l.step = "fees" /\ m.today = day
           \/ m.step \in Noticing /\ l.step \in Noticing /\ m.today = l.today
    BY <1>2, RunFacts
  <2>3. \A p : Expiry(p)' = Expiry(p)
    BY <2>1 DEF Expiry
  <2>4. \A q \in Runners \ {r} : job'[q] = job[q]
    BY <2>1 DEF Moved
  <2>5. m = Idle <=> m.step = "idle"
    BY <2>1, LocalFields DEF Moved
  <2>6. m # Idle => m.today <= day
    <3>1. CASE StartFees(r)
      BY <1>1, <3>1, StartFeesFacts
    <3>2. CASE m.step = "query" /\ l.step = "fees" /\ m.today = day
      BY <1>1, <3>2
    <3>3. CASE l.step \in Feeing \cup Noticing /\ m.today = l.today
      BY <1>1, <3>3 DEF Dates, Feeing, Noticing
    <3>4. QED
      BY <2>1, <2>5, <3>1, <3>2, <3>3
  <2>7. m.step \in Feeing => \A p \in m.rest : arrived[p] # None /\ Expiry(p) <= m.today
    <3>1. CASE StartFees(r)
      BY <3>1, StartFeesFacts
    <3>2. CASE l.step \in Feeing /\ m.today = l.today /\ m.rest \in SUBSET l.rest
      BY <3>2 DEF Dates
    <3>3. QED
      BY <2>1, <3>1, <3>2 DEF Feeing, Noticing
  <2>8. ASSUME NEW p \in Packages, NEW d \in charged'[p]
        PROVE  d <= day /\ arrived[p] # None /\ Expiry(p) <= d
    <3>1. CASE d \in charged[p]
      BY <3>1 DEF Dates
    <3>2. CASE d \notin charged[p]
      <4>1. PICK q \in Packages : Charge(r, q)
        BY <1>2, <2>8, <3>2 DEF FeeStep, WarnStep, StartFees, FeeAddress,
           FeeEnqueue, FeesEnd, QueryWindow, QueryFails, Check, Enqueue, Record,
           WindowEnd, Die, WarnAddress, database
      <4>2. charged' = [charged EXCEPT ![q] = charged[q] \cup {l.today}]
        BY <4>1 DEF Charge
      <4>3. p = q /\ d = l.today
        BY <2>8, <3>2, <4>2 DEF TypeOK
      <4>4. l.step = "fees" /\ p \in l.rest /\ l # Idle
        BY <4>1, <4>3, <1>1, ChargeFacts
      <4>5. QED
        BY <4>3, <4>4 DEF Dates, Feeing
    <3>3. QED
      BY <3>1, <3>2
  <2>9. ASSUME NEW d \in notified' PROVE d <= day
    <3>1. CASE d \in notified
      BY <3>1 DEF Dates
    <3>2. CASE d \notin notified
      <4>1. WindowEnd(r)
        BY <1>2, <2>9, <3>2 DEF FeeStep, WarnStep, StartFees, Charge, FeeAddress,
           FeeEnqueue, FeesEnd, QueryWindow, QueryFails, Check, Enqueue, Record,
           Die, WarnAddress, database
      <4>2. l.step = "window" /\ d = l.today
        BY <2>9, <3>2, <4>1, WindowEndFacts
      <4>3. QED
        BY <1>1, <4>2 DEF Dates
    <3>3. QED
      BY <3>1, <3>2
  <2>10. /\ \A q \in Runners : job'[q] # Idle => job'[q].today <= day
         /\ \A q \in Runners : job'[q].step \in Feeing =>
               \A p \in job'[q].rest : arrived[p] # None /\ Expiry(p) <= job'[q].today
    BY <2>4, <2>6, <2>7 DEF Dates
  <2>11. QED
    BY <2>1, <2>3, <2>8, <2>9, <2>10 DEF Dates
<1>3. ASSUME NEW p \in Packages, Arrive(p) PROVE Dates'
  <2>1. /\ arrived[p] = None /\ arrived' = [arrived EXCEPT ![p] = day]
        /\ UNCHANGED <<day, notified, charged, job>>
    BY <1>3 DEF Arrive
  <2>2. arrived'[p] = day /\ \A q \in Packages \ {p} : arrived'[q] = arrived[q]
    BY <2>1 DEF TypeOK
  <2>3. \A q \in Packages \ {p} : Expiry(q)' = Expiry(q)
    BY <2>2 DEF Expiry
  <2>4. charged[p] = {}
    BY <2>1 DEF Dates
  <2>5. \A r \in Runners : job[r].step \in Feeing => p \notin job[r].rest
    BY <2>1 DEF Dates
  <2>6. \A q \in Packages : arrived'[q] # None => arrived'[q] <= day
    BY <1>1, <2>2 DEF Dates
  <2>7. \A q \in Packages : \A d \in charged[q] :
           d <= day /\ arrived'[q] # None /\ Expiry(q)' <= d
    BY <2>2, <2>3, <2>4 DEF Dates
  <2>8. \A r \in Runners : job[r].step \in Feeing =>
           \A q \in job[r].rest : arrived'[q] # None /\ Expiry(q)' <= job[r].today
    BY <1>1, <2>2, <2>3, <2>5 DEF Dates
  <2>9. QED
    BY <2>1, <2>6, <2>7, <2>8 DEF Dates
<1>4. CASE NextDay
  <2>1. day' = day + 1 /\ UNCHANGED <<arrived, notified, charged, job>>
    BY <1>4 DEF NextDay, database
  <2>2. \A d \in Nat : d <= day => d <= day'
    BY <1>1, <2>1
  <2>3. \A p : Expiry(p)' = Expiry(p)
    BY <2>1 DEF Expiry
  <2>4. QED
    BY <1>1, <2>1, <2>2, <2>3 DEF Dates
<1>5. ASSUME UNCHANGED <<day, arrived, notified, charged, job>> PROVE Dates'
  BY <1>5 DEF Dates, Expiry
<1>6. QED
  BY <1>2, <1>3, <1>4, <1>5 DEF Next, vars, Ship, Erase

LEMMA OneRunStep == TypeOK /\ Dates /\ OneRun /\ [Next]_vars => OneRun'
<1> SUFFICES ASSUME TypeOK, Dates, OneRun, [Next]_vars, slips' = 0
             PROVE  /\ \A q, r \in Running' : q = r
                    /\ \A r \in Runners : job'[r].step \in Noticing =>
                          \A p \in Packages : \A d \in charged'[p] : d <= job'[r].today
  BY DEF OneRun
<1> DEFINE Goal == /\ \A q, r \in Running' : q = r
                   /\ \A r \in Runners : job'[r].step \in Noticing =>
                         \A p \in Packages : \A d \in charged'[p] : d <= job'[r].today
<1>1. slips \in Nat /\ \A q \in Runners : job[q] = Idle <=> job[q].step = "idle"
  BY LocalFields DEF TypeOK
<1>2. ASSUME slips = 0
      PROVE  /\ \A q, r \in Running : q = r
             /\ \A r \in Runners : job[r].step \in Noticing =>
                   \A p \in Packages : \A d \in charged[p] : d <= job[r].today
  BY <1>2 DEF OneRun
<1>3. ASSUME UNCHANGED <<job, charged, slips>> PROVE Goal
  BY <1>2, <1>3 DEF Running
<1>4. ASSUME NEW r \in Runners, FeeStep(r) \/ WarnStep(r) PROVE Goal
  <2> DEFINE l == job[r]
             m == job'[r]
  <2>1. /\ Moved(r) /\ UNCHANGED day
        /\ slips' = slips \/ slips' = slips + 1
        /\ \/ m.step = "idle" /\ l.step # "idle"
           \/ m.step \in Feeing /\ StartFees(r)
           \/ m.step \in Feeing /\ l.step \in Feeing
           \/ m.step = "query" /\ l.step = "fees" /\ m.today = day /\ FeesEnd(r)
           \/ /\ m.step \in Noticing /\ l.step \in Noticing /\ m.today = l.today
              /\ ~FeeStep(r)
    BY <1>4, RunFacts
  <2>2. slips = 0 /\ slips' = slips
    BY <1>1, <2>1
  <2>3. /\ \A q \in Runners \ {r} : job'[q] = job[q]
        /\ \A q \in Runners : job'[q] = Idle <=> job'[q].step = "idle"
    BY <2>1, LocalFields DEF Moved
  <2>4. \A q \in Runners \ {r} : job[q] = Idle
    <3>1. CASE l # Idle
      BY <1>2, <2>2, <3>1 DEF Running
    <3>2. CASE l = Idle
      <4>1. StartFees(r)
        BY <2>1, <3>2 DEF Feeing, Noticing, Idle
      <4>2. QED
        BY <1>1, <2>2, <4>1 DEF StartFees, Slip
    <3>3. QED
      BY <3>1, <3>2
  <2>5. \A q, s \in Running' : q = s
    BY <2>3, <2>4 DEF Running
  <2>6. ASSUME NEW q \in Runners, job'[q].step \in Noticing,
               NEW p \in Packages, NEW d \in charged'[p]
        PROVE  d <= job'[q].today
    <3>1. q = r
      BY <1>1, <2>3, <2>4, <2>6 DEF Noticing
    <3>2. CASE m.step = "query" /\ m.today = day /\ FeesEnd(r)
      <4>1. UNCHANGED charged
        BY <3>2 DEF FeesEnd, database
      <4>2. QED
        BY <2>6, <3>1, <3>2, <4>1 DEF Dates
    <3>3. CASE /\ m.step \in Noticing /\ l.step \in Noticing /\ m.today = l.today
               /\ ~FeeStep(r)
      <4>1. UNCHANGED charged
        BY <1>4, <3>3 DEF WarnStep, QueryWindow, QueryFails, Check, Enqueue, Record,
           WindowEnd, Die, WarnAddress, database
      <4>2. QED
        BY <1>2, <2>2, <2>6, <3>1, <3>3, <4>1
    <3>4. QED
      BY <2>1, <2>6, <3>1, <3>2, <3>3 DEF Feeing, Noticing
  <2>7. QED
    BY <2>5, <2>6
<1>5. QED
  BY <1>3, <1>4 DEF Next, vars, Arrive, Ship, Erase, NextDay, database

-----------------------------------------------------------------------------
(* The warning of a day is queued in time.                                 *)
LEMMA WindowFacts ==
    ASSUME NEW w \in Windows
    PROVE  /\ w[1] \in 1 .. 2 /\ w[2] \in Nat /\ w[2] < FreeDays
           /\ w[1] = 1 => w[2] = Warn5
           /\ w[1] = 2 => w[2] = Warn1
BY Constants DEF Windows

LEMMA QueuedFacts ==
    ASSUME mails \in [Notices -> Nat], NEW i \in 1 .. 3, NEW p \in Packages
    PROVE  /\ Queued(Warnings[i], p) \in Nat
           /\ \A to \in Addresses :
                 LET n == [kind |-> Warnings[i], package |-> p, to |-> to] IN
                 n \in Notices /\ (mails[n] >= 1 => Queued(Warnings[i], p) > 0)
<1> DEFINE own == [kind |-> Warnings[i], package |-> p, to |-> "own"]
           erased == [kind |-> Warnings[i], package |-> p, to |-> "erased"]
<1>1. own \in Notices /\ erased \in Notices
  BY NoticeFacts DEF Addresses
<1>2. Queued(Warnings[i], p) = mails[own] + mails[erased]
  BY DEF Queued
<1>3. \A to \in Addresses :
         LET n == [kind |-> Warnings[i], package |-> p, to |-> to] IN
         n \in Notices /\ (n = own \/ n = erased)
  BY <1>1 DEF Addresses
<1> HIDE DEF own, erased
<1>4. mails[own] \in Nat /\ mails[erased] \in Nat
  BY <1>1
<1>5. \A n \in {own, erased} : mails[n] >= 1 => Queued(Warnings[i], p) > 0
  BY <1>2, <1>4
<1>6. QED
  BY <1>2, <1>3, <1>4, <1>5

(* What is settled stays so.                                               *)
LEMMA LeftStays ==
    ASSUME TypeOK, [Next]_vars, NEW p \in Packages, arrived[p] # None, LeftUncharged(p)
    PROVE  LeftUncharged(p)'
<1>1. /\ p \notin stored /\ charged[p] = {}
      /\ \A r \in Runners : job[r].step \in Feeing => p \notin job[r].rest
  BY DEF LeftUncharged
<1>2. ASSUME UNCHANGED <<job, charged>>, p \notin stored' PROVE LeftUncharged(p)'
  BY <1>1, <1>2 DEF LeftUncharged
<1>3. ASSUME NEW r \in Runners, FeeStep(r) \/ WarnStep(r) PROVE LeftUncharged(p)'
  <2> DEFINE m == job'[r]
  <2>1. /\ Moved(r) /\ UNCHANGED stored
        /\ m.step \in Feeing =>
              StartFees(r) \/ (job[r].step \in Feeing /\ m.rest \in SUBSET job[r].rest)
    BY <1>3, RunFacts DEF Feeing, Noticing
  <2>2. m.step \in Feeing => p \notin m.rest
    BY <1>1, <2>1, StartFeesFacts
  <2>3. \A q \in Runners : job'[q].step \in Feeing => p \notin job'[q].rest
    BY <1>1, <2>1, <2>2 DEF Moved
  <2>4. charged'[p] = charged[p]
    <3>1. ASSUME NEW q \in Packages, Charge(r, q) PROVE charged'[p] = charged[p]
      <4>1. q # p
        BY <1>1, <3>1, ChargeFacts DEF Feeing
      <4>2. QED
        BY <3>1, <4>1 DEF Charge, TypeOK
    <3>2. UNCHANGED charged \/ \E q \in Packages : Charge(r, q)
      BY <1>3 DEF FeeStep, WarnStep, StartFees, FeeAddress, FeeEnqueue, FeesEnd,
         QueryWindow, QueryFails, Check, Enqueue, Record, WindowEnd, Die, WarnAddress,
         database
    <3>3. QED
      BY <3>1, <3>2
  <2>5. QED
    BY <1>1, <2>1, <2>3, <2>4 DEF LeftUncharged
<1>4. QED
  BY <1>1, <1>2, <1>3 DEF Next, vars, Arrive, Ship, Erase, NextDay, database

LEMMA SettledStays ==
    ASSUME TypeOK, [Next]_vars, NEW p \in Packages, arrived[p] # None,
           NEW w \in Windows, Settled(p, w)
    PROVE  Settled(p, w)'
<1>1. w[1] \in 1 .. 3
  BY WindowFacts
<1>2. CASE LeftUncharged(p)
  BY <1>2, LeftStays DEF Settled
<1>3. CASE Queued(Warnings[w[1]], p) > 0
  <2> DEFINE own == [kind |-> Warnings[w[1]], package |-> p, to |-> "own"]
             erased == [kind |-> Warnings[w[1]], package |-> p, to |-> "erased"]
  <2>1. own \in Notices /\ erased \in Notices
    BY <1>1, NoticeFacts DEF Addresses
  <2>2. /\ Queued(Warnings[w[1]], p) = mails[own] + mails[erased]
        /\ Queued(Warnings[w[1]], p)' = mails'[own] + mails'[erased]
    BY DEF Queued
  <2> HIDE DEF own, erased
  <2>3. /\ mails[own] \in Nat /\ mails[erased] \in Nat
        /\ mails'[own] \in Nat /\ mails'[erased] \in Nat
        /\ mails'[own] >= mails[own] /\ mails'[erased] >= mails[erased]
    BY <2>1, MailsGrow
  <2>4. Queued(Warnings[w[1]], p)' > 0
    BY <1>3, <2>2, <2>3
  <2>5. QED
    BY <2>4 DEF Settled
<1>4. QED
  BY <1>2, <1>3 DEF Settled

(* A package that arrives has all its free days before it: it is not due   *)
(* for a warning of today or earlier.                                      *)
LEMMA DueBefore ==
    ASSUME TypeOK, [Next]_vars, NEW p \in Packages, NEW w \in Windows,
           NEW d \in Nat, d <= day, DueWarning(p, w, d)'
    PROVE  DueWarning(p, w, d)
<1>1. CASE arrived'[p] = arrived[p]
  BY <1>1 DEF DueWarning, Expiry
<1>2. CASE arrived'[p] # arrived[p]
  <2>1. Arrive(p)
    BY <1>2, RunFacts DEF Next, vars, Arrive, Ship, Erase, NextDay, database, TypeOK
  <2>2. arrived'[p] = day /\ day \in Nat
    BY <2>1, Constants DEF Arrive, TypeOK
  <2>3. Expiry(p)' = day + FreeDays
    BY <2>2 DEF Expiry
  <2>4. w[2] \in Nat /\ w[2] < FreeDays /\ FreeDays \in Nat
    BY WindowFacts, Constants
  <2>5. Expiry(p)' - d <= w[2]
    BY DEF DueWarning
  <2>6. QED
    BY <2>2, <2>3, <2>4, <2>5
<1>3. QED
  BY <1>1, <1>2

LEMMA DueNow ==
    ASSUME TypeOK, [Next]_vars, NEW p \in Packages, NEW w \in Windows, NEW r \in Runners,
           job'[r].today \in Nat, job'[r].today <= day, DueWarning(p, w, job[r].today)'
    PROVE  DueWarning(p, w, job'[r].today)
<1>1. PICK d \in Nat : d = job'[r].today
  OBVIOUS
<1>2. DueWarning(p, w, d)'
  BY <1>1 DEF DueWarning
<1>3. DueWarning(p, w, d) /\ d <= day
  BY <1>1, <1>2, DueBefore
<1>4. QED
  BY <1>1, <1>3

(* A window that a run deals with in this step is settled now.             *)
LEMMA WindowSettled ==
    ASSUME TypeOK, RecordedWasQueued, Dates, OneRun, WarnedInTime,
           slips = 0, slips' = 0, NEW r \in Runners, FeeStep(r) \/ WarnStep(r),
           NEW p \in Packages, NEW w \in Windows, Past(r, p, w)',
           DueWarning(p, w, job'[r].today)
    PROVE  Settled(p, w)
<1> DEFINE l == job[r]
           m == job'[r]
<1>1. /\ Moved(r) /\ m.step \in Noticing
      /\ w[1] < m.i \/ (w[1] = m.i /\ m.step # "query" /\ p \notin m.rest)
  BY RunFacts DEF Past
<1>2. w[1] \in 1 .. 2
  BY WindowFacts
<1>3. ASSUME m.today = l.today, Past(r, p, w) PROVE Settled(p, w)
  BY <1>3 DEF WarnedInTime
<1>4. ASSUME job[r].step \in {"check", "record"}, m.today = l.today, m.i = l.i,
             m.step = "window", m.rest = l.rest \ {l.package}, mails[Warning(r)] >= 1
      PROVE  Settled(p, w)
  <2>1. CASE w[1] < l.i \/ p \notin l.rest
    BY <1>1, <1>3, <1>4, <2>1 DEF Past, Noticing
  <2>2. CASE w[1] = l.i /\ p = l.package
    <3>1. /\ Warning(r) = [kind |-> Warnings[w[1]], package |-> p, to |-> l.to]
          /\ l.to \in Addresses
      BY <1>4, <2>2, WarningFacts
    <3>2. w[1] \in 1 .. 3 /\ mails \in [Notices -> Nat]
      BY <1>2 DEF TypeOK
    <3>3. Queued(Warnings[w[1]], p) > 0
      BY <1>4, <3>1, <3>2, QueuedFacts
    <3>4. QED
      BY <3>3 DEF Settled
  <2>3. QED
    BY <1>1, <1>4, <2>1, <2>2
<1>5. CASE FeeStep(r)
  <2>1. FeesEnd(r)
    BY <1>1, <1>5, RunFacts DEF Feeing, Noticing
  <2>2. QED
    BY <1>1, <1>2, <2>1, FeesEndFacts
<1>6. CASE QueryWindow(r)
  <2>1. /\ l.step = "query" /\ l.i \in 1 .. 3 /\ m.step = "window"
        /\ m.today = l.today /\ m.i = l.i
        /\ m.rest = {q \in stored : InWindow(l.i, q, l.today)}
    BY <1>6, QueryWindowFacts
  <2>2. CASE w[1] < l.i
    BY <1>3, <2>1, <2>2 DEF Past, Noticing
  <2>3. CASE w[1] = l.i
    <3>1. p \notin m.rest
      BY <1>1, <2>1, <2>3
    <3>2. /\ l.today \in Nat /\ arrived[p] # None /\ Expiry(p) - l.today \in 1 .. w[2]
          /\ l # Idle
      BY <2>1, LocalFields, Constants DEF DueWarning, TypeOK, Noticing
    <3>3. Expiry(p) \in Int /\ w[2] \in Nat
      <4>1. arrived[p] \in Nat
        BY <3>2, Constants DEF TypeOK
      <4>2. QED
        BY <4>1, Constants, WindowFacts DEF Expiry
    <3>4. Within(p, l.today, w[2])
      <4>1. \A e \in Int, t \in Nat, k \in Nat : e - t \in 1 .. k => e > t /\ e <= t + k
        OBVIOUS
      <4> HIDE DEF l
      <4>2. QED
        BY <3>2, <3>3, <4>1 DEF Within
    <3>5. InWindow(l.i, p, l.today)
      <4>1. CASE w[1] = 1
        BY <2>3, <3>4, <4>1, WindowFacts DEF InWindow
      <4>2. CASE w[1] = 2
        BY <2>3, <3>4, <4>2, WindowFacts DEF InWindow
      <4>3. QED
        BY <1>2, <4>1, <4>2
    <3>6. p \notin stored
      BY <2>1, <3>1, <3>5
    <3>7. charged[p] = {}
      <4> SUFFICES ASSUME NEW d \in charged[p] PROVE FALSE
        OBVIOUS
      <4>1. d \in Nat
        BY Constants DEF TypeOK
      <4>2. Expiry(p) <= d /\ d <= l.today
        BY <2>1 DEF Dates, OneRun, Noticing
      <4>3. QED
        BY <3>2, <3>3, <4>1, <4>2
    <3>8. \A q \in Runners : job[q].step \notin Feeing
      <4> SUFFICES ASSUME NEW q \in Runners, job[q].step \in Feeing PROVE FALSE
        OBVIOUS
      <4>1. q \in Running /\ r \in Running
        BY <3>2 DEF Running, Feeing, Idle
      <4>2. q = r
        BY <4>1 DEF OneRun
      <4>3. QED
        BY <2>1, <4>2 DEF Feeing
    <3>9. QED
      BY <3>6, <3>7, <3>8 DEF Settled, LeftUncharged
  <2>4. QED
    BY <1>1, <2>1, <2>2, <2>3
<1>7. CASE QueryFails(r) \/ Die(r)
  BY <1>7, StopFacts
<1>8. ASSUME NEW q \in Packages, WarnAddress(r, q) PROVE Settled(p, w)
  <2>1. /\ l.step = "window" /\ m.step = "check"
        /\ m.today = l.today /\ m.i = l.i /\ m.rest = l.rest
    BY <1>8, WarnAddressFacts
  <2>2. QED
    BY <1>1, <1>3, <2>1 DEF Past, Noticing
<1>9. CASE Check(r)
  <2>1. /\ l.step = "check" /\ m.today = l.today /\ m.i = l.i
        /\ \/ /\ m.step = "window" /\ m.rest = l.rest \ {l.package}
              /\ Warning(r) \in sent
           \/ m.step = "enqueue" /\ m.rest = l.rest
    BY <1>9, CheckFacts
  <2>2. CASE m.step = "window"
    BY <1>4, <2>1, <2>2 DEF RecordedWasQueued
  <2>3. CASE m.step = "enqueue"
    BY <1>1, <1>3, <2>1, <2>3 DEF Past, Noticing
  <2>4. QED
    BY <2>1, <2>2, <2>3
<1>10. CASE Enqueue(r)
  <2>1. /\ l.step = "enqueue" /\ m.today = l.today /\ m.i = l.i
        /\ m.step = "record" /\ m.rest = l.rest
    BY <1>10, EnqueueFacts
  <2>2. QED
    BY <1>1, <1>3, <2>1 DEF Past, Noticing
<1>11. CASE Record(r)
  BY <1>4, <1>11, RecordFacts DEF RecordedWasQueued
<1>12. CASE WindowEnd(r)
  <2>1. /\ l.step = "window" /\ l.rest = {} /\ l.i \in 1 .. 3
        /\ m.step = "query" /\ m.today = l.today /\ m.i = l.i + 1
    BY <1>1, <1>12, WindowEndFacts DEF Noticing
  <2>2. w[1] < l.i \/ w[1] = l.i
    BY <1>1, <1>2, <2>1
  <2>3. QED
    BY <1>3, <2>1, <2>2 DEF Past, Noticing
<1>13. QED
  BY <1>5, <1>6, <1>7, <1>8, <1>9, <1>10, <1>11, <1>12 DEF WarnStep

LEMMA WarnedStep ==
    /\ TypeOK /\ RecordedWasQueued /\ Dates /\ OneRun /\ WarnedInTime /\ [Next]_vars
    => WarnedInTime'
<1> SUFFICES ASSUME TypeOK, RecordedWasQueued, Dates, OneRun, WarnedInTime, [Next]_vars,
                    slips' = 0, NEW p \in Packages, NEW w \in Windows
             PROVE  /\ \A d \in notified' : DueWarning(p, w, d)' => Settled(p, w)'
                    /\ \A r \in Runners : /\ Past(r, p, w)'
                                          /\ DueWarning(p, w, job[r].today)'
                                          => Settled(p, w)'
  BY DEF WarnedInTime
<1>1. slips = 0
  <2>1. slips \in Nat
    BY DEF TypeOK
  <2>2. \A r \in Runners : FeeStep(r) \/ WarnStep(r) => slips' = slips \/ slips' = slips + 1
    BY RunFacts
  <2>3. slips' = slips \/ slips' = slips + 1
    BY <2>2 DEF Next, vars, Arrive, Ship, Erase, NextDay
  <2>4. QED
    BY <2>1, <2>3
<1>2. /\ \A d \in notified : d \in Nat /\ d <= day
      /\ \A r \in Runners : job[r].step # "idle" => job[r].today \in Nat /\ job[r].today <= day
  BY Constants, LocalFields DEF Dates, TypeOK
<1>3. /\ \A d \in notified : DueWarning(p, w, d) => Settled(p, w)
      /\ \A r \in Runners : Past(r, p, w) /\ DueWarning(p, w, job[r].today)
                               => Settled(p, w)
  BY <1>1 DEF WarnedInTime
<1>4. ASSUME NEW d \in Nat, DueWarning(p, w, d), Settled(p, w) PROVE Settled(p, w)'
  BY <1>4, SettledStays DEF DueWarning
<1>5. ASSUME NEW d \in notified', DueWarning(p, w, d)' PROVE Settled(p, w)'
  <2>1. CASE d \in notified
    BY <1>2, <1>3, <1>4, <1>5, <2>1, DueBefore
  <2>2. CASE d \notin notified
    <3>1. PICK r \in Runners : WindowEnd(r)
      BY <1>5, <2>2 DEF Next, vars, FeeStep, WarnStep, StartFees, Charge, FeeAddress,
         FeeEnqueue, FeesEnd, QueryWindow, QueryFails, Check, Enqueue, Record, Die,
         WarnAddress, database, Arrive, Ship, Erase, NextDay
    <3>2. job[r].step = "window" /\ job[r].i = 3 /\ d = job[r].today
      BY <1>5, <2>2, <3>1, WindowEndFacts
    <3>3. w[1] < 3
      BY WindowFacts
    <3>4. Past(r, p, w)
      BY <3>2, <3>3 DEF Past, Noticing
    <3>5. d \in Nat /\ d <= day
      BY <1>2, <3>2
    <3>6. DueWarning(p, w, d)
      BY <1>5, <3>5, DueBefore
    <3>7. QED
      BY <1>3, <1>4, <3>2, <3>4, <3>5, <3>6
  <2>3. QED
    BY <2>1, <2>2
<1>6. ASSUME NEW r \in Runners, Past(r, p, w)', DueWarning(p, w, job[r].today)'
      PROVE  Settled(p, w)'
  <2>1. ASSUME job'[r] = job[r] PROVE Settled(p, w)'
    <3>1. Past(r, p, w)
      BY <1>6, <2>1 DEF Past
    <3>2. job[r].today \in Nat /\ job[r].today <= day
      BY <1>2, <3>1 DEF Past, Noticing
    <3>3. DueWarning(p, w, job[r].today)
      BY <1>6, <2>1, <3>2, DueNow
    <3>4. QED
      BY <1>3, <1>4, <3>1, <3>2, <3>3
  <2>2. ASSUME FeeStep(r) \/ WarnStep(r) PROVE Settled(p, w)'
    <3>1. job'[r].today \in Nat /\ job'[r].today <= day
      <4>1. \/ job'[r].today = day
            \/ (job[r].step # "idle" /\ job'[r].today = job[r].today)
        BY <1>6, <2>2, RunFacts DEF Past, Noticing, Feeing
      <4>2. day \in Nat
        BY Constants DEF TypeOK
      <4>3. QED
        BY <1>2, <4>1, <4>2
    <3>2. DueWarning(p, w, job'[r].today)
      BY <1>6, <3>1, DueNow
    <3>3. Settled(p, w)
      BY <1>1, <1>6, <2>2, <3>2, WindowSettled
    <3>4. QED
      BY <1>4, <3>1, <3>2, <3>3
  <2>3. ASSUME NEW q \in Runners, FeeStep(q) \/ WarnStep(q) PROVE Settled(p, w)'
    BY <2>1, <2>2, <2>3, RunFacts DEF Moved
  <2>4. QED
    BY <2>1, <2>3 DEF Next, vars, Arrive, Ship, Erase, NextDay, database
<1>7. QED
  BY <1>5, <1>6

-----------------------------------------------------------------------------
LEMMA Initial == Init => IInv
<1> SUFFICES ASSUME Init PROVE IInv
  OBVIOUS
<1>1. /\ day = 0 /\ arrived = [p \in Packages |-> None] /\ stored = {}
      /\ charged = [p \in Packages |-> {}] /\ mails = [n \in Notices |-> 0]
      /\ sent = {} /\ job = [r \in Runners |-> Idle] /\ slips = 0 /\ notified = {}
  BY DEF Init
<1>2. \A r \in Runners : job[r] = Idle /\ job[r].step = "idle"
  BY <1>1 DEF Idle
<1>3. TypeOK
  <2>1. 0 \in Days /\ 0 \in 0 .. MaxSlips
    BY Constants DEF Days
  <2>2. Idle \in Local
    BY DEF Local
  <2>3. QED
    BY <1>1, <1>2, <2>1, <2>2 DEF Init, TypeOK, Addresses, Serving
<1>4. Cardinality({}) = 0
  BY FS_EmptySet
<1>5. FeesCounted
  <2> SUFFICES ASSUME NEW p \in Packages
               PROVE  Queued(FeeNotice, p) + Cardinality(Announcing(p))
                         <= Cardinality(charged[p])
    BY DEF FeesCounted
  <2>1. Announcing(p) = {} /\ charged[p] = {}
    BY <1>1, <1>2 DEF Announcing
  <2>2. Queued(FeeNotice, p) = 0
    <3>1. /\ [kind |-> FeeNotice, package |-> p, to |-> "own"] \in Notices
          /\ [kind |-> FeeNotice, package |-> p, to |-> "erased"] \in Notices
      BY NoticeFacts DEF Addresses
    <3>2. QED
      BY <1>1, <3>1 DEF Queued
  <2>3. QED
    BY <1>4, <2>1, <2>2
<1>6. WarningsCounted
  <2> SUFFICES ASSUME NEW n \in Notices PROVE Counted(n)
    BY DEF WarningsCounted
  <2>1. Running = {} /\ MayQueue(n) = {}
    BY <1>2 DEF Running, MayQueue
  <2>2. mails[n] = 0 /\ n \notin sent
    BY <1>1
  <2>3. QED
    BY <1>1, <1>4, <2>1, <2>2 DEF Counted
<1>7. RecordedWasQueued
  BY <1>1, <1>2 DEF RecordedWasQueued
<1>8. Dates
  BY <1>1, <1>2 DEF Dates, Feeing
<1>9. OneRun
  BY <1>1, <1>2 DEF OneRun, Running, Noticing
<1>10. WarnedInTime
  BY <1>1, <1>2 DEF WarnedInTime, Past, Noticing
<1>11. QED
  BY <1>3, <1>5, <1>6, <1>7, <1>8, <1>9, <1>10 DEF IInv

LEMMA Inductive == IInv /\ [Next]_vars => IInv'
BY TypeStep, FeesStep, WarningsStep, RecordedStep, DatesStep, OneRunStep, WarnedStep
   DEF IInv

LEMMA Invariant == Spec => []IInv
BY Initial, Inductive, PTL DEF Spec

(* Type correctness: the tables of the jobs and what each run is doing.    *)
THEOREM StorageTypeCorrect == Spec => []TypeOK
<1>1. IInv => TypeOK
  BY DEF IInv
<1>2. QED
  BY <1>1, Invariant, PTL

(* RunStorageFeeJob never announces a fee twice, with any number of runs   *)
(* interleaved: the insert is what decides who announces it.               *)
THEOREM OneNoticePerFeeCorrect == Spec => []OneNoticePerFee
<1>1. IInv => OneNoticePerFee
  <2> SUFFICES ASSUME IInv, NEW p \in Packages
               PROVE  Queued(FeeNotice, p) <= Cardinality(charged[p])
    BY DEF OneNoticePerFee
  <2>1. Queued(FeeNotice, p) + Cardinality(Announcing(p)) <= Cardinality(charged[p])
    BY DEF IInv, FeesCounted
  <2>2. Cardinality(Announcing(p)) \in Nat
    <3>1. Announcing(p) \in SUBSET Runners
      BY DEF Announcing
    <3>2. IsFiniteSet(Announcing(p))
      BY <3>1, Constants, FS_Subset
    <3>3. QED
      BY <3>2, FS_CardinalityType
  <2>3. Queued(FeeNotice, p) \in Nat /\ Cardinality(charged[p]) \in Nat
    <3>1. /\ [kind |-> FeeNotice, package |-> p, to |-> "own"] \in Notices
          /\ [kind |-> FeeNotice, package |-> p, to |-> "erased"] \in Notices
      BY NoticeFacts DEF Addresses
    <3>2. Queued(FeeNotice, p) \in Nat
      BY <3>1 DEF Queued, IInv, TypeOK
    <3>3. 0 \in Days
      BY Constants DEF Days
    <3>4. QED
      BY <3>2, <3>3, FeesOnFile DEF IInv
  <2>4. QED
    BY <2>1, <2>2, <2>3
<1>2. QED
  BY <1>1, Invariant, PTL

(* notifyExpiryWindow looks up, queues and records in three statements;    *)
(* with any number of runs interleaved, each warning beyond the first      *)
(* answers to a death, a lost statement or an overlapping run of its own.  *)
THEOREM WarnedOncePerSlipCorrect == Spec => []WarnedOncePerSlip
<1>1. IInv => WarnedOncePerSlip
  <2> SUFFICES ASSUME IInv, NEW n \in Notices, n.kind # FeeNotice
               PROVE  mails[n] <= 1 + slips
    BY DEF WarnedOncePerSlip
  <2>1. Counted(n)
    BY DEF IInv, WarningsCounted
  <2>2. Cardinality(MayQueue(n)) \in Nat /\ Cardinality(WillQueue(n)) \in Nat
    <3>1. MayQueue(n) \in SUBSET Runners /\ WillQueue(n) \in SUBSET Runners
      BY DEF MayQueue, WillQueue, Running
    <3>2. IsFiniteSet(MayQueue(n)) /\ IsFiniteSet(WillQueue(n))
      BY <3>1, Constants, FS_Subset
    <3>3. QED
      BY <3>2, FS_CardinalityType
  <2>3. mails[n] \in Nat /\ slips \in Nat
    BY DEF IInv, TypeOK
  <2>4. (IF Running = {} THEN 0 ELSE 1) \in {0, 1}
    OBVIOUS
  <2>5. QED
    BY <2>1, <2>2, <2>3, <2>4 DEF Counted
<1>2. QED
  BY <1>1, Invariant, PTL

(* As long as nothing fails, whoever is charged storage was sent the       *)
(* warning of every window on some day of which RunExpiryNotifierJob ran.  *)
THEOREM WarnedBeforeChargedCorrect == Spec => []WarnedBeforeCharged
<1>1. IInv => WarnedBeforeCharged
  <2> SUFFICES ASSUME IInv, slips = 0, NEW p \in Packages, NEW w \in Windows,
                      charged[p] # {}, NEW d \in notified, Expiry(p) - d \in 1 .. w[2]
               PROVE  Queued(Warnings[w[1]], p) > 0
    BY DEF WarnedBeforeCharged, Windows
  <2>1. arrived[p] # None
    BY DEF IInv, Dates
  <2>2. Settled(p, w)
    BY <2>1 DEF IInv, WarnedInTime, DueWarning
  <2>3. QED
    BY <2>2 DEF Settled, LeftUncharged
<1>2. QED
  BY <1>1, Invariant, PTL
==================================================================================
