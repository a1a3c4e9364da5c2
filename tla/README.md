# QCS Cargo: a TLA+ development

QCS Cargo is a freight-forwarding service: one Go process (Fiber handlers,
background goroutines), one SQLite database, Stripe for payments, Resend for
email. Customers have packages sent to a locker in the warehouse, bundle them
into *ship requests*, pay, and the warehouse weighs, stages and ships them.

This directory models the parts where concurrency, failure and ordering decide
whether the system is right. TLC checks the models on small instances, TLAPS
proves the central properties for every value of the constants.

## 1. Inventory

| Component | State it keeps | Operations | Talks to |
|---|---|---|---|
| Ship request payment (`api/ship_requests*.go`, `api/stripe_webhook.go`) | row of `ship_requests`: status, payment_status, total, intent, updated_at, paid_email_sent_at | customs, pay, webhook, admin reconcile, admin status | Stripe (calls out, is called back), outbound queue (same transaction) |
| Creation and ship queue (`api/ship_requests.go`, `api/warehouse.go`) | items, locker package status, manifests, weight, bay | create, process, weigh, stage, create manifest | shares the `ship_requests` row with payment |
| Outbound email queue (`jobs/outbound_email.go`, `services/outbound_email.go`) | `outbound_emails` | enqueue, reap, claim, take, send, record | provider (Resend); filled by payment, jobs, MFA |
| Receiving, service queue, bays, exceptions (`api/warehouse.go`) | `locker_packages`, `bookings`, `unmatched_packages` | receive, receive from booking, move, resolve | email sent inline |
| Bookings (`api/bookings*.go`) | `bookings` | create, update, delete, admin status | receiving |
| Storage fee, expiry warnings (`jobs/`) | `storage_fees`, `sent_notifications` | daily runs | outbound queue |
| Sessions and passwords (`services/auth.go`) | `sessions`, `magic_links`, `password_resets`, `email_verifications`, token blacklist | register, verify, magic link, refresh, logout, reset, change, deactivate | outbound queue |
| Throttles (`services/auth_throttle.go`, `middleware/rate_limit.go`) | `auth_request_log`; in-memory maps | check-and-record, lockout | auth handlers |
| Idempotency cache (`middleware/idempotency.go`) | in-memory map, 4096 keys, 1 h | look up, run, store, evict | warehouse handlers, service worker |
| MFA, API keys, IP rules, flags (`api/security_compliance.go`, `middleware/ip_filter.go`) | their tables | challenge, verify, create, rotate, revoke | outbound queue |
| GDPR erasure (`services/anonymize.go`) | nearly every table | anonymize | sessions, queue, every call under way |
| Customer records (`api/parcel_features*.go`, `recipients.go`, `templates.go`, `locker.go`, `inbound_tracking.go`, `notifications.go`, `me.go`) | a table each, rows owned by one customer | create, read and write back, delete, import | notifications table; the erasure |
| Response cache (`services/cache.go`) | an LRU map, Redis in front of it | get, set, evict, delete | public listings, admin updates |
| Migrations (`db/migrate.go`) | `schema_migrations` and the schema | up, down | everything, before it starts |
| Observability | bounded channel | record, drop | every request |
| Blog, moderation, reports, invoices | one table each | single statements | - |

What is hard about it:

* **Concurrency.** Handlers run in parallel and most read a row in one
  statement and write it in another. SQLite serialises statements and
  transactions, nothing more; updates are by id unless they say otherwise.
* **Delivery.** Stripe delivers events at least once, late, in any order; a
  browser repeats a call whose answer it lost.
* **Crashes.** A handler or a job pass may stop between any two statements.
* **Old pages.** Clerks act on lists loaded some time ago.
* **Time.** `updated_at` has a granularity of a second and is part of an
  idempotency key; the email reaper works with due times.

What makes each part right is stated as properties in section 4; all known
hazards, with their lines, are in `PROJECT.json`.

## 2. Modules

| Module | Models |
|---|---|
| `ShipRequestTable` | the `ship_requests` table: a row, the CHECK constraints, one operator from old row to new row per SQL statement |
| `ShipRequestPayment` | customs, pay, webhook, reconcile, status override as interleaved steps; Stripe's intents and events |
| `ShipRequestPaymentPromise` | abstract specification: charge, confirm once with the email, declare |
| `ShipRequestFulfilment` | create, ship queue with stale pages, process, weigh, stage, manifest |
| `ShipRequestLifecycle` | the two above over one table |
| `OutboxPromise` | abstract specification of the queue: queued, accepted, settled for good |
| `OutboundEmail` | the table, the passes of the workers, deaths, lost statements, time |
| `IdempotencyCache` | the middleware's map: look up, run, store, evict, expire, restart |
| `BookingIntake` | bookings, receiving and bay moves, behind the middleware where the routes put it |
| `AccountAccess` | registration, mailed links, sessions, passwords, deactivation, erasure, admins' changes to accounts |
| `StorageJobs` | storage fees, expiry warnings, the two daily jobs over several days |
| `AuthThrottle` | one bucket of the auth throttle: window, pruning, volume cap |
| `AccountSecurity` | mailed codes and API keys of one customer, erasure; on top of the throttle |
| `MemoryCache` | the bounded map and its recency list |
| `RecencyPromise` | abstract specification of a cache that evicts in the order of last use |
| `DestinationCache` | the list of destinations behind Redis and `MemoryCache`, and the admin's update of a row |
| `Migrations` | migration runs up and down over five kinds of file, the ledger, tables rebuilt by their copies |
| `CustomerRecords` | every table of one customer: the calls that write them, the erasure, an admin's reactivation |
| `ShipRequestLifecycleProofs` (payment and the composition), `ServicesProofs` (the email queue and the destination cache), `BookingIntakeProofs` (with the idempotency map), `AccountAccessProofs`, `StorageJobsProofs`, `AccountSecurityProofs` (with the throttle), `MigrationsProofs`, `CustomerRecordsProofs` | theorems and their proofs |
| `MC*` | model values, sets and symmetries for TLC |

`ShipRequestTable` <- `ShipRequestPayment`, `ShipRequestFulfilment` <-
`ShipRequestLifecycle`, `IdempotencyCache` <- `BookingIntake`, `AuthThrottle` <-
`AccountSecurity`, `MemoryCache` <- `DestinationCache` (EXTENDS); the
promises are instantiated with refinement
mappings (`Promise == INSTANCE ...`) in the detailed modules.

### Payment

A handler that reads before it writes is several actions; `handlers[h]` is what
it has read. One transaction is one action, because SQLite isolates it.

| Code | Actions |
|---|---|
| `shipRequestSubmitCustoms` | `CustomsRead` (status guard), `CustomsCommit` (the transaction, which no longer looks at the status) |
| `shipRequestPay` | `PayRead`; with an intent on file `PayReuse` or `PayFallThrough`; then `PayCreate` or, when Stripe knows the key, `PayReplay`; then `PaySave` |
| `reconcileShipRequestByPaymentIntent` | `WebhookUnknown`, `WebhookMismatch`, or `WebhookRead` and `WebhookCommit` |
| `shipRequestReconcile` | `Reconcile` |
| `adminShipRequestUpdateStatus` | `AdminSetStatus` |
| any error return after the first step, or a restart | `Abort` |
| Stripe and the customer (external) | `CustomerPays`, `IntentCanceled` |

`WebhookMismatch` is one action although the code reads and then updates: the
row can change in between, but the UPDATE only tries to store a value that the
CHECK constraint refuses, so nothing can be observed between the two. Statuses
that admins choose are `AdminTargets`; which ones a run allows is in its cfg.
`reconciled` is a history variable. `delivery` says what Stripe was last told
about the event of an intent. The activity log (`recordActivity`) is best effort
and left out. The stripe-go client, Stripe's idempotency layer included, is
modelled from how the handlers use it: the same key and amount get the same
answer, the same key with another amount an error.

### Fulfilment

`clerks[c]` is the row a clerk picked from the ship queue, as it was listed. The
handlers compare `expected_status` with the row. Calls refused with 400, 404 or
409 change nothing and are left out. `Create` and `CreateManifest` are single
transactions. The page `warehouse/scripts/ship-queue.js` at this commit sends no
`expected_status`, which the handlers require (`api/warehouse.go:420`, `488`,
`570`), so its buttons get 400; the model is of the handlers and of a page that
follows their contract.

### Outbound email

A worker is at one of the steps idle, claim, take, send, record; its batch holds
what the SELECT returned. Time is counted in units of five minutes, the reaper's
cutoff and the retry step; `due` is relative to now and saturates at `Overdue`,
below which no statement can tell values apart. `StatementLost` is an ignored
error (reap, mark in progress, record), `Die` a crash or a panic that `runJob`
recovers. A provider call may be accepted although it reports an error. The
reaper counts an attempt for every row it takes back (`outbound_emails.sql:42`),
so a pass that dies between taking a row and calling the provider costs the
email one of its calls. The history variable `tries` counts per email the calls
of the provider and those deaths.

### Bookings, receiving and the idempotency map

`POST /bookings` and everything under `/warehouse` pass `IdempotencyMiddleware`.
A call is a record of path, key and body; a client that lost an answer sends the
same call again. `cache` is the map in the order of `createdAt`. `Send` is the
look-up under the lock, the handler's actions run without it, `Respond` stores
the answer under the lock and sends it. A call that finds its answer changes
nothing and is left out.

| Code | Actions |
|---|---|
| `bookingCreate` | `Send`, `BookingCreate`, `Respond` |
| `bookingUpdate` (no middleware) | `BookingUpdateRead`, `BookingUpdateWrite`: one UPDATE of every column, from what was read and what the body gives |
| `bookingAdminUpdateStatus` (no middleware) | `AdminUpdateRead`, `AdminUpdateWrite` |
| `bookingDelete` | `BookingDelete` |
| `warehouseReceiveFromBooking` | `Send`, `ReceiveRead`, `ReceiveCommit` (the transaction), `Respond` |
| `warehouseLockerReceive`, `warehouseBaysMove` | `Send`, `LockerReceive` or `BaysMove`, `Respond` |
| 4xx and 5xx | `Refuse`, `Fail` |
| the hour is over; a restart | `TimePasses`, `Restart` |

A row has status, payment status, what is declared (measures, value, insurance)
and the declaration its price was computed from, instead of the price. The
email to the customer that receiving sends inline reads nothing of the model and
is left out. `foreign_keys` is switched on for one connection of the pool only
(`db/db.go:26`), so a booking may be deleted although packages refer to it, and
a receive may commit for a booking that is gone; the model allows both outcomes.
The map knows a call by its path and its key only (`idempotency.go:50`): another
user's call, or one with another body, with the same key on the same path gets
the first one's answer and is not done. The model has such calls; the only
assumption is that the map has room for an answer (`IdempotencyAssumption`). The
service worker makes a UUID per queued entry, so its own keys do not collide;
its replays have a problem of their own, listed as hazards.

`done`, `repeated`, `lapsed` and `byAdmin` are history variables. `lapsed` names
the four ways in which a call loses its protection: it overlapped with another
run of itself, its answer outlived the TTL, was evicted, or met a restart.

### Accounts and access

`users`, `links` (the tables of verification tokens, magic links and password
resets) and `sessions` are rows; an id that is deleted is `Gone` and never used
again. `bearers` are the users that hold an access token good for
`RequireAuth`, which `Admitted` models: the token, then the row's own status and
role. A token lives fifteen minutes and is a value of its own in the code; here
a user has one or has none, and a logout may leave another behind.

| Code | Actions |
|---|---|
| `authRegister`, `authResendVerification`, `authMagicLinkRequest` | `Register` or `AskLink`, then `IssueLink` |
| `authForgotPassword` and its goroutine | `AskReset`, `RevokeResets`, `IssueLink` |
| `VerifyEmail` | `VerifyRead`, `SetVerified`, `MarkVerifyUsed` |
| `VerifyMagicLink` | `LoginRead`, `LoginMark`, `LoginSign` |
| `RefreshSession`, `Logout` | `RefreshRead`, `RefreshFinish`; `Logout` |
| `sessionsRevokeOne`, `sessionsRevokeAll` | `RevokeOneRead`, `RevokeOneDrop`; `RevokeAll` |
| `ResetPassword`, `ChangePassword` | `ResetRead`, `ResetCommit`; `ChangeRead`, `ChangeCommit` |
| `accountDeactivate`, `AnonymizeUserData` | `Deactivate`, `Erase` (one transaction each) |
| `adminUserUpdate` | `AdminRead`, `AdminCount` when it demotes, `AdminWrite`, `AdminRevoke` when it bans |
| any refusal after the first step, a failing statement, a restart | `Fail` |

Throttles and lockouts stand in front and only refuse; the throttle is in
`AuthThrottle`. `acted` and `proven` are history variables. `Account` leaves
out the password hash: what a caller must know is a caller's matter.

### Storage fees and warnings

`runDailyJobs` runs both jobs at every start of the process and every 24 hours
after, so a day may see no run, one, or several, and with a start during a run
of another process they overlap. `job[r]` is where a runner is: which rows its
query returned, which one it is at, which address it looked up.

| Code | Actions |
|---|---|
| `RunStorageFeeJob` | `StartFees`, and per row `Charge` (INSERT OR IGNORE and its RowsAffected), `FeeAddress`, `FeeEnqueue`; `FeesEnd` |
| `RunExpiryNotifierJob` | `QueryWindow` for each of the three windows, and per row `WarnAddress`, `Check`, `Enqueue`, `Record`; `WindowEnd` |
| a failing statement, a dying process | `QueryFails`, the failing half of each step, `Die` |
| the dock, the customer, the calendar | `Arrive`, `Ship`, `Erase`, `NextDay` |

Days are numbers and `FreeDays`, `Warn5`, `Warn1`, `FinalAfter` are parameters.
A run takes minutes, so the day does not change under it. The fee notice is
sent only where `RESEND_API_KEY` is set, which is assumed. `slips` counts
deaths, lost statements and overlaps.

### Codes, keys and the throttle

`AuthThrottle` is the transaction of `CheckAndRecordAuthRequest` for one bucket:
prune, count, refuse or cut to the volume cap and record. Ages are counted in
units of the window. `AccountSecurity` has one customer's calls under `/security`,
behind RequireAuth, and the request to be erased, which goes through the throttle.

| Code | Actions |
|---|---|
| `securityMFASetup` | `Setup` |
| `securityMFAChallenge` | `ChallengeRead`, `ChallengeInsert` when there is no row, `ChallengeIssue` |
| `securityMFAVerify` | `VerifyRead`, then `VerifyWrong` or `VerifyRight` |
| `securityMFADisable` | `DisableRead`, `DisableWrite` |
| `securityAPIKeyCreate`, `Revoke` | `KeyCreate`, `KeyRevoke` |
| `securityAPIKeyRotate` | `RotateRead` (the transaction's first read fixes its snapshot), `RotateCommit` or, when another writer came between, `RotateFails` |
| `complianceGDPRCreateRequest` | `EraseAsk` through the throttle, `Erase`, `EraseFails` |

A rotated key and its successors are one chain. `wrong` counts, per code, the
wrong codes compared with it; `ended` the chains that were revoked.

### The cached list of destinations

`MemoryCache` has the map as a function (`items`) and the recency list (`lru`,
the front first). Time is counted in units of the 30 seconds for which the
tiered cache copies an entry back. Every call to Redis may fail, with or without
effect (`RedisMayBecome`), which is what its errors being dropped amounts to.

| Code | Actions |
|---|---|
| `listDestinations` | `MissPrimary`, `ReadFallback`, `CopyToPrimary` on a hit there; `Load`, `StorePrimary`, `StoreFallback` on a miss |
| `adminDestinationUpdate` | `AdminRead`, `AdminWrite` or `AdminWriteFails`, `DropPrimary`, `DropFallback` |
| other users of the map, a restart | `UseOther`, `Restart` |

A hit in Redis changes nothing and is left out. A request may see one unit of
time pass, not two: its calls time out within seconds. `late` has the
requests for which it has passed. `unseen` is how long ago
each listing was last what the table says.

### Migrations

A file after the initial schema (file 1) is of one of five kinds, and every kind
is in `sql/migrations`:

| Kind | Up | Down | For instance |
|---|---|---|---|
| tables | creates tables, IF NOT EXISTS | drops them, IF EXISTS | `20260301050000_observability_events.sql` |
| column | adds a column: once only | copies the table without it | `20260222100000_warehouse_phase4.sql` |
| kept | adds a column | leaves it there | `20260418120100` |
| dropped | drops a column | adds it again | `20260424120000` |
| rebuilt | copies the table | copies it back | `20260306120000`, `20260422120000` |

`Shared` files also create, and drop, a table that file 1 creates too:
`warehouse_bays` of `20260222100000_warehouse_phase4.sql:9`, `38` is in
`20260221120000` (line 357). `schema[f]` is how much of its own tables file f
has in the database, `tables` which of the tables that later files alter are
there, `changed` whose alteration is in place, `shared` whose shared table,
`copies` whose copy; `rows[t]` is which of a table and its copies hold its rows.

PRAGMA `foreign_keys` does nothing inside a transaction, and a file's up block is
one (`20260306120000:3`), so a rebuild in an up block fails at every start while
rows refer to its table: `referenced`, to which the program in use adds
(`Refer`). A down block runs without a transaction. Of file 1,
`migrationLooksAppliedBySchema` looks at `users` only, which its down block drops
last. Left out: indexes, the rows a rebuild drops as duplicates, and a rollback
of file 1 that fails because tables of unrecorded files refer to its own.

| Code | Actions |
|---|---|
| `Migrate` | `StartUp`, per file `Look`, `Apply` (one transaction) or `ApplyFails`, `Probe` after a failure, `Record` |
| `RollbackMigrations` | `StartDown`, per file `LookBack`, `Undo` per statement, `UndoFails`, `Forget` |
| a dying process | `Die` |

### Customer records

`rows[t]` are the rows of table t, for every table of `handledTables`
(`anonymize.go:45-84`). `text[t]` are those in which anything is left that the
erasure's statement on the table is there to take out: the columns it blanks,
the link to the user it cuts, the row it deletes. Columns that no statement
touches are left out of the model, and so stay in every row (section 3). A row
that a table keeps once per customer is named by the call that wrote it last.

| Code | Actions |
|---|---|
| `RequireAuth`, `VerifyMagicLink` | `Begin`: the account is looked at once (`Admitted`) |
| calls that add rows | `Check`, `AddRow`, `AddFails`, over the tables that `Adding` gives for each |
| `MeUpdate`, `recipientsUpdate`, `templateUpdate` | `UpdateRead`, then `UpdateWrite` or `UpdateMisses` |
| deletes | `DeleteRow` |
| `recipientsCreate` | `RecipientCreate` (one transaction) |
| `notificationsPutPrefs`, `ensureNotificationSeed` | `PrefsRead`, `PrefsWrite`; `SeedCount` |
| `parcelDeliverySignatureCapture` | `SignCheck`, then `AddRow` |
| `complianceRecipientRestore` | `Restore` |
| `adminUnmatchedPackageUpdate`, `warehouseExceptionResolve` | `Match` |
| `APIObservability` and its worker | the state `Answered`, then `Persist` or, dropped, `Die` |
| `AnonymizeUserData` | `Erase` (one transaction) |
| `accountDeactivate`, `adminUserUpdate` | `Deactivate`, `AdminUserUpdate` |

`AdminUserUpdate` may set the status of an erased account to active again
(`admin_users.go:91-118`), after which its calls are admitted; the suite code
does not come back. Calls of somebody not signed in, and clerks', do not look at
the account. `erasure` is a history variable: the calls that were under way at
the erasure (`pending`), those admitted after a reactivation (`back`), and which
call has written which table since (`wrote`).

## 3. Runs

| Run | Instance | Shows |
|---|---|---|
| `payment_one_request` | 1 request, 2 handlers, 2 intents, 2 totals, 2 seconds, Stripe outages, overrides to `shipped`, fair | types, confirmation email exactly once, paid has a cause, paid is sticky, one intent per version, refinement of the promise, charges get recorded |
| `lifecycle_one_request` | 1 request, 2 clerks, 2 weights, 2 manifests, 2 handlers | warehouse works on paid requests only, weight once, shipped rows are on their manifest |
| `lifecycle_two_requests` | 2 requests, 2 packages, 2 manifests, 2 intents, 2 seconds | packages leave with the manifest of their request, intents are not mixed up |
| `outbox_one_worker` | 3 emails (one of an unknown template), batch of 2, 2 attempts, 2 faults, fair | types, an email fails only after its calls and the deaths before a call make up the maximum, refinement of the promise, no email is stranded |
| `intake` | 2 bookings, 2 packages, 2 handlers, 5 calls: two bookings with one key and different bodies, a receive with that key on another path, a move, a call without a key; a map of 2 answers, 5 requests, 1 expiry or restart | types and the map's bound, staff decides, price matches declaration, repeats only after a lapse, a replayed success is of a call that succeeded |
| `access` | an admin and a newcomer, 2 links, 2 sessions, 2 handlers, 6 calls | links are spent, no access without a proven address, a user ends only own sessions |
| `storage` | 1 package, 2 runners, 3 free days, windows of 2 and 1 days, 5 days, 1 death, failure or overlap | at most one notice per fee, a repeated warning has a cause, no charge without a warning |
| `catalogue` | a map of 2 entries, 3 keys, 3 requests, a TTL of 2 units, a Redis that fails | no listing outlives the TTL and a copy, the map refines `RecencyPromise` |
| `migrations` | 5 files, one of each kind, 1 shared table, 2 altered tables, 2 of the files recognisable; 2 runners, 2 rollbacks, 1 overlap, 1 death or failure, fair | the ledger is true, rows survive, the migration converges or is obstructed by name |
| `security` | 2 calls at a time, 2 codes, 2 wrong guesses, 2 keys, 1 failing statement, 2 requests a window | the throttle's window, bounded guesses, keys end |
| `records` | 2 calls of any kind, the erasure among them, an admin's updates of the account, every table with one row | what is personal after the erasure, default recipient, frozen signature |

Two handlers suffice for the races of payment: each is between one reader and
one writer of the same row, and the sequential actions (reconcile, override,
Stripe) interleave with both. Two intents are the least for a second charge, two
totals for a changed price, two seconds for keys that differ and keys that
collide. `lifecycle_two_requests` has one handler, since
what two handlers might do to the intents of two requests is proved (section 5).
Two clerks are the least for a stale page. A batch smaller than the
queue makes ordering and leftovers happen; two faults let a row die twice and
use up two attempts. Symmetry is used where properties do not tell the values
apart, never where a liveness property is checked. Bounds: `MaxClock`, `MaxFaults`, and the
sizes of the sets. In `intake`, `MaxRequests` lets a call be repeated after others have filled the
map and evicted its answer, with a PATCH or an admin's update in between; one
loss separates the four lapses from each other. In `access` a newcomer needs
four calls (register, verify, ask for a link, log in), which leaves two for what
an admin or a second handler does meanwhile; two links are the least for that. In `storage` five days with
three free ones have days before, in and after every window and a fee on two
days; a second package would share nothing with the first, for every statement
is about one row (the order of rows matters only for which are left when a run
dies). In `catalogue` two entries and three keys make the list of destinations
be evicted; the time bound of the property is the least that holds with this
TTL. In `migrations` five files are the least with one of each kind, and two
altered tables the least for file 1 to leave one of them when its rollback
stops; three of the alterations are of one table, so that a copy is made of a table
that another file has changed. One slip suffices for each property's exceptions;
that they add up is proved, not checked. In `security` the limits are 2 instead of 5 and 3 so that
they are met; two calls are the least for a guess against a replaced code. In
`records` two calls are the least for a writer that overlaps with the erasure or
with another writer; a third would be a second writer that nothing tells from
the first. Deadlock is checked in every run but those of intake, access and
records, where clients may stop calling, or the bound on requests makes them (in
`records` each call is made once).

One run is expected to fail, with a claim of a document (quoted in
`PROJECT.json`, "findings"): `payment_refused_unflagged`. A refused charge is
said to show as `review_required`; the CHECK constraint refuses the value and
the error is dropped.

Behaviours of the models that a reader may not expect, without a run of their
own. Where a comment claims otherwise it is named.

* Payment: a second PaymentIntent can be opened and charged, because the
  idempotency key changes with every write to the row and a succeeded intent is
  not reusable before its webhook arrives (against
  `ship_requests_payment.go:28-30`, `71-74`). A customs submission that commits
  late puts a paid row back to `pending_payment`, and pay then accepts it (pay
  looks at `status` only). A total repriced between the webhook's check and its
  UPDATE is marked paid for another amount than was charged.
* Creation: a package of a cancelled request cannot be put into another. The
  handler looks only for requests that are still open (`ship_requests.go:329`),
  and then the UNIQUE key on `ship_request_items.locker_package_id` refuses the
  insert, which answers 500 (against `docs/api/openapi.yaml:360`, "already
  attached to an active ship request", and `findings_status.md:24`, which calls
  INC-007 of `AUDIT_REPORT.md:106` implemented).
* Dock: staged to staged passes the status guard, so a stale page overwrites a
  newer bay (against `warehouse.go:548-550`). A manifest takes a request in any
  status.
* Queue: a row overdue by five minutes is reaped by a second worker while the
  first sends it, so two workers are not safe (against
  `docs/adr/0005-single-replica-until.md:44-47`). The reaper adds attempts
  without looking at the budget, so passes that die before the call use up an
  email's attempts although the provider was hardly asked.
* Idempotency: a key that another user, or another body, has used on a path
  within the hour gets the first call's answer, and the call is not done.
* Bookings: a customer's PATCH writes `payment_status` back as it read it, over
  what an admin has set since (against `bookings.go:301-304`); one that read
  before the dock received the booking takes the status back too.
* Access: the last active admin can be demoted, since counting the others and
  demoting are two statements and deactivation does not count at all (against
  `admin_users.go:56-57`). Two overlapping verifications of one login link open
  two sessions; two overlapping reset requests leave two live links; a login
  under way while the account is deactivated or erased leaves a session; an
  admin's update that read an account before its erasure gives it its old status
  back.
* Storage: a run that dies after the fee is inserted leaves a fee without a
  notice for good. An erased customer's placeholder address is not empty, so the
  short-circuit for erased accounts (`storage_fee.go:82-89`) does not apply to
  them and notices are queued to it.
* Codes and keys: wrong codes sent to `/security/mfa/disable` are not counted;
  up to one guess per call under way goes beyond the limit.
* Cache: a database error puts the built-in list into the cache for the full
  TTL (`public.go:87`), where an admin's update replaces it only by dropping it.
* Migrations (against `docs/adr/0002-sqlite-first-migrations.md:10`, "Both up
  and down directions are supported.", and `findings_status.md:60`): a column
  that was committed but not recorded, and that `migrationLooksAppliedBySchema`
  does not know, stops every later run; so does one whose file was rolled back
  but left it there (`20260418120100`). The down block of
  `20260222100000_warehouse_phase4.sql` takes `warehouse_bays` from the initial
  schema, which stays recorded. A rebuild in an up block fails at every start
  while rows refer to its table. The down block of `20260424120000` adds a
  column and cannot be repeated once it did. A rollback begun again after one
  that was interrupted between DROP and RENAME drops the copy, the last place
  where the rows were.
* Records: a call admitted before the erasure writes rows after it; a late PATCH
  of the profile or of a recipient puts the personal columns back. The call that
  erases leaves an observability event with the customer's id afterwards, and
  asked for as a GDPR request a resource version too; it does not end the access
  token. The calls of somebody not signed in find the placeholder address of an
  erased account and leave tokens for it. An admin may set an erased account
  active again, and an update of the role alone writes the status back as it was
  read. The erasure does not touch `outbound_emails` and `sent_notifications`,
  the avatar on disk, a recipient's city, or a package's suite code. The export
  (not modelled) is no snapshot, and its "every user-scoped table"
  (`parcel_features_data.go:26-30`) leaves out sessions, communications,
  activity, IP rules, unmatched packages and weight discrepancies.

## 4. Properties

Payment: `PaidEmailExactlyOnce`, `PaidHasCause`, `IntentBelongsToRow`,
`OneIntentPerVersion`, `PaymentSticky`, `KeepsPromise`, `ChargeGetsRecorded`.
Fulfilment: `ShippedWithRequest`, `ShippedOnManifest`,
`WeightWriteOnce`, `FulfilledOnlyIfPaid`. Queue: `FailedIsExhausted`,
`KeepsPromise`, `EmailsSettle`. Intake: `StaffDecides`, `PricedAsDeclared`,
`RepeatedOnlyAfterLapse`, `ReplayOfSuccess`. Access: `SpentByEffect`,
`ProvenFirst`, `OwnSessionsOnly`. Storage: `OneNoticePerFee`, `WarnedOncePerSlip`,
`WarnedBeforeCharged`. Cache: `StaleBounded`, `EvictsTheOldest`. Migrations:
`LedgerIsTrue`, `RowsKept`, `Converges`. Security: `WindowHolds`,
`GuessesBounded`, `KeysEnd`. Records: `ErasedForGood`, `OneDefault`,
`SignatureFrozen`. Each is stated with its comment in its module.

Two depend on how admins use the status override, which may write any status:
`ShippedOnManifest` is checked without overrides to `shipped`,
`FulfilledOnlyIfPaid` without overrides to `processing` and `staged`.

`ChargeGetsRecorded` leaves out a charge whose event was acknowledged while
another intent, or none, was on file: the code answers 200 and Stripe does not
come back (`stripe_webhook.go:79`). That is a real gap, and the model shows it;
only an admin's reconcile closes it.

The newer ones say what a statement-by-statement reading of the code leaves
true, with the exceptions in the open: `WarnedOncePerSlip` counts deaths and
overlaps, `FailedIsExhausted` the deaths before a call, `ReplayOfSuccess` says
no more of a replay than that it is of a success on that path with that key.
`ErasedForGood` names the calls that were under way, those admitted after a
reactivation, and four tables (`Unscreened`) that are written without a look at
the account. `RowsKept` names the rollback begun anew or meeting another,
`Converges` each obstacle (`Obstructed`), `GuessesBounded` the guesses under way. The type invariants that no
run lists (`FulfilmentTypeOK`, `AccountAccess!TypeOK` and those of the newer
modules) are part of the inductive invariants of section 5 and proved there.

### Fairness

*Payment* (`Fairness`). Stripe redelivers an event until it gets a 2xx. So, as
long as the event of an intent is not acknowledged, a webhook read, and the
commit of a read webhook, that are possible again and again are strongly fair:
a delivery that is aborted or finds no free handler is followed by another. A
handler that has started is weakly fair to go on or stop. Customers, admins,
the clock and new calls are not fair.

*Queue* (`FairSpec`). A ticker starts a pass each minute and a pass is a loop
without waiting, so a worker's steps are weakly fair; time passes. Faults are
bounded, since a worker that always dies sends nothing.

*Migrations* (`Spec`). A run is a loop without waiting, so its steps are weakly
fair, and every deployment starts one, so a run that can be started is started
in the end. Rollbacks, deaths and overlaps are not fair and are bounded.

## 5. Proofs

Every theorem is for all values of the constants that meet the named `ASSUME`
of its module, and every safety property that a run checks and finds true is stated by one.
A proof module defines an inductive invariant (`IInv`, or one per component
where it holds the proofs of two), shows that `Init` gives it and that every action keeps it, and reads
the properties off it. The parts of each were checked by TLC on the run's
instance before they were proved. What is assumed of a constant is that sets of
processes are finite where something is counted over them, that markers such as
`None` are no rows and no numbers, that bounds are natural numbers, and that
limits are positive.

**Payment** (`ShipRequestLifecycleProofs`, first part; `TableAssumption`,
`PaymentAssumption`): `TypeCorrect`, `EmailOnceCorrect`, `PaidHasCauseCorrect`,
`IntentBelongsCorrect`, `OneIntentCorrect`, `PaymentStickyCorrect`,
`ImplementsPromise`.

    IInv == TypeOK /\ LocalsHold /\ KeysHold /\ IntentBelongsToRow
            /\ PaidEmailExactlyOnce /\ PaidHasCause

None of the last three is inductive alone. `LocalsHold` says what a handler may
still rely on when it acts: an intent about to be saved or looked up was opened
for the handler's request under the key of the version it read, and a webhook
about to commit is about a succeeded intent of its request. `KeysHold` says that
Stripe holds one intent per key. From there: a save stores an intent of that
request; two saves of one version carry one key and so one intent; a commit has
a charge behind it; the conditional UPDATE makes the email once.

**Payment and warehouse together** (second part; also `LifecycleAssumption`,
that pricing finds some total). A payment step of the composition is a step of
`ShipRequestPayment`, so the lemmas of the first part hold of it; what is left
is that no warehouse statement touches the payment columns.

    LInv == IInv /\ FulfilmentTypeOK /\ AbsentIsBlank /\ LocalsExist
            /\ PagesPaid /\ ManifestsHold /\ PackageOnOneRequest /\ ShippedWithRequest

`PagesPaid` is the point of `FulfilledOnlyIfPaid`: a page lists paid rows, and
since a paid row stays paid it may be as old as it likes. `ManifestsHold` (only
requests that exist are on a manifest, only packages on a request have left)
carries `ShippedWithRequest`, with `PackageOnOneRequest`, a conjunct of the proof
only: it is what the UNIQUE key of the items says. `FulfilledOnlyIfPaidCorrect` and
`ShippedOnManifestCorrect` have a hypothesis, because an admin may set any
status by hand: that `processing` and `staged`, or `shipped`, are not among the
statuses admins set. Without one, `WeighedOnlyIfPaidCorrect` still says that a
weighed request is paid. `LifecycleKeepsPromise` is the refinement of the
payment promise by the composition, and `LifecycleStickyCorrect` has
`PaymentSticky` of it.
`AckSettlesCorrect` is about what Stripe is told, which no run checks: an event
answered with 200 is not delivered again, so the call that gives this answer
leaves the request of the charge paid, or found the intent on no row (the case
that `ChargeGetsRecorded` leaves out). It rests on `EventsHold`: only a charge
has an event.

**Queue** (`ServicesProofs`, first part): `QueueTypeCorrect` and `SentCorrect`
for any workers and, under `OneWorker`, `FailedCorrect` and
`OneWorkerKeepsPromise`; with two workers both fail (section 3).

    QueueInv == TypeOK /\ BatchHolds /\ SendHolds /\ TriesCounted /\ FailedIsExhausted

The invariant adds `BatchHolds` (a row in the batch is still
pending with the attempts the SELECT saw) and `SendHolds` (the row being sent is
in progress with those attempts, and a result is what the provider said) and
`TriesCounted` (`attempt_count` is never ahead of the tries, and behind them, if
at all, by the one whose result nobody will record).
`SentCorrect` is what overlapping passes leave of the promise: they may send
twice and fail early, but a row that says sent was accepted (`SentIsAccepted`),
since the worker about to write it has seen it accepted (`ResultsHold`).

**Destination cache** (`ServicesProofs`, second part; `MemoryCacheAssumption`,
`DestinationAssumption`): `CacheTypeCorrect`, `StaleBoundedCorrect`,
`EvictsTheOldestCorrect`, for any capacity, lifetimes, requests and other keys.

    FreshInv == DestinationTypeOK /\ MemoryFresh /\ RedisFresh /\ RequestsFresh

A tier trades age for what is left of a lifetime. `MemoryFresh`: how long the
listing in memory has not been the answer, and the life its entry has left, are
together at most `TTL` and the one unit that the request storing it may have
taken. `RedisFresh`: the same of Redis with the bound of `StaleBounded`, since a
listing may be copied there at the end of its life in memory. `RequestsFresh`:
what a request has in hand is at most one unit (`Delay`) older than when it read
it. Storing an entry establishes the sum and time keeps it.

`EvictsTheOldest` is a refinement: `RecencyPromise` knows only which key was
used before which. The list of the code changes by taking a key out, adding one
and dropping a first stretch, so lemmas (`ThinnedFacts`, `WithoutFacts`, `AppendFacts`,
`KeptFacts`) say what each does to the order, for lists without repetition. From
them `GetStep` is a use or a drop, `SetStep` a use or an insertion with its
evictions, `RemoveStep` a drop.

**Bookings** (`BookingIntakeProofs`, first part): `TypeCorrect` (of
`IntakeTypeOK`: the tables and the handlers), `StaffDecidesCorrect`,
`PricedAsDeclaredCorrect`.

    IInv == IntakeTypeOK /\ ReadsHold /\ StaffDecides /\ PricedAsDeclared

`ReadsHold` says of every row that a handler has read and may write back what
the two properties say of the rows in the table. It is preserved because what
entitles a row to its status is never taken back (`Grows`): an admin's decision
stays on record, and a stocked package stays with its booking. Without it a
stale write could bring back anything.

**The idempotency map** (second part): `IntakeTypeCorrect`,
`RepeatedOnlyAfterLapseCorrect`, `ReplayOfSuccessCorrect`, for maps of any size.

    CacheInv == CacheTypeOK /\ OneRun /\ NotYetDone /\ Protected /\ AnswersHold
                /\ EntriesHold /\ RepeatedOnlyAfterLapse

A call that has not lapsed has at most one run (`OneRun`), is not yet done while
that run may still do it (`NotYetDone`), and once done has its answer in the map
or a run about to store it (`Protected`); so a look-up finds the answer, or the
call has lapsed. `AnswersHold` and `EntriesHold` say that a success on its way
is of a call that is done, and a success in the map of a done call with that path
and key. `CacheTypeOK`
has the bound of the map.

**Accounts** (`AccountAccessProofs`): `AccessTypeCorrect`,
`SpentByEffectCorrect`, `ProvenFirstCorrect`, and the action property
`OwnSessionsOnlyCorrect`.

    IInv == TypeOK /\ RegisteredHold /\ ProofHolds /\ LinksHold /\ SessionsHold
            /\ SpentByEffect /\ ProvenFirst

`ProofHolds` follows the proof of an address from the verification to the
`verified` column, from there to a mailed login link, to the call that follows
it, and to the session it signs. `LinksHold` and `SessionsHold` say what a call
that looked a row up may still rely on when it writes by id: the row is the one
it saw, or it is gone, for ids are never used again.

**Storage** (`StorageJobsProofs`): `StorageTypeCorrect`, `OneNoticePerFeeCorrect`,
`WarnedOncePerSlipCorrect`, `WarnedBeforeChargedCorrect`, for any number of
processes.

    IInv == TypeOK /\ FeesCounted /\ WarningsCounted /\ RecordedWasQueued
            /\ Dates /\ OneRun /\ WarnedInTime

`FeesCounted`: notices queued plus runs about to queue one are at most the fees
on file (INSERT OR IGNORE lets one run through per fee). `WarningsCounted`:
until a warning is recorded, the mails plus the runs that may still queue it are
covered by the slips and one run that is free; afterwards only runs that looked
before count. `WarnedInTime` says, as long as nothing slipped, which windows the
run under way has dealt with; `Dates` gives the order of days it needs.

**Throttle, codes and keys** (`AccountSecurityProofs`): `SecurityTypeCorrect`,
`WindowHoldsCorrect`, `GuessesBoundedCorrect`, `KeysEndCorrect`. Three
invariants side by side, since a step that touches one leaves the others:
`ThrottleInv` (`OldestFirst`: a cutoff by age parts the log at one place;
`LetIsLogged`: the requests let through within the window are the newest rows,
whatever pruning dropped), `FailsCounted` (the row's counter covers the wrong
guesses but for lost ones; of a code that is no longer on file, the guesses and
the calls that still have one in hand are within the bound), and `KeysInv`
(`RotatesLive`: a rotation whose snapshot still holds has a live key;
`ChainsNamed`: a chain is named after its first key).

**Migrations** (`MigrationsProofs`): `MigrationsTypeCorrect`,
`LedgerIsTrueCorrect`, `RowsKeptCorrect`, for any number of files and runs.

    IInv == TypeOK /\ Alone /\ LedgerIsTrue /\ Whole /\ RowsFollow /\ RowsKept

`Alone` is what a run relies on while runs do not overlap (the files before it
are recorded, the one it is at is not, a file about to be recorded is applied).
`Whole`: a file that creates tables and is not recorded is in the schema as a
whole or not at all, so that the probe of one table of file 1 speaks for all of
them. `RowsFollow` says at each statement of a rebuild where the rows are, for a
rollback that was not begun anew and met no other at the same table.

**Customer records** (`CustomerRecordsProofs`): `RecordsTypeCorrect`,
`ErasedForGoodCorrect`, `OneDefaultCorrect`, `SignatureFrozenCorrect`, for any
number of calls at once. First every step of a call is shown to be sound
(`Sound`): it leaves the tables alone, or it writes one of them as a call that is
known to the erasure's history or free to write that table; what is left is the
erasure and the admin's steps.

    IInv == TypeOK /\ CallsHold /\ ErasureHolds /\ ErasedForGood
            /\ DefaultHolds /\ SealHolds

`ErasureHolds`: after the erasure a busy call was under way then, was admitted
after a reactivation, or is one that does not look at the account and has only
an unscreened table to write (or, the dock's, a suite code still to look up,
which is gone); and nothing is personal in
the tables the erasure has nothing to take out of. `SealHolds`: nobody is about
to write a sealed signature, since whoever looks now finds it frozen.

Only model-checked: the liveness properties `ChargeGetsRecorded`, `EmailsSettle`
and `Converges`, which need fairness and ENABLED and so are out of the prover's
reach. `RefusedChargeIsFlagged` is the property a run refutes (section 3).

## 6. Plan

1. Action properties of the booked and stored rows: what a stale PATCH may take
   back of a booking, and that fees are never taken off file.
2. `StaffDecides` and the map together: that a call's effect behind the map is
   that of one of its runs.
3. The hazards of `PROJECT.json` that no property covers yet.

## 7. Not modelled

* The per-IP token buckets and the lockout counter (`middleware/rate_limit.go`):
  maps of one process, lost at a restart, that only refuse. The lockout check
  deletes the failures counted so far whenever the key is not locked
  (`rate_limit.go:173`), a matter of one function.
* IP rules: `EnforceAPIKeyIPAccess` only reads them.
* Feature flags, blog, moderation, marking notifications read, service requests'
  status: single statements of one actor, where nothing can interleave but the
  statement itself.
* The data export: it reads table by table and writes nothing.
* Observability but for the event each call leaves: the length of the queue,
  Sentry and the counters, best effort by design.
* Pricing: floating point arithmetic over constant rates (`services/pricing.go:23`;
  `destinations.usd_per_lb` is only shown). The models take any total.
* The service worker's queue: browser state. Its replays carry no Authorization
  header and a key the first attempt did not have; both are listed as a hazard.
* Rendering, wording, CSV columns, PDF, read-only endpoints, the activity log,
  third-party clients beyond what handlers rely on.
