----------------------------- MODULE BookingIntake -----------------------------
(***************************************************************************)
(* Bookings and the receiving dock: a customer books, edits and deletes, an *)
(* admin moves bookings along, warehouse staff receive packages and move    *)
(* them between bays.  POST /bookings and every warehouse call go through   *)
(* IdempotencyMiddleware.  A handler that reads before it writes is several *)
(* actions; one transaction is one action.                                  *)
(***************************************************************************)
EXTENDS IdempotencyCache, FiniteSets

CONSTANTS
    Bookings,       \* ids
    Packages,       \* ids of locker packages
    Bays,           \* storage bays
    Handlers,       \* requests the server works on at a time
    Declarations,   \* what is declared: measures, value, insurance
    AdminStatuses,  \* statuses and payment statuses admins choose
    AdminPayments,
    None,           \* NULL
    MaxRequests,    \* bound: requests that reach a handler
    MaxLosses       \* bound: answers that expire, and restarts

Statuses == {"pending", "confirmed", "received", "completed", "cancelled"}
Payments == {"pending", "paid", "failed", "refunded"}
AnyStatus == Statuses              \* faulty: isAllowedBookingStatus instead
CustomerStatuses == {"pending", "cancelled"}

(* The bodies of the calls that pass the middleware, and NoKey or a key.   *)
CallShape ==
    LET Keys == {c.key : c \in Calls} IN
    [path : {"bookings"}, key : Keys, declared : Declarations]
    \cup [path : {"receive"}, key : Keys, booking : Bookings,
          count : Nat \ {0}, bay : Bays \cup {None}]
    \cup [path : {"locker"}, key : Keys, bay : Bays \cup {None}]
    \cup [path : {"move"}, key : Keys, packages : SUBSET Packages \ {{}},
          from : Bays, to : Bays]

ASSUME IntakeAssumption ==
    /\ Calls \subseteq CallShape
    /\ AdminStatuses \subseteq Statuses
    /\ AdminPayments \subseteq Payments
    /\ MaxRequests \in Nat /\ MaxLosses \in Nat

VARIABLES
    bookings,       \* the table bookings
    packages,       \* the table locker_packages
    handlers,       \* what each handler has read
    byAdmin,        \* history: values admins have given to bookings
    requests, losses \* how many, for the bounds

intakeVars == <<bookings, packages, handlers, byAdmin>>
bounds == <<requests, losses>>
vars == <<cacheVars, intakeVars, bounds>>

(* priced is the declaration that subtotal, discount, insurance and total  *)
(* were computed from.                                                     *)
Row == [status : Statuses, payment : Payments \cup {None},
        declared : Declarations, priced : Declarations]
Unborn == [row |-> "unborn"]
Gone == [row |-> "gone"]
Exists(b) == bookings[b] \in Row

Stock == [booking : Bookings \cup {None}, bay : Bays \cup {None}]
Absent == [row |-> "absent"]
FreeIds == {p \in Packages : packages[p] = Absent}

Idle == [at |-> "idle"]
Local ==
    {Idle}
    \cup [at : {"admitted"}, call : Calls]
    \cup [at : {"receiving"}, call : {c \in Calls : c.path = "receive"}]
    \cup [at : {"answering"}, call : Calls, answer : Answers]
    \cup [at : {"patching", "administering"}, booking : Bookings, row : Row]

Goto(h, local) == handlers' = [handlers EXCEPT ![h] = local]
Serving == {"admitted", "receiving", "answering"}
UnderWay == {handlers[h].call : h \in {g \in Handlers : handlers[g].at \in Serving}}
Admitted(h, path) ==
    handlers[h].at = "admitted" /\ handlers[h].call.path = path
Answering(h, answer) ==
    Goto(h, [at |-> "answering", call |-> handlers[h].call, answer |-> answer])

Serve == requests < MaxRequests /\ requests' = requests + 1 /\ UNCHANGED losses
Lose == losses < MaxLosses /\ losses' = losses + 1 /\ UNCHANGED requests

-----------------------------------------------------------------------------
(* A call reaches the middleware.  Clients only know ids they were given.  *)
Known(c) ==
    CASE c.path = "receive" -> bookings[c.booking] # Unborn
      [] c.path = "move" -> \A p \in c.packages : packages[p] # Absent
      [] OTHER -> TRUE

Send(h, c) ==
    /\ Known(c)
    /\ handlers[h] = Idle
    /\ Serve
    /\ Admit(c, UnderWay)
    /\ Goto(h, [at |-> "admitted", call |-> c])
    /\ UNCHANGED <<bookings, packages, byAdmin>>

(* c.Next has returned: the answer is stored and sent.                     *)
Respond(h) ==
    /\ handlers[h].at = "answering"
    /\ Answer(handlers[h].call, handlers[h].answer)
    /\ Goto(h, Idle)
    /\ UNCHANGED <<done, repeated, bookings, packages, byAdmin, bounds>>

(* A statement fails before anything is committed: 500.                    *)
Fail(h) ==
    /\ handlers[h].at \in {"admitted", "receiving", "patching", "administering"}
    /\ IF handlers[h].at \in Serving THEN Answering(h, "error") ELSE Goto(h, Idle)
    /\ UNCHANGED <<cacheVars, bookings, packages, byAdmin, bounds>>

(* A call that is refused with a 4xx before anything is written: an        *)
(* invalid body, a recipient or suite code that is not found.              *)
Refuse(h) ==
    /\ handlers[h].at = "admitted"
    /\ Answering(h, "refused")
    /\ UNCHANGED <<cacheVars, bookings, packages, byAdmin, bounds>>

-----------------------------------------------------------------------------
(* POST /bookings                                                          *)
NewBooking(d) ==
    [status |-> "pending", payment |-> None, declared |-> d, priced |-> d]

BookingCreate(h) ==
    /\ Admitted(h, "bookings")
    /\ \E b \in Bookings :
          /\ bookings[b] = Unborn
          /\ bookings' = [bookings EXCEPT ![b] = NewBooking(handlers[h].call.declared)]
    /\ Performed(handlers[h].call)
    /\ Answering(h, "ok")
    /\ UNCHANGED <<cache, lapsed, packages, byAdmin, bounds>>

(* PATCH /bookings/:id: GetBookingByID, and later one UPDATE of every      *)
(* column from what was read and what the body gives.                      *)
BookingUpdateRead(h, b) ==
    /\ handlers[h] = Idle
    /\ Serve
    /\ Exists(b)
    /\ Goto(h, [at |-> "patching", booking |-> b, row |-> bookings[b]])
    /\ UNCHANGED <<cacheVars, bookings, packages, byAdmin>>

DeclareOnly(row, d) == [row EXCEPT !.declared = d]     \* faulty: old price kept
Declare(row, d) == [row EXCEPT !.declared = d, !.priced = d]

BookingUpdateWrite(h) ==
    LET me == handlers[h] IN
    /\ me.at = "patching"
    /\ IF Exists(me.booking)
       THEN \E s \in CustomerStatuses \cup {me.row.status} :
               \/ bookings' = [bookings EXCEPT
                      ![me.booking] = [me.row EXCEPT !.status = s]]
               \/ \E d \in Declarations :
                     bookings' = [bookings EXCEPT
                         ![me.booking] = Declare([me.row EXCEPT !.status = s], d)]
       ELSE UNCHANGED bookings
    /\ Goto(h, Idle)
    /\ UNCHANGED <<cacheVars, packages, byAdmin, bounds>>

(* DELETE /bookings/:id.  foreign_keys is on for one connection of the     *)
(* pool: there, packages of the booking make the DELETE fail.              *)
BookingDelete(b) ==
    /\ Exists(b)
    /\ bookings' = [bookings EXCEPT ![b] = Gone]
    /\ UNCHANGED <<cacheVars, packages, handlers, byAdmin, bounds>>

(* PATCH /admin/bookings/:id/status: reads the row, then writes both       *)
(* columns, the one that is not in the body as it was read.                *)
AdminUpdateRead(h, b) ==
    /\ handlers[h] = Idle
    /\ Serve
    /\ Exists(b)
    /\ Goto(h, [at |-> "administering", booking |-> b, row |-> bookings[b]])
    /\ UNCHANGED <<cacheVars, bookings, packages, byAdmin>>

AdminUpdateWrite(h) ==
    LET b == handlers[h].booking
        row == handlers[h].row IN
    /\ handlers[h].at = "administering"
    /\ \E s \in AdminStatuses \cup {row.status}, m \in AdminPayments \cup {row.payment} :
          /\ bookings' = IF Exists(b)
                         THEN [bookings EXCEPT ![b].status = s, ![b].payment = m]
                         ELSE bookings
          /\ byAdmin' = byAdmin
                 \cup {<<b, "status", x>> : x \in {s} \ {row.status}}
                 \cup {<<b, "payment", x>> : x \in {m} \ {row.payment}}
    /\ Goto(h, Idle)
    /\ UNCHANGED <<cacheVars, packages, bounds>>

-----------------------------------------------------------------------------
(* POST /warehouse/packages/receive-from-booking: GetBookingByIDOnly, then *)
(* one transaction marks the booking and inserts the packages.             *)
ReceiveRead(h) ==
    /\ Admitted(h, "receive")
    /\ IF Exists(handlers[h].call.booking)
       THEN Goto(h, [at |-> "receiving", call |-> handlers[h].call])
       ELSE Answering(h, "refused")
    /\ UNCHANGED <<cacheVars, bookings, packages, byAdmin, bounds>>

ReceiveCommit(h) ==
    LET c == handlers[h].call IN
    /\ handlers[h].at = "receiving"
    /\ bookings' = IF Exists(c.booking)
                   THEN [bookings EXCEPT ![c.booking].status = "received"]
                   ELSE bookings       \* without foreign_keys; with it, Fail
    /\ \E ps \in SUBSET FreeIds :
          /\ Cardinality(ps) = c.count
          /\ packages' = [p \in Packages |->
                IF p \in ps THEN [booking |-> c.booking, bay |-> c.bay]
                ELSE packages[p]]
    /\ Performed(c)
    /\ Answering(h, "ok")
    /\ UNCHANGED <<cache, lapsed, byAdmin, bounds>>

(* POST /warehouse/locker-receive                                          *)
LockerReceive(h) ==
    /\ Admitted(h, "locker")
    /\ \E p \in FreeIds :
          packages' = [packages EXCEPT
              ![p] = [booking |-> None, bay |-> handlers[h].call.bay]]
    /\ Performed(handlers[h].call)
    /\ Answering(h, "ok")
    /\ UNCHANGED <<cache, lapsed, bookings, byAdmin, bounds>>

(* POST /warehouse/bays/move: one transaction over the packages, each      *)
(* UPDATE on condition that the package is in previous_bay.                *)
MoveAllowed(c) ==
    \A p \in c.packages : packages[p] # Absent /\ packages[p].bay = c.from

BaysMove(h) ==
    LET c == handlers[h].call IN
    /\ Admitted(h, "move")
    /\ IF MoveAllowed(c)
       THEN /\ packages' = [p \in Packages |->
                  IF p \in c.packages THEN [packages[p] EXCEPT !.bay = c.to]
                  ELSE packages[p]]
            /\ Performed(c)
            /\ Answering(h, "ok")
       ELSE /\ Answering(h, "refused")
            /\ UNCHANGED <<packages, done, repeated>>
    /\ UNCHANGED <<cache, lapsed, bookings, byAdmin, bounds>>

-----------------------------------------------------------------------------
TimePasses == Lose /\ Expire /\ UNCHANGED intakeVars

Restart ==
    /\ Lose
    /\ ForgetAll(UnderWay)
    /\ handlers' = [h \in Handlers |-> Idle]
    /\ UNCHANGED <<bookings, packages, byAdmin>>

Init ==
    /\ CacheInit
    /\ bookings = [b \in Bookings |-> Unborn]
    /\ packages = [p \in Packages |-> Absent]
    /\ handlers = [h \in Handlers |-> Idle]
    /\ byAdmin = {}
    /\ requests = 0 /\ losses = 0

HandlerStep(h) ==
    \/ \E c \in Calls : Send(h, c)
    \/ Respond(h)
    \/ Fail(h)
    \/ Refuse(h)
    \/ BookingCreate(h)
    \/ \E b \in Bookings : BookingUpdateRead(h, b)
    \/ BookingUpdateWrite(h)
    \/ \E b \in Bookings : AdminUpdateRead(h, b)
    \/ AdminUpdateWrite(h)
    \/ ReceiveRead(h)
    \/ ReceiveCommit(h)
    \/ LockerReceive(h)
    \/ BaysMove(h)

Next ==
    \/ \E h \in Handlers : HandlerStep(h)
    \/ \E b \in Bookings : BookingDelete(b)
    \/ TimePasses
    \/ Restart

Spec == Init /\ [][Next]_vars

-----------------------------------------------------------------------------
IntakeTypeOK ==
    /\ bookings \in [Bookings -> Row \cup {Unborn, Gone}]
    /\ packages \in [Packages -> Stock \cup {Absent}]
    /\ handlers \in [Handlers -> Local]
    /\ byAdmin \subseteq Bookings \X {"status", "payment"} \X (Statuses \cup Payments)
    /\ requests \in 0 .. MaxRequests
    /\ losses \in 0 .. MaxLosses

TypeOK == CacheTypeOK /\ IntakeTypeOK

(* However PATCH, admin and dock overwrite each other with columns they    *)
(* read earlier, a staff status or a payment status is on a row only       *)
(* because an admin once gave it to that booking, and 'received' by the    *)
(* dock only together with packages it stocked.                            *)
GivenByStaff(b, row) ==
    /\ row.status \in {"confirmed", "completed"} => <<b, "status", row.status>> \in byAdmin
    /\ row.status = "received" =>
          \/ <<b, "status", "received">> \in byAdmin
          \/ \E p \in Packages : packages[p] # Absent /\ packages[p].booking = b
    /\ row.payment # None => <<b, "payment", row.payment>> \in byAdmin

StaffDecides == \A b \in Bookings : Exists(b) => GivenByStaff(b, bookings[b])

(* The price on a row is the price of what the row declares, although two  *)
(* PATCHes that read the same row may both write.                          *)
PricedAsDeclared ==
    \A b \in Bookings :
       Exists(b) => bookings[b].priced = bookings[b].declared
=============================================================================
