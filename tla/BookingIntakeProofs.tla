-------------------------- MODULE BookingIntakeProofs --------------------------
(***************************************************************************)
(* Who decides about a booking, and what it costs, for any bookings,       *)
(* packages, calls and number of handlers.  The rows are well typed and    *)
(* right, and so is every row a handler has read and may write back; the   *)
(* second part is what makes the first inductive.                          *)
(***************************************************************************)
EXTENDS BookingIntake, FiniteSetTheorems, SequenceTheorems, TLAPS

(* A row that a handler still holds was right when it was read, and stays  *)
(* right, because neither an admin's decision nor stocked packages are     *)
(* ever taken back.                                                        *)
RowRight(b, row) == GivenByStaff(b, row) /\ row.priced = row.declared

ReadsHold ==
    \A h \in Handlers :
        handlers[h].at \in {"patching", "administering"} =>
            RowRight(handlers[h].booking, handlers[h].row)

IInv == IntakeTypeOK /\ ReadsHold /\ StaffDecides /\ PricedAsDeclared

(* What is on record about bookings only grows.                            *)
Grows ==
    /\ byAdmin \subseteq byAdmin'
    /\ \A p \in Packages :
          packages[p] # Absent =>
             packages'[p] # Absent /\ packages'[p].booking = packages[p].booking

(* A row is told from the marks for a booking that is not there.           *)
LEMMA RowsAreRows ==
    /\ Unborn \notin Row
    /\ Gone \notin Row
    /\ Absent \notin Stock
<1>1. \A r \in Row : "row" \notin DOMAIN r
  BY DEF Row
<1>2. \A r \in Stock : "row" \notin DOMAIN r
  BY DEF Stock
<1>3. /\ "row" \in DOMAIN Unborn
      /\ "row" \in DOMAIN Gone
      /\ "row" \in DOMAIN Absent
  BY DEF Unborn, Gone, Absent
<1>4. QED
  BY <1>1, <1>2, <1>3

(* The fields of a handler's locals, by where it is.                       *)
LEMMA LocalFields ==
    ASSUME NEW me \in Local
    PROVE  /\ me.at \in Serving => me.call \in Calls
           /\ me.at \in {"patching", "administering"} =>
                 me.booking \in Bookings /\ me.row \in Row
           /\ me.at = "receiving" => me.call.path = "receive"
  BY DEF Local, Idle, Serving

LEMMA TypeStep == IntakeTypeOK /\ [Next]_vars => IntakeTypeOK'
<1> SUFFICES ASSUME IntakeTypeOK, Next PROVE IntakeTypeOK'
  BY DEF IntakeTypeOK, vars, intakeVars, bounds
<1> USE DEF IntakeTypeOK, Goto
<1>b. bounds' = bounds => requests' \in 0 .. MaxRequests /\ losses' \in 0 .. MaxLosses
  BY DEF bounds
<1>s. Serve => requests' \in 0 .. MaxRequests /\ losses' \in 0 .. MaxLosses
  BY IntakeAssumption DEF Serve
<1>l. Lose => requests' \in 0 .. MaxRequests /\ losses' \in 0 .. MaxLosses
  BY IntakeAssumption DEF Lose
<1>i. Idle \in Local
  BY DEF Local
<1>a. ASSUME NEW h \in Handlers, NEW answer \in Answers,
             handlers[h].at \in Serving, Answering(h, answer)
      PROVE  handlers' \in [Handlers -> Local]
  <2>1. handlers[h].call \in Calls
    BY <1>a, LocalFields
  <2>2. [at |-> "answering", call |-> handlers[h].call, answer |-> answer] \in Local
    BY <2>1 DEF Local
  <2>3. QED
    BY <1>a, <2>2 DEF Answering
<1>1. ASSUME NEW h \in Handlers, NEW c \in Calls, Send(h, c)
      PROVE  IntakeTypeOK'
  <2>1. [at |-> "admitted", call |-> c] \in Local
    BY DEF Local
  <2>2. QED
    BY <1>1, <1>s, <2>1 DEF Send
<1>2. ASSUME NEW h \in Handlers, Respond(h)
      PROVE  IntakeTypeOK'
  BY <1>2, <1>b, <1>i DEF Respond, bounds
<1>3. ASSUME NEW h \in Handlers, Fail(h)
      PROVE  IntakeTypeOK'
  <2>1. handlers' \in [Handlers -> Local]
    BY <1>3, <1>a, <1>i DEF Fail, Answers
  <2>2. QED
    BY <1>3, <1>b, <2>1 DEF Fail, bounds
<1>4. ASSUME NEW h \in Handlers, Refuse(h)
      PROVE  IntakeTypeOK'
  <2>1. handlers' \in [Handlers -> Local]
    BY <1>4, <1>a DEF Refuse, Answers, Serving
  <2>2. QED
    BY <1>4, <1>b, <2>1 DEF Refuse, bounds
<1>5. ASSUME NEW h \in Handlers, BookingCreate(h)
      PROVE  IntakeTypeOK'
  <2>1. handlers[h].call \in Calls /\ handlers[h].call.path = "bookings"
    BY <1>5, LocalFields DEF BookingCreate, Admitted, Serving
  <2>2. handlers[h].call.declared \in Declarations
    BY <2>1, IntakeAssumption DEF CallShape
  <2>3. NewBooking(handlers[h].call.declared) \in Row
    BY <2>2 DEF NewBooking, Row, Statuses
  <2>4. handlers' \in [Handlers -> Local]
    BY <1>5, <1>a DEF BookingCreate, Admitted, Answers, Serving
  <2>5. QED
    BY <1>5, <1>b, <2>3, <2>4 DEF BookingCreate, bounds
<1>6. ASSUME NEW h \in Handlers, NEW b \in Bookings, BookingUpdateRead(h, b)
      PROVE  IntakeTypeOK'
  <2>1. [at |-> "patching", booking |-> b, row |-> bookings[b]] \in Local
    BY <1>6 DEF BookingUpdateRead, Exists, Local
  <2>2. QED
    BY <1>6, <1>s, <2>1 DEF BookingUpdateRead
<1>7. ASSUME NEW h \in Handlers, BookingUpdateWrite(h)
      PROVE  IntakeTypeOK'
  <2>1. handlers[h].booking \in Bookings /\ handlers[h].row \in Row
    BY <1>7, LocalFields DEF BookingUpdateWrite
  <2>2. \A s \in CustomerStatuses \cup {handlers[h].row.status} :
           [handlers[h].row EXCEPT !.status = s] \in Row
    BY <2>1 DEF Row, CustomerStatuses, Statuses
  <2>3. \A r \in Row, d \in Declarations : Declare(r, d) \in Row
    BY DEF Declare, Row
  <2>4. ASSUME Exists(handlers[h].booking)
        PROVE  \E r \in Row : bookings' = [bookings EXCEPT ![handlers[h].booking] = r]
    BY <1>7, <2>2, <2>3, <2>4 DEF BookingUpdateWrite
  <2>5. ~Exists(handlers[h].booking) => bookings' = bookings
    BY <1>7 DEF BookingUpdateWrite
  <2>6. bookings' \in [Bookings -> Row \cup {Unborn, Gone}]
    BY <2>1, <2>4, <2>5
  <2>7. QED
    BY <1>7, <1>b, <1>i, <2>6 DEF BookingUpdateWrite, bounds
<1>8. ASSUME NEW b \in Bookings, BookingDelete(b)
      PROVE  IntakeTypeOK'
  BY <1>8, <1>b DEF BookingDelete, bounds
<1>9. ASSUME NEW h \in Handlers, NEW b \in Bookings, AdminUpdateRead(h, b)
      PROVE  IntakeTypeOK'
  <2>1. [at |-> "administering", booking |-> b, row |-> bookings[b]] \in Local
    BY <1>9 DEF AdminUpdateRead, Exists, Local
  <2>2. QED
    BY <1>9, <1>s, <2>1 DEF AdminUpdateRead
<1>10. ASSUME NEW h \in Handlers, AdminUpdateWrite(h)
       PROVE  IntakeTypeOK'
  <2> DEFINE b == handlers[h].booking
             row == handlers[h].row
  <2>1. b \in Bookings /\ row \in Row
    BY <1>10, LocalFields DEF AdminUpdateWrite
  <2>2. PICK s \in AdminStatuses \cup {row.status},
             m \in AdminPayments \cup {row.payment} :
           /\ bookings' = IF Exists(b)
                          THEN [bookings EXCEPT ![b].status = s, ![b].payment = m]
                          ELSE bookings
           /\ byAdmin' = byAdmin
                  \cup {<<b, "status", x>> : x \in {s} \ {row.status}}
                  \cup {<<b, "payment", x>> : x \in {m} \ {row.payment}}
    BY <1>10 DEF AdminUpdateWrite
  <2>3. s \in Statuses /\ m \in Payments \cup {None}
    BY <2>1, IntakeAssumption DEF Row
  <2>4. bookings' \in [Bookings -> Row \cup {Unborn, Gone}]
    BY <2>1, <2>2, <2>3 DEF Exists, Row
  <2>5. {s} \ {row.status} \subseteq Statuses /\ {m} \ {row.payment} \subseteq Payments
    BY IntakeAssumption
  <2>6. byAdmin' \subseteq Bookings \X {"status", "payment"} \X (Statuses \cup Payments)
    BY <2>1, <2>2, <2>5
  <2>7. QED
    BY <1>10, <1>b, <1>i, <2>4, <2>6 DEF AdminUpdateWrite, bounds
<1>11. ASSUME NEW h \in Handlers, ReceiveRead(h)
       PROVE  IntakeTypeOK'
  <2>1. handlers[h].call \in Calls /\ handlers[h].call.path = "receive"
    BY <1>11, LocalFields DEF ReceiveRead, Admitted, Serving
  <2>2. [at |-> "receiving", call |-> handlers[h].call] \in Local
    BY <2>1 DEF Local
  <2>3. handlers' \in [Handlers -> Local]
    BY <1>11, <1>a, <2>2 DEF ReceiveRead, Admitted, Answers, Serving
  <2>4. QED
    BY <1>11, <1>b, <2>3 DEF ReceiveRead, bounds
<1>12. ASSUME NEW h \in Handlers, ReceiveCommit(h)
       PROVE  IntakeTypeOK'
  <2>1. handlers[h] \in Local /\ handlers[h].at = "receiving"
    BY <1>12 DEF ReceiveCommit
  <2>2. handlers' \in [Handlers -> Local]
    BY <1>12, <2>1, <1>a DEF ReceiveCommit, Answers, Serving
  <2>3. handlers[h].call \in Calls
    BY <2>1, LocalFields DEF Serving
  <2>4. \A b \in Bookings : Exists(b) => [bookings[b] EXCEPT !.status = "received"] \in Row
    BY DEF Exists, Row, Statuses
  <2>5. bookings' \in [Bookings -> Row \cup {Unborn, Gone}]
    BY <1>12, <2>4 DEF ReceiveCommit
  <2>6. PICK ps \in SUBSET FreeIds :
           packages' = [p \in Packages |->
               IF p \in ps THEN [booking |-> handlers[h].call.booking,
                                 bay |-> handlers[h].call.bay]
               ELSE packages[p]]
    BY <1>12 DEF ReceiveCommit
  <2>7. handlers[h].call.path = "receive"
    BY <2>1, LocalFields
  <2>8. packages' \in [Packages -> Stock \cup {Absent}]
    BY <2>3, <2>6, <2>7, IntakeAssumption DEF Stock, CallShape
  <2>9. QED
    BY <1>12, <1>b, <2>2, <2>5, <2>8 DEF ReceiveCommit, bounds
<1>13. ASSUME NEW h \in Handlers, LockerReceive(h)
       PROVE  IntakeTypeOK'
  <2>1. handlers[h].call \in Calls /\ handlers[h].call.path = "locker"
    BY <1>13, LocalFields DEF LockerReceive, Admitted, Serving
  <2>2. handlers[h].call.bay \in Bays \cup {None}
    BY <2>1, IntakeAssumption DEF CallShape
  <2>3. handlers' \in [Handlers -> Local]
    BY <1>13, <1>a DEF LockerReceive, Admitted, Answers, Serving
  <2>n. [booking |-> None, bay |-> handlers[h].call.bay] \in Stock
    BY <2>2 DEF Stock
  <2>4. packages' \in [Packages -> Stock \cup {Absent}]
    BY <1>13, <2>n DEF LockerReceive, FreeIds
  <2>5. QED
    BY <1>13, <1>b, <2>3, <2>4 DEF LockerReceive, bounds
<1>14. ASSUME NEW h \in Handlers, BaysMove(h)
       PROVE  IntakeTypeOK'
  <2>1. handlers[h].call \in Calls /\ handlers[h].call.path = "move"
    BY <1>14, LocalFields DEF BaysMove, Admitted, Serving
  <2>2. handlers[h].call.to \in Bays
    BY <2>1, IntakeAssumption DEF CallShape
  <2>3. handlers' \in [Handlers -> Local]
    BY <1>14, <1>a DEF BaysMove, Admitted, Answers, Serving
  <2>4. \A r \in Stock : [r EXCEPT !.bay = handlers[h].call.to] \in Stock
    BY <2>2 DEF Stock
  <2>5. MoveAllowed(handlers[h].call) =>
           \A p \in handlers[h].call.packages \cap Packages : packages[p] \in Stock
    BY DEF MoveAllowed
  <2>6. packages' \in [Packages -> Stock \cup {Absent}]
    BY <1>14, <2>4, <2>5 DEF BaysMove
  <2>7. QED
    BY <1>14, <1>b, <2>3, <2>6 DEF BaysMove, bounds
<1>15. ASSUME TimePasses
       PROVE  IntakeTypeOK'
  BY <1>15, <1>l DEF TimePasses, intakeVars
<1>16. ASSUME Restart
       PROVE  IntakeTypeOK'
  BY <1>16, <1>i, <1>l DEF Restart
<1>17. QED
  BY <1>1, <1>2, <1>3, <1>4, <1>5, <1>6, <1>7, <1>8, <1>9, <1>10, <1>11, <1>12,
     <1>13, <1>14, <1>15, <1>16 DEF Next, HandlerStep

LEMMA GrowsStep == IntakeTypeOK /\ [Next]_vars => Grows
<1> SUFFICES ASSUME IntakeTypeOK, Next PROVE Grows
  BY DEF Grows, vars, intakeVars
<1> USE DEF IntakeTypeOK
<1>1. byAdmin \subseteq byAdmin'
  BY DEF Next, HandlerStep, Send, Respond, Fail, Refuse, BookingCreate,
         BookingUpdateRead, BookingUpdateWrite, BookingDelete, AdminUpdateRead,
         AdminUpdateWrite, ReceiveRead, ReceiveCommit, LockerReceive, BaysMove,
         TimePasses, Restart, intakeVars
<1>2. CASE packages' = packages
  BY <1>1, <1>2 DEF Grows
<1>3. ASSUME NEW h \in Handlers, ReceiveCommit(h) \/ LockerReceive(h)
      PROVE  \A p \in Packages : packages[p] # Absent => packages'[p] = packages[p]
  BY <1>3 DEF ReceiveCommit, LockerReceive, FreeIds
<1>4. ASSUME NEW h \in Handlers, BaysMove(h), NEW p \in Packages, packages[p] # Absent
      PROVE  packages'[p] # Absent /\ packages'[p].booking = packages[p].booking
  <2>1. packages[p] \in Stock
    BY <1>4
  <2>2. \A v \in {handlers[h].call.to} :
           /\ [packages[p] EXCEPT !.bay = v].booking = packages[p].booking
           /\ [packages[p] EXCEPT !.bay = v] # Absent
    <3>1. TAKE v \in {handlers[h].call.to}
    <3>2. "booking" \in DOMAIN [packages[p] EXCEPT !.bay = v]
      BY <2>1 DEF Stock
    <3>3. "booking" \notin DOMAIN Absent
      BY DEF Absent
    <3>4. QED
      BY <2>1, <3>2, <3>3 DEF Stock
  <2>3. packages'[p] \in {packages[p], [packages[p] EXCEPT !.bay = handlers[h].call.to]}
    BY <1>4 DEF BaysMove
  <2>4. QED
    BY <1>4, <2>2, <2>3
<1>5. packages' = packages \/ \E h \in Handlers :
         ReceiveCommit(h) \/ LockerReceive(h) \/ BaysMove(h)
  BY DEF Next, HandlerStep, Send, Respond, Fail, Refuse, BookingCreate,
         BookingUpdateRead, BookingUpdateWrite, BookingDelete, AdminUpdateRead,
         AdminUpdateWrite, ReceiveRead, TimePasses, Restart, intakeVars
<1>6. QED
  BY <1>1, <1>2, <1>3, <1>4, <1>5 DEF Grows

(* What was right about a row stays right.                                 *)
LEMMA RightStays ==
    ASSUME Grows, NEW b \in Bookings, NEW row, RowRight(b, row)
    PROVE  RowRight(b, row)'
  BY DEF Grows, RowRight, GivenByStaff

(* Every row in the table is the old one or a new one that is right.       *)
LEMMA RowStep ==
    ASSUME IInv, Next, Grows, NEW b \in Bookings, NEW r \in Row, bookings'[b] = r
    PROVE  RowRight(b, r)'
<1> USE DEF IInv, IntakeTypeOK
<1>1. CASE bookings[b] = r
  <2>1. RowRight(b, r)
    BY <1>1 DEF StaffDecides, PricedAsDeclared, Exists, RowRight
  <2>2. QED
    BY <2>1, RightStays
<1>2. ASSUME NEW h \in Handlers, BookingCreate(h), bookings[b] # r
      PROVE  RowRight(b, r)'
  <2>1. r = NewBooking(handlers[h].call.declared)
    BY <1>2 DEF BookingCreate
  <2>2. RowRight(b, r)
    BY <2>1 DEF RowRight, GivenByStaff, NewBooking
  <2>3. QED
    BY <2>2, RightStays
<1>3. ASSUME NEW h \in Handlers, BookingUpdateWrite(h), bookings[b] # r
      PROVE  RowRight(b, r)'
  <2> DEFINE me == handlers[h]
  <2>1. me.booking \in Bookings /\ me.row \in Row /\ me.at = "patching"
    BY <1>3, LocalFields DEF BookingUpdateWrite
  <2>2. me.booking = b /\ Exists(b)
    BY <1>3, <2>1 DEF BookingUpdateWrite
  <2>3. RowRight(b, me.row)
    BY <2>1, <2>2 DEF ReadsHold
  <2>4. PICK s \in CustomerStatuses \cup {me.row.status} :
           \/ r = [me.row EXCEPT !.status = s]
           \/ \E d \in Declarations : r = Declare([me.row EXCEPT !.status = s], d)
    BY <1>3, <2>2 DEF BookingUpdateWrite
  <2>5. r.status = s /\ r.payment = me.row.payment /\ r.priced = r.declared
    BY <2>1, <2>3, <2>4 DEF Row, Declare, RowRight
  <2>6. RowRight(b, r)
    BY <2>3, <2>5 DEF RowRight, GivenByStaff, CustomerStatuses
  <2>7. QED
    BY <2>6, RightStays
<1>4. ASSUME NEW h \in Handlers, AdminUpdateWrite(h), bookings[b] # r
      PROVE  RowRight(b, r)'
  <2>1. PICK w \in Row : handlers[h].row = w
    BY <1>4, LocalFields DEF AdminUpdateWrite
  <2>2. PICK s \in AdminStatuses \cup {w.status}, m \in AdminPayments \cup {w.payment} :
           /\ bookings' = IF Exists(handlers[h].booking)
                          THEN [bookings EXCEPT ![handlers[h].booking].status = s,
                                                ![handlers[h].booking].payment = m]
                          ELSE bookings
           /\ byAdmin' = byAdmin
                  \cup {<<handlers[h].booking, "status", x>> : x \in {s} \ {w.status}}
                  \cup {<<handlers[h].booking, "payment", x>> : x \in {m} \ {w.payment}}
    BY <1>4, <2>1 DEF AdminUpdateWrite
  <2>3. handlers[h].booking \in Bookings
    BY <1>4, LocalFields DEF AdminUpdateWrite
  <2>4. handlers[h].booking = b /\ Exists(b)
    BY <1>4, <2>2, <2>3
  <2>5. RowRight(b, w)'
    BY <1>4, <2>1, <2>4, RightStays DEF ReadsHold, AdminUpdateWrite
  <2>6. r.status = s /\ r.payment = m /\ r.priced = r.declared
    BY <2>2, <2>4 DEF Exists, Row, PricedAsDeclared
  <2>7. /\ s # w.status => <<b, "status", s>> \in byAdmin'
        /\ m # w.payment => <<b, "payment", m>> \in byAdmin'
    BY <2>2, <2>4
  <2>8. QED
    BY <2>5, <2>6, <2>7 DEF RowRight, GivenByStaff
<1>5. ASSUME NEW h \in Handlers, ReceiveCommit(h), bookings[b] # r
      PROVE  RowRight(b, r)'
  <2> DEFINE c == handlers[h].call
  <2>1. c \in Calls /\ c.path = "receive"
    BY <1>5, LocalFields DEF ReceiveCommit, Serving
  <2>2. c.booking = b /\ Exists(b)
    BY <1>5 DEF ReceiveCommit
  <2>3. r = [bookings[b] EXCEPT !.status = "received"]
    BY <1>5, <2>2 DEF ReceiveCommit
  <2>4. RowRight(b, bookings[b])
    BY <2>2 DEF StaffDecides, PricedAsDeclared, RowRight
  <2>5. r.status = "received" /\ r.payment = bookings[b].payment /\ r.priced = r.declared
    BY <2>2, <2>3, <2>4 DEF Exists, Row, RowRight
  <2>6. PICK ps \in SUBSET FreeIds :
           /\ Cardinality(ps) = c.count
           /\ packages' = [p \in Packages |->
                 IF p \in ps THEN [booking |-> c.booking, bay |-> c.bay]
                 ELSE packages[p]]
    BY <1>5 DEF ReceiveCommit
  <2>7. c.count \in Nat \ {0} /\ c.bay \in Bays \cup {None}
    BY <2>1, IntakeAssumption DEF CallShape
  <2>8. PICK p \in ps : TRUE
    BY <2>6, <2>7, FS_EmptySet
  <2>9. packages'[p] = [booking |-> b, bay |-> c.bay] /\ p \in Packages
    BY <2>2, <2>6, <2>8 DEF FreeIds
  <2>10. [booking |-> b, bay |-> c.bay] \in Stock
    BY <2>7 DEF Stock
  <2>11. packages'[p] # Absent /\ packages'[p].booking = b
    BY <2>9, <2>10, RowsAreRows
  <2>12. byAdmin' = byAdmin
    BY <1>5 DEF ReceiveCommit
  <2>13. QED
    BY <2>4, <2>5, <2>9, <2>11, <2>12 DEF RowRight, GivenByStaff
<1>6. ASSUME NEW c \in Bookings, BookingDelete(c)
      PROVE  bookings[b] = r
  BY <1>6, RowsAreRows DEF BookingDelete
<1>7. \/ bookings' = bookings
      \/ \E c \in Bookings : BookingDelete(c)
      \/ \E h \in Handlers : \/ BookingCreate(h) \/ BookingUpdateWrite(h)
                            \/ AdminUpdateWrite(h) \/ ReceiveCommit(h)
  BY DEF Next, HandlerStep, Send, Respond, Fail, Refuse, BookingUpdateRead,
         AdminUpdateRead, ReceiveRead, LockerReceive, BaysMove, TimePasses,
         Restart, intakeVars
<1>8. QED
  BY <1>1, <1>2, <1>3, <1>4, <1>5, <1>6, <1>7

(* A handler holds what it held, or a row it has just read.                *)
LEMMA ReadStep ==
    ASSUME IInv, Next, Grows
    PROVE  ReadsHold'
<1> USE DEF IInv, IntakeTypeOK
<1> SUFFICES ASSUME NEW g \in Handlers, handlers'[g].at \in {"patching", "administering"},
                    NEW b, NEW row,
                    handlers'[g].booking = b, handlers'[g].row = row
             PROVE  RowRight(b, row)'
  BY DEF ReadsHold
<1>1. CASE handlers'[g] = handlers[g]
  <2>1. b \in Bookings /\ RowRight(b, row)
    BY <1>1, LocalFields DEF ReadsHold
  <2>2. QED
    BY <2>1, RightStays
<1>2. ASSUME NEW h \in Handlers, NEW c \in Bookings, handlers'[g] # handlers[g],
             BookingUpdateRead(h, c) \/ AdminUpdateRead(h, c)
      PROVE  RowRight(b, row)'
  <2>1. b = c /\ row = bookings[c] /\ Exists(c)
    BY <1>2 DEF BookingUpdateRead, AdminUpdateRead, Goto
  <2>2. RowRight(b, row)
    BY <2>1 DEF StaffDecides, PricedAsDeclared, RowRight
  <2>3. QED
    BY <2>1, <2>2, RightStays
<1>3. ASSUME NEW h \in Handlers, NEW local, Goto(h, local),
             local.at \notin {"patching", "administering"}
      PROVE  handlers'[g] = handlers[g]
  BY <1>3 DEF Goto
<1>4. \A h \in Handlers : Goto(h, Idle) => handlers'[g] = handlers[g]
  BY <1>3 DEF Idle
<1>5. \A h \in Handlers, answer \in Answers :
         Answering(h, answer) => handlers'[g] = handlers[g]
  BY <1>3 DEF Answering
<1>6. ASSUME NEW h \in Handlers, HandlerStep(h)
      PROVE  \/ handlers'[g] = handlers[g]
             \/ \E c \in Bookings : BookingUpdateRead(h, c) \/ AdminUpdateRead(h, c)
  <2>1. ASSUME NEW c \in Calls, Send(h, c)
        PROVE  handlers'[g] = handlers[g]
    BY <1>3, <2>1 DEF Send
  <2>2. Respond(h) \/ BookingUpdateWrite(h) \/ AdminUpdateWrite(h)
           => handlers'[g] = handlers[g]
    BY <1>4 DEF Respond, BookingUpdateWrite, AdminUpdateWrite
  <2>3. Fail(h) => handlers'[g] = handlers[g]
    BY <1>4, <1>5 DEF Fail, Answers
  <2>4. Refuse(h) \/ BookingCreate(h) \/ ReceiveCommit(h) \/ LockerReceive(h)
           => handlers'[g] = handlers[g]
    BY <1>5 DEF Refuse, BookingCreate, ReceiveCommit, LockerReceive, Answers
  <2>5. BaysMove(h) => handlers'[g] = handlers[g]
    BY <1>5 DEF BaysMove, Answers
  <2>6. ReceiveRead(h) => handlers'[g] = handlers[g]
    BY <1>3, <1>5 DEF ReceiveRead, Answers
  <2>7. QED
    BY <1>6, <2>1, <2>2, <2>3, <2>4, <2>5, <2>6 DEF HandlerStep
<1>7. (\E c \in Bookings : BookingDelete(c)) \/ TimePasses
         => handlers'[g] = handlers[g]
  BY DEF BookingDelete, TimePasses, intakeVars
<1>8. ~Restart
  BY DEF Restart, Idle
<1>9. QED
  BY <1>1, <1>2, <1>6, <1>7, <1>8 DEF Next

LEMMA InvStep == IInv /\ [Next]_vars => IInv'
<1> SUFFICES ASSUME IInv, [Next]_vars PROVE IInv'
  OBVIOUS
<1>1. IntakeTypeOK'
  BY TypeStep DEF IInv
<1>2. CASE Next
  <2>1. Grows
    BY <1>2, GrowsStep DEF IInv
  <2>2. ReadsHold'
    BY <1>2, <2>1, ReadStep
  <2>3. ASSUME NEW b \in Bookings, Exists(b)'
        PROVE  GivenByStaff(b, bookings[b])' /\ (bookings[b].priced = bookings[b].declared)'
    <3>1. PICK r \in Row : bookings'[b] = r
      BY <2>3 DEF Exists
    <3>2. RowRight(b, r)'
      BY <1>2, <2>1, <3>1, RowStep
    <3>3. QED
      BY <3>1, <3>2 DEF RowRight, GivenByStaff
  <2>4. QED
    BY <1>1, <2>2, <2>3 DEF IInv, StaffDecides, PricedAsDeclared
<1>3. CASE UNCHANGED vars
  BY <1>1, <1>3 DEF vars, intakeVars, IInv, ReadsHold, RowRight, StaffDecides,
                    GivenByStaff, PricedAsDeclared, Exists
<1>4. QED
  BY <1>2, <1>3

LEMMA InvInit == Init => IInv
<1> SUFFICES ASSUME Init PROVE IInv
  OBVIOUS
<1>1. IntakeTypeOK
  BY IntakeAssumption DEF Init, IntakeTypeOK, Local
<1>2. ReadsHold
  BY DEF Init, ReadsHold, Idle
<1>3. \A b \in Bookings : ~Exists(b)
  BY RowsAreRows DEF Init, Exists
<1>4. QED
  BY <1>1, <1>2, <1>3 DEF IInv, StaffDecides, PricedAsDeclared

LEMMA InvHolds == Spec => []IInv
  BY InvInit, InvStep, PTL DEF Spec

(* Types of the tables, of what handlers hold, and of the history.         *)
THEOREM TypeCorrect == Spec => []IntakeTypeOK
<1>1. IInv => IntakeTypeOK
  BY DEF IInv
<1>2. QED
  BY <1>1, InvHolds, PTL

(* Whatever stale columns PATCH, admin and dock write over each other, a   *)
(* staff status or a payment status was given to that booking by staff.    *)
THEOREM StaffDecidesCorrect == Spec => []StaffDecides
<1>1. IInv => StaffDecides
  BY DEF IInv
<1>2. QED
  BY <1>1, InvHolds, PTL

(* The price columns belong to the declaration next to them.               *)
THEOREM PricedAsDeclaredCorrect == Spec => []PricedAsDeclared
<1>1. IInv => PricedAsDeclared
  BY DEF IInv
<1>2. QED
  BY <1>1, InvHolds, PTL

-----------------------------------------------------------------------------
(* The map of answers.  What protects a call that did not lapse, besides   *)
(* the map, is the run of it that is under way: there is only one, it has  *)
(* not performed the call before it commits, and once it has, its answer   *)
(* is on its way into the map.                                             *)

Serves(h, c) == handlers[h].at \in Serving /\ handlers[h].call = c

OneRun ==
    \A c \in Calls \ lapsed, g, h \in Handlers :
       Keyed(c) /\ Serves(g, c) /\ Serves(h, c) => g = h

NotYetDone ==
    \A h \in Handlers :
       handlers[h].at \in {"admitted", "receiving"} =>
          handlers[h].call \notin done \ lapsed

Protected ==
    \A c \in done \ lapsed :
       \/ Fresh(c) # {}
       \/ \E h \in Handlers : /\ handlers[h].at = "answering" /\ handlers[h].call = c
                              /\ handlers[h].answer = "ok"

(* A success that is about to be stored, or has been, is one.              *)
AnswersHold ==
    \A h \in Handlers :
       /\ handlers[h].at = "answering" /\ handlers[h].answer = "ok"
       /\ Keyed(handlers[h].call)
       => handlers[h].call \in done

EntriesHold ==
    /\ \A c \in done : Keyed(c)
    /\ \A i \in DOMAIN cache :
          \E c \in Calls : /\ Keyed(c) /\ cache[i].key = Scoped(c)
                           /\ cache[i].answer = "ok" => c \in done

CacheInv ==
    /\ CacheTypeOK
    /\ OneRun /\ NotYetDone /\ Protected
    /\ AnswersHold /\ EntriesHold
    /\ RepeatedOnlyAfterLapse

Entry == [key : {Scoped(c) : c \in Calls}, answer : Answers \ {"error"}, fresh : BOOLEAN]

(* Without the entry of a key, every other entry is still there.           *)
LEMMA WithoutKeyFacts ==
    ASSUME NEW S, NEW s \in Seq(S), NEW key
    PROVE  LET t == WithoutKey(s, key) IN
           /\ t \in Seq(S) /\ Len(t) <= Len(s)
           /\ \A j \in 1 .. Len(t) : \E i \in 1 .. Len(s) : t[j] = s[i]
           /\ \A i \in 1 .. Len(s) :
                 s[i].key # key => \E j \in 1 .. Len(t) : t[j] = s[i]
<1> DEFINE t == WithoutKey(s, key)
<1>1. Len(s) \in Nat /\ DOMAIN s = 1 .. Len(s) /\ \A i \in 1 .. Len(s) : s[i] \in S
  BY LenProperties, ElementOfSeq
<1>2. CASE ~ \E i \in DOMAIN s : s[i].key = key
  <2>1. t = s
    BY <1>2 DEF WithoutKey
  <2>2. QED
    BY <1>1, <2>1
<1>3. CASE \E i \in DOMAIN s : s[i].key = key
  <2> DEFINE k == CHOOSE j \in DOMAIN s : s[j].key = key
             a == SubSeq(s, 1, k - 1)
             b == SubSeq(s, k + 1, Len(s))
  <2>1. k \in 1 .. Len(s) /\ s[k].key = key
    BY <1>1, <1>3
  <2>2. t = a \o b
    BY <1>3 DEF WithoutKey
  <2> HIDE DEF k
  <2>3. /\ a \in Seq(S) /\ Len(a) = k - 1
        /\ \A i \in 1 .. k - 1 : a[i] = s[i]
    BY <1>1, <2>1, SubSeqProperties
  <2>4. /\ b \in Seq(S) /\ Len(b) = Len(s) - k
        /\ \A i \in 1 .. Len(s) - k : b[i] = s[k + i]
    <3>1. \A i \in k + 1 .. Len(s) : s[i] \in S
      BY <1>1, <2>1
    <3>2. /\ b \in Seq(S)
          /\ Len(b) = IF k + 1 <= Len(s) THEN Len(s) - (k + 1) + 1 ELSE 0
          /\ \A i \in 1 .. Len(s) - (k + 1) + 1 : b[i] = s[(k + 1) + i - 1]
      BY <1>1, <2>1, <3>1, SubSeqProperties
    <3> HIDE DEF b
    <3>3. Len(b) = Len(s) - k
      <4>1. k \in Nat /\ k <= Len(s) /\ Len(s) \in Nat
        BY <1>1, <2>1
      <4>2. CASE k + 1 <= Len(s)
        BY <3>2, <4>1, <4>2
      <4>3. CASE k = Len(s)
        BY <3>2, <4>1, <4>3
      <4>4. QED
        BY <4>1, <4>2, <4>3
    <3>4. ASSUME NEW i \in 1 .. Len(s) - k PROVE b[i] = s[k + i]
      <4>1. i \in 1 .. Len(s) - (k + 1) + 1 /\ (k + 1) + i - 1 = k + i
        BY <1>1, <2>1
      <4>2. QED
        BY <3>2, <4>1
    <3>5. QED
      BY <3>2, <3>3, <3>4
  <2> HIDE DEF a, b, t
  <2>5. /\ t \in Seq(S) /\ Len(t) = Len(s) - 1
        /\ \A i \in 1 .. Len(s) - 1 : t[i] = IF i <= k - 1 THEN a[i] ELSE b[i - (k - 1)]
    <3>1. /\ t \in Seq(S) /\ Len(t) = Len(a) + Len(b)
          /\ \A i \in 1 .. Len(a) + Len(b) :
                t[i] = IF i <= Len(a) THEN a[i] ELSE b[i - Len(a)]
      BY <2>2, <2>3, <2>4, ConcatProperties
    <3>2. QED
      BY <1>1, <2>1, <2>3, <2>4, <3>1
  <2>6. \A i \in 1 .. Len(s) - 1 : t[i] = IF i < k THEN s[i] ELSE s[i + 1]
    <3>1. TAKE i \in 1 .. Len(s) - 1
    <3>2. CASE i < k
      BY <1>1, <2>1, <2>3, <2>5, <3>2
    <3>3. CASE i >= k
      <4>1. i - (k - 1) \in 1 .. Len(s) - k /\ k + (i - (k - 1)) = i + 1
        BY <1>1, <2>1, <3>3
      <4>2. b[i - (k - 1)] = s[i + 1]
        BY <2>4, <4>1
      <4>3. QED
        BY <1>1, <2>1, <2>5, <3>3, <4>2
    <3>4. QED
      BY <1>1, <2>1, <3>2, <3>3
  <2>7. ASSUME NEW i \in 1 .. Len(s), s[i].key # key
        PROVE  \E j \in 1 .. Len(t) : t[j] = s[i]
    <3>1. i # k
      BY <2>1, <2>7
    <3>2. CASE i < k
      <4>1. i \in 1 .. Len(t) /\ t[i] = s[i]
        BY <1>1, <2>1, <2>5, <2>6, <3>2
      <4>2. QED
        BY <4>1
    <3>3. CASE i > k
      <4>1. i - 1 \in 1 .. Len(t) /\ ~ (i - 1 < k) /\ (i - 1) + 1 = i
        BY <1>1, <2>1, <2>5, <3>3
      <4>2. t[i - 1] = s[i]
        BY <2>5, <2>6, <4>1
      <4>3. QED
        BY <4>1, <4>2
    <3>4. QED
      BY <1>1, <2>1, <3>1, <3>2, <3>3
  <2>8. \A j \in 1 .. Len(t) : \E i \in 1 .. Len(s) : t[j] = s[i]
    <3>1. TAKE j \in 1 .. Len(t)
    <3>2. /\ j \in 1 .. Len(s) /\ j + 1 \in 1 .. Len(s)
          /\ t[j] = s[j] \/ t[j] = s[j + 1]
      BY <1>1, <2>1, <2>5, <2>6
    <3>3. QED
      BY <3>2
  <2>9. Len(t) <= Len(s)
    BY <1>1, <2>5
  <2>10. QED
    BY <2>5, <2>7, <2>8, <2>9 DEF t
<1>4. QED
  BY <1>2, <1>3

(* Storing an answer puts one entry into the map; of the others, only the  *)
(* one of the same key and the oldest of a full map go.                    *)
LEMMA RememberFacts ==
    ASSUME CacheTypeOK, NEW c \in Calls, NEW answer \in Answers \ {"error"}
    PROVE  LET t == Remember(c, answer)
               e == [key |-> Scoped(c), answer |-> answer, fresh |-> TRUE] IN
           /\ t \in Seq(Entry) /\ Len(t) <= MaxKeys
           /\ \A j \in 1 .. Len(t) : t[j] = e \/ \E i \in 1 .. Len(cache) : t[j] = cache[i]
           /\ \E j \in 1 .. Len(t) : t[j] = e
           /\ \A i \in 1 .. Len(cache) :
                 \/ cache[i].key = Scoped(c)
                 \/ cache[i] \in Evicted
                 \/ \E j \in 1 .. Len(t) : t[j] = cache[i]
<1> DEFINE t == Remember(c, answer)
           e == [key |-> Scoped(c), answer |-> answer, fresh |-> TRUE]
           w == WithoutKey(Room, Scoped(c))
<1>1. cache \in Seq(Entry) /\ Len(cache) \in Nat /\ Len(cache) <= MaxKeys
  BY LenProperties DEF CacheTypeOK, Entry
<1>2. e \in Entry
  BY DEF Entry
<1>3. /\ Room \in Seq(Entry) /\ Len(Room) <= MaxKeys - 1
      /\ \A j \in 1 .. Len(Room) : \E i \in 1 .. Len(cache) : Room[j] = cache[i]
      /\ \A i \in 1 .. Len(cache) :
            cache[i] \in Evicted \/ \E j \in 1 .. Len(Room) : Room[j] = cache[i]
  <2>1. CASE Len(cache) >= MaxKeys
    <3>1. cache # << >> /\ MaxKeys \in Nat \ {0}
      BY <1>1, <2>1, EmptySeq, IdempotencyAssumption
    <3>2. Room = Tail(cache) /\ Evicted = {Head(cache)} /\ Head(cache) = cache[1]
      BY <1>1, <2>1, <3>1 DEF Room, Evicted
    <3>3. /\ Tail(cache) \in Seq(Entry) /\ Len(Tail(cache)) = Len(cache) - 1
          /\ \A i \in 1 .. Len(Tail(cache)) : Tail(cache)[i] = cache[i + 1]
      BY <1>1, <3>1, HeadTailProperties
    <3>4. ASSUME NEW j \in 1 .. Len(Room) PROVE \E i \in 1 .. Len(cache) : Room[j] = cache[i]
      <4>1. j + 1 \in 1 .. Len(cache) /\ Room[j] = cache[j + 1]
        BY <1>1, <3>2, <3>3
      <4>2. QED
        BY <4>1
    <3>5. ASSUME NEW i \in 1 .. Len(cache), i # 1
          PROVE  \E j \in 1 .. Len(Room) : Room[j] = cache[i]
      <4>1. i - 1 \in 1 .. Len(Room) /\ (i - 1) + 1 = i
        BY <1>1, <3>2, <3>3, <3>5
      <4>2. Room[i - 1] = cache[i]
        BY <3>2, <3>3, <4>1
      <4>3. QED
        BY <4>1, <4>2
    <3>6. QED
      BY <1>1, <3>1, <3>2, <3>3, <3>4, <3>5
  <2>2. CASE Len(cache) < MaxKeys
    <3>1. Room = cache
      BY <1>1, <2>2, IdempotencyAssumption DEF Room
    <3>2. QED
      BY <1>1, <2>2, <3>1, IdempotencyAssumption
  <2>3. Len(cache) >= MaxKeys \/ Len(cache) < MaxKeys
    BY <1>1, IdempotencyAssumption
  <2>4. QED
    BY <2>1, <2>2, <2>3
<1>4. /\ w \in Seq(Entry) /\ Len(w) <= Len(Room)
      /\ \A j \in 1 .. Len(w) : \E i \in 1 .. Len(Room) : w[j] = Room[i]
      /\ \A i \in 1 .. Len(Room) :
            Room[i].key # Scoped(c) => \E j \in 1 .. Len(w) : w[j] = Room[i]
  BY <1>3, WithoutKeyFacts, SMTT(30)
<1>5. t = Append(w, e)
  BY DEF Remember
<1> HIDE DEF w, e, t
<1>6. /\ t \in Seq(Entry) /\ Len(t) = Len(w) + 1
      /\ \A j \in 1 .. Len(w) : t[j] = w[j]
      /\ t[Len(w) + 1] = e
  BY <1>2, <1>4, <1>5, AppendProperties
<1>7. Len(w) \in Nat /\ Len(Room) \in Nat
  BY <1>3, <1>4, LenProperties
<1>8. Len(t) <= MaxKeys /\ Len(w) + 1 \in 1 .. Len(t) /\ 1 .. Len(w) \subseteq 1 .. Len(t)
  BY <1>3, <1>4, <1>6, <1>7, IdempotencyAssumption
<1>9. ASSUME NEW j \in 1 .. Len(t)
      PROVE  t[j] = e \/ \E i \in 1 .. Len(cache) : t[j] = cache[i]
  <2>1. j = Len(w) + 1 \/ j \in 1 .. Len(w)
    BY <1>6, <1>7
  <2>2. CASE j \in 1 .. Len(w)
    <3>1. PICK k \in 1 .. Len(Room) : w[j] = Room[k]
      BY <1>4, <2>2
    <3>2. PICK i \in 1 .. Len(cache) : Room[k] = cache[i]
      BY <1>3
    <3>3. t[j] = cache[i]
      BY <1>6, <2>2, <3>1, <3>2
    <3>4. QED
      BY <3>3
  <2>3. QED
    BY <1>6, <2>1, <2>2
<1>10. ASSUME NEW i \in 1 .. Len(cache), cache[i].key # Scoped(c), cache[i] \notin Evicted
       PROVE  \E j \in 1 .. Len(t) : t[j] = cache[i]
  <2>1. PICK k \in 1 .. Len(Room) : Room[k] = cache[i]
    BY <1>3, <1>10
  <2>2. PICK j \in 1 .. Len(w) : w[j] = Room[k]
    BY <1>4, <1>10, <2>1
  <2>3. QED
    BY <1>6, <1>8, <2>1, <2>2
<1>11. QED
  BY <1>6, <1>8, <1>9, <1>10 DEF t, e

LEMMA GotoMoves ==
    ASSUME IntakeTypeOK, NEW h \in Handlers, NEW local, Goto(h, local)
    PROVE  handlers'[h] = local /\ \A g \in Handlers : g # h => handlers'[g] = handlers[g]
  BY DEF Goto, IntakeTypeOK

LEMMA ServedCalls ==
    ASSUME IntakeTypeOK
    PROVE  /\ \A h \in Handlers : handlers[h].at \in Serving => handlers[h].call \in Calls
           /\ UnderWay \subseteq Calls
           /\ \A h \in Handlers, c \in Calls : Serves(h, c) => c \in UnderWay
           /\ \A h \in Handlers : handlers[h].at = "answering" => handlers[h].answer \in Answers
<1>1. \A h \in Handlers : handlers[h] \in Local
  BY DEF IntakeTypeOK
<1>2. \A h \in Handlers : handlers[h].at \in Serving => handlers[h].call \in Calls
  BY <1>1, LocalFields
<1>3. UnderWay \subseteq Calls /\ \A h \in Handlers, c \in Calls : Serves(h, c) => c \in UnderWay
  BY <1>2 DEF UnderWay, Serves
<1>4. \A h \in Handlers : handlers[h].at = "answering" => handlers[h].answer \in Answers
  BY <1>1 DEF Local, Idle
<1>5. QED
  BY <1>2, <1>3, <1>4

(* A step that leaves the map alone, and performs no call.                 *)
LEMMA QuietStep ==
    ASSUME CacheInv, IntakeTypeOK, UNCHANGED cacheVars, NEW h \in Handlers, NEW local,
           Goto(h, local),
           \/ handlers[h].at \notin Serving /\ local.at \notin Serving
           \/ /\ handlers[h].at \in {"admitted", "receiving"} /\ local.call = handlers[h].call
              /\ \/ local.at = "receiving"
                 \/ local.at = "answering" /\ local.answer # "ok"
    PROVE  CacheInv'
<1> USE DEF CacheInv
<1>1. /\ handlers'[h] = local
      /\ \A g \in Handlers : g # h => handlers'[g] = handlers[g]
      /\ cache' = cache /\ done' = done /\ repeated' = repeated /\ lapsed' = lapsed
  BY GotoMoves DEF cacheVars
<1>2. CacheTypeOK' /\ EntriesHold' /\ RepeatedOnlyAfterLapse'
  BY <1>1 DEF CacheTypeOK, EntriesHold, RepeatedOnlyAfterLapse
<1>3. \A g \in Handlers, c \in Calls : Serves(g, c)' => Serves(g, c)
  BY <1>1 DEF Serves, Serving
<1>4. OneRun'
  BY <1>1, <1>3 DEF OneRun
<1>5. NotYetDone'
  BY <1>1 DEF NotYetDone, Serving
<1>6. Protected'
  BY <1>1 DEF Protected, Fresh, Serving
<1>7. AnswersHold'
  BY <1>1 DEF AnswersHold, Serving
<1>8. QED
  BY <1>2, <1>4, <1>5, <1>6, <1>7

(* A call is let through: no entry is there, and a run of it that is under *)
(* way costs it its protection.                                            *)
LEMMA SendStep ==
    ASSUME CacheInv, IntakeTypeOK, NEW h \in Handlers, NEW c \in Calls, Send(h, c)
    PROVE  CacheInv'
<1> USE DEF CacheInv
<1>1. /\ handlers'[h] = [at |-> "admitted", call |-> c]
      /\ \A g \in Handlers : g # h => handlers'[g] = handlers[g]
      /\ handlers[h] = Idle
  BY GotoMoves DEF Send
<1>2. /\ ~Held(c) /\ cache' = cache /\ done' = done /\ repeated' = repeated
      /\ lapsed' = IF Keyed(c) /\ c \in UnderWay THEN lapsed \cup {c} ELSE lapsed
  BY DEF Send, Admit
<1>3. lapsed \subseteq lapsed' /\ lapsed' \subseteq Calls
  BY <1>2 DEF CacheTypeOK
<1>4. CacheTypeOK' /\ EntriesHold' /\ RepeatedOnlyAfterLapse'
  BY <1>2, <1>3 DEF CacheTypeOK, EntriesHold, RepeatedOnlyAfterLapse
<1>5. \A g \in Handlers, d \in Calls : Serves(g, d)' =>
         (Serves(g, d) /\ g # h) \/ (g = h /\ d = c)
  BY <1>1 DEF Serves, Serving
<1>6. ASSUME Keyed(c), c \notin lapsed' PROVE \A g \in Handlers : ~Serves(g, c)
  BY <1>2, <1>6, ServedCalls
<1>7. OneRun'
  BY <1>3, <1>5, <1>6 DEF OneRun
<1>8. NotYetDone'
  <2>1. c \notin done \ lapsed'
    <3>1. SUFFICES ASSUME c \in done, c \notin lapsed' PROVE FALSE
      OBVIOUS
    <3>2. Keyed(c)
      BY <3>1 DEF EntriesHold
    <3>3. Fresh(c) = {}
      BY <1>2, <3>2 DEF Held
    <3>4. PICK g \in Handlers : handlers[g].at = "answering" /\ handlers[g].call = c
      BY <1>3, <3>1, <3>3 DEF Protected
    <3>5. Serves(g, c)
      BY <3>4 DEF Serves, Serving
    <3>6. QED
      BY <1>6, <3>1, <3>2, <3>5
  <2>2. QED
    BY <1>1, <1>2, <1>3, <2>1 DEF NotYetDone
<1>9. Protected'
  BY <1>1, <1>2, <1>3 DEF Protected, Fresh, Idle
<1>10. AnswersHold'
  BY <1>1, <1>2 DEF AnswersHold
<1>11. QED
  BY <1>4, <1>7, <1>8, <1>9, <1>10

(* A handler commits what its call is for.                                 *)
LEMMA CommitStep ==
    ASSUME CacheInv, IntakeTypeOK, NEW h \in Handlers,
           handlers[h].at \in {"admitted", "receiving"},
           Performed(handlers[h].call), Answering(h, "ok"), UNCHANGED <<cache, lapsed>>
    PROVE  CacheInv'
<1> USE DEF CacheInv
<1> DEFINE c == handlers[h].call
<1>1. /\ handlers'[h] = [at |-> "answering", call |-> c, answer |-> "ok"]
      /\ \A g \in Handlers : g # h => handlers'[g] = handlers[g]
  BY GotoMoves DEF Answering
<1>2. /\ done' = IF Keyed(c) THEN done \cup {c} ELSE done
      /\ repeated' = IF c \in done THEN repeated \cup {c} ELSE repeated
      /\ cache' = cache /\ lapsed' = lapsed
  BY DEF Performed
<1>3. c \in Calls /\ Serves(h, c)
  BY ServedCalls DEF Serves, Serving
<1>4. c \notin done \ lapsed
  BY DEF NotYetDone
<1>5. CacheTypeOK' /\ RepeatedOnlyAfterLapse'
  BY <1>2, <1>3, <1>4 DEF CacheTypeOK, RepeatedOnlyAfterLapse
<1>6. EntriesHold'
  BY <1>2, <1>3 DEF EntriesHold
<1>7. \A g \in Handlers, d \in Calls : Serves(g, d)' => Serves(g, d)
  BY <1>1, <1>3 DEF Serves, Serving
<1>8. OneRun'
  BY <1>2, <1>7 DEF OneRun
<1>9. ASSUME NEW g \in Handlers, handlers'[g].at \in {"admitted", "receiving"}
      PROVE  handlers'[g].call \notin done' \ lapsed'
  <2>1. g # h /\ handlers'[g] = handlers[g]
    BY <1>1, <1>9
  <2>2. handlers[g].call \notin done \ lapsed
    BY <1>9, <2>1 DEF NotYetDone
  <2>3. Serves(g, handlers[g].call)
    BY <1>9, <2>1 DEF Serves, Serving
  <2>4. CASE handlers[g].call = c /\ Keyed(c) /\ c \notin lapsed
    BY <1>3, <2>1, <2>3, <2>4 DEF OneRun
  <2>5. QED
    BY <1>2, <2>1, <2>2, <2>4
<1>10. NotYetDone'
  BY <1>9 DEF NotYetDone
<1>11. Protected'
  BY <1>1, <1>2 DEF Protected, Fresh
<1>12. AnswersHold'
  BY <1>1, <1>2 DEF AnswersHold
<1>13. QED
  BY <1>5, <1>6, <1>8, <1>10, <1>11, <1>12

(* The answer is stored, unless it is an error or the call has no key.     *)
LEMMA RespondStep ==
    ASSUME CacheInv, IntakeTypeOK, NEW h \in Handlers, Respond(h)
    PROVE  CacheInv'
<1> USE DEF CacheInv
<1> DEFINE c == handlers[h].call
           answer == handlers[h].answer
           e == [key |-> Scoped(c), answer |-> answer, fresh |-> TRUE]
<1>1. /\ handlers'[h] = Idle
      /\ \A g \in Handlers : g # h => handlers'[g] = handlers[g]
      /\ handlers[h].at = "answering" /\ done' = done /\ repeated' = repeated
  BY GotoMoves DEF Respond
<1>2. c \in Calls /\ answer \in Answers
  BY <1>1, ServedCalls DEF Serving
<1>a. Answer(c, answer)
  BY DEF Respond
<1> HIDE DEF c, answer
<1>3. cache \in Seq(Entry) /\ DOMAIN cache = 1 .. Len(cache)
  BY LenProperties DEF CacheTypeOK, Entry
<1>4. lapsed \subseteq lapsed' /\ lapsed' \subseteq Calls
  BY <1>a DEF Answer, CacheTypeOK, CallsOf
<1>5. /\ cache' \in Seq(Entry) /\ Len(cache') <= MaxKeys
      /\ \A j \in DOMAIN cache' :
            \/ cache'[j] = e /\ Keyed(c)
            \/ \E i \in DOMAIN cache : cache'[j] = cache[i]
      /\ Keyed(c) /\ answer # "error" => \E j \in DOMAIN cache' : cache'[j] = e
      /\ \A i \in DOMAIN cache :
            \/ cache[i].key = Scoped(c) /\ Keyed(c) /\ answer # "error"
            \/ CallsOf({cache[i]}) \subseteq lapsed'
            \/ \E j \in DOMAIN cache' : cache'[j] = cache[i]
  <2>1. CASE Keyed(c) /\ answer # "error"
    <3>1. /\ cache' = Remember(c, answer)
          /\ lapsed' = lapsed \cup CallsOf({x \in Evicted : x.key # Scoped(c)})
      BY <1>a, <2>1 DEF Answer
    <3>2. /\ cache' \in Seq(Entry) /\ Len(cache') <= MaxKeys
          /\ \A j \in 1 .. Len(cache') :
                cache'[j] = e \/ \E i \in 1 .. Len(cache) : cache'[j] = cache[i]
          /\ \E j \in 1 .. Len(cache') : cache'[j] = e
          /\ \A i \in 1 .. Len(cache) :
                \/ cache[i].key = Scoped(c)
                \/ cache[i] \in Evicted
                \/ \E j \in 1 .. Len(cache') : cache'[j] = cache[i]
      <4>1. c \in Calls /\ answer \in Answers \ {"error"}
        BY <1>2, <2>1
      <4>2. PICK t : t = Remember(c, answer)
        OBVIOUS
      <4>3. /\ t \in Seq(Entry) /\ Len(t) <= MaxKeys
            /\ \A j \in 1 .. Len(t) :
                  t[j] = e \/ \E i \in 1 .. Len(cache) : t[j] = cache[i]
            /\ \E j \in 1 .. Len(t) : t[j] = e
            /\ \A i \in 1 .. Len(cache) :
                  \/ cache[i].key = Scoped(c)
                  \/ cache[i] \in Evicted
                  \/ \E j \in 1 .. Len(t) : t[j] = cache[i]
        BY <4>1, <4>2, RememberFacts
      <4>4. cache' = t
        BY <3>1, <4>2
      <4>5. QED
        BY <4>3, <4>4
    <3>3. DOMAIN cache' = 1 .. Len(cache')
      BY <3>2, LenProperties
    <3>4. \A i \in DOMAIN cache : cache[i] \in Evicted /\ cache[i].key # Scoped(c)
             => CallsOf({cache[i]}) \subseteq lapsed'
      BY <3>1 DEF CallsOf
    <3>5. QED
      BY <1>3, <2>1, <3>2, <3>3, <3>4
  <2>2. CASE ~(Keyed(c) /\ answer # "error")
    <3>1. cache' = cache
      BY <1>a, <2>2 DEF Answer
    <3>2. QED
      BY <1>3, <2>2, <3>1 DEF CacheTypeOK
  <2>3. QED
    BY <2>1, <2>2
<1>6. CacheTypeOK' /\ RepeatedOnlyAfterLapse'
  BY <1>1, <1>4, <1>5 DEF CacheTypeOK, Entry, RepeatedOnlyAfterLapse
<1>7. answer = "ok" /\ Keyed(c) => c \in done
  BY <1>1 DEF AnswersHold, c, answer
<1>8. ASSUME NEW j \in DOMAIN cache'
      PROVE  \E d \in Calls : /\ Keyed(d) /\ cache'[j].key = Scoped(d)
                              /\ cache'[j].answer = "ok" => d \in done'
  <2>1. CASE cache'[j] = e /\ Keyed(c)
    BY <1>1, <1>2, <1>7, <2>1
  <2>2. CASE \E i \in DOMAIN cache : cache'[j] = cache[i]
    BY <1>1, <2>2 DEF EntriesHold
  <2>3. QED
    BY <1>5, <2>1, <2>2
<1>9. EntriesHold'
  BY <1>1, <1>8 DEF EntriesHold
<1>10. \A g \in Handlers, d \in Calls : Serves(g, d)' => Serves(g, d)
  BY <1>1 DEF Serves, Serving, Idle
<1>11. OneRun'
  BY <1>4, <1>10 DEF OneRun
<1>12. NotYetDone'
  BY <1>1, <1>4 DEF NotYetDone, Idle
<1>13. ASSUME NEW d \in done' \ lapsed'
       PROVE  \/ \E j \in DOMAIN cache' : cache'[j].key = Scoped(d) /\ cache'[j].fresh
              \/ \E g \in Handlers : /\ handlers'[g].at = "answering"
                                     /\ handlers'[g].call = d /\ handlers'[g].answer = "ok"
  <2>1. d \in Calls /\ d \in done \ lapsed /\ d \notin lapsed' /\ Keyed(d)
    BY <1>1, <1>4 DEF CacheTypeOK, EntriesHold
  <2>2. CASE Fresh(d) # {}
    <3>1. PICK i \in DOMAIN cache : cache[i].key = Scoped(d) /\ cache[i].fresh
      BY <2>2 DEF Fresh
    <3>2. d \in CallsOf({cache[i]})
      BY <2>1, <3>1 DEF CallsOf
    <3>3. CASE cache[i].key = Scoped(c) /\ Keyed(c) /\ answer # "error"
      <4>1. PICK j \in DOMAIN cache' : cache'[j] = e
        BY <1>5, <3>3
      <4>2. cache'[j].key = Scoped(d) /\ cache'[j].fresh
        BY <3>1, <3>3, <4>1
      <4>3. QED
        BY <4>2
    <3>4. CASE \E j \in DOMAIN cache' : cache'[j] = cache[i]
      BY <3>1, <3>4
    <3>5. QED
      BY <1>5, <2>1, <3>2, <3>3, <3>4
  <2>3. ASSUME NEW g \in Handlers, handlers[g].at = "answering", handlers[g].call = d,
               handlers[g].answer = "ok"
        PROVE  \/ \E j \in DOMAIN cache' : cache'[j].key = Scoped(d) /\ cache'[j].fresh
               \/ \E f \in Handlers : /\ handlers'[f].at = "answering"
                                      /\ handlers'[f].call = d /\ handlers'[f].answer = "ok"
    <3>1. CASE g = h
      <4>1. c = d /\ answer = "ok"
        BY <2>3, <3>1 DEF c, answer
      <4>2. PICK j \in DOMAIN cache' : cache'[j] = e
        BY <1>5, <2>1, <4>1
      <4>3. cache'[j].key = Scoped(d) /\ cache'[j].fresh
        BY <4>1, <4>2
      <4>4. QED
        BY <4>3
    <3>2. CASE g # h
      BY <1>1, <2>3, <3>2
    <3>3. QED
      BY <3>1, <3>2
  <2>4. QED
    BY <2>1, <2>2, <2>3 DEF Protected
<1>14. Protected'
  BY <1>13 DEF Protected, Fresh
<1>15. AnswersHold'
  BY <1>1 DEF AnswersHold, Idle
<1>16. QED
  BY <1>6, <1>9, <1>11, <1>12, <1>14, <1>15

(* An entry outlives the TTL: its call is protected no longer.             *)
LEMMA ExpireStep ==
    ASSUME CacheInv, IntakeTypeOK, TimePasses
    PROVE  CacheInv'
<1> USE DEF CacheInv
<1>1. PICK i \in DOMAIN cache :
         /\ cache' = [cache EXCEPT ![i].fresh = FALSE]
         /\ lapsed' = lapsed \cup CallsOf({cache[i]})
         /\ done' = done /\ repeated' = repeated
  BY DEF TimePasses, Expire
<1>2. handlers' = handlers
  BY DEF TimePasses, intakeVars
<1>3. /\ cache \in Seq(Entry) /\ DOMAIN cache = 1 .. Len(cache) /\ Len(cache) <= MaxKeys
      /\ cache[i] \in Entry
  <2>1. cache \in Seq(Entry) /\ Len(cache) <= MaxKeys
    BY DEF CacheTypeOK, Entry
  <2>2. DOMAIN cache = 1 .. Len(cache)
    BY <2>1, LenProperties
  <2>3. QED
    BY <2>1, <2>2, ElementOfSeq
<1>4. [cache[i] EXCEPT !.fresh = FALSE] \in Entry
  BY <1>3 DEF Entry
<1>5. /\ cache' \in Seq(Entry) /\ Len(cache') = Len(cache)
      /\ \A j \in 1 .. Len(cache) :
            cache'[j] = IF j = i THEN [cache[i] EXCEPT !.fresh = FALSE] ELSE cache[j]
  BY <1>1, <1>3, <1>4, ExceptSeq
<1>6. DOMAIN cache' = DOMAIN cache
  BY <1>3, <1>5, LenProperties
<1>7. \A j \in DOMAIN cache : /\ cache'[j].key = cache[j].key
                              /\ cache'[j].answer = cache[j].answer
                              /\ j # i => cache'[j] = cache[j]
  BY <1>3, <1>5 DEF Entry
<1>8. lapsed \subseteq lapsed' /\ lapsed' \subseteq Calls
  BY <1>1 DEF CacheTypeOK, CallsOf
<1>9. CacheTypeOK' /\ RepeatedOnlyAfterLapse'
  BY <1>1, <1>3, <1>5, <1>8 DEF CacheTypeOK, Entry, RepeatedOnlyAfterLapse
<1>10. EntriesHold'
  BY <1>1, <1>6, <1>7 DEF EntriesHold
<1>11. OneRun' /\ NotYetDone' /\ AnswersHold'
  BY <1>1, <1>2, <1>8 DEF OneRun, NotYetDone, AnswersHold, Serves
<1>12. ASSUME NEW d \in done \ lapsed', Fresh(d) # {}
       PROVE  \E j \in DOMAIN cache' : cache'[j].key = Scoped(d) /\ cache'[j].fresh
  <2>1. PICK j \in DOMAIN cache : cache[j].key = Scoped(d) /\ cache[j].fresh
    BY <1>12 DEF Fresh
  <2>2. j # i
    BY <1>1, <1>12, <2>1 DEF CallsOf, CacheTypeOK
  <2>3. QED
    BY <1>6, <1>7, <2>1, <2>2
<1>13. Protected'
  <2>1. SUFFICES ASSUME NEW d \in done \ lapsed', ~(Fresh(d)' # {})
                 PROVE  \E h \in Handlers : /\ handlers[h].at = "answering"
                                            /\ handlers[h].call = d
                                            /\ handlers[h].answer = "ok"
    BY <1>1, <1>2 DEF Protected
  <2>2. Fresh(d) = {}
    BY <1>12, <2>1 DEF Fresh
  <2>3. QED
    BY <1>8, <2>2 DEF Protected
<1>14. QED
  BY <1>9, <1>10, <1>11, <1>13

(* The process dies: the map and every run under way with it.              *)
LEMMA RestartStep ==
    ASSUME CacheInv, IntakeTypeOK, Restart
    PROVE  CacheInv'
<1> USE DEF CacheInv
<1>1. /\ cache' = << >> /\ done' = done /\ repeated' = repeated
      /\ lapsed' = lapsed \cup UnderWay \cup CallsOf({cache[i] : i \in DOMAIN cache})
      /\ \A h \in Handlers : handlers'[h] = Idle
  BY DEF Restart, ForgetAll
<1>2. lapsed \subseteq lapsed' /\ lapsed' \subseteq Calls
  BY <1>1, ServedCalls DEF CacheTypeOK, CallsOf
<1>3. cache' \in Seq(Entry) /\ Len(cache') = 0 /\ DOMAIN cache' = {}
  BY <1>1, EmptySeq
<1>4. CacheTypeOK' /\ RepeatedOnlyAfterLapse' /\ EntriesHold'
  <2>1. Len(cache') <= MaxKeys
    BY <1>3, IdempotencyAssumption
  <2>2. QED
    BY <1>1, <1>2, <1>3, <2>1
       DEF CacheTypeOK, Entry, RepeatedOnlyAfterLapse, EntriesHold
<1>5. OneRun' /\ NotYetDone' /\ AnswersHold'
  BY <1>1 DEF OneRun, NotYetDone, AnswersHold, Serves, Serving, Idle
<1>6. ASSUME NEW d \in done \ lapsed' PROVE FALSE
  <2>1. d \in Calls /\ d \in done \ lapsed
    BY <1>2, <1>6 DEF CacheTypeOK
  <2>2. Fresh(d) = {}
    BY <1>1, <1>6, <2>1 DEF Fresh, CallsOf
  <2>3. PICK h \in Handlers : handlers[h].at = "answering" /\ handlers[h].call = d
    BY <2>1, <2>2 DEF Protected
  <2>4. Serves(h, d)
    BY <2>3 DEF Serves, Serving
  <2>5. QED
    BY <1>1, <1>6, <2>1, <2>4, ServedCalls
<1>7. Protected'
  BY <1>1, <1>6 DEF Protected
<1>8. QED
  BY <1>4, <1>5, <1>7

LEMMA CacheInvStep == CacheInv /\ IntakeTypeOK /\ [Next]_vars => CacheInv'
<1> SUFFICES ASSUME CacheInv, IntakeTypeOK, [Next]_vars PROVE CacheInv'
  OBVIOUS
<1>1. CASE UNCHANGED <<cacheVars, handlers>>
  BY <1>1 DEF cacheVars, CacheInv, CacheTypeOK, OneRun, NotYetDone, Protected,
              AnswersHold, EntriesHold, RepeatedOnlyAfterLapse, Serves, Fresh
<1>2. ASSUME NEW h \in Handlers, HandlerStep(h)
      PROVE  CacheInv'
  <2>1. Idle.at \notin Serving /\ {"patching", "administering"} \cap Serving = {}
    BY DEF Idle, Serving
  <2>2. ASSUME NEW c \in Calls, Send(h, c)
        PROVE  CacheInv'
    BY <2>2, SendStep
  <2>3. CASE Respond(h)
    BY <2>3, RespondStep
  <2>4. CASE Fail(h)
    <3>1. CASE handlers[h].at \in Serving
      <4>1. handlers[h].at \in {"admitted", "receiving"}
        BY <2>4, <3>1 DEF Fail, Serving
      <4>2. Goto(h, [at |-> "answering", call |-> handlers[h].call, answer |-> "error"])
        BY <2>4, <3>1 DEF Fail, Answering
      <4>3. UNCHANGED cacheVars
        BY <2>4 DEF Fail
      <4>4. QED
        BY <4>1, <4>2, <4>3, QuietStep
    <3>2. CASE handlers[h].at \notin Serving
      <4>1. Goto(h, Idle) /\ UNCHANGED cacheVars
        BY <2>4, <3>2 DEF Fail
      <4>2. QED
        BY <2>1, <3>2, <4>1, QuietStep
    <3>3. QED
      BY <3>1, <3>2
  <2>5. ASSUME handlers[h].at \in {"admitted", "receiving"}, Answering(h, "refused"),
               UNCHANGED cacheVars
        PROVE  CacheInv'
    BY <2>5, QuietStep DEF Answering
  <2>6. CASE Refuse(h)
    BY <2>5, <2>6 DEF Refuse
  <2>7. CASE BookingCreate(h)
    BY <2>7, CommitStep DEF BookingCreate, Admitted
  <2>8. ASSUME NEW b \in Bookings, BookingUpdateRead(h, b) \/ AdminUpdateRead(h, b)
        PROVE  CacheInv'
    <3>1. PICK at \in {"patching", "administering"} :
             Goto(h, [at |-> at, booking |-> b, row |-> bookings[b]])
      BY <2>8 DEF BookingUpdateRead, AdminUpdateRead
    <3>2. handlers[h] = Idle /\ UNCHANGED cacheVars
      BY <2>8 DEF BookingUpdateRead, AdminUpdateRead
    <3>3. QED
      BY <2>1, <3>1, <3>2, QuietStep
  <2>9. CASE BookingUpdateWrite(h) \/ AdminUpdateWrite(h)
    <3>1. Goto(h, Idle) /\ UNCHANGED cacheVars /\ handlers[h].at \notin Serving
      BY <2>1, <2>9 DEF BookingUpdateWrite, AdminUpdateWrite
    <3>2. QED
      BY <2>1, <3>1, QuietStep
  <2>10. CASE ReceiveRead(h)
    <3>1. handlers[h].at \in {"admitted", "receiving"} /\ UNCHANGED cacheVars
      BY <2>10 DEF ReceiveRead, Admitted
    <3>2. CASE Answering(h, "refused")
      BY <2>5, <3>1, <3>2
    <3>3. CASE Goto(h, [at |-> "receiving", call |-> handlers[h].call])
      BY <3>1, <3>3, QuietStep
    <3>4. QED
      BY <2>10, <3>2, <3>3 DEF ReceiveRead
  <2>11. CASE ReceiveCommit(h)
    BY <2>11, CommitStep DEF ReceiveCommit
  <2>12. CASE LockerReceive(h)
    BY <2>12, CommitStep DEF LockerReceive, Admitted
  <2>13. CASE BaysMove(h)
    <3>1. handlers[h].at \in {"admitted", "receiving"} /\ UNCHANGED <<cache, lapsed>>
      BY <2>13 DEF BaysMove, Admitted
    <3>2. CASE Performed(handlers[h].call) /\ Answering(h, "ok")
      BY <3>1, <3>2, CommitStep
    <3>3. CASE Answering(h, "refused") /\ UNCHANGED <<done, repeated>>
      BY <2>5, <3>1, <3>3 DEF cacheVars
    <3>4. QED
      BY <2>13, <3>2, <3>3 DEF BaysMove
  <2>14. QED
    BY <1>2, <2>2, <2>3, <2>4, <2>6, <2>7, <2>8, <2>9, <2>10, <2>11, <2>12, <2>13
       DEF HandlerStep
<1>3. CASE TimePasses
  BY <1>3, ExpireStep
<1>4. CASE Restart
  BY <1>4, RestartStep
<1>5. QED
  BY <1>1, <1>2, <1>3, <1>4 DEF Next, BookingDelete, vars, intakeVars

LEMMA CacheInvInit == Init => CacheInv
<1> SUFFICES ASSUME Init PROVE CacheInv
  OBVIOUS
<1>1. /\ cache = << >> /\ done = {} /\ repeated = {} /\ lapsed = {}
      /\ \A h \in Handlers : handlers[h] = Idle
  BY DEF Init, CacheInit
<1>2. cache \in Seq(Entry) /\ Len(cache) = 0 /\ DOMAIN cache = {}
  BY <1>1, EmptySeq
<1>3. CacheTypeOK /\ RepeatedOnlyAfterLapse /\ EntriesHold /\ Protected
  BY <1>1, <1>2, IdempotencyAssumption
     DEF CacheTypeOK, Entry, RepeatedOnlyAfterLapse, EntriesHold, Protected
<1>4. OneRun /\ NotYetDone /\ AnswersHold
  BY <1>1 DEF OneRun, NotYetDone, AnswersHold, Serves, Serving, Idle
<1>5. QED
  BY <1>3, <1>4 DEF CacheInv

LEMMA CacheInvHolds == Spec => [](CacheInv /\ IInv)
<1>1. CacheInv /\ IInv /\ [Next]_vars => (CacheInv /\ IInv)'
  BY CacheInvStep, InvStep DEF IInv
<1>2. QED
  BY <1>1, CacheInvInit, InvInit, PTL DEF Spec

(* The whole type invariant: the map, bounded by idempotencyMaxKeys, too.  *)
THEOREM IntakeTypeCorrect == Spec => []TypeOK
<1>1. CacheInv /\ IInv => TypeOK
  BY DEF CacheInv, IInv, TypeOK
<1>2. QED
  BY <1>1, CacheInvHolds, PTL

(* idempotency.go: for any calls, size of the map and number of handlers,  *)
(* a keyed call that did not overlap with itself, outlive the TTL, lose    *)
(* its entry or meet a restart has had its effect at most once.            *)
THEOREM RepeatedOnlyAfterLapseCorrect == Spec => []RepeatedOnlyAfterLapse
<1>1. CacheInv => RepeatedOnlyAfterLapse
  BY DEF CacheInv
<1>2. QED
  BY <1>1, CacheInvHolds, PTL

(* idempotency.go: a replayed success is the answer of a call with that    *)
(* path and key that succeeded, for calls that reuse keys as they like.    *)
THEOREM ReplayOfSuccessCorrect == Spec => []ReplayOfSuccess
<1>1. ASSUME CacheInv, NEW c \in Calls, NEW i \in Fresh(c), cache[i].answer = "ok"
      PROVE  \E d \in done : d.path = c.path /\ d.key = c.key
  <2>1. i \in DOMAIN cache /\ cache[i].key = Scoped(c)
    BY DEF Fresh
  <2>2. PICK d \in Calls : Scoped(d) = Scoped(c) /\ d \in done
    BY <1>1, <2>1 DEF CacheInv, EntriesHold
  <2>3. QED
    BY <2>2 DEF Scoped
<1>2. CacheInv => ReplayOfSuccess
  BY <1>1 DEF ReplayOfSuccess
<1>3. QED
  BY <1>2, CacheInvHolds, PTL
================================================================================
