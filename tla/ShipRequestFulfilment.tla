------------------------ MODULE ShipRequestFulfilment ------------------------
(***************************************************************************)
(* From a customer's packages to a manifest: creating a ship request, and  *)
(* the warehouse's ship queue (process, weigh, stage, manifest).           *)
(*                                                                         *)
(* Clerks work from a page: each acts on a row as the queue listed it some *)
(* time ago, and the handlers compare expected_status with the row.  A     *)
(* call refused with 409 changes nothing and is left out; a clerk may look *)
(* again at any time.                                                      *)
(***************************************************************************)
EXTENDS ShipRequestTable

CONSTANTS
    Packages,      \* ids of locker packages
    Clerks         \* warehouse staff at work

VARIABLES
    items,         \* ship_request_items: the packages of each request
    shipped,       \* packages with status 'shipped' (the others are 'stored')
    manifests,     \* rows of warehouse_manifests
    links,         \* rows of warehouse_manifest_ship_requests
    clerks         \* the row each clerk has on the page, as it was listed

fulfilVars == <<items, shipped, manifests, links, clerks>>

NoView == [view |-> "none"]
View == [view : {"row"}, req : Requests, status : Statuses,
         bay : Bays \cup {None}]
Looking(c) == clerks[c].view = "row"
Close(c) == clerks' = [clerks EXCEPT ![c] = NoView]

-----------------------------------------------------------------------------
(* POST /ship-requests: one transaction.                                   *)

(* GetActiveShipRequestCountByPackageID > 0.                               *)
InActiveRequest(p) ==
    \E r \in Requests :
        /\ p \in items[r]
        /\ ships[r].status \notin {"delivered", "cancelled", "expired"}

(* The UNIQUE constraint on locker_package_id, whatever became of the      *)
(* request the package is on.                                              *)
OnFile(p) == \E r \in Requests : p \in items[r]

Create(r, ps) ==
    /\ ~Exists(ships[r])
    /\ \A p \in ps : ~InActiveRequest(p) /\ ~OnFile(p)
    /\ \E total \in Totals : ships' = [ships EXCEPT ![r] = NewRow(total, now)]
    /\ items' = [items EXCEPT ![r] = ps]
    /\ UNCHANGED <<now, shipped, manifests, links, clerks>>

-----------------------------------------------------------------------------
(* GET /warehouse/ship-queue, and one row of it the clerk picks.           *)
InQueueWhenUnpaid(row) == Exists(row)          \* faulty: the page lists all rows
InQueue(row) == row.payment = "paid"

PickRow(c, r) ==
    /\ InQueue(ships[r])
    /\ clerks' = [clerks EXCEPT ![c] =
                     [view |-> "row", req |-> r, status |-> ships[r].status,
                      bay |-> ships[r].bay]]
    /\ UNCHANGED <<ships, now, items, shipped, manifests, links>>

(* The row still has the status the clerk saw.                             *)
StillAsSeen(c) == Looking(c) /\ ships[clerks[c].req].status = clerks[c].status

(* PATCH /warehouse/ship-queue/:id/process                                 *)
Process(c) ==
    /\ StillAsSeen(c)
    /\ ships' = [ships EXCEPT ![clerks[c].req] =
                    SetStatusIf(@, clerks[c].status, "processing", now)]
    /\ Close(c)
    /\ UNCHANGED <<now, items, shipped, manifests, links>>

(* PATCH /warehouse/ship-queue/:id/weighed                                 *)
NotWeighedIgnored(row) == TRUE                 \* faulty: blind UPDATE
NotWeighed(row) == row.weight = None

Weigh(c) ==
    /\ StillAsSeen(c)
    /\ NotWeighed(ships[clerks[c].req])
    /\ \E w \in Weights :
          ships' = [ships EXCEPT ![clerks[c].req] = SetWeight(@, w, now)]
    /\ Close(c)
    /\ UNCHANGED <<now, items, shipped, manifests, links>>

(* PATCH /warehouse/ship-queue/:id/staged                                  *)
Stage(c, bay, m) ==
    /\ StillAsSeen(c)
    /\ ships' = [ships EXCEPT ![clerks[c].req] = SetStaged(@, bay, m, now)]
    /\ Close(c)
    /\ UNCHANGED <<now, items, shipped, manifests, links>>

-----------------------------------------------------------------------------
(* POST /warehouse/manifests: one transaction over the requests in rs; a   *)
(* request that does not exist rolls it back.  Any status is accepted.     *)

PackagesOfOne(rs) == IF rs = {} THEN {} ELSE items[CHOOSE r \in rs : TRUE]
                                               \* faulty: one request only
PackagesOf(rs) == UNION {items[r] : r \in rs}

CreateManifest(m, rs) ==
    /\ m \notin manifests
    /\ rs # {}
    /\ \A r \in rs : Exists(ships[r])
    /\ manifests' = manifests \cup {m}
    /\ links' = links \cup {<<m, r>> : r \in rs}
    /\ ships' = [r \in Requests |->
                    IF r \in rs THEN ShipOn(ships[r], m, now) ELSE ships[r]]
    /\ shipped' = shipped \cup PackagesOf(rs)
    /\ UNCHANGED <<now, items, clerks>>

-----------------------------------------------------------------------------
FulfilmentTypeOK ==
    /\ TableTypeOK
    /\ items \in [Requests -> SUBSET Packages]
    /\ shipped \subseteq Packages
    /\ manifests \subseteq Manifests
    /\ links \subseteq manifests \X Requests
    /\ clerks \in [Clerks -> View \cup {NoView}]

FulfilmentInit ==
    /\ items = [r \in Requests |-> {}]
    /\ shipped = {}
    /\ manifests = {}
    /\ links = {}
    /\ clerks = [c \in Clerks |-> NoView]

ClerkStep(c) ==
    \/ \E r \in Requests : PickRow(c, r)
    \/ Process(c)
    \/ Weigh(c)
    \/ \E bay \in Bays \cup {None}, m \in Manifests \cup {None} : Stage(c, bay, m)

FulfilmentNext ==
    \/ \E r \in Requests, ps \in SUBSET Packages \ {{}} : Create(r, ps)
    \/ \E c \in Clerks : ClerkStep(c)
    \/ \E m \in Manifests, rs \in SUBSET Requests : CreateManifest(m, rs)

-----------------------------------------------------------------------------
(* A package has left exactly when its request is on a manifest: the       *)
(* manifest's transaction takes every package of every request along, and  *)
(* nothing joins a request later.                                          *)
ShippedWithRequest ==
    \A r \in Requests :
        IF \E m \in manifests : <<m, r>> \in links
        THEN items[r] \subseteq shipped
        ELSE items[r] \cap shipped = {}

(* A row that says shipped names the manifest it is linked to, although    *)
(* staging may rewrite manifest_id and a webhook or a late customs commit  *)
(* may rewrite the status (with no status override to 'shipped').          *)
ShippedOnManifest ==
    \A r \in Requests :
        ships[r].status = "shipped" => <<ships[r].manifest, r>> \in links

(* The first clerk to weigh wins: a recorded weight never changes.         *)
WeightWriteOnce ==
    [][\A r \in Requests :
          ships[r].weight # None => ships'[r].weight = ships[r].weight]_ships

=============================================================================
