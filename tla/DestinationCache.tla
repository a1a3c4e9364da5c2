--------------------------- MODULE DestinationCache ---------------------------
(***************************************************************************)
(* The public list of destinations behind the tiered cache: Redis in front *)
(* of the process's MemoryCache, both filled by listDestinations and       *)
(* emptied by adminDestinationUpdate.  Every call to Redis, the map and    *)
(* the database is a step of its own, and calls to Redis may fail, with or *)
(* without effect.                                                         *)
(*                                                                         *)
(* Time is counted in units of the 30 s for which the tiered cache copies  *)
(* an entry back to Redis; a listing is cached for TTL units.  A request   *)
(* may see one unit pass, not two: its calls have timeouts of seconds.     *)
(***************************************************************************)
EXTENDS MemoryCache

CONSTANTS
    ListKey,       \* publicDestinationsCacheKey
    Rates,         \* usd_per_lb an admin may set
    Fallback,      \* fallbackDestinations
    Handlers,      \* requests under way
    TTL,           \* publicDestinationsCacheTTL
    CopyTTL,       \* how long the tiered cache copies an entry to Redis for
    None

ASSUME DestinationAssumption ==
    /\ ListKey \in Keys
    /\ Rates \cup {Fallback} \subseteq Values
    /\ Fallback \notin Rates
    /\ TTL \in Nat \ {0} /\ CopyTTL \in Nat \ {0}

VARIABLES
    row,           \* the destination's row in the table destinations
    redis,         \* what Redis has under ListKey
    requests,      \* what each handler is doing
    late,          \* handlers whose request has seen a unit of time pass
    unseen         \* history: how long ago each listing was last the answer

destinationVars == <<items, lru, latest, row, redis, requests, late, unseen>>

Listings == Rates \cup {Fallback}
DestinationRow == [rate : Rates, active : BOOLEAN]

(* listActiveDestinationsFromDB: when no row is active the answer is the   *)
(* built-in list.                                                          *)
Listing(r) == IF r.active THEN r.rate ELSE Fallback

Bound == TTL + CopyTTL + 1
NoRequest == [step |-> "idle"]
Proceed(h, local) == requests' = [requests EXCEPT ![h] = local] /\ UNCHANGED late
Done(h) == requests' = [requests EXCEPT ![h] = NoRequest] /\ late' = late \ {h}

(* The effects a failing call to Redis may have had.                       *)
RedisMayBecome(entry) == redis' \in {redis, entry}

DestinationInit ==
    /\ MemoryInit
    /\ row \in DestinationRow
    /\ redis = None
    /\ requests = [h \in Handlers |-> NoRequest]
    /\ late = {}
    /\ unseen = [v \in Listings |-> IF v = Listing(row) THEN 0 ELSE Bound + 1]

-----------------------------------------------------------------------------
(* listDestinations.  A hit in Redis is answered and changes nothing; this *)
(* is a miss, or a call to Redis that fails.                               *)
MissPrimary(h) ==
    /\ requests[h] = NoRequest
    /\ Proceed(h, [step |-> "fallback"])
    /\ UNCHANGED <<memoryVars, row, redis, unseen>>

ReadFallback(h) ==
    /\ requests[h].step = "fallback"
    /\ Get(ListKey)
    /\ IF Live(ListKey)
       THEN Proceed(h, [step |-> "copy", value |-> items[ListKey].value])
       ELSE Proceed(h, [step |-> "load"])
    /\ UNCHANGED <<row, redis, unseen>>

(* tieredCache.Get: what the second tier had goes back to the first.       *)
CopyToPrimary(h) ==
    /\ requests[h].step = "copy"
    /\ RedisMayBecome([value |-> requests[h].value, left |-> CopyTTL])
    /\ Done(h)
    /\ UNCHANGED <<memoryVars, row, unseen>>

(* The query, or the built-in list when it fails; either is cached.        *)
Load(h) ==
    /\ requests[h].step = "load"
    /\ \E v \in {Listing(row), Fallback} :
          /\ Proceed(h, [step |-> "store", value |-> v])
          /\ unseen' = [unseen EXCEPT ![v] = 0]
    /\ UNCHANGED <<memoryVars, row, redis>>

StorePrimary(h) ==
    /\ requests[h].step = "store"
    /\ RedisMayBecome([value |-> requests[h].value, left |-> TTL])
    /\ Proceed(h, [step |-> "storeFallback", value |-> requests[h].value])
    /\ UNCHANGED <<memoryVars, row, unseen>>

StoreForever(h) == Set(ListKey, requests[h].value, Forever)    \* faulty: no TTL
StoreInMemory(h) == Set(ListKey, requests[h].value, TTL)
StoreFallback(h) ==
    /\ requests[h].step = "storeFallback"
    /\ StoreInMemory(h)
    /\ Done(h)
    /\ UNCHANGED <<row, redis, unseen>>

-----------------------------------------------------------------------------
(* adminDestinationUpdate reads the row, replaces the fields of the body   *)
(* and writes all columns, then drops the listing from both tiers.         *)
AdminRead(h) ==
    /\ requests[h] = NoRequest
    /\ \E new \in {[row EXCEPT !.rate = r] : r \in Rates}
                  \cup {[row EXCEPT !.active = b] : b \in BOOLEAN} :
          Proceed(h, [step |-> "write", row |-> new])
    /\ UNCHANGED <<memoryVars, row, redis, unseen>>

AdminWrite(h) ==
    /\ requests[h].step = "write"
    /\ row' = requests[h].row
    /\ unseen' = [unseen EXCEPT ![Listing(row')] = 0]
    /\ Proceed(h, [step |-> "drop"])
    /\ UNCHANGED <<memoryVars, redis>>

AdminWriteFails(h) ==
    /\ requests[h].step = "write"
    /\ Done(h)
    /\ UNCHANGED <<memoryVars, row, redis, unseen>>

DropPrimary(h) ==
    /\ requests[h].step = "drop"
    /\ RedisMayBecome(None)
    /\ Proceed(h, [step |-> "dropFallback"])
    /\ UNCHANGED <<memoryVars, row, unseen>>

DropFallback(h) ==
    /\ requests[h].step = "dropFallback"
    /\ IF ListKey \in Held THEN Delete(ListKey) ELSE UNCHANGED memoryVars
    /\ Done(h)
    /\ UNCHANGED <<row, redis, unseen>>

-----------------------------------------------------------------------------
(* Other callers of the memory cache, with entries that do not expire:     *)
(* today only the list of destinations is cached, and what a cache with    *)
(* one key does not meet, eviction, is the point of having a bounded one.  *)
UseOther(k) ==
    /\ k # ListKey
    /\ Get(k) \/ Set(k, Fallback, Forever)
    /\ UNCHANGED <<row, redis, requests, late, unseen>>

(* 30 seconds pass.                                                        *)
TimePasses ==
    /\ late = {}
    /\ MemoryAges
    /\ redis' = IF redis = None \/ redis.left = 1 THEN None
                ELSE [redis EXCEPT !.left = @ - 1]
    /\ late' = {h \in Handlers : requests[h] # NoRequest}
    /\ unseen' = [v \in Listings |->
                     IF v = Listing(row) \/ unseen[v] > Bound THEN unseen[v]
                     ELSE unseen[v] + 1]
    /\ UNCHANGED <<row, requests>>

(* The process is restarted; Redis is not.                                 *)
Restart ==
    /\ items' = [k \in {} |-> items[k]]
    /\ lru' = <<>>
    /\ requests' = [h \in Handlers |-> NoRequest]
    /\ late' = {}
    /\ UNCHANGED <<latest, row, redis, unseen>>

ListStep(h) ==
    \/ MissPrimary(h) \/ ReadFallback(h) \/ CopyToPrimary(h)
    \/ Load(h) \/ StorePrimary(h) \/ StoreFallback(h)
AdminStep(h) ==
    \/ AdminRead(h) \/ AdminWrite(h) \/ AdminWriteFails(h)
    \/ DropPrimary(h) \/ DropFallback(h)

DestinationNext ==
    \/ \E h \in Handlers : ListStep(h) \/ AdminStep(h)
    \/ \E k \in Keys : UseOther(k)
    \/ TimePasses \/ Restart

DestinationSpec == DestinationInit /\ [][DestinationNext]_destinationVars

-----------------------------------------------------------------------------
Request ==
    [step : {"idle", "fallback", "load", "drop", "dropFallback"}]
    \cup [step : {"copy", "store", "storeFallback"}, value : Listings]
    \cup [step : {"write"}, row : DestinationRow]

(* Type correctness of the table, both tiers and the requests; of the      *)
(* memory cache also that its list and its map agree.                      *)
DestinationTypeOK ==
    /\ MemoryTypeOK
    /\ row \in DestinationRow
    /\ redis = None \/ redis \in [value : Listings, left : 1 .. TTL + CopyTTL]
    /\ requests \in [Handlers -> Request]
    /\ late \subseteq Handlers
    /\ unseen \in [Listings -> 0 .. Bound + 1]

(* Whatever is dropped, lost or copied back in whatever order, a visitor   *)
(* is never shown a listing that was last right longer ago than the TTL    *)
(* and the copy allow.  An update may be overtaken by a request that read  *)
(* the old rows and stores them after the drop; nothing may keep them      *)
(* beyond that, or circulate them between the tiers.                       *)
StaleBounded ==
    /\ Live(ListKey) => unseen[items[ListKey].value] <= TTL + 1
    /\ redis # None => unseen[redis.value] <= Bound

(* The memory cache keeps the keys it should.                              *)
Recency ==
    INSTANCE RecencyPromise WITH
        held <- Held,
        before <- UsedBefore(lru)

(* The list and the map of MemoryCache together implement a cache that     *)
(* evicts in the order of last use and only when it is full.               *)
EvictsTheOldest == Recency!Spec
=============================================================================
