--------------------------- MODULE IdempotencyCache ---------------------------
(***************************************************************************)
(* IdempotencyMiddleware and its in-memory map.  A call is a request with  *)
(* its path, Idempotency-Key and body; a client that lost the answer sends *)
(* the same call again.  The map is looked up under a lock, the handler    *)
(* runs without it, and the answer is stored under the lock afterwards.    *)
(*                                                                         *)
(* The map is a sequence in createdAt order, so its oldest entry is the    *)
(* head and the entries older than idempotencyTTL come first.              *)
(***************************************************************************)
EXTENDS Naturals, Sequences

CONSTANTS
    Calls,         \* the calls clients send, each any number of times
    NoKey,         \* the key of a call without the header
    MaxKeys        \* idempotencyMaxKeys

ASSUME IdempotencyAssumption == MaxKeys \in Nat \ {0}

VARIABLES
    cache,         \* idempotencyCache
    done,          \* history: calls whose effect has been committed
    repeated,      \* history: calls whose effect has been committed again
    lapsed         \* history: calls the map could not protect

cacheVars == <<cache, done, repeated, lapsed>>

(* A handler's answer: 2xx, 4xx or 5xx.                                    *)
Answers == {"ok", "refused", "error"}

Keyed(c) == c.key # NoKey
KeyOnly(c) == <<c.key>>                        \* faulty: not scoped by path
Scoped(c) == <<c.path, c.key>>

Fresh(c) == {i \in DOMAIN cache : cache[i].key = Scoped(c) /\ cache[i].fresh}
Held(c) == Keyed(c) /\ Fresh(c) # {}

(* The calls that lose their protection with the entries in es.            *)
CallsOf(es) == {c \in Calls : \E e \in es : e.key = Scoped(c)}

-----------------------------------------------------------------------------
(* When the entry is there and younger than the TTL, it is sent, nothing   *)
(* changes and the handler does not run.  Otherwise it is to run.  Nothing *)
(* in the map says that another run of the same call is under way.         *)
Admit(c, underWay) ==
    /\ ~Held(c)
    /\ lapsed' = IF Keyed(c) /\ c \in underWay THEN lapsed \cup {c} ELSE lapsed
    /\ UNCHANGED <<cache, done, repeated>>

(* What a handler's commit means to the history, which is about keys.      *)
Performed(c) ==
    /\ done' = IF Keyed(c) THEN done \cup {c} ELSE done
    /\ repeated' = IF c \in done THEN repeated \cup {c} ELSE repeated

(* Store: evictOldestLocked when the map is full, even to replace an entry *)
(* of the same key.  Errors are not stored.                                *)
RoomOffByOne ==                                \* faulty: one entry too many
    IF Len(cache) > MaxKeys THEN Tail(cache) ELSE cache
Room == IF Len(cache) >= MaxKeys THEN Tail(cache) ELSE cache
Evicted == IF Len(cache) >= MaxKeys THEN {Head(cache)} ELSE {}

(* A map holds one entry of a key: a new one takes the place of it.        *)
WithoutKey(s, key) ==
    IF \E i \in DOMAIN s : s[i].key = key
    THEN LET i == CHOOSE j \in DOMAIN s : s[j].key = key
         IN  SubSeq(s, 1, i - 1) \o SubSeq(s, i + 1, Len(s))
    ELSE s

RememberIfRoom(c, answer) ==                   \* faulty: a full map learns nothing
    IF Len(cache) >= MaxKeys THEN cache
    ELSE Append(WithoutKey(cache, Scoped(c)),
                [key |-> Scoped(c), answer |-> answer, fresh |-> TRUE])
Remember(c, answer) ==
    Append(WithoutKey(Room, Scoped(c)),
           [key |-> Scoped(c), answer |-> answer, fresh |-> TRUE])

Answer(c, answer) ==
    IF Keyed(c) /\ answer # "error"
    THEN /\ cache' = Remember(c, answer)
         /\ lapsed' = lapsed \cup CallsOf({e \in Evicted : e.key # Scoped(c)})
    ELSE UNCHANGED <<cache, lapsed>>

-----------------------------------------------------------------------------
(* The oldest entry that is younger than the TTL reaches it.  It stays in  *)
(* the map, and counts, until it is evicted or overwritten.                *)
Expire ==
    \E i \in DOMAIN cache :
       /\ cache[i].fresh
       /\ \A j \in 1 .. i - 1 : ~cache[j].fresh
       /\ cache' = [cache EXCEPT ![i].fresh = FALSE]
       /\ lapsed' = lapsed \cup CallsOf({cache[i]})
       /\ UNCHANGED <<done, repeated>>

(* The process restarts: the map is empty, and whatever was being served   *)
(* has been committed or has not.                                          *)
ForgetAll(underWay) ==
    /\ cache' = << >>
    /\ lapsed' = lapsed \cup underWay
                        \cup CallsOf({cache[i] : i \in DOMAIN cache})
    /\ UNCHANGED <<done, repeated>>

-----------------------------------------------------------------------------
CacheTypeOK ==
    /\ cache \in Seq([key : {Scoped(c) : c \in Calls},
                      answer : Answers \ {"error"}, fresh : BOOLEAN])
    /\ Len(cache) <= MaxKeys
    /\ done \subseteq Calls
    /\ repeated \subseteq done
    /\ lapsed \subseteq Calls

CacheInit ==
    /\ cache = << >>
    /\ done = {}
    /\ repeated = {}
    /\ lapsed = {}

(* A call has its effect once, however often it is sent and however full   *)
(* the map is, unless it lost its protection: it overlapped with another   *)
(* run of itself, outlived the TTL, was evicted, or met a restart.         *)
RepeatedOnlyAfterLapse == repeated \subseteq lapsed

(* A replay that says a call succeeded is the answer of one that did, on   *)
(* the same path and with the same key: never of another path's call, nor  *)
(* of a handler that failed.  It need not be the caller's own: the map     *)
(* knows neither users nor bodies, and whoever reuses a key on a path is   *)
(* given the answer of the first.                                          *)
ReplayOfSuccess ==
    \A c \in Calls :
       (\E i \in Fresh(c) : cache[i].answer = "ok")
           => \E d \in done : d.path = c.path /\ d.key = c.key
=============================================================================
