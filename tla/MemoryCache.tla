----------------------------- MODULE MemoryCache -----------------------------
(***************************************************************************)
(* services.MemoryCache: a map of entries that expire, and a list of the   *)
(* keys in the order of their last use, from which the least recently used *)
(* key is evicted when the map is full.  Every method runs under the lock, *)
(* so each is one step.                                                    *)
(*                                                                         *)
(* An entry's expiresAt is given relative to now, in the units of          *)
(* DestinationCache: 0 is an entry that expires now and is still served    *)
(* (now.After), Lapsed one that is past it and waits for the Get that      *)
(* finds it so.                                                            *)
(***************************************************************************)
EXTENDS Integers, SequencesExt

CONSTANTS
    Keys,          \* what callers store values under
    Values,        \* what they store
    Cap            \* the capacity, defaultMemoryCacheCap

ASSUME MemoryCacheAssumption == Cap \in Nat \ {0}

VARIABLES
    items,         \* the map, from the keys it holds to their entries
    lru,           \* the list, least recently used first
    latest         \* history: the key last found or stored

memoryVars == <<items, lru, latest>>

Lapsed == -1
Forever == -2                                  \* expiresAt.IsZero()

Held == DOMAIN items
Live(k) == k \in Held /\ items[k].left # Lapsed

MemoryInit ==
    /\ items = [k \in {} |-> [value |-> "none", left |-> Lapsed]]
    /\ lru = <<>>
    /\ latest = "none"

(* container/list: a key out of the list, and a key used last.             *)
Without(s, k) ==
    IF k \in ToSet(s) THEN RemoveAt(s, CHOOSE i \in DOMAIN s : s[i] = k) ELSE s
NotMoved(k) == lru                             \* faulty: no promotion
Moved(k) == Append(Without(lru, k), k)

(* removeLocked: out of the map and out of the list.                       *)
RemoveLocked(k) ==
    /\ items' = [x \in Held \ {k} |-> items[x]]
    /\ lru' = Without(lru, k)
    /\ UNCHANGED latest

(* Get: a live entry becomes the most recently used one, a lapsed one is   *)
(* removed.                                                                *)
Get(k) ==
    \/ /\ Live(k)
       /\ lru' = Moved(k)
       /\ latest' = k
       /\ UNCHANGED items
    \/ /\ k \in Held /\ ~Live(k)
       /\ RemoveLocked(k)
    \/ /\ k \notin Held
       /\ UNCHANGED memoryVars

(* How many keys Set evicts from the front: none when the key is held.     *)
Evictions(k) == IF k \in Held \/ Len(lru) < Cap THEN 0 ELSE Len(lru) - Cap + 1

(* Set: replace in place, or evict until there is room and insert.         *)
Set(k, v, left) ==
    LET gone == ToSet(SubSeq(lru, 1, Evictions(k)))
        kept == SubSeq(lru, Evictions(k) + 1, Len(lru))
        entry == [value |-> v, left |-> left]
    IN  /\ items' = [x \in (Held \ gone) \cup {k} |->
                        IF x = k THEN entry ELSE items[x]]
        /\ lru' = Append(Without(kept, k), k)
        /\ latest' = k

Delete(k) == RemoveLocked(k)

(* A unit of time passes.                                                  *)
Older(left) == IF left \in {Lapsed, Forever} THEN left ELSE left - 1
MemoryAges ==
    /\ items' = [k \in Held |-> [items[k] EXCEPT !.left = Older(@)]]
    /\ UNCHANGED <<lru, latest>>

(* The order of last use, as pairs of keys.                                *)
UsedBefore(s) ==
    {p \in ToSet(s) \X ToSet(s) :
        \E i, j \in DOMAIN s : i < j /\ s[i] = p[1] /\ s[j] = p[2]}

-----------------------------------------------------------------------------
(* Types, and that the list and the map agree: every key that is held is   *)
(* in the list exactly once, nothing else is, and there are at most Cap.   *)
(* A key that is in the list only would block eviction, one that is in the *)
(* map only could never be evicted.                                        *)
MemoryTypeOK ==
    /\ Held \subseteq Keys
    /\ items \in [Held -> [value : Values, left : Nat \cup {Lapsed, Forever}]]
    /\ lru \in Seq(Keys)
    /\ ToSet(lru) = Held
    /\ IsInjective(lru)
    /\ Len(lru) <= Cap
    /\ latest \in Keys \cup {"none"}
=============================================================================
