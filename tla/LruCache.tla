------------------------------- MODULE LruCache -------------------------------
(* The LRU cache as a state machine, and what its callers rely on. *)
EXTENDS Lru

CONSTANTS Keys, Vals

ASSUME LruAssumption ==
  KeyLen \in [Keys -> Nat] /\ ValLen \in [Vals -> Nat] /\ MaxBytes \in Nat

VARIABLES cache,
          recency    \* history: every key ever used, the latest first

lruVars == <<cache, recency>>

LruTypeOK ==
  /\ cache.ll \in Seq([key : Keys, val : Vals])
  /\ cache.nbytes \in Nat
  /\ recency \in Seq(Keys)

LruInit == cache = NewCache /\ recency = << >>

(* k is now the key used last, and is no longer where it was *)
Use(k) ==
  recency' = IF \E i \in DOMAIN recency : recency[i] = k
             THEN MoveToFront(recency, CHOOSE i \in DOMAIN recency : recency[i] = k)
             ELSE <<k>> \o recency

Add(k, v) ==
  /\ cache' = AddTo(cache, k, v)
  /\ Use(k)

Get(k) ==
  /\ k \in KeysOf(cache)
  /\ cache' = Touch(cache, k)
  /\ Use(k)

Evict ==
  /\ cache.ll # << >>
  /\ cache' = RemoveOldest(cache)
  /\ UNCHANGED recency

LruNext == Evict \/ \E k \in Keys : Get(k) \/ \E v \in Vals : Add(k, v)

-----------------------------------------------------------------------------
(* nbytes is the size of what is stored, however entries were added,       *)
(* updated and removed, and that stays within the limit, also when a new   *)
(* value alone is too large: were it not, the eviction loop of Add would   *)
(* keep too much, drop too much, or spin on an empty list.                 *)
BytesWithinLimit ==
  /\ cache.nbytes = Bytes(cache.ll)
  /\ ~TooLarge(cache)

(* What is kept is what was used last: no key was dropped while a key used *)
(* less recently stayed.  The list is in the order of use.                 *)
KeepsMostRecent ==
  [i \in DOMAIN cache.ll |-> cache.ll[i].key] = SubSeq(recency, 1, Len(cache.ll))
=============================================================================
