--------------------------------- MODULE Lru ---------------------------------
(***************************************************************************)
(* geecache/lru/lru.go: the list of entries, the most recently used first, *)
(* and the count of bytes.  Operators on a cache as a value, for the       *)
(* modules that hold one.  The map of the code is an index into the list:  *)
(* PlaceOf.                                                                *)
(***************************************************************************)
EXTENDS Integers, Sequences, FiniteSetsExt

CONSTANTS KeyLen,    \* key -> length of the key
          ValLen,    \* value -> Len() of the value
          MaxBytes   \* 0: no limit

Entry(k, v) == [key |-> k, val |-> v]
SizeOf(e)   == KeyLen[e.key] + ValLen[e.val]

(* The bytes of the entries at some places of a list, and of all of them *)
BytesIn(l, places)  == UNION {{i} \X (1..SizeOf(l[i])) : i \in places}
SizeAt(l, places)   == Cardinality(BytesIn(l, places))
Bytes(l)            == SizeAt(l, DOMAIN l)

NewCache == [ll |-> << >>, nbytes |-> 0]

KeysOf(c)     == {c.ll[i].key : i \in DOMAIN c.ll}
PlaceOf(c, k) == CHOOSE i \in DOMAIN c.ll : c.ll[i].key = k
EntryOf(c, k) == c.ll[PlaceOf(c, k)]

(* list.MoveToFront: those before it make room *)
MoveToFront(l, i) ==
  [j \in DOMAIN l |-> l[IF j = 1 THEN i ELSE IF j <= i THEN j - 1 ELSE j]]

(* The n oldest entries removed, their sizes no longer counted.            *)
(* RemoveOldest removes one, when there is one.                            *)
WithoutOldest(c, n) ==
  LET kept == Len(c.ll) - n
  IN [ll |-> SubSeq(c.ll, 1, kept),
      nbytes |-> c.nbytes - SizeAt(c.ll, (kept + 1)..Len(c.ll))]

RemoveOldest(c) == IF c.ll = << >> THEN c ELSE WithoutOldest(c, 1)

(* for c.maxBytes != 0 && c.maxBytes < c.nbytes { c.RemoveOldest() } *)
TooLarge(c) == MaxBytes # 0 /\ MaxBytes < c.nbytes
ShrinkOnce(c) == IF TooLarge(c) THEN RemoveOldest(c) ELSE c   \* Variant: if, not for
Enough(c) == {n \in 0..Len(c.ll) : ~TooLarge(WithoutOldest(c, n)) \/ n = Len(c.ll)}
Shrink(c) == WithoutOldest(c, Min(Enough(c)))

(* An update moves the entry to the front and counts the difference of the *)
(* values; a new entry counts its key too.                                 *)
ReversedDifference(c, k, v) == ValLen[EntryOf(c, k).val] - ValLen[v]   \* Variant
Difference(c, k, v) == ValLen[v] - ValLen[EntryOf(c, k).val]

Put(c, k, v) ==
  IF k \in KeysOf(c)
  THEN [ll |-> [MoveToFront(c.ll, PlaceOf(c, k)) EXCEPT ![1] = Entry(k, v)],
        nbytes |-> c.nbytes + Difference(c, k, v)]
  ELSE [ll |-> <<Entry(k, v)>> \o c.ll,
        nbytes |-> c.nbytes + SizeOf(Entry(k, v))]

AddTo(c, k, v) == Shrink(Put(c, k, v))

(* Get finds a value and moves it to the front *)
NotTouched(c, k) == c   \* Variant: a hit leaves the order alone
Touch(c, k) ==
  IF k \in KeysOf(c) THEN [c EXCEPT !.ll = MoveToFront(c.ll, PlaceOf(c, k))] ELSE c
=============================================================================
