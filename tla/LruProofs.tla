------------------------------ MODULE LruProofs ------------------------------
(***************************************************************************)
(* What the operators of Lru do to the list of entries and to the bytes in *)
(* it: the facts that the proofs about its users rest on.                  *)
(***************************************************************************)
EXTENDS Lru, FiniteSetTheorems, SequenceTheorems, WellFoundedInduction, TLAPS

(* No two entries have the same key: an entry is found by its key. *)
OneEach(l) == \A i, j \in DOMAIN l : l[i].key = l[j].key => i = j

LEMMA LeastNatural ==
  ASSUME NEW T, T \subseteq Nat, T # {}
  PROVE  \E x \in T : \A y \in T : x <= y
<1> DEFINE R == OpToRel(<, Nat)
<1>1. IsWellFoundedOn(R, Nat)
  BY NatLessThanWellFounded
<1>2. \A x, y \in Nat : y < x => <<y, x>> \in R
  BY DEF OpToRel
<1> HIDE DEF R
<1>3. PICK x \in T : \A y \in T : ~ (<<y, x>> \in R)
  BY <1>1, WFMin
<1>4. ASSUME NEW y \in T PROVE x <= y
  <2>1. x \in Nat /\ y \in Nat /\ ~(y < x)
    BY <1>2, <1>3
  <2> QED BY <2>1
<1> QED BY <1>3, <1>4

-----------------------------------------------------------------------------
(* The list *)

(* Where the j-th entry stood before the i-th was moved to the front *)
Stood(i, j) == IF j = 1 THEN i ELSE IF j <= i THEN j - 1 ELSE j

LEMMA StoodIsBijection ==
  ASSUME NEW n \in Nat, NEW i \in 1..n
  PROVE  [j \in 1..n |-> Stood(i, j)] \in Bijection(1..n, 1..n)
<1> DEFINE f == [j \in 1..n |-> Stood(i, j)]
<1>1. f \in [1..n -> 1..n]
  BY DEF Stood
<1>2. \A a, b \in 1..n : f[a] = f[b] => a = b
  BY DEF Stood
<1>3. ASSUME NEW t \in 1..n PROVE \E s \in 1..n : f[s] = t
  <2>1. CASE t = i
    <3>1. 1 \in 1..n /\ f[1] = t
      BY <2>1 DEF Stood
    <3> QED BY <3>1
  <2>2. CASE t < i
    <3>1. t + 1 \in 1..n /\ f[t + 1] = t
      BY <2>2 DEF Stood
    <3> QED BY <3>1
  <2>3. CASE t > i
    <3>1. f[t] = t
      BY <2>3 DEF Stood
    <3> QED BY <3>1
  <2> QED BY <2>1, <2>2, <2>3
<1> QED BY <1>1, <1>2, <1>3 DEF Bijection, Injection, Surjection, IsInjective

LEMMA ListIs ==
  ASSUME NEW S, NEW l \in Seq(S)
  PROVE  Len(l) \in Nat /\ DOMAIN l = 1..Len(l) /\ \A i \in 1..Len(l) : l[i] \in S
OBVIOUS

LEMMA MoveToFrontIs ==
  ASSUME NEW S, NEW l \in Seq(S), NEW i \in DOMAIN l
  PROVE  /\ MoveToFront(l, i) \in Seq(S) /\ Len(MoveToFront(l, i)) = Len(l)
         /\ DOMAIN MoveToFront(l, i) = 1..Len(l)
         /\ \A j \in 1..Len(l) : Stood(i, j) \in 1..Len(l) /\ MoveToFront(l, i)[j] = l[Stood(i, j)]
         /\ \A j \in 2..Len(l) : Stood(i, j) # i
<1>1. DOMAIN l = 1..Len(l) /\ Len(l) \in Nat /\ i \in 1..Len(l)
  OBVIOUS
<1>2. \A j \in 1..Len(l) : Stood(i, j) \in 1..Len(l) /\ l[Stood(i, j)] \in S
  BY <1>1 DEF Stood
<1>3. MoveToFront(l, i) = [j \in 1..Len(l) |-> l[Stood(i, j)]]
  BY <1>1 DEF MoveToFront, Stood
<1>4. \A j \in 2..Len(l) : Stood(i, j) # i
  BY <1>1 DEF Stood
<1> QED BY <1>1, <1>2, <1>3, <1>4

LEMMA PlaceOfIs ==
  ASSUME NEW c, NEW k \in KeysOf(c)
  PROVE  PlaceOf(c, k) \in DOMAIN c.ll /\ c.ll[PlaceOf(c, k)].key = k
BY DEF KeysOf, PlaceOf

(* The p-th of a list brought to its front, whatever is there now; and one *)
(* more put before it.                                                     *)
Brought(l, old, p) ==
  /\ p \in 1..Len(old) /\ Len(l) = Len(old)
  /\ \A j \in 2..Len(old) :
       Stood(p, j) \in 1..Len(old) /\ Stood(p, j) # p /\ l[j] = old[Stood(p, j)]
Pushed(l, old) == Len(l) = Len(old) + 1 /\ \A j \in 1..Len(old) : l[j + 1] = old[j]

LEMMA MoveBrings ==
  ASSUME NEW S, NEW l \in Seq(S), NEW p \in DOMAIN l
  PROVE  /\ MoveToFront(l, p) \in Seq(S) /\ MoveToFront(l, p)[1] = l[p]
         /\ Brought(MoveToFront(l, p), l, p)
<1> DEFINE f == MoveToFront(l, p)
<1>1. p \in 1..Len(l) /\ Len(l) \in Nat
  OBVIOUS
<1>2. /\ f \in Seq(S) /\ Len(f) = Len(l)
      /\ \A j \in 1..Len(l) : Stood(p, j) \in 1..Len(l) /\ f[j] = l[Stood(p, j)]
      /\ \A j \in 2..Len(l) : Stood(p, j) # p
  BY MoveToFrontIs
<1> HIDE DEF f
<1>3. f[1] = l[p]
  <2>1. 1 \in 1..Len(l) /\ Stood(p, 1) = p
    BY <1>1 DEF Stood
  <2> QED BY <1>2, <2>1
<1>4. \A j \in 2..Len(l) : j \in 1..Len(l)
  BY <1>1
<1>5. Brought(f, l, p)
  BY <1>1, <1>2, <1>4 DEF Brought
<1> QED BY <1>2, <1>3, <1>5 DEF f

LEMMA PushIs ==
  ASSUME NEW S, NEW x \in S, NEW l \in Seq(S)
  PROVE  <<x>> \o l \in Seq(S) /\ (<<x>> \o l)[1] = x /\ Pushed(<<x>> \o l, l)
<1> DEFINE e == <<x>>
<1>1. e \in Seq(S) /\ Len(e) = 1 /\ e[1] = x /\ Len(l) \in Nat
  OBVIOUS
<1> HIDE DEF e
<1>2. /\ e \o l \in Seq(S) /\ Len(e \o l) = Len(e) + Len(l)
      /\ \A i \in 1..Len(e) + Len(l) : (e \o l)[i] = IF i <= Len(e) THEN e[i] ELSE l[i - Len(e)]
  BY <1>1, ConcatProperties
<1>3. (e \o l)[1] = x
  BY <1>1, <1>2
<1>4. ASSUME NEW j \in 1..Len(l) PROVE (e \o l)[j + 1] = l[j]
  <2>1. j + 1 \in 1..Len(e) + Len(l) /\ ~(j + 1 <= Len(e)) /\ j + 1 - Len(e) = j
    BY <1>1
  <2> QED BY <1>2, <2>1
<1>5. Pushed(e \o l, l)
  BY <1>1, <1>2, <1>4 DEF Pushed
<1> QED BY <1>2, <1>3, <1>5 DEF e

(* A list of entries, one for each key; and one with an entry in front of  *)
(* those that another has of other keys.                                   *)
ListOK(l, K, V) == l \in Seq([key : K, val : V]) /\ OneEach(l)
InFront(l, k, v, old) ==
  /\ Len(l) \in Nat \ {0} /\ l[1] = Entry(k, v)
  /\ \A j \in 2..Len(l) : \E i \in DOMAIN old : l[j] = old[i] /\ old[i].key # k

HeadIs(l, K, V, e) == l \in Seq([key : K, val : V]) /\ l[1] = e

LEMMA ListFacts ==
  ASSUME NEW K, NEW V, NEW l, ListOK(l, K, V)
  PROVE  /\ l \in Seq([key : K, val : V]) /\ Len(l) \in Nat /\ DOMAIN l = 1..Len(l)
         /\ \A i \in 1..Len(l) : l[i] \in [key : K, val : V]
         /\ \A i, j \in 1..Len(l) : l[i].key = l[j].key => i = j
<1> DEFINE E == [key : K, val : V]
<1>1. l \in Seq(E) /\ OneEach(l)
  BY DEF ListOK
<1> HIDE DEF E
<1>2. Len(l) \in Nat /\ DOMAIN l = 1..Len(l) /\ \A i \in 1..Len(l) : l[i] \in E
  BY <1>1, ListIs
<1>3. \A i, j \in 1..Len(l) : l[i].key = l[j].key => i = j
  BY <1>1, <1>2 DEF OneEach
<1> QED BY <1>1, <1>2, <1>3 DEF E

(* An update brings the entry of its key to the front. *)
LEMMA PutBrings ==
  ASSUME NEW K, NEW V, NEW c, ListOK(c.ll, K, V), NEW k \in K, NEW v \in V, k \in KeysOf(c)
  PROVE  /\ HeadIs(Put(c, k, v).ll, K, V, Entry(k, v))
         /\ Brought(Put(c, k, v).ll, c.ll, PlaceOf(c, k))
<1> DEFINE E == [key : K, val : V]  l == Put(c, k, v).ll
           p == PlaceOf(c, k)  f == MoveToFront(c.ll, p)
<1>1. Entry(k, v) \in E
  BY DEF Entry
<1>2. c.ll \in Seq(E) /\ Len(c.ll) \in Nat /\ DOMAIN c.ll = 1..Len(c.ll)
  BY ListFacts
<1>3. p \in DOMAIN c.ll /\ c.ll[p].key = k
  BY PlaceOfIs
<1>4. l = [f EXCEPT ![1] = Entry(k, v)]
  BY DEF Put
<1> HIDE DEF E, p, l
<1>5. f \in Seq(E) /\ Brought(f, c.ll, p)
  BY <1>2, <1>3, MoveBrings
<1> HIDE DEF f
<1>6. Len(f) = Len(c.ll) /\ 1 \in DOMAIN f
  BY <1>2, <1>3, <1>5 DEF Brought
<1>7. /\ l \in Seq(E) /\ l[1] = Entry(k, v) /\ Len(l) = Len(c.ll)
      /\ \A j \in 2..Len(c.ll) : l[j] = f[j]
  BY <1>1, <1>4, <1>5, <1>6
<1>8. Brought(l, c.ll, p)
  BY <1>5, <1>7 DEF Brought
<1> QED BY <1>3, <1>7, <1>8 DEF E, l, p, HeadIs

(* An addition pushes an entry before the others. *)
LEMMA PutPushes ==
  ASSUME NEW K, NEW V, NEW c, ListOK(c.ll, K, V), NEW k \in K, NEW v \in V, k \notin KeysOf(c)
  PROVE  /\ HeadIs(Put(c, k, v).ll, K, V, Entry(k, v))
         /\ Pushed(Put(c, k, v).ll, c.ll)
<1> DEFINE E == [key : K, val : V]
<1>1. Entry(k, v) \in E
  BY DEF Entry
<1>2. c.ll \in Seq(E) /\ DOMAIN c.ll = 1..Len(c.ll)
  BY ListFacts
<1>3. Put(c, k, v).ll = <<Entry(k, v)>> \o c.ll
  BY DEF Put
<1> HIDE DEF E
<1>5. /\ <<Entry(k, v)>> \o c.ll \in Seq(E) /\ (<<Entry(k, v)>> \o c.ll)[1] = Entry(k, v)
      /\ Pushed(<<Entry(k, v)>> \o c.ll, c.ll)
  BY <1>1, <1>2, PushIs
<1> QED BY <1>3, <1>5 DEF E, HeadIs

(* Either way there is one entry for each key, this one in front of those  *)
(* of the others.                                                          *)
LEMMA PutIs ==
  ASSUME NEW K, NEW V, NEW c, ListOK(c.ll, K, V), NEW k \in K, NEW v \in V
  PROVE  ListOK(Put(c, k, v).ll, K, V) /\ InFront(Put(c, k, v).ll, k, v, c.ll)
<1> DEFINE l == Put(c, k, v).ll  n == Len(c.ll)
<1>1. /\ n \in Nat /\ DOMAIN c.ll = 1..n
      /\ \A i, j \in 1..n : c.ll[i].key = c.ll[j].key => i = j
  BY ListFacts
<1>2. Entry(k, v).key = k
  BY DEF Entry
<1>3. CASE k \in KeysOf(c)
  <2> DEFINE p == PlaceOf(c, k)
  <2>1. /\ l \in Seq([key : K, val : V]) /\ l[1] = Entry(k, v)
        /\ Brought(l, c.ll, p) /\ c.ll[p].key = k
    <3>1. HeadIs(Put(c, k, v).ll, K, V, Entry(k, v))
      BY <1>3, PutBrings
    <3>2. Brought(Put(c, k, v).ll, c.ll, PlaceOf(c, k))
      BY <1>3, PutBrings
    <3>3. c.ll[PlaceOf(c, k)].key = k
      BY <1>3, PlaceOfIs
    <3> QED BY <3>1, <3>2, <3>3 DEF HeadIs
  <2> HIDE DEF l, p
  <2>2. /\ p \in 1..n /\ Len(l) = n /\ DOMAIN l = 1..n
        /\ \A j \in 2..n : Stood(p, j) \in 1..n /\ Stood(p, j) # p /\ l[j] = c.ll[Stood(p, j)]
    <3>1. DOMAIN l = 1..Len(l)
      BY <2>1
    <3> QED BY <2>1, <3>1 DEF Brought
  <2> HIDE DEF n
  <2>3. \A j \in 2..n : Stood(p, j) \in DOMAIN c.ll /\ l[j] = c.ll[Stood(p, j)]
                        /\ c.ll[Stood(p, j)].key # k
    BY <1>1, <2>1, <2>2
  <2>4. \A i, j \in 2..n : l[i].key = l[j].key => i = j
    <3> SUFFICES ASSUME NEW i \in 2..n, NEW j \in 2..n, l[i].key = l[j].key PROVE i = j
      OBVIOUS
    <3>1. Stood(p, i) = Stood(p, j)
      BY <1>1, <2>2
    <3> QED BY <1>1, <2>2, <3>1 DEF Stood
  <2>5. \A h \in 1..n : h = 1 \/ h \in 2..n
    BY <1>1
  <2>6. OneEach(l)
    BY <1>2, <2>1, <2>2, <2>3, <2>4, <2>5 DEF OneEach
  <2>7. InFront(l, k, v, c.ll)
    BY <1>1, <2>1, <2>2, <2>3 DEF InFront
  <2> QED BY <2>1, <2>6, <2>7 DEF l, ListOK
<1>4. CASE k \notin KeysOf(c)
  <2>1. /\ l \in Seq([key : K, val : V]) /\ l[1] = Entry(k, v) /\ Pushed(l, c.ll)
        /\ \A i \in 1..Len(c.ll) : c.ll[i].key # k
    <3>1. HeadIs(Put(c, k, v).ll, K, V, Entry(k, v))
      BY <1>4, PutPushes
    <3>2. Pushed(Put(c, k, v).ll, c.ll)
      BY <1>4, PutPushes
    <3>3. \A i \in 1..Len(c.ll) : c.ll[i].key # k
      BY <1>1, <1>4 DEF KeysOf
    <3> QED BY <3>1, <3>2, <3>3 DEF HeadIs
  <2> HIDE DEF l
  <2>2. Len(l) = n + 1 /\ DOMAIN l = 1..(n + 1) /\ \A j \in 1..n : l[j + 1] = c.ll[j]
    <3>1. DOMAIN l = 1..Len(l)
      BY <2>1
    <3> QED BY <2>1, <3>1 DEF Pushed
  <2> HIDE DEF n
  <2>3. \A j \in 2..(n + 1) : j - 1 \in 1..n /\ l[j] = c.ll[j - 1] /\ c.ll[j - 1].key # k
    <3> SUFFICES ASSUME NEW j \in 2..(n + 1)
                 PROVE  j - 1 \in 1..n /\ l[j] = c.ll[j - 1] /\ c.ll[j - 1].key # k
      OBVIOUS
    <3>1. j - 1 \in 1..n /\ (j - 1) + 1 = j
      BY <1>1
    <3>2. l[(j - 1) + 1] = c.ll[j - 1]
      BY <2>2, <3>1
    <3> QED BY <2>1, <3>1, <3>2 DEF n
  <2>4. \A i, j \in 2..(n + 1) : l[i].key = l[j].key => i = j
    <3> SUFFICES ASSUME NEW i \in 2..(n + 1), NEW j \in 2..(n + 1), l[i].key = l[j].key
                 PROVE  i = j
      OBVIOUS
    <3>1. i - 1 = j - 1
      BY <1>1, <2>3
    <3> QED BY <1>1, <3>1
  <2>5. \A h \in 1..(n + 1) : h = 1 \/ h \in 2..(n + 1)
    BY <1>1
  <2>6. OneEach(l)
    BY <1>2, <2>1, <2>2, <2>3, <2>4, <2>5 DEF OneEach
  <2>7. InFront(l, k, v, c.ll)
    <3>1. \A j \in 2..Len(l) : \E i \in DOMAIN c.ll : l[j] = c.ll[i] /\ c.ll[i].key # k
      BY <1>1, <2>2, <2>3
    <3>2. Len(l) \in Nat \ {0}
      BY <1>1, <2>2
    <3> QED BY <2>1, <3>1, <3>2 DEF InFront
  <2> QED BY <2>1, <2>6, <2>7 DEF l, ListOK
<1> QED BY <1>3, <1>4

LEMMA WithoutOldestIs ==
  ASSUME NEW S, NEW c, c.ll \in Seq(S), NEW n \in 0..Len(c.ll)
  PROVE  LET l == WithoutOldest(c, n).ll
         IN l \in Seq(S) /\ Len(l) = Len(c.ll) - n /\ \A i \in 1..Len(l) : l[i] = c.ll[i]
<1> DEFINE kept == Len(c.ll) - n
<1>1. kept \in 0..Len(c.ll) /\ Len(c.ll) \in Nat
  OBVIOUS
<1>2. \A i \in 1..kept : c.ll[i] \in S
  BY <1>1
<1>3. WithoutOldest(c, n).ll = SubSeq(c.ll, 1, kept)
  BY DEF WithoutOldest
<1> HIDE DEF kept
<1>4. /\ SubSeq(c.ll, 1, kept) \in Seq(S)
      /\ Len(SubSeq(c.ll, 1, kept)) = IF 1 <= kept THEN kept - 1 + 1 ELSE 0
      /\ \A i \in 1..(kept - 1 + 1) : SubSeq(c.ll, 1, kept)[i] = c.ll[1 + i - 1]
  BY <1>1, <1>2, SubSeqProperties
<1>5. Len(SubSeq(c.ll, 1, kept)) = kept
  BY <1>1, <1>4
<1>6. \A i \in 1..kept : SubSeq(c.ll, 1, kept)[i] = c.ll[i]
  BY <1>1, <1>4
<1> QED BY <1>3, <1>4, <1>5, <1>6 DEF kept

LEMMA WithoutOldestOK ==
  ASSUME NEW K, NEW V, NEW c, ListOK(c.ll, K, V), NEW n \in 0..Len(c.ll)
  PROVE  ListOK(WithoutOldest(c, n).ll, K, V)
<1> DEFINE E == [key : K, val : V]  l == WithoutOldest(c, n).ll
<1>1. /\ Len(c.ll) \in Nat /\ c.ll \in Seq(E)
      /\ \A i, j \in 1..Len(c.ll) : c.ll[i].key = c.ll[j].key => i = j
  BY ListFacts
<1>2. l \in Seq(E) /\ Len(l) = Len(c.ll) - n /\ \A i \in 1..Len(l) : l[i] = c.ll[i]
  <2> HIDE DEF E
  <2> QED BY <1>1, WithoutOldestIs
<1> HIDE DEF l
<1>3. DOMAIN l = 1..Len(l) /\ \A i \in 1..Len(l) : i \in 1..Len(c.ll)
  BY <1>1, <1>2
<1>4. OneEach(l)
  <2> HIDE DEF E
  <2> QED BY <1>1, <1>2, <1>3 DEF OneEach
<1> QED BY <1>2, <1>4 DEF ListOK, l

(* The loop of Add removes some number of entries, and then it is enough. *)
LEMMA ShrinkIs ==
  ASSUME NEW c, Len(c.ll) \in Nat
  PROVE  \E n \in 0..Len(c.ll) : n \in Enough(c) /\ Shrink(c) = WithoutOldest(c, n)
<1>1. Len(c.ll) \in Enough(c) /\ Enough(c) \subseteq 0..Len(c.ll)
  BY DEF Enough
<1>2. \E x \in Enough(c) : \A y \in Enough(c) : x <= y
  <2>1. Enough(c) # {} /\ Enough(c) \subseteq Nat
    BY <1>1
  <2> QED BY <2>1, LeastNatural
<1>3. Min(Enough(c)) \in Enough(c)
  BY <1>2 DEF Min
<1> QED BY <1>1, <1>3 DEF Shrink

(* The entries of a list are those of another, but for one of a key of its *)
(* own.                                                                    *)
NewOrOld(l, k, v, old) ==
  \A j \in 1..Len(l) : \/ l[j] = Entry(k, v)
                       \/ \E i \in 1..Len(old) : l[j] = old[i] /\ old[i].key # k

LEMMA AddIs ==
  ASSUME NEW K, NEW V, NEW c, ListOK(c.ll, K, V), NEW k \in K, NEW v \in V
  PROVE  /\ ListOK(AddTo(c, k, v).ll, K, V) /\ NewOrOld(AddTo(c, k, v).ll, k, v, c.ll)
         /\ AddTo(c, k, v) = [ll |-> AddTo(c, k, v).ll, nbytes |-> AddTo(c, k, v).nbytes]
<1> DEFINE d == Put(c, k, v)  w == AddTo(c, k, v)  E == [key : K, val : V]
<1>1. ListOK(d.ll, K, V) /\ InFront(d.ll, k, v, c.ll)
  BY PutIs
<1>2. DOMAIN c.ll = 1..Len(c.ll)
  BY ListFacts
<1>3. w = Shrink(d)
  BY DEF AddTo
<1> HIDE DEF d, w
<1>4. d.ll \in Seq(E) /\ Len(d.ll) \in Nat
  BY <1>1, ListFacts
<1>5. PICK n \in 0..Len(d.ll) : Shrink(d) = WithoutOldest(d, n)
  BY <1>4, ShrinkIs
<1>6. ListOK(w.ll, K, V)
  BY <1>1, <1>3, <1>5, WithoutOldestOK
<1>7. Len(w.ll) = Len(d.ll) - n /\ \A i \in 1..Len(w.ll) : w.ll[i] = d.ll[i]
  <2> HIDE DEF E
  <2> QED BY <1>3, <1>4, <1>5, WithoutOldestIs
<1>8. NewOrOld(w.ll, k, v, c.ll)
  <2> SUFFICES ASSUME NEW j \in 1..Len(w.ll)
               PROVE  \/ w.ll[j] = Entry(k, v)
                      \/ \E i \in 1..Len(c.ll) : w.ll[j] = c.ll[i] /\ c.ll[i].key # k
    BY DEF NewOrOld
  <2>1. j = 1 \/ j \in 2..Len(d.ll)
    BY <1>4, <1>7
  <2> QED BY <1>1, <1>2, <1>7, <2>1 DEF InFront
<1>9. w = [ll |-> w.ll, nbytes |-> w.nbytes]
  BY <1>3, <1>5 DEF WithoutOldest
<1> QED BY <1>6, <1>8, <1>9 DEF w

(* A list of the entries that another has. *)
ListOf(l, K, V, old) ==
  ListOK(l, K, V) /\ \A j \in 1..Len(l) : \E i \in 1..Len(old) : l[j] = old[i]

LEMMA TouchIs ==
  ASSUME NEW K, NEW V, NEW c, ListOK(c.ll, K, V), c = [ll |-> c.ll, nbytes |-> c.nbytes], NEW k
  PROVE  /\ ListOf(Touch(c, k).ll, K, V, c.ll)
         /\ Touch(c, k) = [ll |-> Touch(c, k).ll, nbytes |-> Touch(c, k).nbytes]
<1> DEFINE t == Touch(c, k)  E == [key : K, val : V]
<1>1. /\ c.ll \in Seq(E) /\ Len(c.ll) \in Nat /\ DOMAIN c.ll = 1..Len(c.ll)
      /\ \A i, j \in 1..Len(c.ll) : c.ll[i].key = c.ll[j].key => i = j
  BY ListFacts
<1>2. CASE k \notin KeysOf(c)
  <2>1. t = c
    BY <1>2 DEF Touch
  <2>2. ListOf(c.ll, K, V, c.ll)
    BY DEF ListOf
  <2> QED BY <2>1, <2>2
<1>3. CASE k \in KeysOf(c)
  <2> DEFINE p == PlaceOf(c, k)  l == MoveToFront(c.ll, p)
  <2>1. p \in DOMAIN c.ll
    BY <1>3, PlaceOfIs
  <2>2. t = [c EXCEPT !.ll = l]
    BY <1>3 DEF Touch
  <2> HIDE DEF p, t
  <2>3. /\ l \in Seq(E) /\ Len(l) = Len(c.ll) /\ DOMAIN l = 1..Len(c.ll)
        /\ \A j \in 1..Len(c.ll) : Stood(p, j) \in 1..Len(c.ll) /\ l[j] = c.ll[Stood(p, j)]
    <3> HIDE DEF E
    <3> QED BY <1>1, <2>1, MoveToFrontIs
  <2> HIDE DEF l
  <2>4. t = [ll |-> l, nbytes |-> c.nbytes]
    BY <2>2
  <2>5. OneEach(l)
    <3> SUFFICES ASSUME NEW i \in 1..Len(c.ll), NEW j \in 1..Len(c.ll), l[i].key = l[j].key
                 PROVE  i = j
      BY <2>3 DEF OneEach
    <3>1. Stood(p, i) = Stood(p, j)
      BY <1>1, <2>3
    <3> QED BY <1>1, <2>1, <3>1 DEF Stood
  <2>6. ListOK(t.ll, K, V)
    BY <2>3, <2>4, <2>5 DEF ListOK
  <2>7. \A j \in 1..Len(t.ll) : \E i \in 1..Len(c.ll) : t.ll[j] = c.ll[i]
    BY <2>3, <2>4
  <2>8. ListOf(t.ll, K, V, c.ll)
    BY <2>6, <2>7 DEF ListOf
  <2>9. t = [ll |-> t.ll, nbytes |-> t.nbytes]
    BY <2>4
  <2> QED BY <2>8, <2>9 DEF t
<1> QED BY <1>2, <1>3

-----------------------------------------------------------------------------
(* The bytes *)

LEMMA BytesAreFinite ==
  ASSUME NEW l, NEW D, IsFiniteSet(D), \A i \in D : SizeOf(l[i]) \in Nat
  PROVE  IsFiniteSet(BytesIn(l, D)) /\ SizeAt(l, D) \in Nat
<1> DEFINE f == [i \in D |-> {i} \X (1..SizeOf(l[i]))]
           T == {{i} \X (1..SizeOf(l[i])) : i \in D}
<1>1. f \in Surjection(D, T)
  BY DEF Surjection
<1>2. IsFiniteSet(T)
  <2> HIDE DEF f, T
  <2> QED BY <1>1, FS_Surjection
<1>3. ASSUME NEW i \in D PROVE IsFiniteSet({i} \X (1..SizeOf(l[i])))
  <2>1. IsFiniteSet(1..SizeOf(l[i])) /\ IsFiniteSet({i})
    <3>1. SizeOf(l[i]) \in Int /\ 1 \in Int
      OBVIOUS
    <3>2. IsFiniteSet(1..SizeOf(l[i]))
      BY <3>1, FS_Interval
    <3> QED BY <3>2, FS_Singleton
  <2> QED BY <2>1, FS_Product
<1>4. \A t \in T : IsFiniteSet(t)
  BY <1>3
<1>5. IsFiniteSet(UNION T)
  <2> HIDE DEF T
  <2> QED BY <1>2, <1>4, FS_UNION
<1>6. BytesIn(l, D) = UNION T
  BY DEF BytesIn
<1> QED BY <1>5, <1>6, FS_CardinalityType DEF SizeAt

LEMMA BytesOfOne ==
  ASSUME NEW l, NEW i, SizeOf(l[i]) \in Nat
  PROVE  SizeAt(l, {i}) = SizeOf(l[i])
<1> DEFINE n == SizeOf(l[i])
<1>1. BytesIn(l, {i}) = {i} \X (1..n)
  BY DEF BytesIn
<1> HIDE DEF n
<1>2. IsFiniteSet(1..n) /\ Cardinality(1..n) = n /\ n \in Nat
  BY FS_Interval DEF n
<1>3. IsFiniteSet({i}) /\ Cardinality({i}) = 1
  BY FS_Singleton
<1>4. Cardinality({i} \X (1..n)) = Cardinality({i}) * Cardinality(1..n)
  BY <1>2, <1>3, FS_Product
<1>5. Cardinality({i} \X (1..n)) = n
  BY <1>2, <1>3, <1>4
<1> QED BY <1>1, <1>5 DEF SizeAt, n

(* The bytes at two disjoint sets of places add up. *)
LEMMA BytesAddUp ==
  ASSUME NEW l, NEW A, NEW B, IsFiniteSet(A), IsFiniteSet(B), A \cap B = {},
         \A i \in A \cup B : SizeOf(l[i]) \in Nat
  PROVE  SizeAt(l, A \cup B) = SizeAt(l, A) + SizeAt(l, B)
<1>1. /\ IsFiniteSet(BytesIn(l, A)) /\ IsFiniteSet(BytesIn(l, B))
      /\ SizeAt(l, A) \in Nat /\ SizeAt(l, B) \in Nat
  BY BytesAreFinite
<1>2. BytesIn(l, A) \cap BytesIn(l, B) = {}
  <2> SUFFICES ASSUME NEW x \in BytesIn(l, A), x \in BytesIn(l, B) PROVE FALSE
    OBVIOUS
  <2>1. PICK i \in A : x \in {i} \X (1..SizeOf(l[i]))
    BY DEF BytesIn
  <2>2. PICK j \in B : x \in {j} \X (1..SizeOf(l[j]))
    BY DEF BytesIn
  <2>3. x[1] = i /\ x[1] = j
    BY <2>1, <2>2
  <2> QED BY <2>3
<1>3. BytesIn(l, A \cup B) = BytesIn(l, A) \cup BytesIn(l, B)
  BY DEF BytesIn
<1>4. Cardinality(BytesIn(l, A) \cap BytesIn(l, B)) = 0
  BY <1>2, FS_EmptySet
<1>5. Cardinality(BytesIn(l, A) \cup BytesIn(l, B))
        = Cardinality(BytesIn(l, A)) + Cardinality(BytesIn(l, B))
          - Cardinality(BytesIn(l, A) \cap BytesIn(l, B))
  BY <1>1, FS_Union
<1>6. /\ SizeAt(l, A \cup B) = Cardinality(BytesIn(l, A) \cup BytesIn(l, B))
      /\ SizeAt(l, A) = Cardinality(BytesIn(l, A)) /\ SizeAt(l, B) = Cardinality(BytesIn(l, B))
  BY <1>3 DEF SizeAt
<1> QED BY <1>1, <1>4, <1>5, <1>6

(* Entries that stand elsewhere have as many bytes as before. *)
MovedBy(s, l, D, g) == \A i \in D : SizeOf(l[i]) \in Nat /\ SizeOf(g[s[i]]) = SizeOf(l[i])
Moved(l, D, g, D2)  == \E s \in Bijection(D, D2) : MovedBy(s, l, D, g)

LEMMA BytesMove ==
  ASSUME NEW l, NEW D, NEW g, NEW D2, IsFiniteSet(D), Moved(l, D, g, D2)
  PROVE  SizeAt(g, D2) = SizeAt(l, D)
<1>0. PICK s \in Bijection(D, D2) :
        \A i \in D : SizeOf(l[i]) \in Nat /\ SizeOf(g[s[i]]) = SizeOf(l[i])
  BY DEF Moved, MovedBy
<1>1. /\ s \in [D -> D2] /\ (\A a, b \in D : s[a] = s[b] => a = b)
      /\ \A t \in D2 : \E a \in D : s[a] = t
  BY <1>0 DEF Bijection, Injection, Surjection, IsInjective
<1> DEFINE f == [x \in BytesIn(l, D) |-> <<s[x[1]], x[2]>>]
<1>2. ASSUME NEW x \in BytesIn(l, D)
      PROVE  x = <<x[1], x[2]>> /\ x[1] \in D /\ x[2] \in 1..SizeOf(l[x[1]])
  <2>1. PICK i \in D : x \in {i} \X (1..SizeOf(l[i]))
    BY DEF BytesIn
  <2> QED BY <2>1
<1>3. ASSUME NEW x \in BytesIn(l, D) PROVE <<s[x[1]], x[2]>> \in BytesIn(g, D2)
  <2>1. s[x[1]] \in D2 /\ x[2] \in 1..SizeOf(g[s[x[1]]])
    BY <1>0, <1>1, <1>2
  <2>2. <<s[x[1]], x[2]>> \in {s[x[1]]} \X (1..SizeOf(g[s[x[1]]]))
    BY <2>1
  <2> QED BY <2>1, <2>2 DEF BytesIn
<1>4. f \in [BytesIn(l, D) -> BytesIn(g, D2)]
  BY <1>3
<1>5. ASSUME NEW x \in BytesIn(l, D), NEW y \in BytesIn(l, D), f[x] = f[y] PROVE x = y
  <2>1. s[x[1]] = s[y[1]] /\ x[2] = y[2]
    BY <1>5
  <2> QED BY <1>1, <1>2, <2>1
<1>6. ASSUME NEW t \in BytesIn(g, D2) PROVE \E x \in BytesIn(l, D) : f[x] = t
  <2>1. PICK j \in D2 : t \in {j} \X (1..SizeOf(g[j]))
    BY DEF BytesIn
  <2>2. PICK i \in D : s[i] = j
    BY <1>1
  <2>3. <<i, t[2]>> \in {i} \X (1..SizeOf(l[i])) /\ t = <<j, t[2]>>
    BY <1>0, <2>1, <2>2
  <2>4. <<i, t[2]>> \in BytesIn(l, D)
    BY <2>3 DEF BytesIn
  <2>5. f[<<i, t[2]>>] = t
    BY <2>2, <2>3, <2>4
  <2> QED BY <2>4, <2>5
<1> HIDE DEF f
<1>7. f \in Bijection(BytesIn(l, D), BytesIn(g, D2))
  BY <1>4, <1>5, <1>6 DEF Bijection, Injection, Surjection, IsInjective
<1>8. IsFiniteSet(BytesIn(l, D))
  BY <1>0, BytesAreFinite
<1>9. Cardinality(BytesIn(g, D2)) = Cardinality(BytesIn(l, D))
  BY <1>7, <1>8, FS_Bijection DEF ExistsBijection
<1> QED BY <1>9 DEF SizeAt

(* An entry has a size when its key and its value have one. *)
SizesOK(K, V) == KeyLen \in [K -> Nat] /\ ValLen \in [V -> Nat]

LEMMA SizesAre ==
  ASSUME NEW K, NEW V, SizesOK(K, V), NEW l \in Seq([key : K, val : V])
  PROVE  /\ \A i \in 1..Len(l) : SizeOf(l[i]) \in Nat
         /\ \A D \in SUBSET (1..Len(l)) : IsFiniteSet(D) /\ SizeAt(l, D) \in Nat
         /\ Bytes(l) \in Nat /\ Bytes(l) = SizeAt(l, 1..Len(l))
         /\ (Len(l) = 0 => Bytes(l) = 0)
<1> DEFINE E == [key : K, val : V]
<1>1. Len(l) \in Nat /\ DOMAIN l = 1..Len(l) /\ \A i \in 1..Len(l) : l[i] \in E
  <2>1. l \in Seq(E)
    OBVIOUS
  <2> HIDE DEF E
  <2> QED BY <2>1, ListIs
<1>2. ASSUME NEW i \in 1..Len(l) PROVE SizeOf(l[i]) \in Nat
  <2>1. l[i].key \in K /\ l[i].val \in V
    BY <1>1
  <2> QED BY <2>1 DEF SizeOf, SizesOK
<1>3. IsFiniteSet(1..Len(l))
  <2>1. Len(l) \in Int /\ 1 \in Int
    BY <1>1
  <2> QED BY <2>1, FS_Interval
<1>4. ASSUME NEW D \in SUBSET (1..Len(l)) PROVE IsFiniteSet(D) /\ SizeAt(l, D) \in Nat
  <2>1. IsFiniteSet(D)
    BY <1>3, FS_Subset
  <2>2. \A i \in D : SizeOf(l[i]) \in Nat
    BY <1>2
  <2> QED BY <2>1, <2>2, BytesAreFinite
<1>5. Bytes(l) = SizeAt(l, 1..Len(l))
  BY <1>1 DEF Bytes
<1>6. Len(l) = 0 => Bytes(l) = 0
  <2> SUFFICES ASSUME Len(l) = 0 PROVE Bytes(l) = 0
    OBVIOUS
  <2>1. 1..Len(l) = {}
    OBVIOUS
  <2>2. BytesIn(l, {}) = {}
    BY DEF BytesIn
  <2> QED BY <1>5, <2>1, <2>2, FS_EmptySet DEF SizeAt
<1>7. Bytes(l) \in Nat
  BY <1>4, <1>5
<1> QED BY <1>2, <1>4, <1>5, <1>6, <1>7

(* The bytes of a list are those of its first n entries and of the rest.   *)
LEMMA BytesSplit ==
  ASSUME NEW K, NEW V, SizesOK(K, V), NEW l \in Seq([key : K, val : V]), NEW n \in 0..Len(l)
  PROVE  Bytes(l) = SizeAt(l, 1..n) + SizeAt(l, (n + 1)..Len(l))
<1>1. Len(l) \in Nat
  OBVIOUS
<1>2. /\ 1..n \in SUBSET (1..Len(l)) /\ (n + 1)..Len(l) \in SUBSET (1..Len(l))
      /\ 1..n \cap (n + 1)..Len(l) = {} /\ (1..n) \cup ((n + 1)..Len(l)) = 1..Len(l)
  BY <1>1
<1>3. /\ \A i \in 1..Len(l) : SizeOf(l[i]) \in Nat
      /\ IsFiniteSet(1..n) /\ IsFiniteSet((n + 1)..Len(l)) /\ Bytes(l) = SizeAt(l, 1..Len(l))
  BY <1>2, SizesAre
<1> HIDE DEF SizesOK
<1>4. SizeAt(l, (1..n) \cup ((n + 1)..Len(l))) = SizeAt(l, 1..n) + SizeAt(l, (n + 1)..Len(l))
  BY <1>2, <1>3, BytesAddUp
<1> QED BY <1>2, <1>3, <1>4

(* Without its oldest entries a cache counts the bytes that are left.      *)
LEMMA WithoutOldestCounts ==
  ASSUME NEW K, NEW V, SizesOK(K, V), NEW c, c.ll \in Seq([key : K, val : V]),
         c.nbytes = Bytes(c.ll), NEW n \in 0..Len(c.ll)
  PROVE  LET w == WithoutOldest(c, n) IN w.nbytes = Bytes(w.ll)
<1> DEFINE E == [key : K, val : V]  w == WithoutOldest(c, n)  kept == Len(c.ll) - n
<1>1. kept \in 0..Len(c.ll) /\ Len(c.ll) \in Nat
  OBVIOUS
<1>2. w.ll \in Seq(E) /\ Len(w.ll) = kept /\ \A i \in 1..kept : w.ll[i] = c.ll[i]
  <2>1. c.ll \in Seq(E)
    OBVIOUS
  <2> HIDE DEF E
  <2> QED BY <2>1, WithoutOldestIs
<1>3. Bytes(c.ll) = SizeAt(c.ll, 1..kept) + SizeAt(c.ll, (kept + 1)..Len(c.ll))
  <2> HIDE DEF kept
  <2> QED BY <1>1, BytesSplit
<1>4. w.nbytes = c.nbytes - SizeAt(c.ll, (kept + 1)..Len(c.ll))
  BY DEF WithoutOldest
<1>5. SizeAt(w.ll, 1..kept) = SizeAt(c.ll, 1..kept)
  <2> HIDE DEF w, kept
  <2>1. \A i \in 1..kept : {i} \X (1..SizeOf(w.ll[i])) = {i} \X (1..SizeOf(c.ll[i]))
    BY <1>2
  <2>2. BytesIn(w.ll, 1..kept) = BytesIn(c.ll, 1..kept)
    BY <2>1 DEF BytesIn
  <2> QED BY <2>2 DEF SizeAt
<1> HIDE DEF w, kept
<1>6. Bytes(w.ll) = SizeAt(w.ll, 1..kept)
  BY <1>2, SizesAre
<1>7. /\ SizeAt(c.ll, 1..kept) \in Nat /\ SizeAt(c.ll, (kept + 1)..Len(c.ll)) \in Nat
  <2>1. 1..kept \in SUBSET (1..Len(c.ll)) /\ (kept + 1)..Len(c.ll) \in SUBSET (1..Len(c.ll))
    BY <1>1
  <2> QED BY <2>1, SizesAre
<1>8. w.nbytes = Bytes(w.ll)
  BY <1>3, <1>4, <1>5, <1>6, <1>7
<1> QED BY <1>8 DEF w

(* The bytes of a list are those of one entry and of all the others.       *)
LEMMA BytesWithout ==
  ASSUME NEW K, NEW V, SizesOK(K, V), NEW l \in Seq([key : K, val : V]), NEW i \in 1..Len(l)
  PROVE  /\ Bytes(l) = SizeOf(l[i]) + SizeAt(l, (1..Len(l)) \ {i})
         /\ SizeOf(l[i]) \in Nat /\ SizeAt(l, (1..Len(l)) \ {i}) \in Nat
<1> DEFINE D == (1..Len(l)) \ {i}
<1>1. /\ \A j \in 1..Len(l) : SizeOf(l[j]) \in Nat
      /\ \A T \in SUBSET (1..Len(l)) : IsFiniteSet(T) /\ SizeAt(l, T) \in Nat
      /\ Bytes(l) = SizeAt(l, 1..Len(l))
  BY SizesAre
<1>2. {i} \in SUBSET (1..Len(l)) /\ D \in SUBSET (1..Len(l)) /\ {i} \cap D = {}
      /\ {i} \cup D = 1..Len(l)
  OBVIOUS
<1> HIDE DEF D, SizesOK
<1>3. SizeAt(l, {i} \cup D) = SizeAt(l, {i}) + SizeAt(l, D)
  BY <1>1, <1>2, BytesAddUp
<1>4. SizeAt(l, {i}) = SizeOf(l[i])
  BY <1>1, BytesOfOne
<1>5. SizeAt(l, D) \in Nat
  BY <1>1, <1>2
<1>6. Bytes(l) = SizeOf(l[i]) + SizeAt(l, D)
  BY <1>1, <1>2, <1>3, <1>4
<1> QED BY <1>1, <1>5, <1>6 DEF D

(* A move to the front keeps the bytes. *)
LEMMA MoveToFrontCounts ==
  ASSUME NEW K, NEW V, SizesOK(K, V), NEW l \in Seq([key : K, val : V]), NEW i \in DOMAIN l
  PROVE  Bytes(MoveToFront(l, i)) = Bytes(l)
<1> DEFINE E == [key : K, val : V]  g == MoveToFront(l, i)  n == Len(l)
           s == [j \in 1..n |-> Stood(i, j)]
<1>1. /\ g \in Seq(E) /\ Len(g) = n
      /\ \A j \in 1..n : Stood(i, j) \in 1..n /\ g[j] = l[Stood(i, j)]
  <2>1. l \in Seq(E)
    OBVIOUS
  <2> HIDE DEF E
  <2> QED BY <2>1, MoveToFrontIs
<1>2. n \in Nat /\ i \in 1..n
  OBVIOUS
<1>3. s \in Bijection(1..n, 1..n)
  <2> HIDE DEF n
  <2> QED BY <1>2, StoodIsBijection
<1>4. \A j \in 1..n : SizeOf(g[j]) \in Nat /\ SizeOf(l[s[j]]) = SizeOf(g[j])
  <2>1. \A j \in 1..n : SizeOf(g[j]) \in Nat
    <3> HIDE DEF g, SizesOK
    <3> QED BY <1>1, SizesAre
  <2>2. \A j \in 1..n : s[j] = Stood(i, j)
    OBVIOUS
  <2> HIDE DEF s, g, n
  <2> QED BY <1>1, <2>1, <2>2
<1>5. Bytes(g) = SizeAt(g, 1..n) /\ Bytes(l) = SizeAt(l, 1..n) /\ IsFiniteSet(1..n)
  <2> HIDE DEF g, SizesOK
  <2>1. 1..n \in SUBSET (1..Len(l))
    OBVIOUS
  <2> QED BY <1>1, <2>1, SizesAre
<1> HIDE DEF s, g, n
<1>6. SizeAt(l, 1..n) = SizeAt(g, 1..n)
  <2>1. Moved(g, 1..n, l, 1..n)
    BY <1>3, <1>4 DEF Moved, MovedBy
  <2> QED BY <1>5, <2>1, BytesMove
<1>7. Bytes(g) = Bytes(l)
  BY <1>5, <1>6
<1> QED BY <1>7 DEF g

(* Put counts what it puts, and no longer what it replaces. *)
LEMMA PutCounts ==
  ASSUME NEW K, NEW V, SizesOK(K, V), NEW c, ListOK(c.ll, K, V), c.nbytes = Bytes(c.ll),
         NEW k \in K, NEW v \in V
  PROVE  Put(c, k, v).nbytes = Bytes(Put(c, k, v).ll)
<1> DEFINE E == [key : K, val : V]  l == Put(c, k, v).ll  n == Len(c.ll)
<1>s. c.ll \in Seq([key : K, val : V])
  BY DEF ListOK
<1>0. c.ll \in Seq(E) /\ Entry(k, v) \in E
  BY DEF Entry, ListOK
<1>1. n \in Nat /\ DOMAIN c.ll = 1..n /\ \A i \in 1..n : c.ll[i] \in E
  <2> HIDE DEF E
  <2> QED BY <1>0, ListIs
<1>2. l \in Seq(E) /\ Len(l) \in Nat \ {0} /\ l[1] = Entry(k, v)
  <2>1. ListOK(l, K, V) /\ InFront(l, k, v, c.ll)
    BY PutIs
  <2> HIDE DEF l
  <2> QED BY <2>1 DEF ListOK, InFront
<1>3. /\ Bytes(l) = SizeOf(Entry(k, v)) + SizeAt(l, 2..Len(l))
      /\ SizeOf(Entry(k, v)) \in Nat /\ SizeAt(l, 2..Len(l)) \in Nat
  <2> HIDE DEF l
  <2>1. 1 \in 1..Len(l) /\ (1..Len(l)) \ {1} = 2..Len(l)
    BY <1>2
  <2>2. /\ Bytes(l) = SizeOf(l[1]) + SizeAt(l, (1..Len(l)) \ {1})
        /\ SizeOf(l[1]) \in Nat /\ SizeAt(l, (1..Len(l)) \ {1}) \in Nat
    BY <1>2, <2>1, BytesWithout
  <2> QED BY <1>2, <2>1, <2>2
<1>4. CASE k \in KeysOf(c)
  <2> DEFINE p == PlaceOf(c, k)  D == (1..n) \ {p}  s == [j \in 2..n |-> Stood(p, j)]
  <2>1. p \in 1..n /\ c.ll[p].key = k
    BY <1>4, <1>1, PlaceOfIs
  <2>2. Len(l) = n /\ \A j \in 2..n : Stood(p, j) \in D /\ l[j] = c.ll[Stood(p, j)]
    <3>1. Brought(l, c.ll, p)
      BY <1>4, PutBrings
    <3> HIDE DEF l, p
    <3> QED BY <3>1 DEF Brought
  <2>4. Put(c, k, v).nbytes = c.nbytes + (ValLen[v] - ValLen[c.ll[p].val])
    BY <1>4 DEF Put, Difference, EntryOf
  <2>5. Bytes(c.ll) = SizeOf(c.ll[p]) + SizeAt(c.ll, D)
        /\ SizeOf(c.ll[p]) \in Nat /\ SizeAt(c.ll, D) \in Nat
    <3>1. p \in 1..Len(c.ll)
      BY <2>1
    <3> HIDE DEF p, E, l, s, n
    <3>2. /\ Bytes(c.ll) = SizeOf(c.ll[p]) + SizeAt(c.ll, (1..Len(c.ll)) \ {p})
          /\ SizeOf(c.ll[p]) \in Nat /\ SizeAt(c.ll, (1..Len(c.ll)) \ {p}) \in Nat
      BY <1>s, <3>1, BytesWithout
    <3> QED BY <3>2 DEF n
  <2>6. s \in Bijection(2..n, D)
    <3>1. s \in [2..n -> D]
      <4> HIDE DEF p, l, D
      <4> QED BY <2>2
    <3>2. \A a, b \in 2..n : s[a] = s[b] => a = b
      BY <2>1, <1>1 DEF Stood
    <3>3. ASSUME NEW t \in D PROVE \E a \in 2..n : s[a] = t
      <4> HIDE DEF p
      <4>1. CASE t < p
        <5>1. t + 1 \in 2..n /\ s[t + 1] = t
          BY <4>1, <2>1, <1>1 DEF Stood
        <5> QED BY <5>1
      <4>2. CASE t > p
        <5>1. t \in 2..n /\ s[t] = t
          BY <4>2, <2>1, <1>1 DEF Stood
        <5> QED BY <5>1
      <4>3. t \in 1..n /\ t # p
        OBVIOUS
      <4> QED BY <4>1, <4>2, <4>3, <2>1, <1>1
    <3> HIDE DEF s, D
    <3> QED BY <3>1, <3>2, <3>3 DEF Bijection, Injection, Surjection, IsInjective
  <2>7. \A j \in 2..n : l[j] = c.ll[s[j]] /\ SizeOf(c.ll[s[j]]) \in Nat
    <3>1. \A j \in 1..n : SizeOf(c.ll[j]) \in Nat
      BY <1>s, SizesAre
    <3> HIDE DEF l, p
    <3> QED BY <2>2, <3>1
  <2>9. SizeAt(c.ll, D) = SizeAt(l, 2..n)
    <3>1. IsFiniteSet(2..n)
      <4>1. 2 \in Int /\ n \in Int
        BY <1>1
      <4> QED BY <4>1, FS_Interval
    <3>2. \A j \in 2..n : SizeOf(l[j]) \in Nat /\ SizeOf(c.ll[s[j]]) = SizeOf(l[j])
      <4> HIDE DEF s, l, n
      <4> QED BY <2>7
    <3> HIDE DEF s, D, l, n
    <3>3. Moved(l, 2..n, c.ll, D)
      BY <2>6, <3>2 DEF Moved, MovedBy
    <3> QED BY <3>1, <3>3, BytesMove
  <2>10. /\ SizeOf(c.ll[p]) = KeyLen[k] + ValLen[c.ll[p].val]
         /\ SizeOf(Entry(k, v)) = KeyLen[k] + ValLen[v]
         /\ KeyLen[k] \in Nat /\ ValLen[v] \in Nat /\ ValLen[c.ll[p].val] \in Nat
    <3> HIDE DEF p
    <3>1. c.ll[p].val \in V
      BY <1>1, <2>1
    <3> QED BY <2>1, <3>1 DEF SizeOf, Entry, SizesOK
  <2> HIDE DEF l, n, p, D, s
  <2>11. Put(c, k, v).nbytes = Bytes(l)
    BY <1>3, <2>4, <2>2, <2>5, <2>9, <2>10
  <2> QED BY <2>11 DEF l
<1>5. CASE k \notin KeysOf(c)
  <2> DEFINE s == [j \in 1..n |-> j + 1]
  <2>1. l = <<Entry(k, v)>> \o c.ll /\ Put(c, k, v).nbytes = c.nbytes + SizeOf(Entry(k, v))
    BY <1>5 DEF Put
  <2>2. Len(l) = n + 1 /\ \A j \in 1..n : l[j + 1] = c.ll[j]
    <3>1. Pushed(l, c.ll)
      BY <1>5, PutPushes
    <3> HIDE DEF l
    <3> QED BY <3>1 DEF Pushed
  <2>3. s \in Bijection(1..n, 2..Len(l))
    <3> HIDE DEF l
    <3>1. s \in [1..n -> 2..Len(l)] /\ \A a, b \in 1..n : s[a] = s[b] => a = b
      BY <1>1, <2>2
    <3>2. ASSUME NEW t \in 2..Len(l) PROVE \E a \in 1..n : s[a] = t
      <4>1. t - 1 \in 1..n /\ s[t - 1] = t
        BY <1>1, <2>2
      <4> QED BY <4>1
    <3> HIDE DEF s
    <3> QED BY <3>1, <3>2 DEF Bijection, Injection, Surjection, IsInjective
  <2>4. \A j \in 1..n : SizeOf(c.ll[j]) \in Nat /\ SizeOf(l[s[j]]) = SizeOf(c.ll[j])
    <3> HIDE DEF l
    <3>1. \A j \in 1..n : SizeOf(c.ll[j]) \in Nat
      BY <1>s, SizesAre
    <3> QED BY <2>2, <3>1
  <2>5. IsFiniteSet(1..n) /\ Bytes(c.ll) = SizeAt(c.ll, 1..n) /\ Bytes(c.ll) \in Nat
    <3>1. 1..n \in SUBSET (1..Len(c.ll))
      OBVIOUS
    <3> QED BY <1>s, <3>1, SizesAre
  <2>6. SizeAt(l, 2..Len(l)) = SizeAt(c.ll, 1..n)
    <3> HIDE DEF s, l, n
    <3>1. Moved(c.ll, 1..n, l, 2..Len(l))
      BY <2>3, <2>4 DEF Moved, MovedBy
    <3> QED BY <2>5, <3>1, BytesMove
  <2> HIDE DEF l, n, s
  <2>7. Put(c, k, v).nbytes = Bytes(l)
    BY <1>3, <2>1, <2>5, <2>6
  <2> QED BY <2>7 DEF l
<1> QED BY <1>4, <1>5

(* When Add is done the cache is within the limit again, and counts right. *)
LEMMA ShrinkCounts ==
  ASSUME NEW K, NEW V, SizesOK(K, V), MaxBytes \in Nat, NEW c, c.ll \in Seq([key : K, val : V]),
         c.nbytes = Bytes(c.ll)
  PROVE  Shrink(c).nbytes = Bytes(Shrink(c).ll) /\ ~TooLarge(Shrink(c))
<1>1. Len(c.ll) \in Nat
  OBVIOUS
<1>2. PICK n \in 0..Len(c.ll) : n \in Enough(c) /\ Shrink(c) = WithoutOldest(c, n)
  BY <1>1, ShrinkIs
<1> DEFINE w == WithoutOldest(c, n)
<1>3. w.nbytes = Bytes(w.ll)
  BY WithoutOldestCounts
<1>4. CASE n = Len(c.ll)
  <2>1. w.ll \in Seq([key : K, val : V]) /\ Len(w.ll) = Len(c.ll) - n
    BY WithoutOldestIs
  <2> HIDE DEF w
  <2>2. Bytes(w.ll) = 0
    BY <1>1, <1>4, <2>1, SizesAre
  <2> QED BY <1>2, <1>3, <2>2 DEF TooLarge, w
<1>5. CASE ~TooLarge(w)
  BY <1>2, <1>3, <1>5
<1> QED BY <1>2, <1>4, <1>5 DEF Enough

(* Without its oldest entry it is within the limit as before. *)
LEMMA RemoveOldestCounts ==
  ASSUME NEW K, NEW V, SizesOK(K, V), NEW c, c.ll \in Seq([key : K, val : V]),
         c.nbytes = Bytes(c.ll), MaxBytes \in Nat, ~TooLarge(c), c.ll # << >>
  PROVE  /\ 1 \in 0..Len(c.ll) /\ RemoveOldest(c) = WithoutOldest(c, 1)
         /\ RemoveOldest(c).nbytes = Bytes(RemoveOldest(c).ll) /\ ~TooLarge(RemoveOldest(c))
<1> DEFINE w == WithoutOldest(c, 1)  kept == Len(c.ll) - 1
<1>1. 1 \in 0..Len(c.ll) /\ Len(c.ll) \in Nat
  OBVIOUS
<1>2. RemoveOldest(c) = w
  BY DEF RemoveOldest
<1>3. w.nbytes = Bytes(w.ll)
  BY <1>1, WithoutOldestCounts
<1>4. w.nbytes = c.nbytes - SizeAt(c.ll, (kept + 1)..Len(c.ll))
  BY DEF WithoutOldest
<1>5. SizeAt(c.ll, (kept + 1)..Len(c.ll)) \in Nat /\ Bytes(c.ll) \in Nat
  <2>1. (kept + 1)..Len(c.ll) \in SUBSET (1..Len(c.ll))
    BY <1>1
  <2> QED BY <2>1, SizesAre
<1> HIDE DEF w, kept
<1>6. ~TooLarge(w)
  BY <1>4, <1>5 DEF TooLarge
<1> QED BY <1>1, <1>2, <1>3, <1>6 DEF w
=============================================================================
