--------------------------- MODULE MemtableProofs ---------------------------
(***************************************************************************)
(* What the memtable's binary search finds and what Upsert makes of a      *)
(* slice, for slices of every length.                                      *)
(***************************************************************************)
EXTENDS Memtable, Induction

\* Elements of a sequence.
LEMMA SliceType ==
    ASSUME NEW S, NEW q \in Seq(S)
    PROVE  /\ Len(q) \in Nat /\ DOMAIN q = 1 .. Len(q)
           /\ \A i \in 1 .. Len(q) : q[i] \in S
           /\ \A x : x \in ToSet(q) <=> \E i \in 1 .. Len(q) : q[i] = x
  BY DEF ToSet

\* sort.Search, whatever the function it is called with.
LEMMA SortSearchFinds ==
    ASSUME NEW n \in Nat, NEW holds
    PROVE  /\ SortSearch(n, holds) \in 0 .. n
           /\ SortSearch(n, holds) < n => holds[SortSearch(n, holds)]
           /\ SortSearch(n, holds) > 0 => ~ holds[SortSearch(n, holds) - 1]
<1>1. SortSearch(n, holds) = (CHOOSE g : IsSearch(g, n, holds))[<<0, n>>]
  BY Zenon DEF SortSearch, IsSearch, Between, SearchTurn
<1> QED
  BY <1>1, BinarySearch

\* The place of a key: the entry there is not smaller, the one before it is.
LEMMA SearchFinds ==
    ASSUME NEW S, NEW slice \in Seq(S), NEW key
    PROVE  /\ Search(slice, key) \in 0 .. Len(slice)
           /\ Search(slice, key) < Len(slice) => slice[Search(slice, key) + 1].key >= key
           /\ Search(slice, key) > 0 => ~ (slice[Search(slice, key)].key >= key)
<1> DEFINE holds == [i \in 0 .. Len(slice) - 1 |-> slice[i + 1].key >= key]
<1>1. Len(slice) \in Nat
  OBVIOUS
<1>2. PICK r : r = SortSearch(Len(slice), holds)
  OBVIOUS
<1>3. r = Search(slice, key)
  BY <1>2 DEF Search
<1>4. r \in 0 .. Len(slice) /\ (r < Len(slice) => holds[r]) /\ (r > 0 => ~ holds[r - 1])
  BY <1>1, <1>2, SortSearchFinds
<1>5. \A i \in 0 .. Len(slice) - 1 : holds[i] <=> slice[i + 1].key >= key
  BY Zenon
<1> HIDE DEF holds
<1>6. r < Len(slice) => slice[r + 1].key >= key
  <2>1. r < Len(slice) => r \in 0 .. Len(slice) - 1
    BY <1>1, <1>4
  <2> QED
    BY <1>4, <1>5, <2>1, Zenon
<1>7. r > 0 => ~ (slice[r].key >= key)
  <2>1. r > 0 => r - 1 \in 0 .. Len(slice) - 1 /\ (r - 1) + 1 = r
    BY <1>1, <1>4
  <2> QED
    BY <1>4, <1>5, <2>1, Zenon
<1> QED
  BY <1>3, <1>4, <1>6, <1>7

\* The two ways Upsert goes, place by place: the entry at place r is replaced, or
\* the new one is inserted there.
Replaced(slice, e, r, q) ==
    /\ r < Len(slice) /\ slice[r + 1].key = e.key
    /\ Len(q) = Len(slice)
    /\ \A i \in 1 .. Len(slice) : q[i] = IF i = r + 1 THEN e ELSE slice[i]

Inserted(slice, e, r, q) ==
    /\ r < Len(slice) => slice[r + 1].key # e.key
    /\ Len(q) = Len(slice) + 1
    /\ \A i \in 1 .. Len(slice) + 1 :
           q[i] = IF i <= r THEN slice[i] ELSE IF i = r + 1 THEN e ELSE slice[i - 1]

LEMMA UpsertPlaces ==
    ASSUME NEW S, NEW slice \in Seq(S), NEW e \in S, NEW q, q = Upsert(slice, e)
    PROVE  /\ q \in Seq(S)
           /\ \E r \in 0 .. Len(slice) :
                  /\ r = Search(slice, e.key)
                  /\ Replaced(slice, e, r, q) \/ Inserted(slice, e, r, q)
<1>1. PICK r \in 0 .. Len(slice) : r = Search(slice, e.key)
  BY SearchFinds
<1>2. Len(slice) \in Nat
  OBVIOUS
<1>3. q = Upsert(slice, e)
  OBVIOUS
<1>4. CASE FoundAt(slice, r, e.key)
  <2>1. q = [slice EXCEPT ![r + 1] = e]
    BY <1>1, <1>3, <1>4 DEF Upsert
  <2>2. r < Len(slice) /\ slice[r + 1].key = e.key /\ r + 1 \in 1 .. Len(slice)
    BY <1>1, <1>2, <1>4 DEF FoundAt
  <2>3. q \in Seq(S) /\ Len(q) = Len(slice)
    BY <2>1, <2>2
  <2>4. \A i \in 1 .. Len(slice) : q[i] = IF i = r + 1 THEN e ELSE slice[i]
    BY <2>1, <2>2
  <2> QED
    BY <1>1, <2>2, <2>3, <2>4 DEF Replaced
<1>5. CASE ~ FoundAt(slice, r, e.key)
  <2>1. (r + 1) - 1 = r
    BY <1>1
  <2>2. PICK front : front = SubSeq(slice, 1, r)
    OBVIOUS
  <2>3. PICK back : back = SubSeq(slice, r + 1, Len(slice))
    OBVIOUS
  <2>4. q = front \o <<e>> \o back
    BY <1>1, <1>3, <1>5, <2>1, <2>2, <2>3 DEF Upsert, InsertAt
  <2>5. front \in Seq(S) /\ Len(front) = r /\ \A i \in 1 .. r : front[i] = slice[i]
    BY <1>1, <1>2, <2>2
  <2>6. /\ back \in Seq(S) /\ Len(back) = Len(slice) - r
        /\ \A i \in 1 .. Len(slice) - r : back[i] = slice[r + i]
    BY <1>1, <1>2, <2>3
  <2>7. PICK a : a = front \o <<e>>
    OBVIOUS
  <2>8. /\ a \in Seq(S) /\ Len(a) = r + 1
        /\ \A i \in 1 .. r + 1 : a[i] = IF i <= r THEN slice[i] ELSE e
    BY <1>1, <2>5, <2>7
  <2>9. q = a \o back
    BY <2>4, <2>7
  <2>10. /\ q \in Seq(S) /\ Len(q) = Len(a) + Len(back)
         /\ \A i \in 1 .. Len(a) + Len(back) :
                q[i] = IF i <= Len(a) THEN a[i] ELSE back[i - Len(a)]
    <3>1. a \in Seq(S) /\ back \in Seq(S)
      BY <2>6, <2>8
    <3> QED
      BY <2>9, <3>1, ConcatProperties
  <2>11. Len(q) = Len(slice) + 1 /\ Len(a) + Len(back) = Len(slice) + 1
    BY <1>1, <1>2, <2>6, <2>8, <2>10
  <2>12. ASSUME NEW i \in 1 .. Len(slice) + 1
         PROVE  q[i] = IF i <= r THEN slice[i] ELSE IF i = r + 1 THEN e ELSE slice[i - 1]
    <3>1. q[i] = IF i <= r + 1 THEN a[i] ELSE back[i - (r + 1)]
      BY <2>8, <2>10, <2>11
    <3>2. CASE i <= r + 1
      <4>1. i \in 1 .. r + 1
        BY <1>1, <1>2, <3>2
      <4> QED
        BY <1>1, <2>8, <3>1, <3>2, <4>1
    <3>3. CASE ~ (i <= r + 1)
      <4>1. i - (r + 1) \in 1 .. Len(slice) - r /\ r + (i - (r + 1)) = i - 1
        BY <1>1, <1>2, <3>3
      <4>2. back[i - (r + 1)] = slice[i - 1]
        BY <2>6, <4>1
      <4> QED
        BY <1>1, <3>1, <3>3, <4>2
    <3> QED
      BY <3>2, <3>3
  <2> QED
    BY <1>1, <1>5, <2>10, <2>11, <2>12 DEF FoundAt, Inserted
<1> QED
  BY <1>4, <1>5

\* Upsert puts the entry in, keeps the entries of all other keys and adds no other.
LEMMA UpsertEntries ==
    ASSUME NEW S, NEW slice \in Seq(S), NEW e \in S
    PROVE  /\ Upsert(slice, e) \in Seq(S)
           /\ Len(Upsert(slice, e)) \in {Len(slice), Len(slice) + 1}
           /\ e \in ToSet(Upsert(slice, e))
           /\ ToSet(Upsert(slice, e)) \subseteq ToSet(slice) \cup {e}
           /\ \A x \in ToSet(slice) : x.key # e.key => x \in ToSet(Upsert(slice, e))
<1>1. PICK q : q = Upsert(slice, e)
  OBVIOUS
<1>2. q \in Seq(S)
  BY <1>1, UpsertPlaces
<1>3. PICK r \in 0 .. Len(slice) : Replaced(slice, e, r, q) \/ Inserted(slice, e, r, q)
  BY <1>1, UpsertPlaces
<1>4. Len(slice) \in Nat /\ Len(q) \in {Len(slice), Len(slice) + 1}
  BY <1>3 DEF Replaced, Inserted
<1>5. e \in ToSet(q)
  <2>1. r + 1 \in 1 .. Len(q) /\ q[r + 1] = e
    BY <1>3, <1>4 DEF Replaced, Inserted
  <2> QED
    BY <1>2, <2>1, SliceType
<1>6. ASSUME NEW x \in ToSet(q)
      PROVE  x \in ToSet(slice) \cup {e}
  <2>1. PICK i \in 1 .. Len(q) : q[i] = x
    BY <1>2, SliceType
  <2>2. x = e \/ (i \in 1 .. Len(slice) /\ x = slice[i])
              \/ (i - 1 \in 1 .. Len(slice) /\ x = slice[i - 1])
    BY <1>3, <1>4, <2>1 DEF Replaced, Inserted
  <2> QED
    BY <2>2, SliceType
<1>7. ASSUME NEW x \in ToSet(slice), x.key # e.key
      PROVE  x \in ToSet(q)
  <2>1. PICK i \in 1 .. Len(slice) : slice[i] = x
    BY SliceType
  <2>2. CASE Replaced(slice, e, r, q)
    <3>1. i \in 1 .. Len(q) /\ q[i] = x
      BY <1>7, <2>1, <2>2 DEF Replaced
    <3> QED
      BY <1>2, <3>1, SliceType
  <2>3. CASE Inserted(slice, e, r, q)
    <3>1. \/ i \in 1 .. Len(q) /\ q[i] = x
          \/ i + 1 \in 1 .. Len(q) /\ q[i + 1] = x
      <4>1. i <= r \/ i + 1 > r + 1
        OBVIOUS
      <4>2. i + 1 \in 1 .. Len(slice) + 1 /\ (i + 1) - 1 = i /\ i \in 1 .. Len(slice) + 1
        BY <1>4
      <4> QED
        BY <1>4, <2>1, <2>3, <4>1, <4>2 DEF Inserted
    <3> QED
      BY <1>2, <3>1, SliceType
  <2> QED
    BY <1>3, <2>2, <2>3
<1> QED
  BY <1>1, <1>2, <1>4, <1>5, <1>6, <1>7

\* Sorted by key, each key once.
Sorted(slice) ==
    \A i, j \in DOMAIN slice : i < j => slice[i].key < slice[j].key

\* Upsert keeps a slice sorted, for any keys that are ordered as integers.
LEMMA UpsertSorted ==
    ASSUME NEW S, \A x \in S : x.key \in Int,
           NEW slice \in Seq(S), NEW e \in S, Sorted(slice)
    PROVE  Sorted(Upsert(slice, e))
<1>1. PICK q : q = Upsert(slice, e)
  OBVIOUS
<1>2. q \in Seq(S)
  BY <1>1, UpsertPlaces
<1>3. PICK r \in 0 .. Len(slice) :
          /\ r = Search(slice, e.key)
          /\ Replaced(slice, e, r, q) \/ Inserted(slice, e, r, q)
  BY <1>1, UpsertPlaces
<1>4. Len(slice) \in Nat /\ DOMAIN slice = 1 .. Len(slice) /\ DOMAIN q = 1 .. Len(q)
  BY <1>2
<1>5. e.key \in Int /\ \A i \in 1 .. Len(slice) : slice[i].key \in Int
  BY SliceType
<1>6. \A i, j \in 1 .. Len(slice) : i < j => slice[i].key < slice[j].key
  BY <1>4 DEF Sorted
<1>7. CASE Replaced(slice, e, r, q)
  <2>1. Len(q) = Len(slice) /\ \A i \in 1 .. Len(slice) : q[i].key = slice[i].key
    BY <1>7 DEF Replaced
  <2> QED
    BY <1>1, <1>4, <1>6, <2>1 DEF Sorted
<1>8. CASE Inserted(slice, e, r, q)
  <2>1. r > 0 => slice[r].key < e.key
    <3>1. r > 0 => ~ (slice[r].key >= e.key)
      BY <1>3, SearchFinds
    <3>2. r > 0 => slice[r].key \in Int
      BY <1>4, <1>5
    <3> QED
      BY <1>5, <3>1, <3>2
  <2>2. r < Len(slice) => e.key < slice[r + 1].key
    <3>1. r < Len(slice) => slice[r + 1].key >= e.key /\ slice[r + 1].key # e.key
      BY <1>3, <1>8, SearchFinds DEF Inserted
    <3>2. r < Len(slice) => slice[r + 1].key \in Int
      BY <1>4, <1>5
    <3> QED
      BY <1>5, <3>1, <3>2
  <2>3. \A i \in 1 .. r : slice[i].key < e.key
    <3> SUFFICES ASSUME NEW i \in 1 .. r PROVE slice[i].key < e.key
      OBVIOUS
    <3>1. i = r \/ (i < r /\ i \in 1 .. Len(slice) /\ r \in 1 .. Len(slice))
      BY <1>4
    <3>2. slice[i].key \in Int /\ slice[r].key \in Int /\ r > 0
      BY <1>4, <1>5
    <3> QED
      BY <1>5, <1>6, <2>1, <3>1, <3>2
  <2>4. \A j \in r + 1 .. Len(slice) : e.key < slice[j].key
    <3> SUFFICES ASSUME NEW j \in r + 1 .. Len(slice) PROVE e.key < slice[j].key
      OBVIOUS
    <3>1. j = r + 1 \/ (r + 1 < j /\ j \in 1 .. Len(slice) /\ r + 1 \in 1 .. Len(slice))
      BY <1>4
    <3>2. slice[j].key \in Int /\ slice[r + 1].key \in Int /\ r < Len(slice)
      BY <1>4, <1>5
    <3> QED
      BY <1>5, <1>6, <2>2, <3>1, <3>2
  <2>5. Len(q) = Len(slice) + 1
    BY <1>8 DEF Inserted
  <2>6. ASSUME NEW i \in 1 .. Len(slice) + 1
        PROVE  q[i] = IF i <= r THEN slice[i] ELSE IF i = r + 1 THEN e ELSE slice[i - 1]
    BY <1>8 DEF Inserted
  <2> SUFFICES ASSUME NEW i \in 1 .. Len(slice) + 1, NEW j \in 1 .. Len(slice) + 1, i < j
               PROVE  q[i].key < q[j].key
    BY <1>1, <1>4, <2>5 DEF Sorted
  <2>7. CASE j <= r
    <3>1. q[i] = slice[i] /\ q[j] = slice[j] /\ i \in 1 .. Len(slice) /\ j \in 1 .. Len(slice)
      BY <1>4, <2>6, <2>7
    <3> QED
      BY <1>6, <3>1
  <2>8. CASE j = r + 1
    <3>1. q[i] = slice[i] /\ q[j] = e /\ i \in 1 .. r
      BY <1>4, <2>6, <2>8
    <3> QED
      BY <2>3, <3>1
  <2>9. CASE j > r + 1
    <3>1. q[j] = slice[j - 1] /\ j - 1 \in r + 1 .. Len(slice) /\ j - 1 \in 1 .. Len(slice)
      BY <1>4, <2>6, <2>9
    <3>2. CASE i <= r
      <4>1. q[i] = slice[i] /\ i \in 1 .. Len(slice) /\ i < j - 1
        BY <1>4, <2>6, <2>9, <3>2
      <4> QED
        BY <1>6, <3>1, <4>1
    <3>3. CASE i = r + 1
      <4>1. q[i] = e
        BY <2>6, <3>3
      <4> QED
        BY <2>4, <3>1, <4>1
    <3>4. CASE i > r + 1
      <4>1. q[i] = slice[i - 1] /\ i - 1 \in 1 .. Len(slice) /\ i - 1 < j - 1
        BY <1>4, <2>6, <3>4
      <4> QED
        BY <1>6, <3>1, <4>1
    <3> QED
      BY <3>2, <3>3, <3>4
  <2> QED
    BY <2>7, <2>8, <2>9
<1> QED
  BY <1>3, <1>7, <1>8

\* In a sorted slice a key has one entry.
LEMMA SortedUnique ==
    ASSUME NEW S, \A x \in S : x.key \in Int, NEW slice \in Seq(S), Sorted(slice),
           NEW x \in ToSet(slice), NEW y \in ToSet(slice), x.key = y.key
    PROVE  x = y
<1>1. PICK i \in 1 .. Len(slice) : slice[i] = x
  BY SliceType
<1>2. PICK j \in 1 .. Len(slice) : slice[j] = y
  BY SliceType
<1>3. DOMAIN slice = 1 .. Len(slice) /\ x.key \in Int
  BY <1>1, SliceType
<1>4. ~ (i < j) /\ ~ (j < i)
  BY <1>1, <1>2, <1>3 DEF Sorted
<1> QED
  BY <1>1, <1>2, <1>4
=============================================================================
