------------------------------ MODULE Induction -----------------------------
(***************************************************************************)
(* Induction on the natural numbers, stated for sets instead of predicates *)
(* so that no theorem takes an operator as its parameter, and the functions*)
(* that a recursion defines.  The proofs about the recursive definitions of*)
(* the model rest on it.                                                   *)
(***************************************************************************)
EXTENDS Integers, Sequences, SequencesExt, SequenceTheorems, WellFoundedInduction, TLAPS

\* Every nonempty set of natural numbers has a least element.
LEMMA NatMinimum ==
    ASSUME NEW T \in SUBSET Nat, T # {}
    PROVE  \E x \in T : \A y \in T : x <= y
<1>1. IsWellFoundedOn(OpToRel(<, Nat), Nat)
  BY NatLessThanWellFounded, Zenon
<1>2. PICK x \in T : \A y \in T : ~ (<<y, x>> \in OpToRel(<, Nat))
  BY <1>1, WFMin, Zenon
<1>3. \A y \in T : ~ (y < x)
  BY <1>2 DEF OpToRel
<1> QED
  BY <1>3

\* A set that holds 0, and with every number its successor, holds all of them: the
\* least number outside it would be the successor of one inside it.
LEMMA NatInd ==
    ASSUME NEW S, 0 \in S, \A n \in Nat : n \in S => n + 1 \in S
    PROVE  Nat \subseteq S
<1> DEFINE T == {n \in Nat : n \notin S}
<1>1. SUFFICES ASSUME T # {} PROVE FALSE
  OBVIOUS
<1>2. PICK x \in T : \A y \in T : x <= y
  BY <1>1, NatMinimum
<1>3. x # 0 /\ x - 1 \in Nat
  OBVIOUS
<1>4. x - 1 \in S
  BY <1>2, <1>3
<1> QED
  BY <1>3, <1>4

-----------------------------------------------------------------------------
\* g solves the recurrence f[i + 1] = b[i] + k * f[i], f[0] = a, up to n.
Solves(g, a, b, k, n) ==
    /\ g[0] = a
    /\ \A i \in 0 .. n - 1 : g[i + 1] = b[i] + k * g[i]

\* There is a solution up to every number.
LEMMA SolutionExists ==
    ASSUME NEW a \in Int, NEW b \in [Nat -> Int], NEW k \in Int, NEW n \in Nat
    PROVE  \E g \in [0 .. n -> Int] : Solves(g, a, b, k, n)
<1> DEFINE S == {m \in Nat : \E g \in [0 .. m -> Int] : Solves(g, a, b, k, m)}
<1>1. 0 \in S
  <2>1. [i \in 0 .. 0 |-> a] \in [0 .. 0 -> Int]
    OBVIOUS
  <2>2. Solves([i \in 0 .. 0 |-> a], a, b, k, 0)
    BY DEF Solves
  <2> QED
    BY <2>1, <2>2
<1>2. ASSUME NEW m \in Nat, m \in S PROVE m + 1 \in S
  <2>1. PICK g \in [0 .. m -> Int] : Solves(g, a, b, k, m)
    BY <1>2
  <2> DEFINE h == [i \in 0 .. m + 1 |-> IF i = m + 1 THEN b[m] + k * g[m] ELSE g[i]]
  <2>2. b[m] + k * g[m] \in Int
    OBVIOUS
  <2>3. h \in [0 .. m + 1 -> Int]
    <3>1. ASSUME NEW i \in 0 .. m + 1 PROVE h[i] \in Int
      <4>1. CASE i = m + 1
        BY <2>2, <4>1
      <4>2. CASE i # m + 1
        <5>1. i \in 0 .. m
          BY <4>2
        <5> QED
          BY <4>2, <5>1
      <4> QED
        BY <4>1, <4>2
    <3> QED
      BY <3>1
  <2>4. Solves(h, a, b, k, m + 1)
    <3>1. h[0] = a
      BY <2>1 DEF Solves
    <3>2. ASSUME NEW i \in 0 .. (m + 1) - 1 PROVE h[i + 1] = b[i] + k * h[i]
      <4>1. i \in 0 .. m /\ i + 1 \in 0 .. m + 1 /\ h[i] = g[i]
        OBVIOUS
      <4>2. CASE i = m
        BY <4>1, <4>2
      <4>3. CASE i # m
        <5>1. g[i + 1] = b[i] + k * g[i]
          BY <2>1, <4>1, <4>3 DEF Solves
        <5>2. h[i + 1] = g[i + 1]
          BY <4>1, <4>3
        <5> QED
          BY <4>1, <5>1, <5>2
      <4> QED
        BY <4>2, <4>3
    <3> QED
      BY <3>1, <3>2 DEF Solves
  <2>5. m + 1 \in Nat
    OBVIOUS
  <2> HIDE DEF h
  <2> QED
    BY <2>3, <2>4, <2>5
<1>3. Nat \subseteq S
  BY <1>1, <1>2, NatInd
<1> QED
  BY <1>3

\* Two solutions agree as far as both go.
LEMMA SolutionUnique ==
    ASSUME NEW a \in Int, NEW b \in [Nat -> Int], NEW k \in Int,
           NEW m \in Nat, NEW n \in Nat,
           NEW g, NEW h, Solves(g, a, b, k, m), Solves(h, a, b, k, n),
           NEW i \in Nat, i <= m, i <= n
    PROVE  g[i] = h[i]
<1> DEFINE S == {j \in Nat : j <= m /\ j <= n => g[j] = h[j]}
<1>1. 0 \in S
  BY DEF Solves
<1>2. ASSUME NEW j \in Nat, j \in S PROVE j + 1 \in S
  <2>1. CASE j + 1 <= m /\ j + 1 <= n
    <3>1. g[j] = h[j]
      BY <1>2, <2>1
    <3>2. j \in 0 .. m - 1 /\ j \in 0 .. n - 1
      BY <2>1
    <3> QED
      BY <3>1, <3>2 DEF Solves
  <2> QED
    BY <2>1
<1>3. Nat \subseteq S
  BY <1>1, <1>2, NatInd
<1> QED
  BY <1>3

\* The linear recurrences have solutions that are functions on the natural numbers.
LEMMA RecurrenceExists ==
    ASSUME NEW a \in Int, NEW b \in [Nat -> Int], NEW k \in Int
    PROVE  \E f \in [Nat -> Int] :
               f[0] = a /\ \A i \in Nat : f[i + 1] = b[i] + k * f[i]
<1> DEFINE G(n) == CHOOSE g \in [0 .. n -> Int] : Solves(g, a, b, k, n)
           f == [n \in Nat |-> G(n)[n]]
<1>1. ASSUME NEW n \in Nat PROVE G(n) \in [0 .. n -> Int] /\ Solves(G(n), a, b, k, n)
  BY SolutionExists
<1>2. ASSUME NEW n \in Nat PROVE G(n)[n] \in Int
  <2>1. G(n) \in [0 .. n -> Int]
    BY <1>1
  <2> HIDE DEF G
  <2> QED
    BY <2>1
<1>3. f \in [Nat -> Int]
  BY <1>2
<1>4. f[0] = a
  <2>1. Solves(G(0), a, b, k, 0)
    BY <1>1
  <2> HIDE DEF G
  <2> QED
    BY <2>1 DEF Solves
<1>5. ASSUME NEW i \in Nat PROVE f[i + 1] = b[i] + k * f[i]
  <2> HIDE DEF G
  <2>1. i + 1 \in Nat /\ i <= i + 1 /\ i <= i /\ f[i] = G(i)[i] /\ f[i + 1] = G(i + 1)[i + 1]
    OBVIOUS
  <2>2. Solves(G(i), a, b, k, i)
    BY <1>1
  <2>3. Solves(G(i + 1), a, b, k, i + 1)
    BY <1>1, <2>1
  <2> HIDE DEF f
  <2>4. G(i + 1)[i] = G(i)[i]
    BY <2>1, <2>2, <2>3, SolutionUnique
  <2>5. G(i + 1)[i + 1] = b[i] + k * G(i + 1)[i]
    BY <2>3 DEF Solves
  <2> QED
    BY <2>1, <2>4, <2>5
<1> HIDE DEF f
<1> QED
  BY <1>3, <1>4, <1>5
-----------------------------------------------------------------------------
(***************************************************************************)
(* Binary search, as a function on the pairs of places between which the   *)
(* search still has to look.                                               *)
(***************************************************************************)
Between(n) == (0 .. n) \X (0 .. n)

\* One turn of the search between the places ij, with g for the turns after it.
SearchTurn(g, holds, ij) ==
    IF ij[1] >= ij[2] THEN ij[1]
    ELSE LET h == (ij[1] + ij[2]) \div 2
         IN  IF holds[h] THEN g[<<ij[1], h>>] ELSE g[<<h + 1, ij[2]>>]

IsSearch(g, n, holds) == g = [ij \in Between(n) |-> SearchTurn(g, holds, ij)]

\* The turn after a turn looks between places that are closer together.
LEMMA TurnShrinks ==
    ASSUME NEW n \in Nat, NEW i \in 0 .. n, NEW j \in 0 .. n, i < j
    PROVE  \E h \in 0 .. n :
               /\ h = (i + j) \div 2 /\ i <= h /\ h < j
               /\ h + 1 \in 0 .. n
               /\ h - i < j - i /\ j - (h + 1) < j - i
  OBVIOUS

\* The search is defined: every distance between two places has a function that
\* searches between places no further apart.
LEMMA SearchExists ==
    ASSUME NEW n \in Nat, NEW holds
    PROVE  \E g : IsSearch(g, n, holds)
<1> DEFINE Upto(g, d) ==
               \A i \in 0 .. n : \A j \in 0 .. n :
                   j - i <= d => g[<<i, j>>] = SearchTurn(g, holds, <<i, j>>)
           S == {d \in Nat : \E g : Upto(g, d)}
<1>1. 0 \in S
  <2> DEFINE g == [ij \in Between(n) |-> ij[1]]
  <2>1. ASSUME NEW i \in 0 .. n, NEW j \in 0 .. n, j - i <= 0
        PROVE  g[<<i, j>>] = SearchTurn(g, holds, <<i, j>>)
    BY <2>1 DEF SearchTurn, Between
  <2>2. Upto(g, 0)
    BY <2>1
  <2> QED
    BY <2>2
<1>2. ASSUME NEW d \in Nat, d \in S PROVE d + 1 \in S
  <2>1. PICK g : Upto(g, d)
    BY <1>2
  <2> DEFINE e == [ij \in Between(n) |-> SearchTurn(g, holds, ij)]
  <2>2. \A i \in 0 .. n : \A j \in 0 .. n : e[<<i, j>>] = SearchTurn(g, holds, <<i, j>>)
    BY DEF Between
  <2> HIDE DEF e
  <2>3. \A i \in 0 .. n : \A j \in 0 .. n : j - i <= d => e[<<i, j>>] = g[<<i, j>>]
    BY <2>1, <2>2
  <2>4. ASSUME NEW i \in 0 .. n, NEW j \in 0 .. n, j - i <= d + 1
        PROVE  e[<<i, j>>] = SearchTurn(e, holds, <<i, j>>)
    <3>1. CASE i >= j
      BY <2>2, <3>1 DEF SearchTurn
    <3>2. CASE i < j
      <4>1. PICK h \in 0 .. n :
                /\ h = (i + j) \div 2 /\ h < j
                /\ h + 1 \in 0 .. n
                /\ h - i < j - i /\ j - (h + 1) < j - i
        BY <3>2, TurnShrinks
      <4>2. h - i <= d /\ j - (h + 1) <= d
        BY <2>4, <4>1
      <4>3. e[<<i, h>>] = g[<<i, h>>] /\ e[<<h + 1, j>>] = g[<<h + 1, j>>]
        BY <2>3, <4>1, <4>2
      <4> QED
        BY <2>2, <3>2, <4>1, <4>3 DEF SearchTurn
    <3> QED
      BY <3>1, <3>2
  <2>5. Upto(e, d + 1) /\ d + 1 \in Nat
    BY <2>4
  <2> HIDE DEF Upto
  <2> QED
    BY <2>5
<1> HIDE DEF Upto
<1>3. Nat \subseteq S
  BY <1>1, <1>2, NatInd
<1>4. PICK g : Upto(g, n)
  BY <1>3
<1> DEFINE e == [ij \in Between(n) |-> SearchTurn(g, holds, ij)]
<1>5. \A ij \in Between(n) : g[ij] = SearchTurn(g, holds, ij)
  <2> SUFFICES ASSUME NEW i \in 0 .. n, NEW j \in 0 .. n
               PROVE  g[<<i, j>>] = SearchTurn(g, holds, <<i, j>>)
    BY DEF Between
  <2>1. j - i <= n
    OBVIOUS
  <2> QED
    BY <1>4, <2>1 DEF Upto
<1>6. \A ij \in Between(n) : e[ij] = g[ij]
  BY <1>5
<1>7. e = [ij \in Between(n) |-> SearchTurn(g, holds, ij)]
  OBVIOUS
<1> HIDE DEF e
<1>8. ASSUME NEW ij \in Between(n)
      PROVE  SearchTurn(e, holds, ij) = SearchTurn(g, holds, ij)
  <2>1. PICK i \in 0 .. n, j \in 0 .. n : ij = <<i, j>>
    BY DEF Between
  <2>2. CASE i >= j
    BY <2>1, <2>2 DEF SearchTurn
  <2>3. CASE i < j
    <3>1. PICK h \in 0 .. n : h = (i + j) \div 2 /\ h + 1 \in 0 .. n
      BY <2>3, TurnShrinks
    <3>2. <<i, h>> \in Between(n) /\ <<h + 1, j>> \in Between(n)
      BY <3>1 DEF Between
    <3>3. e[<<i, h>>] = g[<<i, h>>] /\ e[<<h + 1, j>>] = g[<<h + 1, j>>]
      BY <1>6, <3>2
    <3> QED
      BY <2>1, <2>3, <3>1, <3>3 DEF SearchTurn
  <2> QED
    BY <2>2, <2>3
<1>9. IsSearch(e, n, holds)
  BY <1>7, <1>8 DEF IsSearch
<1> QED
  BY <1>9

\* What a binary search finds: a place that holds, or the end, with a place before it
\* that does not hold.  (It need not be the first one unless "holds" is monotone.)
LEMMA BinarySearch ==
    ASSUME NEW n \in Nat, NEW holds, NEW r,
           r = (CHOOSE g : IsSearch(g, n, holds))[<<0, n>>]
    PROVE  /\ r \in 0 .. n
           /\ r < n => holds[r]
           /\ r > 0 => ~ holds[r - 1]
<1>1. PICK g : g = CHOOSE f : IsSearch(f, n, holds)
  OBVIOUS
<1>2. IsSearch(g, n, holds)
  BY <1>1, SearchExists
<1>3. \A i \in 0 .. n : \A j \in 0 .. n : g[<<i, j>>] = SearchTurn(g, holds, <<i, j>>)
  BY <1>2 DEF IsSearch, Between
<1> DEFINE Found(i, j) ==
               /\ g[<<i, j>>] \in i .. j
               /\ g[<<i, j>>] < j => holds[g[<<i, j>>]]
               /\ g[<<i, j>>] > i => ~ holds[g[<<i, j>>] - 1]
           S == {d \in Nat : \A i \in 0 .. n : \A j \in 0 .. n :
                    i <= j /\ j - i <= d => Found(i, j)}
<1>4. 0 \in S
  <2> SUFFICES ASSUME NEW i \in 0 .. n, NEW j \in 0 .. n, i <= j, j - i <= 0
               PROVE  Found(i, j)
    OBVIOUS
  <2>1. i = j
    OBVIOUS
  <2>2. g[<<i, j>>] = i
    BY <1>3, <2>1 DEF SearchTurn
  <2> QED
    BY <2>1, <2>2
<1>5. ASSUME NEW d \in Nat, d \in S PROVE d + 1 \in S
  <2> SUFFICES ASSUME NEW i \in 0 .. n, NEW j \in 0 .. n, i <= j, j - i <= d + 1
               PROVE  Found(i, j)
    OBVIOUS
  <2>1. CASE i = j
    <3>1. g[<<i, j>>] = i
      BY <1>3, <2>1 DEF SearchTurn
    <3> QED
      BY <2>1, <3>1
  <2>2. CASE i < j
    <3>1. PICK h \in 0 .. n :
              /\ h = (i + j) \div 2 /\ i <= h /\ h < j
              /\ h + 1 \in 0 .. n
              /\ h - i < j - i /\ j - (h + 1) < j - i
      BY <2>2, TurnShrinks
    <3>2. i <= h /\ h + 1 <= j /\ h - i <= d /\ j - (h + 1) <= d
      BY <3>1
    <3>3. Found(i, h) /\ Found(h + 1, j)
      BY <1>5, <3>1, <3>2
    <3>4. g[<<i, j>>] = IF holds[h] THEN g[<<i, h>>] ELSE g[<<h + 1, j>>]
      BY <1>3, <2>2, <3>1 DEF SearchTurn
    <3>5. CASE holds[h]
      <4>1. PICK v : v = g[<<i, h>>] /\ v = g[<<i, j>>]
        BY <3>4, <3>5
      <4>2. v \in i .. h /\ (v < h => holds[v]) /\ (v > i => ~ holds[v - 1])
        BY <3>3, <4>1
      <4>3. v \in i .. j /\ (v < j => holds[v])
        <5>1. v \in i .. j
          BY <3>1, <4>2
        <5>2. v = h \/ v < h
          BY <3>1, <4>2
        <5> QED
          BY <3>5, <4>2, <5>1, <5>2
      <4> QED
        BY <4>1, <4>2, <4>3
    <3>6. CASE ~ holds[h]
      <4>1. PICK v : v = g[<<h + 1, j>>] /\ v = g[<<i, j>>]
        BY <3>4, <3>6
      <4>2. v \in h + 1 .. j /\ (v < j => holds[v]) /\ (v > h + 1 => ~ holds[v - 1])
        BY <3>3, <4>1
      <4>3. v \in i .. j /\ (v > i => ~ holds[v - 1])
        <5>1. v \in i .. j
          BY <3>1, <4>2
        <5>2. (v - 1 = h) \/ v > h + 1
          BY <3>1, <4>2
        <5> QED
          BY <3>6, <4>2, <5>1, <5>2
      <4> QED
        BY <4>1, <4>2, <4>3
    <3> QED
      BY <3>5, <3>6
  <2> QED
    BY <2>1, <2>2
<1> HIDE DEF Found
<1>6. Nat \subseteq S
  BY <1>4, <1>5, NatInd
<1>7. Found(0, n)
  <2>1. n \in S /\ 0 \in 0 .. n /\ n \in 0 .. n /\ 0 <= n /\ n - 0 <= n
    BY <1>6
  <2> QED
    BY <2>1
<1> QED
  BY <1>1, <1>7 DEF Found

-----------------------------------------------------------------------------
(***************************************************************************)
(* What FlattenSeq makes of a sequence of sequences.                       *)
(***************************************************************************)
IsFlatten(f, q) ==
    f = [i \in 1 .. Len(q) |-> IF i = 1 THEN q[i] ELSE f[i - 1] \o q[i]]

\* The recursion has a solution.
LEMMA FlattenExists ==
    ASSUME NEW q, Len(q) \in Nat
    PROVE  \E f : IsFlatten(f, q)
<1> DEFINE n == Len(q)
           Step(g, i) == IF i = 1 THEN q[i] ELSE g[i - 1] \o q[i]
           Upto(g, m) == \A i \in 1 .. n : i <= m => g[i] = Step(g, i)
           S == {m \in Nat : \E g : Upto(g, m)}
<1>1. 0 \in S
  <2>1. Upto([i \in 1 .. n |-> <<>>], 0)
    OBVIOUS
  <2> QED
    BY <2>1
<1>2. ASSUME NEW m \in Nat, m \in S PROVE m + 1 \in S
  <2>1. PICK g : Upto(g, m)
    BY <1>2
  <2> DEFINE e == [i \in 1 .. n |-> Step(g, i)]
  <2>2. \A i \in 1 .. n : e[i] = Step(g, i)
    OBVIOUS
  <2> HIDE DEF e
  <2>3. \A i \in 1 .. n : i <= m => e[i] = g[i]
    BY <2>1, <2>2
  <2>4. ASSUME NEW i \in 1 .. n, i <= m + 1
        PROVE  e[i] = Step(e, i)
    <3>1. CASE i = 1
      BY <2>2, <3>1
    <3>2. CASE i # 1
      <4>1. i - 1 \in 1 .. n /\ i - 1 <= m
        BY <2>4, <3>2
      <4>2. e[i - 1] = g[i - 1]
        BY <2>3, <4>1
      <4> QED
        BY <2>2, <3>2, <4>2
    <3> QED
      BY <3>1, <3>2
  <2>5. Upto(e, m + 1) /\ m + 1 \in Nat
    BY <2>4
  <2> HIDE DEF Upto
  <2> QED
    BY <2>5
<1>3. PICK g : Upto(g, n)
  <2> HIDE DEF Upto
  <2>1. Nat \subseteq S
    BY <1>1, <1>2, NatInd
  <2> QED
    BY <2>1
<1> DEFINE e == [i \in 1 .. n |-> Step(g, i)]
<1>4. \A i \in 1 .. n : e[i] = g[i]
  BY <1>3
<1>5. e = [i \in 1 .. n |-> Step(g, i)]
  OBVIOUS
<1> HIDE DEF e
<1>6. ASSUME NEW i \in 1 .. n PROVE Step(e, i) = Step(g, i)
  <2>1. i # 1 => i - 1 \in 1 .. n
    OBVIOUS
  <2> QED
    BY <1>4, <2>1
<1>7. e = [i \in 1 .. n |-> Step(e, i)]
  <2> HIDE DEF Step
  <2> QED
    BY <1>5, <1>6
<1>8. IsFlatten(e, q)
  BY <1>7 DEF IsFlatten
<1> QED
  BY <1>8

\* Where the elements of the first m sequences are in their concatenation: those of
\* the i-th one are behind the first "ends[i - 1]".
Layout(q, m, flat, ends) ==
    /\ ends[0] = 0
    /\ \A i \in 1 .. m : ends[i] = ends[i - 1] + Len(q[i])
    /\ Len(flat) = ends[m]
    /\ \A i \in 1 .. m : \A j \in 1 .. Len(q[i]) :
           /\ ends[i - 1] + j \in 1 .. Len(flat)
           /\ flat[ends[i - 1] + j] = q[i][j]
    /\ \A p \in 1 .. Len(flat) : \E i \in 1 .. m : \E j \in 1 .. Len(q[i]) :
           p = ends[i - 1] + j

LEMMA LenType ==
    ASSUME NEW S, NEW s \in Seq(S)
    PROVE  Len(s) \in Nat
OBVIOUS

\* Appending a sequence extends the layout.
LEMMA LayoutStep ==
    ASSUME NEW S, NEW q, NEW m \in Nat, NEW ends \in [Nat -> Nat],
           NEW flat \in Seq(S), q[m + 1] \in Seq(S), \A i \in 1 .. m : q[i] \in Seq(S),
           Layout(q, m, flat, ends), ends[m + 1] = ends[m] + Len(q[m + 1])
    PROVE  Layout(q, m + 1, flat \o q[m + 1], ends)
<1>1. PICK last : last = q[m + 1]
  OBVIOUS
<1>2. last \in Seq(S)
  BY <1>1
<1>3. Len(last) \in Nat /\ Len(flat) \in Nat
  BY <1>2, LenType
<1>4. PICK all : all = flat \o last
  OBVIOUS
<1>5. /\ Len(all) = Len(flat) + Len(last)
      /\ \A i \in 1 .. Len(flat) + Len(last) :
             all[i] = IF i <= Len(flat) THEN flat[i] ELSE last[i - Len(flat)]
  BY <1>2, <1>4, ConcatProperties
<1>6. /\ ends[0] = 0 /\ Len(flat) = ends[m]
      /\ \A i \in 1 .. m : ends[i] = ends[i - 1] + Len(q[i])
      /\ \A i \in 1 .. m : \A j \in 1 .. Len(q[i]) :
             ends[i - 1] + j \in 1 .. Len(flat) /\ flat[ends[i - 1] + j] = q[i][j]
      /\ \A p \in 1 .. Len(flat) : \E i \in 1 .. m : \E j \in 1 .. Len(q[i]) :
             p = ends[i - 1] + j
  BY DEF Layout
<1>7. \A i \in 1 .. m + 1 : i \in 1 .. m \/ i = m + 1
  OBVIOUS
<1>8. (m + 1) - 1 = m /\ m + 1 \in 1 .. m + 1
  OBVIOUS
<1>9. Len(all) = ends[m + 1]
  BY <1>1, <1>5, <1>6
<1>10. \A i \in 1 .. m + 1 : ends[i] = ends[i - 1] + Len(q[i])
  BY <1>6, <1>7, <1>8
<1>11. ASSUME NEW i \in 1 .. m + 1, NEW j \in 1 .. Len(q[i])
       PROVE  ends[i - 1] + j \in 1 .. Len(all) /\ all[ends[i - 1] + j] = q[i][j]
  <2>1. CASE i \in 1 .. m
    <3>1. PICK p : p = ends[i - 1] + j
      OBVIOUS
    <3>2. p \in 1 .. Len(flat) /\ flat[p] = q[i][j]
      BY <1>6, <2>1, <3>1
    <3>3. p \in 1 .. Len(all) /\ p \in 1 .. Len(flat) + Len(last) /\ p <= Len(flat)
      BY <1>3, <1>5, <3>2
    <3> QED
      BY <1>5, <3>1, <3>2, <3>3
  <2>2. CASE i = m + 1
    <3>1. j \in 1 .. Len(last) /\ i - 1 = m /\ ends[m] = Len(flat) /\ q[i] = last
      BY <1>1, <1>6, <1>8, <2>2
    <3>2. /\ Len(flat) + j \in 1 .. Len(flat) + Len(last)
          /\ ~ (Len(flat) + j <= Len(flat)) /\ (Len(flat) + j) - Len(flat) = j
      <4>1. \A x, y \in Nat : \A z \in 1 .. y :
                x + z \in 1 .. x + y /\ ~ (x + z <= x) /\ (x + z) - x = z
        OBVIOUS
      <4> QED
        BY <1>3, <3>1, <4>1
    <3>3. all[Len(flat) + j] = last[j]
      BY <1>5, <3>2
    <3> QED
      BY <1>5, <3>1, <3>2, <3>3
  <2> QED
    BY <1>7, <2>1, <2>2
<1>12. ASSUME NEW p \in 1 .. Len(all)
       PROVE  \E i \in 1 .. m + 1 : \E j \in 1 .. Len(q[i]) : p = ends[i - 1] + j
  <2>1. CASE p \in 1 .. Len(flat)
    <3>1. PICK i \in 1 .. m : \E j \in 1 .. Len(q[i]) : p = ends[i - 1] + j
      BY <1>6, <2>1
    <3>2. i \in 1 .. m + 1
      OBVIOUS
    <3> QED
      BY <3>1, <3>2
  <2>2. CASE p \notin 1 .. Len(flat)
    <3>1. p - Len(flat) \in 1 .. Len(last) /\ p = Len(flat) + (p - Len(flat))
      BY <1>3, <1>5, <2>2
    <3>2. p = ends[(m + 1) - 1] + (p - Len(flat)) /\ q[m + 1] = last
      BY <1>1, <1>6, <1>8, <3>1
    <3> QED
      BY <1>8, <3>1, <3>2
  <2> QED
    BY <2>1, <2>2
<1> QED
  BY <1>1, <1>4, <1>6, <1>9, <1>10, <1>11, <1>12 DEF Layout

\* FlattenSeq lays the sequences out one behind the other.
LEMMA FlattenLayout ==
    ASSUME NEW S, NEW q, Len(q) \in Nat, \A i \in 1 .. Len(q) : q[i] \in Seq(S),
           q = <<>> \/ Len(q) > 0
    PROVE  /\ FlattenSeq(q) \in Seq(S)
           /\ \E ends \in [Nat -> Nat] : Layout(q, Len(q), FlattenSeq(q), ends)
<1>1. \A i \in 1 .. Len(q) : Len(q[i]) \in Nat
  <2>1. ASSUME NEW s \in Seq(S) PROVE Len(s) \in Nat
    OBVIOUS
  <2> QED
    BY <2>1
<1>2. PICK b : b = [i \in Nat |-> IF i + 1 \in 1 .. Len(q) THEN Len(q[i + 1]) ELSE 0]
  OBVIOUS
<1>3. \A i \in Nat : b[i] \in Nat
  BY <1>1, <1>2
<1>4. \A i \in Nat : i < Len(q) => b[i] = Len(q[i + 1])
  BY <1>2
<1>5. b \in [Nat -> Int]
  BY <1>2, <1>3
<1>6. PICK ends \in [Nat -> Int] :
          ends[0] = 0 /\ \A i \in Nat : ends[i + 1] = b[i] + 1 * ends[i]
  <2>1. 0 \in Int /\ 1 \in Int
    OBVIOUS
  <2> QED
    BY ZenonT(30), <1>5, <2>1, RecurrenceExists
<1>7. \A i \in Nat : ends[i + 1] = ends[i] + b[i]
  <2>1. \A x, y \in Int : x + 1 * y = y + x
    OBVIOUS
  <2>2. ASSUME NEW i \in Nat PROVE b[i] \in Int /\ ends[i] \in Int
    <3>1. b[i] \in Nat /\ \A x \in Nat : x \in Int
      BY <1>3
    <3>2. ends[i] \in Int
      BY <1>6
    <3> QED
      BY <3>1, <3>2
  <2> QED
    BY <1>6, <2>1, <2>2
<1>8. \A i \in Nat : ends[i] \in Nat
  <2> DEFINE T == {i \in Nat : ends[i] \in Nat}
  <2>1. 0 \in T
    BY <1>6
  <2>2. ASSUME NEW i \in Nat, i \in T PROVE i + 1 \in T
    <3>1. ends[i] \in Nat /\ b[i] \in Nat /\ ends[i + 1] = ends[i] + b[i]
      BY <1>3, <1>7, <2>2
    <3> QED
      BY <3>1
  <2> HIDE DEF T
  <2>3. Nat \subseteq T
    BY <2>1, <2>2, NatInd
  <2> QED
    BY <2>3 DEF T
<1>9. ends \in [Nat -> Nat]
  BY <1>6, <1>8
<1>10. \A i \in Nat : i < Len(q) => ends[i + 1] = ends[i] + Len(q[i + 1])
  BY <1>4, <1>7
<1>11. CASE Len(q) = 0
  <2>1. q = <<>> /\ FlattenSeq(q) = q
    BY <1>11 DEF FlattenSeq
  <2>2. Layout(q, 0, q, ends)
    BY <1>6, <1>11 DEF Layout
  <2>3. q \in Seq(S)
    BY <2>1
  <2> QED
    BY <1>9, <1>11, <2>1, <2>2, <2>3
<1>12. CASE Len(q) # 0
  <2>1. FlattenSeq(q) = (CHOOSE f : IsFlatten(f, q))[Len(q)]
    BY <1>12, Zenon DEF FlattenSeq, IsFlatten
  <2>2. PICK f : f = CHOOSE g : IsFlatten(g, q)
    OBVIOUS
  <2>3. IsFlatten(f, q)
    BY <2>2, FlattenExists
  <2>4. \A i \in 1 .. Len(q) : f[i] = IF i = 1 THEN q[i] ELSE f[i - 1] \o q[i]
    BY <2>3 DEF IsFlatten
  <2> DEFINE Good(i) == f[i] \in Seq(S) /\ Layout(q, i, f[i], ends)
             T == {i \in Nat : i + 1 <= Len(q) => Good(i + 1)}
  <2>5. 0 \in T
    <3>1. <<>> \in Seq(S) /\ Layout(q, 0, <<>>, ends)
      BY <1>6 DEF Layout
    <3>2. 1 \in 1 .. Len(q) /\ 0 < Len(q) /\ 0 + 1 = 1 /\ 0 \in Nat
      BY <1>12
    <3>3. f[1] = q[1] /\ q[1] \in Seq(S) /\ <<>> \o q[1] = q[1]
      BY <2>4, <3>2
    <3>4. ends[0 + 1] = ends[0] + Len(q[0 + 1])
      BY <1>10, <3>2
    <3>5. q[0 + 1] \in Seq(S) /\ \A i \in 1 .. 0 : q[i] \in Seq(S)
      BY <3>2, <3>3
    <3>6. Layout(q, 0 + 1, <<>> \o q[0 + 1], ends)
      BY <1>9, <3>1, <3>2, <3>4, <3>5, LayoutStep
    <3> QED
      BY <3>2, <3>3, <3>6
  <2>6. ASSUME NEW i \in Nat, i \in T PROVE i + 1 \in T
    <3>1. CASE (i + 1) + 1 <= Len(q)
      <4>1. f[i + 1] \in Seq(S) /\ Layout(q, i + 1, f[i + 1], ends)
        BY <2>6, <3>1
      <4>2. /\ (i + 1) + 1 \in 1 .. Len(q) /\ (i + 1) + 1 # 1 /\ ((i + 1) + 1) - 1 = i + 1
            /\ i + 1 \in Nat /\ i + 1 < Len(q)
            /\ \A j \in 1 .. i + 1 : j \in 1 .. Len(q)
        BY <3>1
      <4>3. f[(i + 1) + 1] = f[i + 1] \o q[(i + 1) + 1]
        BY <2>4, <4>2
      <4>4. ends[(i + 1) + 1] = ends[i + 1] + Len(q[(i + 1) + 1])
        BY <1>10, <4>2
      <4>5. q[(i + 1) + 1] \in Seq(S) /\ \A j \in 1 .. i + 1 : q[j] \in Seq(S)
        BY <4>2
      <4>6. Layout(q, (i + 1) + 1, f[i + 1] \o q[(i + 1) + 1], ends)
        BY <1>9, <4>1, <4>2, <4>4, <4>5, LayoutStep
      <4>7. f[(i + 1) + 1] \in Seq(S)
        BY <4>1, <4>3, <4>5, ConcatProperties
      <4> QED
        BY <4>2, <4>3, <4>6, <4>7
    <3>2. CASE ~ ((i + 1) + 1 <= Len(q))
      BY <3>2
    <3> QED
      BY <3>1, <3>2
  <2> HIDE DEF Good
  <2>7. Nat \subseteq T
    <3> HIDE DEF T
    <3> QED
      BY <2>5, <2>6, NatInd
  <2>8. Good(Len(q))
    <3>1. Len(q) - 1 \in Nat /\ (Len(q) - 1) + 1 = Len(q)
      BY <1>12
    <3>2. Len(q) - 1 \in T
      BY <2>7, <3>1
    <3> QED
      BY <3>1, <3>2
  <2> QED
    BY <1>9, <2>1, <2>2, <2>8 DEF Good
<1> QED
  BY <1>11, <1>12

-----------------------------------------------------------------------------
(***************************************************************************)
(* Reading a file forward: what is found at a place p of T depends on what *)
(* is found at the place next[p] behind it.                                *)
(***************************************************************************)
IsDescent(f, n, T, next, op, base) ==
    \A p \in 1 .. n : f[p] = IF p \in T THEN op[<<p, f[next[p]]>>] ELSE base[p]

\* The recursion has a solution.
LEMMA DescentExists ==
    ASSUME NEW n \in Nat, NEW R, NEW T, NEW next, NEW base, NEW op,
           \A p \in T : next[p] \in p + 1 .. n,
           \A p \in 1 .. n : base[p] \in R,
           \A p \in T : \A r \in R : op[<<p, r>>] \in R
    PROVE  \E f \in [1 .. n -> R] : IsDescent(f, n, T, next, op, base)
<1> DEFINE Turn(g, p) == IF p \in T THEN op[<<p, g[next[p]]>>] ELSE base[p]
           Upto(g, d) == /\ g \in [1 .. n -> R]
                         /\ \A p \in 1 .. n : n - p < d => g[p] = Turn(g, p)
           S == {d \in Nat : \E g : Upto(g, d)}
<1>1. 0 \in S
  <2>1. [p \in 1 .. n |-> base[p]] \in [1 .. n -> R]
    OBVIOUS
  <2>2. \A p \in 1 .. n : ~ (n - p < 0)
    OBVIOUS
  <2>3. Upto([p \in 1 .. n |-> base[p]], 0)
    BY <2>1, <2>2
  <2> HIDE DEF Upto
  <2> QED
    BY <2>3
<1>2. ASSUME NEW d \in Nat, d \in S PROVE d + 1 \in S
  <2>1. PICK g : Upto(g, d)
    BY <1>2
  <2>2. PICK e : e = [p \in 1 .. n |-> Turn(g, p)]
    OBVIOUS
  <2>3. \A p \in 1 .. n : p \in T => next[p] \in 1 .. n /\ n - next[p] < n - p
    OBVIOUS
  <2>4. \A p \in 1 .. n : Turn(g, p) \in R
    BY <2>1, <2>3
  <2>5. e \in [1 .. n -> R] /\ \A p \in 1 .. n : e[p] = Turn(g, p)
    <3> HIDE DEF Turn
    <3> QED
      BY <2>2, <2>4
  <2>6. \A p \in 1 .. n : n - p < d => e[p] = g[p]
    BY <2>1, <2>5
  <2>7. ASSUME NEW p \in 1 .. n, n - p < d + 1
        PROVE  e[p] = Turn(e, p)
    <3>1. CASE p \in T
      <4>1. next[p] \in 1 .. n /\ n - next[p] < d
        BY <2>3, <2>7, <3>1
      <4>2. e[next[p]] = g[next[p]]
        BY <2>6, <4>1
      <4> QED
        BY <2>5, <3>1, <4>2
    <3>2. CASE p \notin T
      BY <2>5, <3>2
    <3> QED
      BY <3>1, <3>2
  <2>8. Upto(e, d + 1) /\ d + 1 \in Nat
    BY <2>5, <2>7
  <2> HIDE DEF Upto
  <2> QED
    BY <2>8
<1>3. n \in S
  <2> HIDE DEF S
  <2> QED
    BY <1>1, <1>2, NatInd
<1>4. PICK g : Upto(g, n)
  BY <1>3
<1>5. \A p \in 1 .. n : n - p < n
  OBVIOUS
<1> QED
  BY <1>4, <1>5 DEF IsDescent

\* Ends of segments, one behind the other.
LEMMA EndsGrow ==
    ASSUME NEW m \in Nat, NEW ends \in [Nat -> Nat],
           \A i \in 1 .. m : ends[i - 1] <= ends[i],
           NEW a \in Nat, NEW b \in Nat, a <= b, b <= m
    PROVE  ends[a] <= ends[b]
<1> DEFINE S == {d \in Nat : a + d <= m => ends[a] <= ends[a + d]}
<1>1. 0 \in S
  OBVIOUS
<1>2. ASSUME NEW d \in Nat, d \in S PROVE d + 1 \in S
  <2>1. SUFFICES ASSUME a + (d + 1) <= m PROVE ends[a] <= ends[a + (d + 1)]
    OBVIOUS
  <2>2. ends[a] <= ends[a + d]
    BY <1>2, <2>1
  <2>3. a + (d + 1) \in 1 .. m /\ (a + (d + 1)) - 1 = a + d
    BY <2>1
  <2>4. ends[a + d] <= ends[a + (d + 1)]
    BY <2>3
  <2>5. ends[a] \in Nat /\ ends[a + d] \in Nat /\ ends[a + (d + 1)] \in Nat
    OBVIOUS
  <2> QED
    BY <2>2, <2>4, <2>5
<1>3. Nat \subseteq S
  <2> HIDE DEF S
  <2> QED
    BY <1>1, <1>2, NatInd
<1>4. PICK d \in Nat : d = b - a
  OBVIOUS
<1>5. d \in S
  BY <1>3
<1>6. a + d = b
  BY <1>4
<1> QED
  BY <1>5, <1>6
=============================================================================
