--------------------------- MODULE ReadPathProofs ---------------------------
(***************************************************************************)
(* The read path of ReadPath.tla, for all values of the constants: slice,  *)
(* file and reader do what the other modules take them to do.              *)
(***************************************************************************)
EXTENDS ReadPath, MemtableProofs, FiniteSetTheorems, TLAPS

\* What a slice of the memtable holds.
SliceEntry == [key : Keys, v : Int \ {0}]

\* The slice is sorted, and holds the entries of the table.
MemtableInv ==
    /\ writes \in Nat
    /\ table \in Table
    /\ mem \in Seq(SliceEntry)
    /\ Sorted(mem)
    /\ \A k \in Keys, v \in Int \ {0} : table[k] = v <=> Entry(k, v) \in ToSet(mem)

\* Keys are numbers, so entries can be compared.
LEMMA KeyType == \A x \in SliceEntry : x.key \in Int /\ x.key \in Keys /\ x.v \in Int \ {0}
<1>1. \A x \in SliceEntry : x.key \in Keys /\ x.v \in Int \ {0}
  BY DEF SliceEntry
<1>2. \A k \in Keys : k \in Int
  BY KeysAssumption
<1> QED
  BY <1>1, <1>2

\* Put and Delete change the entry of one key in both.
LEMMA WriteToInv ==
    ASSUME MemtableInv, NEW k \in Keys, NEW v \in Int \ {0}, WriteTo(k, v)
    PROVE  MemtableInv'
<1> USE DEF MemtableInv
<1>1. /\ writes' = writes + 1 /\ mem' = Upsert(mem, Entry(k, v))
      /\ table' = [table EXCEPT ![k] = v]
  BY DEF WriteTo
<1>2. Entry(k, v) \in SliceEntry /\ Entry(k, v).key = k
  BY DEF Entry, SliceEntry
<1>3. /\ mem' \in Seq(SliceEntry)
      /\ Entry(k, v) \in ToSet(mem')
      /\ ToSet(mem') \subseteq ToSet(mem) \cup {Entry(k, v)}
      /\ \A x \in ToSet(mem) : x.key # k => x \in ToSet(mem')
  BY <1>1, <1>2, UpsertEntries
<1>4. Sorted(mem')
  BY <1>1, <1>2, KeyType, UpsertSorted
<1>5. table' \in Table /\ \A j \in Keys : table'[j] = IF j = k THEN v ELSE table[j]
  BY <1>1 DEF Table
<1>6. ASSUME NEW j \in Keys, NEW w \in Int \ {0}
      PROVE  table'[j] = w <=> Entry(j, w) \in ToSet(mem')
  <2>1. Entry(j, w).key = j /\ Entry(j, w).v = w /\ Entry(k, v).v = v
    BY DEF Entry
  <2>2. CASE j = k
    <3>1. Entry(j, w) \in ToSet(mem') => Entry(j, w) = Entry(k, v)
      BY <1>2, <1>3, <1>4, <2>1, <2>2, KeyType, SortedUnique
    <3> QED
      BY <1>3, <1>5, <2>1, <2>2, <3>1
  <2>3. CASE j # k
    <3>1. Entry(j, w) # Entry(k, v)
      BY <1>2, <2>1, <2>3
    <3>2. Entry(j, w) \in ToSet(mem') <=> Entry(j, w) \in ToSet(mem)
      BY <1>3, <2>1, <2>3, <3>1
    <3> QED
      BY <1>5, <2>3, <3>2
  <2> QED
    BY <2>2, <2>3
<1> QED
  BY <1>1, <1>3, <1>4, <1>5, <1>6

\* An empty slice is an empty table.
LEMMA EmptyMemtable ==
    /\ <<>> \in Seq(SliceEntry) /\ Sorted(<<>>) /\ ToSet(<<>>) = {}
    /\ EmptyTable \in Table /\ \A k \in Keys : EmptyTable[k] = 0
  BY DEF Sorted, ToSet, EmptyTable, Table, Absent

-----------------------------------------------------------------------------
(***************************************************************************)
(* The encoder.  An entry is laid out as header, key and value behind the  *)
(* place p; a segment of the slice has its i-th entry behind the first     *)
(* ends[i - 1] units of its data block.                                    *)
(***************************************************************************)
ValueLength(e) == IF e.v < 0 THEN 0 ELSE e.v % 3

Unit == [vLen : Nat, tomb : BOOLEAN] \cup Int \cup {"header", "footer"}

EntryIn(f, p, e) ==
    /\ f[p + 1] = Header(ValueLength(e), e.v < 0)
    /\ f[p + 2] = e.key
    /\ \A j \in 1 .. ValueLength(e) : f[p + 2 + j] = e.v

Samples(slice, ends) ==
    Build([i \in DOMAIN slice |-> slice[i].key], [i \in DOMAIN slice |-> ends[i - 1]])

EndsOf(slice, ends) ==
    /\ ends \in [Nat -> Nat] /\ ends[0] = 0
    /\ \A i \in 1 .. Len(slice) : ends[i] = ends[i - 1] + 2 + ValueLength(slice[i])

\* What the metadata and the file say of a segment of the slice.
BlockAt(f, m, data, slice, ends) ==
    /\ slice \in Seq(SliceEntry) /\ Len(slice) > 0 /\ Sorted(slice)
    /\ data \in Table
    /\ \A k \in Keys, v \in Int \ {0} : data[k] = v <=> Entry(k, v) \in ToSet(slice)
    /\ EndsOf(slice, ends)
    /\ m.offset \in Nat
    /\ m.sparseIndexOffset = 1 + ends[Len(slice)]
    /\ m.offset + 1 + ends[Len(slice)] <= Len(f)
    /\ \A i \in 1 .. Len(slice) : EntryIn(f, m.offset + 1 + ends[i - 1], slice[i])
    /\ m.index = Samples(slice, ends)

\* The values stored are none, one or two units long.
LEMMA ValueLengthType ==
    ASSUME NEW e \in SliceEntry
    PROVE  /\ ValueLength(e) \in Nat /\ e.v \in Int \ {0} /\ e.key \in Keys /\ e.key \in Nat
           /\ ~ (e.v < 0) => ValueLength(e) = e.v % 3
           /\ e.v < 0 => ValueLength(e) = 0
<1>1. PICK v \in Int \ {0} : v = e.v
  BY KeyType
<1>2. v % 3 \in Nat
  OBVIOUS
<1>3. e.key \in Keys /\ e.key \in Nat
  BY KeyType, KeysAssumption
<1> QED
  BY <1>1, <1>2, <1>3 DEF ValueLength

LEMMA ValueOfUnits ==
    ASSUME NEW n \in Nat
    PROVE  /\ ValueOf(n) \in Seq(Int) /\ Len(ValueOf(n)) = n % 3
           /\ \A j \in 1 .. n % 3 : ValueOf(n)[j] = n
<1>1. PICK l \in Nat : l = n % 3
  OBVIOUS
<1>2. PICK s : s = [i \in 1 .. l |-> n]
  OBVIOUS
<1>3. s \in [1 .. l -> Int] /\ \A j \in 1 .. l : s[j] = n
  BY <1>2
<1>4. s \in Seq(Int) /\ Len(s) = l
  BY <1>1, <1>2, <1>3
<1> QED
  BY <1>1, <1>2, <1>3, <1>4 DEF ValueOf

\* The units of one entry.
LEMMA EncodeUnits ==
    ASSUME NEW e \in SliceEntry
    PROVE  /\ Encode(e) \in Seq(Unit) /\ Len(Encode(e)) = 2 + ValueLength(e)
           /\ Encode(e)[1] = Header(ValueLength(e), e.v < 0)
           /\ Encode(e)[2] = e.key
           /\ \A j \in 1 .. ValueLength(e) : Encode(e)[2 + j] = e.v
<1>1. PICK l \in Nat : l = ValueLength(e)
  BY ValueLengthType
<1>2. PICK v \in Int \ {0} : v = e.v
  BY ValueLengthType
<1>3. PICK h \in Unit : h = Header(l, v < 0)
  <2>1. PICK b \in BOOLEAN : b = (v < 0)
    <3>1. CASE v < 0
      <4>1. (v < 0) = TRUE
        BY <3>1
      <4> QED
        BY <4>1
    <3>2. CASE ~ (v < 0)
      <4>1. (v < 0) = FALSE
        BY <3>2
      <4> QED
        BY <4>1
    <3> QED
      BY <3>1, <3>2
  <2>2. Header(l, b) \in Unit
    BY DEF Header, Unit
  <2> QED
    BY <2>1, <2>2
<1>4. PICK k \in Unit : k = e.key
  <2>1. e.key \in Int
    BY KeyType
  <2> QED
    BY <2>1 DEF Unit
<1>5. PICK val \in Seq(Unit) : /\ val = IF v < 0 THEN <<>> ELSE ValueOf(v)
                               /\ Len(val) = l /\ \A j \in 1 .. l : val[j] = v
  <2>1. CASE v < 0
    <3>1. l = 0
      BY <1>1, <1>2, <2>1, ValueLengthType
    <3>2. <<>> \in Seq(Unit) /\ Len(<<>>) = 0
      OBVIOUS
    <3>3. \A j \in 1 .. l : <<>>[j] = v
      BY <3>1
    <3> QED
      BY <2>1, <3>1, <3>2, <3>3
  <2>2. CASE ~ (v < 0)
    <3>1. v \in Nat
      BY <2>2
    <3>2. l = v % 3
      BY <1>1, <1>2, <2>2, ValueLengthType
    <3>3. ValueOf(v) \in Seq(Int) /\ Len(ValueOf(v)) = l /\ \A j \in 1 .. l : ValueOf(v)[j] = v
      BY <3>1, <3>2, ValueOfUnits
    <3>4. ValueOf(v) \in Seq(Unit)
      <4>1. Int \subseteq Unit
        BY DEF Unit
      <4> HIDE DEF Unit
      <4> QED
        BY <3>3, <4>1
    <3> QED
      BY <2>2, <3>3, <3>4
  <2> QED
    BY <2>1, <2>2
<1>6. PICK s : s = <<h, k>> \o val
  OBVIOUS
<1>7. /\ s \in Seq(Unit) /\ Len(s) = 2 + l /\ s[1] = h /\ s[2] = k
      /\ \A j \in 1 .. l : s[2 + j] = v
  <2>1. /\ <<h, k>> \in Seq(Unit) /\ Len(<<h, k>>) = 2
        /\ <<h, k>>[1] = h /\ <<h, k>>[2] = k
    OBVIOUS
  <2>2. /\ s \in Seq(Unit) /\ Len(s) = 2 + l
        /\ \A i \in 1 .. 2 + l : s[i] = IF i <= 2 THEN <<h, k>>[i] ELSE val[i - 2]
    BY <1>5, <1>6, <2>1, ConcatProperties
  <2>3. ASSUME NEW j \in 1 .. l PROVE s[2 + j] = v
    <3>1. 2 + j \in 1 .. 2 + l /\ ~ (2 + j <= 2) /\ (2 + j) - 2 = j
      OBVIOUS
    <3> QED
      BY <1>5, <2>2, <3>1
  <2>4. 1 \in 1 .. 2 + l /\ 2 \in 1 .. 2 + l /\ 1 <= 2
    OBVIOUS
  <2> QED
    BY <2>1, <2>2, <2>3, <2>4
<1>8. Encode(e) = s
  <2>1. CASE v < 0
    <3>1. val = <<>> /\ l = 0
      BY <1>1, <1>2, <1>5, <2>1, ValueLengthType
    <3>2. s = <<h, k>>
      BY <1>6, <3>1
    <3>3. (v < 0) = TRUE
      BY <2>1
    <3> QED
      BY <1>2, <1>3, <1>4, <2>1, <3>1, <3>2, <3>3 DEF Encode
  <2>2. CASE ~ (v < 0)
    <3>1. Len(ValueOf(v)) = l /\ val = ValueOf(v)
      BY <1>5, <2>2
    <3>2. (v < 0) = FALSE
      BY <2>2
    <3>3. h = Header(Len(ValueOf(v)), FALSE)
      BY <1>3, <3>1, <3>2
    <3> QED
      BY <1>2, <1>4, <1>6, <2>2, <3>1, <3>3 DEF Encode
  <2> QED
    BY <2>1, <2>2
<1> QED
  BY <1>1, <1>2, <1>3, <1>4, <1>7, <1>8

\* The places where the entries of a slice end.
LEMMA EndsExist ==
    ASSUME NEW slice \in Seq(SliceEntry)
    PROVE  \E ends : EndsOf(slice, ends)
<1>1. Len(slice) \in Nat /\ \A i \in 1 .. Len(slice) : slice[i] \in SliceEntry
  BY SliceType
<1>2. PICK n \in Nat : n = Len(slice)
  BY <1>1
<1>3. \A i \in 1 .. n : ValueLength(slice[i]) \in Nat
  BY <1>1, <1>2, ValueLengthType
<1>4. PICK b : b = [i \in Nat |-> IF i + 1 \in 1 .. n THEN 2 + ValueLength(slice[i + 1]) ELSE 0]
  OBVIOUS
<1>5. ASSUME NEW i \in Nat
      PROVE  b[i] \in Nat /\ (i + 1 \in 1 .. n => b[i] = 2 + ValueLength(slice[i + 1]))
  <2>1. b[i] = IF i + 1 \in 1 .. n THEN 2 + ValueLength(slice[i + 1]) ELSE 0
    BY <1>4
  <2>2. CASE i + 1 \in 1 .. n
    <3>1. PICK v \in Nat : v = ValueLength(slice[i + 1])
      BY <1>3, <2>2
    <3>2. b[i] = 2 + v
      BY <2>1, <2>2, <3>1
    <3> QED
      BY <3>1, <3>2
  <2>3. CASE i + 1 \notin 1 .. n
    BY <2>1, <2>3
  <2> QED
    BY <2>2, <2>3
<1>6. b \in [Nat -> Int]
  BY <1>4, <1>5
<1>7. PICK ends \in [Nat -> Int] : ends[0] = 0 /\ \A i \in Nat : ends[i + 1] = b[i] + 1 * ends[i]
  <2>1. 0 \in Int /\ 1 \in Int
    OBVIOUS
  <2> QED
    BY ZenonT(30), <1>6, <2>1, RecurrenceExists
<1>8. ASSUME NEW i \in Nat PROVE ends[i + 1] = ends[i] + b[i]
  <2>1. PICK x \in Int : x = ends[i]
    OBVIOUS
  <2>2. PICK y \in Int : y = b[i]
    BY <1>5
  <2>3. ends[i + 1] = y + 1 * x
    BY <1>7, <2>1, <2>2
  <2>4. y + 1 * x = x + y
    OBVIOUS
  <2> QED
    BY <2>1, <2>2, <2>3, <2>4
<1>9. \A i \in Nat : ends[i] \in Nat
  <2> DEFINE S == {i \in Nat : ends[i] \in Nat}
  <2>1. 0 \in S
    BY <1>7
  <2>2. ASSUME NEW i \in Nat, i \in S PROVE i + 1 \in S
    <3>1. PICK x \in Nat : x = ends[i]
      BY <2>2
    <3>2. PICK y \in Nat : y = b[i]
      BY <1>5
    <3>3. ends[i + 1] = x + y
      BY <1>8, <3>1, <3>2
    <3> QED
      BY <3>3
  <2>3. Nat \subseteq S
    <3> HIDE DEF S
    <3> QED
      BY <2>1, <2>2, NatInd
  <2> QED
    BY <2>3
<1>10. ends \in [Nat -> Nat]
  BY <1>7, <1>9
<1>11. ASSUME NEW i \in 1 .. n PROVE ends[i] = ends[i - 1] + 2 + ValueLength(slice[i])
  <2>1. i - 1 \in Nat /\ (i - 1) + 1 = i
    OBVIOUS
  <2>2. ends[i] = ends[i - 1] + b[i - 1] /\ b[i - 1] = 2 + ValueLength(slice[i])
    BY <1>5, <1>8, <2>1
  <2>3. PICK v \in Nat : v = ValueLength(slice[i])
    BY <1>3
  <2>4. PICK x \in Nat : x = ends[i - 1]
    BY <1>9, <2>1
  <2>5. x + (2 + v) = x + 2 + v
    OBVIOUS
  <2> QED
    BY <2>2, <2>3, <2>4, <2>5
<1> QED
  BY <1>2, <1>7, <1>10, <1>11 DEF EndsOf

\* The first m entries of a slice, encoded one behind the other.
Encoded(slice, m) == FlattenSeq([j \in 1 .. m |-> Encode(slice[j])])

LEMMA EncodingLayout ==
    ASSUME NEW slice \in Seq(SliceEntry), NEW ends, EndsOf(slice, ends),
           NEW m \in 0 .. Len(slice), NEW flat,
           flat = Encoded(slice, m)
    PROVE  /\ flat \in Seq(Unit) /\ Len(flat) = ends[m]
           /\ \A i \in 1 .. m : \A j \in 1 .. 2 + ValueLength(slice[i]) :
                  /\ ends[i - 1] + j \in 1 .. ends[m]
                  /\ flat[ends[i - 1] + j] = Encode(slice[i])[j]
<1>1. Len(slice) \in Nat /\ m \in Nat /\ \A i \in 1 .. m : slice[i] \in SliceEntry
  <2>1. Len(slice) \in Nat /\ \A i \in 1 .. Len(slice) : slice[i] \in SliceEntry
    BY SliceType
  <2> QED
    BY <2>1
<1>2. PICK q : q = [j \in 1 .. m |-> Encode(slice[j])]
  OBVIOUS
<1>3. Len(q) = m /\ (q = <<>> \/ Len(q) > 0)
  <2>1. Len(q) = m
    BY <1>1, <1>2
  <2>2. m = 0 => q = <<>>
    BY <1>2
  <2> QED
    BY <1>1, <2>1, <2>2
<1>4. ASSUME NEW i \in 1 .. m
      PROVE  /\ q[i] = Encode(slice[i]) /\ q[i] \in Seq(Unit)
             /\ Len(q[i]) = 2 + ValueLength(slice[i]) /\ ValueLength(slice[i]) \in Nat
  BY <1>1, <1>2, EncodeUnits, ValueLengthType
<1>5. /\ FlattenSeq(q) \in Seq(Unit)
      /\ \E e \in [Nat -> Nat] : Layout(q, Len(q), FlattenSeq(q), e)
  BY <1>1, <1>3, <1>4, FlattenLayout
<1>6. PICK e \in [Nat -> Nat] : Layout(q, m, flat, e)
  BY <1>2, <1>3, <1>5 DEF Encoded
<1>7. \A i \in 0 .. m : e[i] = ends[i]
  <2> DEFINE S == {i \in Nat : i <= m => e[i] = ends[i]}
  <2>1. 0 \in S
    BY <1>6 DEF EndsOf, Layout
  <2>2. ASSUME NEW i \in Nat, i \in S PROVE i + 1 \in S
    <3>1. SUFFICES ASSUME i + 1 <= m PROVE e[i + 1] = ends[i + 1]
      OBVIOUS
    <3>2. i + 1 \in 1 .. m /\ (i + 1) - 1 = i /\ i + 1 \in 1 .. Len(slice) /\ e[i] = ends[i]
      BY <1>1, <2>2, <3>1
    <3>3. e[i + 1] = e[i] + Len(q[i + 1])
      BY <1>6, <3>2, Zenon DEF Layout
    <3>4. ends[i + 1] = ends[i] + 2 + ValueLength(slice[i + 1])
      BY <3>2 DEF EndsOf
    <3>5. PICK v \in Nat : v = ValueLength(slice[i + 1]) /\ Len(q[i + 1]) = 2 + v
      BY <1>4, <3>2
    <3>6. PICK x \in Nat : x = ends[i]
      BY DEF EndsOf
    <3>7. x + (2 + v) = x + 2 + v
      OBVIOUS
    <3> QED
      BY <3>2, <3>3, <3>4, <3>5, <3>6, <3>7
  <2>3. Nat \subseteq S
    <3> HIDE DEF S
    <3> QED
      BY <2>1, <2>2, NatInd
  <2> QED
    BY <1>1, <2>3
<1>8. Len(flat) = ends[m]
  BY <1>1, <1>6, <1>7 DEF Layout
<1>9. ASSUME NEW i \in 1 .. m, NEW j \in 1 .. 2 + ValueLength(slice[i])
      PROVE  /\ ends[i - 1] + j \in 1 .. ends[m]
             /\ flat[ends[i - 1] + j] = Encode(slice[i])[j]
  <2>1. i - 1 \in 0 .. m
    BY <1>1
  <2>2. e[i - 1] = ends[i - 1]
    BY <1>7, <2>1
  <2>3. j \in 1 .. Len(q[i])
    BY <1>4
  <2>4. e[i - 1] + j \in 1 .. Len(flat) /\ flat[e[i - 1] + j] = q[i][j]
    BY <1>6, <2>3, Zenon DEF Layout
  <2> QED
    BY <1>4, <1>8, <2>2, <2>4
<1> QED
  BY <1>2, <1>5, <1>8, <1>9 DEF Encoded

\* The division of Build rounds up: the samples are at entries of the slice, and
\* fewer than Stride entries are behind the last one.
LEMMA SamplePlaces ==
    ASSUME NEW len \in Nat, len > 0, NEW n, n = (len + Stride - 1) \div Stride
    PROVE  /\ n \in Nat /\ n > 0
           /\ \A i \in 1 .. n : (i - 1) * Stride \in Nat /\ 1 + (i - 1) * Stride \in 1 .. len
           /\ n * Stride >= len
<1> USE ReadPathAssumption
<1>1. PICK a \in Nat : a = len + Stride - 1
  OBVIOUS
<1>2. n \in Int /\ Stride * n <= a /\ a < Stride * n + Stride
  <2>1. \A x \in Nat, y \in Nat \ {0} :
            x \div y \in Int /\ y * (x \div y) <= x /\ x < y * (x \div y) + y
    OBVIOUS
  <2> QED
    BY <1>1, <2>1
<1>3. PICK p \in Int : p = Stride * n
  BY <1>2
<1>4. p <= len + Stride - 1 /\ len - 1 < p
  BY <1>1, <1>2, <1>3
<1>5. n > 0
  <2>1. n <= 0 => p <= 0
    BY <1>2, <1>3
  <2> QED
    BY <1>2, <1>4, <2>1
<1>6. n * Stride = p
  BY <1>2, <1>3
<1>7. ASSUME NEW i \in 1 .. n
      PROVE  (i - 1) * Stride \in Nat /\ 1 + (i - 1) * Stride \in 1 .. len
  <2>1. (i - 1) * Stride \in Nat /\ (i - 1) * Stride <= (n - 1) * Stride
    BY <1>2, <1>5
  <2>2. (n - 1) * Stride = p - Stride
    BY <1>2, <1>6
  <2> QED
    BY <1>3, <1>4, <2>1, <2>2
<1> QED
  BY <1>2, <1>4, <1>5, <1>6, <1>7

\* The n samples of a slice: their keys, and where their entries start.
SampledAt(index, slice, ends, n) ==
    /\ n > 0 /\ n * Stride >= Len(slice)
    /\ index \in [keys : Seq(Keys), offsets : Seq(Nat)]
    /\ index.keys \in Seq(Keys) /\ Len(index.keys) = n
    /\ \A i \in 1 .. n :
          /\ (i - 1) * Stride \in Nat /\ 1 + (i - 1) * Stride \in 1 .. Len(slice)
          /\ index.keys[i] = slice[1 + (i - 1) * Stride].key
          /\ index.offsets[i] = ends[(i - 1) * Stride]

LEMMA SamplesAt ==
    ASSUME NEW slice \in Seq(SliceEntry), Len(slice) > 0, NEW ends, EndsOf(slice, ends),
           NEW index, index = Samples(slice, ends)
    PROVE  \E n \in Nat : SampledAt(index, slice, ends, n)
<1>1. PICK len \in Nat : len = Len(slice) /\ len > 0 /\ DOMAIN slice = 1 .. len
  BY SliceType
<1>2. PICK n : n = (len + Stride - 1) \div Stride
  OBVIOUS
<1>3. /\ n \in Nat /\ n > 0 /\ n * Stride >= len
      /\ \A i \in 1 .. n : (i - 1) * Stride \in Nat /\ 1 + (i - 1) * Stride \in 1 .. len
  BY <1>1, <1>2, SamplePlaces
<1> DEFINE k == [i \in DOMAIN slice |-> slice[i].key]
           o == [i \in DOMAIN slice |-> ends[i - 1]]
<1>4. Len(k) = len
  BY <1>1
<1>5. /\ index = [keys |-> index.keys, offsets |-> index.offsets]
      /\ index.keys = [i \in 1 .. n |-> k[1 + (i - 1) * Stride]]
      /\ index.offsets = [i \in 1 .. n |-> o[1 + (i - 1) * Stride]]
  <2> HIDE DEF k, o
  <2>1. Build(k, o) = [keys |-> [i \in 1 .. n |-> k[1 + (i - 1) * Stride]],
                       offsets |-> [i \in 1 .. n |-> o[1 + (i - 1) * Stride]]]
    BY <1>2, <1>4 DEF Build
  <2>2. index = Build(k, o)
    BY DEF Samples, k, o
  <2> QED
    BY <2>1, <2>2
<1>6. \A j \in 1 .. len : k[j] = slice[j].key /\ o[j] = ends[j - 1]
  BY <1>1
<1> HIDE DEF k, o
<1>7. ASSUME NEW i \in 1 .. n
      PROVE  /\ index.keys[i] = slice[1 + (i - 1) * Stride].key
             /\ index.offsets[i] = ends[(i - 1) * Stride]
             /\ index.keys[i] \in Keys /\ index.offsets[i] \in Nat
  <2>1. PICK x \in Nat : x = (i - 1) * Stride /\ 1 + x \in 1 .. len /\ (1 + x) - 1 = x
    BY <1>3
  <2>2. index.keys[i] = k[1 + x] /\ index.offsets[i] = o[1 + x]
    BY <1>5, <2>1
  <2>3. k[1 + x] = slice[1 + x].key /\ o[1 + x] = ends[x]
    BY <1>6, <2>1
  <2>4. slice[1 + x].key \in Keys
    BY <1>1, <2>1, SliceType, KeyType
  <2>5. ends[x] \in Nat
    BY <2>1 DEF EndsOf
  <2> QED
    BY <2>1, <2>2, <2>3, <2>4, <2>5
<1>8. /\ index.keys \in Seq(Keys) /\ Len(index.keys) = n
      /\ index \in [keys : Seq(Keys), offsets : Seq(Nat)]
  <2>1. index.keys \in [1 .. n -> Keys] /\ index.offsets \in [1 .. n -> Nat]
    BY <1>5, <1>7
  <2>2. /\ index.keys \in Seq(Keys) /\ Len(index.keys) = n /\ index.offsets \in Seq(Nat)
    BY <1>3, <2>1
  <2> QED
    BY <1>5, <2>2
<1> QED
  BY <1>1, <1>3, <1>7, <1>8 DEF SampledAt

\* What WriteSegment makes of a slice.
LEMMA SegmentWritten ==
    ASSUME NEW slice \in Seq(SliceEntry), Len(slice) > 0, NEW ends, EndsOf(slice, ends),
           NEW seg, seg = WriteSegment(slice)
    PROVE  /\ seg.index = Samples(slice, ends)
           /\ seg.sparseIndexOffset = 1 + ends[Len(slice)]
           /\ seg.bytes \in Seq(Unit) /\ Len(seg.index.keys) \in Nat
           /\ Len(seg.bytes) = 1 + ends[Len(slice)] + Len(seg.index.keys) + 1
           /\ \A i \in 1 .. Len(slice) : EntryIn(seg.bytes, 1 + ends[i - 1], slice[i])
<1>1. PICK len \in Nat : len = Len(slice) /\ len > 0 /\ DOMAIN slice = 1 .. len
  BY SliceType
<1>2. PICK block : block = Encoded(slice, len)
  OBVIOUS
<1>3. PICK index : index = Samples(slice, ends)
  OBVIOUS
<1>4. PICK o : o = [i \in 1 .. len |-> Len(Encoded(slice, i - 1))]
  OBVIOUS
<1>5. o = [i \in DOMAIN slice |-> ends[i - 1]]
  <2>1. ASSUME NEW i \in 1 .. len PROVE Len(Encoded(slice, i - 1)) = ends[i - 1]
    <3>1. PICK m \in 0 .. Len(slice) : m = i - 1
      BY <1>1
    <3>2. Len(Encoded(slice, m)) = ends[m]
      BY EncodingLayout
    <3> QED
      BY <3>1, <3>2
  <2> QED
    BY <1>1, <1>4, <2>1
<1>6. index = Build([i \in DOMAIN slice |-> slice[i].key], o)
  BY <1>3, <1>5 DEF Samples
<1>7. seg = [bytes |-> ((<<"header">> \o block) \o index.keys) \o <<"footer">>,
             index |-> index, sparseIndexOffset |-> DataStartOffset + Len(block)]
  <2>1. block = FlattenSeq([i \in DOMAIN slice |-> Encode(slice[i])])
    BY <1>1, <1>2 DEF Encoded
  <2>2. o = [i \in DOMAIN slice |-> Len(FlattenSeq([j \in 1 .. i - 1 |-> Encode(slice[j])]))]
    BY <1>1, <1>4 DEF Encoded
  <2> QED
    BY <1>6, <2>1, <2>2 DEF WriteSegment
<1>8. /\ block \in Seq(Unit) /\ Len(block) = ends[len]
      /\ \A i \in 1 .. len : \A j \in 1 .. 2 + ValueLength(slice[i]) :
             /\ ends[i - 1] + j \in 1 .. ends[len]
             /\ block[ends[i - 1] + j] = Encode(slice[i])[j]
  <2>1. len \in 0 .. Len(slice)
    BY <1>1
  <2> QED
    BY <1>2, <2>1, EncodingLayout
<1>9. PICK n \in Nat : n = Len(index.keys) /\ index.keys \in Seq(Keys)
  BY <1>1, <1>3, SamplesAt DEF SampledAt
<1>10. index.keys \in Seq(Unit) /\ <<"header">> \in Seq(Unit) /\ <<"footer">> \in Seq(Unit)
  <2>1. \A k \in Keys : k \in Unit
    BY KeysAssumption DEF Unit
  <2>2. "header" \in Unit /\ "footer" \in Unit
    BY DEF Unit
  <2> HIDE DEF Unit
  <2> QED
    BY <1>9, <2>1, <2>2
<1>11. PICK d \in Nat : d = ends[len]
  BY <1>1 DEF EndsOf
<1>12. PICK b1 : b1 = <<"header">> \o block
  OBVIOUS
<1>13. /\ b1 \in Seq(Unit) /\ Len(b1) = 1 + d
       /\ \A x \in 1 .. d : b1[1 + x] = block[x]
  <2>1. Len(<<"header">>) = 1
    OBVIOUS
  <2>2. /\ b1 \in Seq(Unit) /\ Len(b1) = 1 + d
        /\ \A i \in 1 .. 1 + d : b1[i] = IF i <= 1 THEN <<"header">>[i] ELSE block[i - 1]
    BY <1>8, <1>10, <1>11, <1>12, <2>1, ConcatProperties
  <2>3. ASSUME NEW x \in 1 .. d PROVE b1[1 + x] = block[x]
    <3>1. 1 + x \in 1 .. 1 + d /\ ~ (1 + x <= 1) /\ (1 + x) - 1 = x
      OBVIOUS
    <3> QED
      BY <2>2, <3>1
  <2> QED
    BY <2>2, <2>3
<1>14. PICK b2 : b2 = b1 \o index.keys
  OBVIOUS
<1>15. /\ b2 \in Seq(Unit) /\ Len(b2) = 1 + d + n
       /\ \A i \in 1 .. 1 + d : b2[i] = b1[i]
  <2>1. /\ b2 \in Seq(Unit) /\ Len(b2) = Len(b1) + Len(index.keys)
        /\ \A i \in 1 .. Len(b1) + Len(index.keys) :
               b2[i] = IF i <= Len(b1) THEN b1[i] ELSE index.keys[i - Len(b1)]
    BY <1>10, <1>13, <1>14, ConcatProperties
  <2>2. PICK c \in Nat : c = Len(b1) /\ c = 1 + d
    BY <1>13
  <2>3. Len(b2) = c + n /\ \A i \in 1 .. c + n : i <= c => b2[i] = b1[i]
    BY <1>9, <2>1, <2>2
  <2>4. \A i \in 1 .. c : i \in 1 .. c + n /\ i <= c
    OBVIOUS
  <2> QED
    BY <2>1, <2>2, <2>3, <2>4
<1>16. PICK b3 : b3 = b2 \o <<"footer">>
  OBVIOUS
<1>17. /\ b3 \in Seq(Unit) /\ Len(b3) = 1 + d + n + 1
       /\ \A i \in 1 .. 1 + d + n : b3[i] = b2[i]
  <2>1. Len(<<"footer">>) = 1
    OBVIOUS
  <2>2. /\ b3 \in Seq(Unit) /\ Len(b3) = (1 + d + n) + 1
        /\ \A i \in 1 .. (1 + d + n) + 1 :
               b3[i] = IF i <= 1 + d + n THEN b2[i] ELSE <<"footer">>[i - (1 + d + n)]
    BY <1>10, <1>15, <1>16, <2>1, ConcatProperties
  <2> QED
    BY <2>2
<1>18. \A x \in 1 .. d : b3[1 + x] = block[x]
  <2>1. ASSUME NEW x \in 1 .. d PROVE b3[1 + x] = block[x]
    <3>1. 1 + x \in 1 .. 1 + d /\ 1 + x \in 1 .. 1 + d + n
      OBVIOUS
    <3> QED
      BY <1>13, <1>15, <1>17, <3>1
  <2> QED
    BY <2>1
<1>19. seg.bytes = b3 /\ seg.index = index /\ seg.sparseIndexOffset = 1 + d
  <2>1. Len(block) = d
    BY <1>8, <1>11
  <2>2. PICK b : b = ((<<"header">> \o block) \o index.keys) \o <<"footer">>
    OBVIOUS
  <2>3. b = b3
    BY <1>12, <1>14, <1>16, <2>2
  <2>4. seg = [bytes |-> b, index |-> index, sparseIndexOffset |-> DataStartOffset + Len(block)]
    BY <1>7, <2>2
  <2> QED
    BY <2>1, <2>3, <2>4 DEF DataStartOffset
<1>20. ASSUME NEW i \in 1 .. len
       PROVE  EntryIn(b3, 1 + ends[i - 1], slice[i])
  <2>1. PICK e \in SliceEntry : e = slice[i]
    BY <1>1, SliceType
  <2>2. PICK l \in Nat : l = ValueLength(e)
    BY ValueLengthType
  <2>3. PICK x \in Nat : x = ends[i - 1]
    <3>1. i - 1 \in Nat
      OBVIOUS
    <3> QED
      BY <3>1 DEF EndsOf
  <2>4. ASSUME NEW j \in 1 .. 2 + l
        PROVE  b3[(1 + x) + j] = Encode(e)[j]
    <3>1. x + j \in 1 .. d /\ block[x + j] = Encode(e)[j]
      BY <1>8, <1>11, <2>1, <2>2, <2>3
    <3>2. b3[1 + (x + j)] = block[x + j]
      BY <1>18, <3>1
    <3>3. 1 + (x + j) = (1 + x) + j
      OBVIOUS
    <3> QED
      BY <3>1, <3>2, <3>3
  <2>5. 1 \in 1 .. 2 + l /\ 2 \in 1 .. 2 + l
    OBVIOUS
  <2>6. b3[(1 + x) + 1] = Header(l, e.v < 0) /\ b3[(1 + x) + 2] = e.key
    BY <2>2, <2>4, <2>5, EncodeUnits
  <2>7. ASSUME NEW j \in 1 .. l PROVE b3[(1 + x) + 2 + j] = e.v
    <3>1. 2 + j \in 1 .. 2 + l /\ (1 + x) + (2 + j) = (1 + x) + 2 + j
      OBVIOUS
    <3>2. b3[(1 + x) + (2 + j)] = Encode(e)[2 + j]
      BY <2>4, <3>1
    <3>3. Encode(e)[2 + j] = e.v
      BY <2>2, EncodeUnits
    <3> QED
      BY <3>1, <3>2, <3>3
  <2> QED
    BY <2>1, <2>2, <2>3, <2>6, <2>7 DEF EntryIn
<1> QED
  BY <1>1, <1>3, <1>9, <1>11, <1>17, <1>19, <1>20

\* The entries of a block end one behind the other, inside the block.
LEMMA EntriesInBlock ==
    ASSUME NEW slice \in Seq(SliceEntry), NEW ends, EndsOf(slice, ends),
           NEW i \in 1 .. Len(slice)
    PROVE  /\ i - 1 \in Nat /\ ends[i - 1] \in Nat /\ ends[i] \in Nat
           /\ ends[Len(slice)] \in Nat
           /\ ValueLength(slice[i]) \in Nat /\ slice[i] \in SliceEntry
           /\ ends[i] = ends[i - 1] + 2 + ValueLength(slice[i])
           /\ ends[i - 1] + 2 + ValueLength(slice[i]) <= ends[Len(slice)]
<1>1. Len(slice) \in Nat /\ \A j \in 1 .. Len(slice) : slice[j] \in SliceEntry
  BY SliceType
<1>2. \A j \in 1 .. Len(slice) : ValueLength(slice[j]) \in Nat
  BY <1>1, ValueLengthType
<1>3. ends \in [Nat -> Nat]
  BY DEF EndsOf
<1>4. \A j \in 1 .. Len(slice) : j - 1 \in Nat /\ j \in Nat
  OBVIOUS
<1>5. ASSUME NEW j \in 1 .. Len(slice)
      PROVE  ends[j] = ends[j - 1] + 2 + ValueLength(slice[j]) /\ ends[j - 1] <= ends[j]
  <2>1. ends[j] = ends[j - 1] + 2 + ValueLength(slice[j])
    BY DEF EndsOf
  <2>2. PICK x \in Nat : x = ends[j - 1]
    BY <1>3, <1>4
  <2>3. PICK v \in Nat : v = ValueLength(slice[j])
    BY <1>2
  <2>4. x <= x + 2 + v
    OBVIOUS
  <2> QED
    BY <2>1, <2>2, <2>3, <2>4
<1>6. ends[i] <= ends[Len(slice)]
  <2>1. PICK n \in Nat : n = Len(slice)
    BY <1>1
  <2>2. i \in Nat /\ n \in Nat /\ i <= n /\ n <= n
    BY <2>1
  <2>3. \A j \in 1 .. n : ends[j - 1] <= ends[j]
    BY <1>5, <2>1
  <2>4. ends[i] <= ends[n]
    BY <1>3, <2>2, <2>3, EndsGrow
  <2> QED
    BY <2>1, <2>4
<1> QED
  BY <1>1, <1>2, <1>3, <1>4, <1>5, <1>6

\* An entry is the same in a file that has the units of b behind the first "shift".
LEMMA EntryMoves ==
    ASSUME NEW b, NEW g, NEW shift \in Nat, Len(b) \in Nat,
           \A x \in 1 .. Len(b) : g[shift + x] = b[x],
           NEW e \in SliceEntry, NEW p \in Nat, NEW q, q = shift + p,
           p + 2 + ValueLength(e) <= Len(b), EntryIn(b, p, e)
    PROVE  EntryIn(g, q, e)
<1>1. PICK l \in Nat : l = ValueLength(e)
  BY ValueLengthType
<1>2. PICK n \in Nat : n = Len(b)
  OBVIOUS
<1>3. ASSUME NEW x \in 1 .. n, NEW y, y = shift + x PROVE g[y] = b[x]
  BY <1>2, <1>3
<1>4. p + 1 \in 1 .. n /\ q + 1 = shift + (p + 1) /\ p + 2 \in 1 .. n /\ q + 2 = shift + (p + 2)
  BY <1>1, <1>2
<1>5. g[q + 1] = b[p + 1] /\ g[q + 2] = b[p + 2]
  BY <1>3, <1>4
<1>6. ASSUME NEW j \in 1 .. l PROVE g[q + 2 + j] = b[p + 2 + j]
  <2>1. p + 2 + j \in 1 .. n /\ q + 2 + j = shift + (p + 2 + j)
    BY <1>1, <1>2
  <2> QED
    BY <1>3, <2>1
<1>7. /\ b[p + 1] = Header(l, e.v < 0) /\ b[p + 2] = e.key
      /\ \A j \in 1 .. l : b[p + 2 + j] = e.v
  BY <1>1 DEF EntryIn
<1>8. /\ g[q + 1] = Header(l, e.v < 0) /\ g[q + 2] = e.key
      /\ \A j \in 1 .. l : g[q + 2 + j] = e.v
  BY <1>5, <1>6, <1>7
<1> QED
  BY <1>1, <1>8 DEF EntryIn

\* What is appended to the file leaves the segments in it alone.
LEMMA BlockKept ==
    ASSUME NEW f \in Seq(Unit), NEW g \in Seq(Unit), Len(f) <= Len(g),
           \A x \in 1 .. Len(f) : g[x] = f[x],
           NEW m, NEW data, NEW slice, NEW ends, BlockAt(f, m, data, slice, ends)
    PROVE  BlockAt(g, m, data, slice, ends)
<1>1. Len(f) \in Nat /\ Len(g) \in Nat
  OBVIOUS
<1>2. slice \in Seq(SliceEntry) /\ EndsOf(slice, ends) /\ m.offset \in Nat
  BY DEF BlockAt
<1>3. ASSUME NEW i \in 1 .. Len(slice)
      PROVE  EntryIn(g, m.offset + 1 + ends[i - 1], slice[i])
  <2>1. /\ ends[i - 1] \in Nat /\ ends[Len(slice)] \in Nat
        /\ ValueLength(slice[i]) \in Nat /\ slice[i] \in SliceEntry
        /\ ends[i - 1] + 2 + ValueLength(slice[i]) <= ends[Len(slice)]
    BY <1>2, EntriesInBlock
  <2>2. m.offset + 1 + ends[Len(slice)] <= Len(f)
    BY DEF BlockAt
  <2>3. PICK p \in Nat : p = m.offset + 1 + ends[i - 1]
    BY <1>2, <2>1, SMTT(30)
  <2>4. p + 2 + ValueLength(slice[i]) <= Len(f)
    <3>1. PICK x \in Nat : x = ends[i - 1]
      BY <2>1
    <3>2. PICK d \in Nat : d = ends[Len(slice)]
      BY <2>1
    <3>3. PICK v \in Nat : v = ValueLength(slice[i])
      BY <2>1
    <3>4. PICK o \in Nat : o = m.offset
      BY <1>2
    <3>5. PICK n \in Nat : n = Len(f)
      BY <1>1
    <3>6. x + 2 + v <= d /\ o + 1 + d <= n /\ p = o + 1 + x
      BY <2>1, <2>2, <2>3, <3>1, <3>2, <3>3, <3>4, <3>5
    <3>7. p + 2 + v <= n
      BY <3>6
    <3> QED
      BY <3>3, <3>5, <3>7
  <2>5. EntryIn(f, p, slice[i])
    BY <2>3 DEF BlockAt
  <2>6. \A x \in 1 .. Len(f) : g[0 + x] = f[x]
    BY <1>1
  <2>7. p = 0 + p
    OBVIOUS
  <2>8. EntryIn(g, p, slice[i])
    BY <1>1, <2>1, <2>4, <2>5, <2>6, <2>7, EntryMoves
  <2> QED
    BY <2>3, <2>8
<1>4. m.offset + 1 + ends[Len(slice)] <= Len(g)
  <2>1. Len(slice) \in Nat /\ ends \in [Nat -> Nat]
    BY <1>2, SliceType DEF EndsOf
  <2>2. PICK d \in Nat : d = ends[Len(slice)]
    BY <2>1
  <2>3. m.offset + 1 + d <= Len(f)
    BY <2>2 DEF BlockAt
  <2> QED
    BY <1>1, <1>2, <2>2, <2>3
<1> QED
  BY <1>3, <1>4 DEF BlockAt

-----------------------------------------------------------------------------
(***************************************************************************)
(* The file and its metadata.                                              *)
(***************************************************************************)
SegmentPlace ==
    [offset : Nat, length : Nat, index : [keys : Seq(Keys), offsets : Seq(Nat)],
     sparseIndexOffset : Nat]

\* The file is cut into the segments, each of which is laid out from a slice that has
\* the entries of the table the segment was made from.
FileInv ==
    /\ TrackerTypeOK /\ obsolete = {} /\ clock \in Nat
    /\ file \in Seq(Unit) /\ meta \in Seq(SegmentPlace)
    /\ DOMAIN meta = DOMAIN segs
    /\ \A s \in DOMAIN meta :
          /\ meta[s].offset + meta[s].length =
                IF s = Len(meta) THEN Len(file) ELSE meta[s + 1].offset
          /\ meta[s].length = meta[s].sparseIndexOffset + Len(meta[s].index.keys) + 1
          /\ \E slice, ends : BlockAt(file, meta[s], segs[s].data, slice, ends)

\* The tracker after a flush: one segment more, at the front of the list.
LEMMA FlushTracker ==
    ASSUME TrackerTypeOK, obsolete = {}, table \in Table, NEW now \in Nat, FlushSegment(now)
    PROVE  /\ TrackerTypeOK' /\ obsolete' = {}
           /\ Len(segs) \in Nat /\ DOMAIN segs = 1 .. Len(segs)
           /\ DOMAIN segs' = 1 .. Len(segs) + 1
           /\ \A s \in DOMAIN segs : segs'[s] = segs[s]
           /\ segs'[Len(segs) + 1].data = table
           /\ segs'[Len(segs) + 1].level = 0 /\ segs'[Len(segs) + 1].created = now
           /\ ordered' = <<Len(segs) + 1>> \o ordered
<1>1. PICK n \in Nat : n = Len(segs) /\ DOMAIN segs = 1 .. n
  BY DEF TrackerTypeOK
<1>2. PICK c : c = Cardinality({t \in Live : Overlap(segs[t], NewSegment(table, TIERED, 0, now, "flush"))})
  OBVIOUS
<1>3. c \in Nat
  <2>1. Registered \subseteq 1 .. n
    <3>1. ordered \in Seq(1 .. n)
      BY <1>1 DEF TrackerTypeOK, SegmentID
    <3> QED
      BY <3>1, SliceType DEF Registered
  <2>2. IsFiniteSet(1 .. n)
    BY <1>1, FS_Interval
  <2>3. Live \subseteq 1 .. n
    BY <2>1 DEF Live
  <2>4. PICK S \in SUBSET (1 .. n) :
            S = {t \in Live : Overlap(segs[t], NewSegment(table, TIERED, 0, now, "flush"))}
    BY <2>3
  <2>5. IsFiniteSet(S)
    BY <2>2, FS_Subset
  <2>6. Cardinality(S) \in Nat
    BY <2>5, FS_CardinalityType
  <2> QED
    BY <1>2, <2>4, <2>6
<1>4. PICK seg : seg = [NewSegment(table, TIERED, 0, now, "flush") EXCEPT !.overlapCount = c]
  OBVIOUS
<1>5. seg = [level |-> 0, created |-> now, strategy |-> TIERED, data |-> table,
             overlapCount |-> c, origin |-> "flush"]
  BY <1>4 DEF NewSegment
<1>6. seg \in SegmentMeta
  BY <1>3, <1>5 DEF SegmentMeta, CompactionType
<1>7. /\ segs' = Append(segs, seg) /\ ordered' = <<n + 1>> \o ordered /\ obsolete' = obsolete
  BY <1>1, <1>2, <1>4 DEF FlushSegment
<1>8. segs \in Seq(SegmentMeta) /\ ordered \in Seq(1 .. n)
  BY <1>1 DEF TrackerTypeOK, SegmentID
<1>9. /\ segs' \in Seq(SegmentMeta) /\ DOMAIN segs' = 1 .. n + 1
      /\ segs'[n + 1] = seg /\ \A s \in 1 .. n : segs'[s] = segs[s]
  BY <1>1, <1>6, <1>7, <1>8
<1>10. ordered' \in Seq(1 .. n + 1)
  <2>1. 1 .. n \subseteq 1 .. n + 1 /\ n + 1 \in 1 .. n + 1
    BY <1>1
  <2>2. ordered \in Seq(1 .. n + 1) /\ <<n + 1>> \in Seq(1 .. n + 1)
    BY <1>8, <2>1
  <2> QED
    BY <1>7, <2>2, ConcatProperties
<1>11. TrackerTypeOK'
  <2>1. ordered' \in Seq(DOMAIN segs') /\ obsolete' \subseteq ToSet(ordered')
    BY <1>7, <1>9, <1>10
  <2> QED
    BY <1>9, <2>1 DEF TrackerTypeOK, SegmentID, Registered
<1>12. seg.data = table /\ seg.level = 0 /\ seg.created = now
  BY <1>5
<1> QED
  BY <1>1, <1>7, <1>9, <1>11, <1>12

\* A flush appends a segment that is laid out from the memtable's slice.
LEMMA FlushFileInv ==
    ASSUME FileInv, MemtableInv, NEW now \in Nat, FlushSegment(now)
    PROVE  FileInv'
<1>1. mem \in Seq(SliceEntry) /\ table \in Table /\ Sorted(mem)
  BY DEF MemtableInv
<1>2. PICK n \in Nat : n = Len(mem) /\ n > 0
  <2>1. mem # <<>>
    BY DEF FlushSegment
  <2> QED
    BY <1>1, <2>1
<1>3. PICK ends : EndsOf(mem, ends)
  BY <1>1, EndsExist
<1>4. PICK seg : seg = WriteSegment(mem)
  OBVIOUS
<1>5. /\ seg.index = Samples(mem, ends) /\ seg.sparseIndexOffset = 1 + ends[n]
      /\ seg.bytes \in Seq(Unit) /\ Len(seg.index.keys) \in Nat
      /\ Len(seg.bytes) = 1 + ends[n] + Len(seg.index.keys) + 1
      /\ \A i \in 1 .. n : EntryIn(seg.bytes, 1 + ends[i - 1], mem[i])
  BY <1>1, <1>2, <1>3, <1>4, SegmentWritten
<1>6. seg.index \in [keys : Seq(Keys), offsets : Seq(Nat)]
  BY <1>1, <1>2, <1>3, <1>5, SamplesAt DEF SampledAt
<1>7. PICK d \in Nat : d = ends[n]
  BY <1>3, <1>2 DEF EndsOf
<1>8. PICK k \in Nat : k = Len(seg.index.keys)
  BY <1>5
<1>9. PICK size \in Nat : size = Len(file)
  BY DEF FileInv
<1>10. PICK place : place = [offset |-> size, length |-> Len(seg.bytes), index |-> seg.index,
                             sparseIndexOffset |-> seg.sparseIndexOffset]
  OBVIOUS
<1>11. /\ place \in SegmentPlace /\ place.offset = size /\ place.length = 1 + d + k + 1
       /\ place.sparseIndexOffset = 1 + d /\ place.index = seg.index
  <2>1. Len(seg.bytes) = 1 + d + k + 1 /\ seg.sparseIndexOffset = 1 + d
    BY <1>5, <1>7, <1>8
  <2>2. 1 + d + k + 1 \in Nat /\ 1 + d \in Nat
    OBVIOUS
  <2> QED
    BY <1>6, <1>10, <2>1, <2>2 DEF SegmentPlace
<1>12. PICK m \in Nat : m = Len(meta) /\ DOMAIN meta = 1 .. m
  BY DEF FileInv
<1>13. /\ file' = file \o seg.bytes /\ meta' = Append(meta, place) /\ clock' = now
  BY <1>4, <1>9, <1>10 DEF FlushSegment
<1>14. /\ file' \in Seq(Unit) /\ Len(file') = size + (1 + d + k + 1)
       /\ \A x \in 1 .. size : file'[x] = file[x]
       /\ \A x \in 1 .. 1 + d + k + 1 : file'[size + x] = seg.bytes[x]
  <2>1. PICK len \in Nat : len = 1 + d + k + 1 /\ len = Len(seg.bytes)
    BY <1>10, <1>11
  <2>2. /\ file' \in Seq(Unit) /\ Len(file') = size + len
        /\ \A i \in 1 .. size + len : file'[i] = IF i <= size THEN file[i] ELSE seg.bytes[i - size]
    <3>1. PICK f \in Seq(Unit) : f = file /\ Len(f) = size
      BY <1>9 DEF FileInv
    <3>2. PICK b \in Seq(Unit) : b = seg.bytes /\ Len(b) = len
      BY <1>5, <2>1
    <3>3. /\ f \o b \in Seq(Unit) /\ Len(f \o b) = Len(f) + Len(b)
          /\ \A i \in 1 .. Len(f) + Len(b) :
                 (f \o b)[i] = IF i <= Len(f) THEN f[i] ELSE b[i - Len(f)]
      BY ConcatProperties
    <3> QED
      BY <1>13, <3>1, <3>2, <3>3
  <2>3. \A x \in 1 .. size : x \in 1 .. size + len /\ x <= size
    OBVIOUS
  <2>4. \A x \in 1 .. len : size + x \in 1 .. size + len /\ ~ (size + x <= size) /\ (size + x) - size = x
    OBVIOUS
  <2>5. \A x \in 1 .. len : file'[size + x] = seg.bytes[x]
    BY <2>2, <2>4
  <2> QED
    BY <2>1, <2>2, <2>3, <2>5
<1>15. /\ meta' \in Seq(SegmentPlace) /\ DOMAIN meta' = 1 .. m + 1 /\ Len(meta') = m + 1
       /\ meta'[m + 1] = place /\ \A s \in 1 .. m : meta'[s] = meta[s]
  BY <1>11, <1>12, <1>13 DEF FileInv
<1>16. /\ TrackerTypeOK' /\ obsolete' = {} /\ Len(segs) = m
       /\ DOMAIN segs' = 1 .. m + 1
       /\ \A s \in 1 .. m : segs'[s] = segs[s]
       /\ segs'[m + 1].data = table
  <2>1. TrackerTypeOK /\ obsolete = {} /\ DOMAIN segs = 1 .. m
    BY <1>12 DEF FileInv
  <2>2. Len(segs) = m
    BY <1>1, <2>1, FlushTracker
  <2> QED
    BY <1>1, <2>1, <2>2, FlushTracker
<1>17. ASSUME NEW s \in 1 .. m
       PROVE  /\ meta'[s].offset + meta'[s].length = meta'[s + 1].offset
              /\ meta'[s].length = meta'[s].sparseIndexOffset + Len(meta'[s].index.keys) + 1
              /\ \E slice, e : BlockAt(file', meta'[s], segs'[s].data, slice, e)
  <2>1. meta'[s] = meta[s] /\ segs'[s] = segs[s]
    BY <1>15, <1>16
  <2>2. /\ meta[s].offset + meta[s].length = IF s = m THEN size ELSE meta[s + 1].offset
        /\ meta[s].length = meta[s].sparseIndexOffset + Len(meta[s].index.keys) + 1
        /\ \E slice, e : BlockAt(file, meta[s], segs[s].data, slice, e)
    BY <1>9, <1>12 DEF FileInv
  <2>3. meta'[s + 1].offset = IF s = m THEN size ELSE meta[s + 1].offset
    <3>1. CASE s = m
      BY <1>11, <1>15, <3>1
    <3>2. CASE s # m
      <4>1. s + 1 \in 1 .. m
        BY <3>2
      <4> QED
        BY <1>15, <3>2, <4>1
    <3> QED
      BY <3>1, <3>2
  <2>4. PICK slice, e : BlockAt(file, meta[s], segs[s].data, slice, e)
    BY <2>2
  <2>5. BlockAt(file', meta[s], segs[s].data, slice, e)
    <3>1. file \in Seq(Unit)
      BY DEF FileInv
    <3>2. size <= size + (1 + d + k + 1)
      OBVIOUS
    <3> QED
      BY <1>9, <1>14, <2>4, <3>1, <3>2, BlockKept
  <2> QED
    BY <2>1, <2>2, <2>3, <2>5
<1>18. BlockAt(file', place, table, mem, ends)
  <2>1. ASSUME NEW i \in 1 .. n
        PROVE  EntryIn(file', place.offset + 1 + ends[i - 1], mem[i])
    <3>1. /\ ends[i - 1] \in Nat /\ mem[i] \in SliceEntry /\ ValueLength(mem[i]) \in Nat
          /\ ends[i - 1] + 2 + ValueLength(mem[i]) <= ends[n]
      BY <1>1, <1>2, <1>3, EntriesInBlock
    <3>2. PICK x \in Nat : x = ends[i - 1]
      BY <3>1
    <3>3. PICK v \in Nat : v = ValueLength(mem[i])
      BY <3>1
    <3>4. x + 2 + v <= d
      BY <1>7, <3>1, <3>2, <3>3
    <3>5. (1 + x) + 2 + v <= 1 + d + k + 1 /\ size + 1 + x = size + (1 + x) /\ 1 + x \in Nat
      BY <3>4
    <3>6. PICK b \in Seq(Unit) : b = seg.bytes
      BY <1>5
    <3>7. Len(b) = 1 + d + k + 1 /\ Len(b) \in Nat
      BY <1>10, <1>11, <3>6
    <3>8. EntryIn(b, 1 + x, mem[i])
      BY <1>5, <3>2, <3>6
    <3>9. \A y \in 1 .. Len(b) : file'[size + y] = b[y]
      BY <1>14, <3>6, <3>7
    <3>10. (1 + x) + 2 + ValueLength(mem[i]) <= Len(b)
      BY <3>3, <3>5, <3>7
    <3>11. EntryIn(file', size + 1 + x, mem[i])
      <4>1. PICK p \in Nat : p = 1 + x
        OBVIOUS
      <4>2. PICK q : q = size + 1 + x /\ q = size + p
        BY <3>5, <4>1
      <4>3. PICK e \in SliceEntry : e = mem[i]
        BY <3>1
      <4>4. EntryIn(b, p, e) /\ p + 2 + ValueLength(e) <= Len(b)
        BY <3>8, <3>10, <4>1, <4>3
      <4>5. EntryIn(file', q, e)
        BY <3>7, <3>9, <4>2, <4>4, EntryMoves
      <4> QED
        BY <4>2, <4>3, <4>5
    <3> QED
      BY <1>11, <3>2, <3>11
  <2>2. place.offset + 1 + ends[n] <= Len(file')
    <3>1. size + 1 + d <= size + (1 + d + k + 1)
      OBVIOUS
    <3> QED
      BY <1>7, <1>11, <1>14, <3>1
  <2> QED
    BY <1>1, <1>2, <1>3, <1>5, <1>7, <1>11, <2>1, <2>2 DEF BlockAt, MemtableInv
<1>19. ASSUME NEW s \in 1 .. m + 1
       PROVE  /\ meta'[s].offset + meta'[s].length =
                    IF s = Len(meta') THEN Len(file') ELSE meta'[s + 1].offset
              /\ meta'[s].length = meta'[s].sparseIndexOffset + Len(meta'[s].index.keys) + 1
              /\ \E slice, e : BlockAt(file', meta'[s], segs'[s].data, slice, e)
  <2>1. CASE s = m + 1
    <3>1. meta'[s] = place /\ segs'[s].data = table /\ s = Len(meta')
      BY <1>15, <1>16, <2>1
    <3>2. place.offset + place.length = Len(file')
      BY <1>11, <1>14
    <3>3. place.length = place.sparseIndexOffset + Len(place.index.keys) + 1
      BY <1>8, <1>11
    <3> QED
      BY <1>18, <3>1, <3>2, <3>3
  <2>2. CASE s # m + 1
    <3>1. s \in 1 .. m /\ s # Len(meta')
      BY <1>15, <2>2
    <3> QED
      BY <1>17, <3>1
  <2> QED
    BY <2>1, <2>2
<1> QED
  BY <1>13, <1>14, <1>15, <1>16, <1>19 DEF FileInv

LEMMA FileInvKept ==
    ASSUME FileInv, UNCHANGED <<trackerVars, file, meta, clock>>
    PROVE  FileInv'
<1>1. /\ UNCHANGED <<segs, ordered, obsolete, file, meta, clock>>
  BY DEF trackerVars
<1> QED
  BY <1>1 DEF FileInv, TrackerTypeOK, SegmentID, Registered

\* The two invariants are inductive together.
LEMMA ReadPathInvariance == Spec => [](MemtableInv /\ FileInv)
<1>1. Init => MemtableInv /\ FileInv
  <2> SUFFICES ASSUME Init
               PROVE  MemtableInv /\ FileInv
    OBVIOUS
  <2>1. MemtableInv
    BY EmptyMemtable DEF Init, MemtableInv
  <2>2. TrackerTypeOK /\ obsolete = {}
    BY DEF Init, TrackerInit, TrackerTypeOK, SegmentID, Registered
  <2>3. DOMAIN meta = {} /\ DOMAIN segs = {} /\ file \in Seq(Unit) /\ meta \in Seq(SegmentPlace)
    BY DEF Init, TrackerInit
  <2> QED
    BY <2>1, <2>2, <2>3 DEF FileInv, Init
<1>2. MemtableInv /\ FileInv /\ [Next]_vars => (MemtableInv /\ FileInv)'
  <2> SUFFICES ASSUME MemtableInv, FileInv, [Next]_vars
               PROVE  MemtableInv' /\ FileInv'
    OBVIOUS
  <2>1. ASSUME NEW k \in Keys, Put(k) \/ Delete(k)
        PROVE  MemtableInv' /\ FileInv'
    <3>1. writes + 1 \in Int \ {0} /\ - (writes + 1) \in Int \ {0}
      BY DEF MemtableInv
    <3>2. PICK v \in Int \ {0} : WriteTo(k, v)
      BY <2>1, <3>1 DEF Put, Delete
    <3> QED
      BY <3>2, WriteToInv, FileInvKept DEF WriteTo
  <2>2. ASSUME NEW now \in clock .. MaxClock, FlushSegment(now)
        PROVE  MemtableInv' /\ FileInv'
    <3>1. mem' = <<>> /\ table' = EmptyTable /\ writes' = writes
      BY <2>2 DEF FlushSegment
    <3>2. now \in Nat
      BY ReadPathAssumption DEF FileInv
    <3> QED
      BY <2>2, <3>1, <3>2, EmptyMemtable, FlushFileInv DEF MemtableInv
  <2>3. CASE UNCHANGED vars
    BY <2>3, FileInvKept DEF vars, MemtableInv
  <2> QED
    BY <2>1, <2>2, <2>3 DEF Next
<1> QED
  BY <1>1, <1>2, PTL DEF Spec

\* MemtableIsTable (memtable.go): however puts, deletes and flushes mix, binary search
\* and insertion keep the slice strictly sorted by key, and it holds exactly the entries
\* of the table: for any keys, any number of writes and any size of the memtable.
THEOREM SliceIsTable == Spec => []MemtableIsTable
<1>1. MemtableInv => MemtableIsTable
  <2> SUFFICES ASSUME MemtableInv
               PROVE  MemtableIsTable
    OBVIOUS
  <2>1. \A i, j \in DOMAIN mem : i < j => mem[i].key < mem[j].key
    BY DEF MemtableInv, Sorted
  <2>2. ASSUME NEW i \in DOMAIN mem
        PROVE  \E k \in KeysOf(table) : <<mem[i].key, mem[i].v>> = <<k, table[k]>>
    <3>1. mem[i] \in SliceEntry /\ mem[i] \in ToSet(mem)
      BY <2>2 DEF MemtableInv, ToSet
    <3>2. PICK k \in Keys, v \in Int \ {0} : k = mem[i].key /\ v = mem[i].v
      BY <3>1, KeyType
    <3>3. mem[i] = Entry(k, v)
      BY <3>1, <3>2 DEF Entry, SliceEntry
    <3>4. table[k] = v
      BY <3>1, <3>2, <3>3 DEF MemtableInv
    <3> QED
      BY <3>2, <3>4 DEF KeysOf, Absent
  <2>3. ASSUME NEW k \in KeysOf(table)
        PROVE  \E i \in DOMAIN mem : <<mem[i].key, mem[i].v>> = <<k, table[k]>>
    <3>1. k \in Keys /\ table[k] \in Int \ {0}
      BY <2>3 DEF KeysOf, MemtableInv, Table, Absent
    <3>2. Entry(k, table[k]) \in ToSet(mem)
      BY <3>1 DEF MemtableInv
    <3>3. PICK i \in DOMAIN mem : mem[i] = Entry(k, table[k])
      BY <3>2 DEF ToSet
    <3> QED
      BY <3>3 DEF Entry
  <2> QED
    BY <2>1, <2>2, <2>3 DEF MemtableIsTable
<1> QED
  BY <1>1, ReadPathInvariance, PTL

\* LayoutOK (writer.WriteSegment): the file is exactly the segments one after the
\* other, and the metadata cuts each into header, entries, samples and footer, however
\* many segments there are and whatever they hold.
THEOREM FileLayout == Spec => []LayoutOK
<1>1. FileInv => LayoutOK
  <2> SUFFICES ASSUME FileInv
               PROVE  LayoutOK
    OBVIOUS
  <2>1. TrackerTypeOK /\ DOMAIN meta = DOMAIN segs
    BY DEF FileInv
  <2>2. ASSUME NEW s \in DOMAIN meta
        PROVE  /\ meta[s].offset + meta[s].length =
                     IF s = Len(meta) THEN Len(file) ELSE meta[s + 1].offset
               /\ DataStart(s) < DataEnd(s)
               /\ DataEnd(s) + Len(meta[s].index.keys) + 1 = meta[s].offset + meta[s].length
    <3>1. meta[s] \in SegmentPlace
      BY DEF FileInv
    <3>2. PICK o \in Nat, l \in Nat, k \in Nat, x \in Nat :
              /\ o = meta[s].offset /\ l = meta[s].length
              /\ k = Len(meta[s].index.keys) /\ x = meta[s].sparseIndexOffset
      BY <3>1 DEF SegmentPlace
    <3>3. PICK slice, ends : BlockAt(file, meta[s], segs[s].data, slice, ends)
      BY DEF FileInv
    <3>4. x > 1
      <4>1. /\ slice \in Seq(SliceEntry) /\ Len(slice) > 0 /\ EndsOf(slice, ends)
            /\ x = 1 + ends[Len(slice)]
        BY <3>2, <3>3 DEF BlockAt
      <4>2. 1 \in 1 .. Len(slice)
        BY <4>1
      <4>3. /\ ends[1 - 1] \in Nat /\ ValueLength(slice[1]) \in Nat /\ ends[Len(slice)] \in Nat
            /\ ends[1 - 1] + 2 + ValueLength(slice[1]) <= ends[Len(slice)]
        BY <4>1, <4>2, EntriesInBlock
      <4>4. PICK a \in Nat, v \in Nat, d \in Nat :
                a = ends[1 - 1] /\ v = ValueLength(slice[1]) /\ d = ends[Len(slice)]
        BY <4>3
      <4>5. a + 2 + v <= d /\ x = 1 + d
        BY <4>1, <4>3, <4>4
      <4> QED
        BY <4>5
    <3>5. l = x + k + 1
      BY <3>2 DEF FileInv
    <3>6. DataStart(s) = o + 1 /\ DataEnd(s) = o + x
      BY <3>2 DEF DataStart, DataEnd, DataStartOffset
    <3>7. o + 1 < o + x /\ o + x + k + 1 = o + l
      BY <3>4, <3>5
    <3>8. meta[s].offset + meta[s].length = IF s = Len(meta) THEN Len(file) ELSE meta[s + 1].offset
      BY DEF FileInv
    <3> QED
      BY <3>2, <3>6, <3>7, <3>8
  <2> QED
    BY <2>1, <2>2 DEF LayoutOK
<1> QED
  BY <1>1, ReadPathInvariance, PTL

-----------------------------------------------------------------------------
(***************************************************************************)
(* The reader.                                                             *)
(***************************************************************************)
\* The bytes of an entry; a tombstone has none.
BytesOf(e) == IF e.v < 0 THEN <<>> ELSE ValueOf(e.v)

\* A stretch of equal units.
Stretch(l, v) == [i \in 1 .. l |-> v]

LEMMA SliceOfFile ==
    ASSUME NEW f \in Seq(Unit), NEW p \in Nat, NEW l \in Nat, p + l <= Len(f),
           NEW v \in Int, \A j \in 1 .. l : f[p + j] = v
    PROVE  SubSeq(f, p + 1, p + l) = Stretch(l, v)
<1>2. PICK n \in Nat : n = Len(f)
  OBVIOUS
<1>3. PICK s : s = SubSeq(f, p + 1, p + l)
  OBVIOUS
<1>4. \A i \in (p + 1) .. (p + l) : i \in 1 .. n
  <2>1. p + l <= n
    BY <1>2
  <2> QED
    BY <2>1
<1>5. /\ s \in Seq(Unit) /\ Len(s) = l
      /\ \A i \in 1 .. l : s[i] = f[p + i]
  <2>1. /\ s \in Seq(Unit)
        /\ Len(s) = IF p + 1 <= p + l THEN (p + l) - (p + 1) + 1 ELSE 0
        /\ \A i \in 1 .. (p + l) - (p + 1) + 1 : s[i] = f[(p + 1) + i - 1]
    <3>1. p + 1 \in Int /\ p + l \in Int
      OBVIOUS
    <3>2. \A i \in (p + 1) .. (p + l) : f[i] \in Unit
      BY <1>2, <1>4
    <3> QED
      BY <1>2, <1>3, <1>4, <3>1, <3>2, SubSeqProperties
  <2>2. (p + l) - (p + 1) + 1 = l /\ (~ (p + 1 <= p + l) => l = 0)
    OBVIOUS
  <2>3. \A i \in 1 .. l : (p + 1) + i - 1 = p + i
    OBVIOUS
  <2> QED
    BY <2>1, <2>2, <2>3
<1>6. s = [i \in 1 .. l |-> v]
  <2>1. \A i \in 1 .. l : s[i] = v
    BY <1>5
  <2>2. s \in [1 .. l -> Unit]
    BY <1>5
  <2> QED
    BY <2>1, <2>2
<1> QED
  BY <1>3, <1>6 DEF Stretch

\* Reading an entry where one is gives its key, its bytes, and the end of it.
LEMMA EntryRead ==
    ASSUME file \in Seq(Unit), NEW e \in SliceEntry, NEW p \in Nat,
           p + 2 + ValueLength(e) <= Len(file), EntryIn(file, p, e)
    PROVE  EntryAt(p + 1) = [key |-> e.key, bytes |-> BytesOf(e), tomb |-> e.v < 0,
                             next |-> p + 3 + ValueLength(e)]
<1>1. PICK l \in Nat : l = ValueLength(e)
  BY ValueLengthType
<1>2. PICK v \in Int \ {0} : v = e.v
  BY ValueLengthType
<1>3. /\ file[p + 1] = Header(l, v < 0) /\ file[p + 2] = e.key
      /\ \A j \in 1 .. l : file[p + 2 + j] = v
  BY <1>1, <1>2 DEF EntryIn
<1>4. PICK s : s = SubSeq(file, (p + 1) + 2, (p + 1) + 1 + l)
  OBVIOUS
<1>5. EntryAt(p + 1) = [key |-> file[(p + 1) + 1], bytes |-> s, tomb |-> v < 0,
                        next |-> (p + 1) + 2 + l]
  <2>1. file[p + 1].vLen = l /\ file[p + 1].tomb = (v < 0)
    BY <1>3 DEF Header
  <2> QED
    BY <1>4, <2>1 DEF EntryAt
<1>6. (p + 1) + 1 = p + 2 /\ (p + 1) + 2 + l = p + 3 + l
  OBVIOUS
<1>7. s = BytesOf(e)
  <2>1. PICK q \in Nat : q = p + 2 /\ (p + 1) + 2 = q + 1 /\ (p + 1) + 1 + l = q + l
    OBVIOUS
  <2>2. s = SubSeq(file, q + 1, q + l)
    BY <1>4, <2>1
  <2>3. CASE v < 0
    <3>1. l = 0
      BY <1>1, <1>2, <2>3, ValueLengthType
    <3>2. ~ (q + 1 <= q + l)
      BY <3>1
    <3>3. SubSeq(file, q + 1, q + l) = <<>>
      <4>1. Len(file) \in Nat
        OBVIOUS
      <4>2. /\ SubSeq(file, q + 1, q + l) \in Seq(Unit)
            /\ Len(SubSeq(file, q + 1, q + l)) = 0
        <5>1. q + 1 \in Int /\ q + l \in Int /\ \A i \in q + 1 .. q + l : file[i] \in Unit
          BY <3>2
        <5> QED
          BY <3>2, <5>1, SubSeqProperties
      <4> QED
        BY <4>2
    <3> QED
      BY <1>2, <2>2, <2>3, <3>3 DEF BytesOf
  <2>4. CASE ~ (v < 0)
    <3>1. l = v % 3 /\ v \in Nat
      BY <1>1, <1>2, <2>4, ValueLengthType
    <3>2. \A j \in 1 .. l : file[q + j] = v
      BY <1>3, <2>1
    <3>3. q + l <= Len(file)
      BY <1>1, <2>1
    <3>4. SubSeq(file, q + 1, q + l) = Stretch(l, v)
      <4>1. PICK f \in Seq(Unit) : f = file
        OBVIOUS
      <4>2. PICK w \in Int : w = v
        OBVIOUS
      <4>3. q + l <= Len(f) /\ \A j \in 1 .. l : f[q + j] = w
        BY <3>2, <3>3, <4>1, <4>2
      <4>4. SubSeq(f, q + 1, q + l) = Stretch(l, w)
        BY <4>3, SliceOfFile
      <4> QED
        BY <4>1, <4>2, <4>4
    <3>5. Stretch(l, v) = ValueOf(v)
      BY <3>1 DEF ValueOf, Stretch
    <3>6. BytesOf(e) = ValueOf(v)
      BY <1>2, <2>4 DEF BytesOf
    <3> QED
      BY <2>2, <3>4, <3>5, <3>6
  <2> QED
    BY <2>3, <2>4
<1> QED
  BY <1>1, <1>2, <1>3, <1>5, <1>6, <1>7

\* The place of the i-th entry of segment s.
EntryStart(s, ends, i) == DataStart(s) + ends[i - 1] + 1

EntryOf(e, next) == [key |-> e.key, bytes |-> BytesOf(e), tomb |-> e.v < 0, next |-> next]

\* What the reader finds at the i-th entry of a segment.
LEMMA EntryFound ==
    ASSUME file \in Seq(Unit), NEW s, NEW data, NEW slice, NEW ends,
           BlockAt(file, meta[s], data, slice, ends), NEW i \in 1 .. Len(slice)
    PROVE  /\ EntryStart(s, ends, i) \in 1 .. DataEnd(s)
           /\ EntryStart(s, ends, i + 1) \in EntryStart(s, ends, i) + 1 .. DataEnd(s) + 1
           /\ EntryAt(EntryStart(s, ends, i)) = EntryOf(slice[i], EntryStart(s, ends, i + 1))
           /\ EndsInBlock(s, EntryStart(s, ends, i))
<1>1. /\ slice \in Seq(SliceEntry) /\ EndsOf(slice, ends) /\ meta[s].offset \in Nat
      /\ meta[s].sparseIndexOffset = 1 + ends[Len(slice)]
      /\ meta[s].offset + 1 + ends[Len(slice)] <= Len(file)
      /\ EntryIn(file, meta[s].offset + 1 + ends[i - 1], slice[i])
  BY DEF BlockAt
<1>2. PICK e \in SliceEntry, v \in Nat, x \in Nat, y \in Nat, d \in Nat, o \in Nat :
          /\ e = slice[i] /\ v = ValueLength(slice[i]) /\ x = ends[i - 1] /\ y = ends[i]
          /\ d = ends[Len(slice)] /\ o = meta[s].offset
  BY <1>1, EntriesInBlock
<1>3. y = x + 2 + v /\ x + 2 + v <= d
  BY <1>1, <1>2, EntriesInBlock
<1>4. PICK n \in Nat : n = Len(file)
  OBVIOUS
<1>5. DataStart(s) = o + 1 /\ DataEnd(s) = o + (1 + d) /\ o + 1 + d <= n
  BY <1>1, <1>2, <1>4 DEF DataStart, DataEnd, DataStartOffset
<1>6. PICK p \in Nat : p = o + 1 + x
  OBVIOUS
<1>7. EntryStart(s, ends, i) = p + 1
  <2>1. EntryStart(s, ends, i) = (o + 1) + x + 1
    BY <1>2, <1>5 DEF EntryStart
  <2> QED
    BY <1>6, <2>1
<1>8. EntryStart(s, ends, i + 1) = p + 3 + v
  <2>1. (i + 1) - 1 = i
    OBVIOUS
  <2>2. EntryStart(s, ends, i + 1) = (o + 1) + y + 1
    BY <1>2, <1>5, <2>1 DEF EntryStart
  <2> QED
    BY <1>3, <1>6, <2>2
<1>9. /\ p + 2 + v <= n /\ p + 1 \in 1 .. o + (1 + d)
      /\ p + 3 + v \in (p + 1) + 1 .. (o + (1 + d)) + 1
  BY <1>3, <1>5, <1>6
<1>10. EntryAt(p + 1) = [key |-> e.key, bytes |-> BytesOf(e), tomb |-> e.v < 0, next |-> p + 3 + v]
  <2>1. EntryIn(file, p, e)
    BY <1>1, <1>2, <1>6
  <2>2. p + 2 + ValueLength(e) <= Len(file) /\ ValueLength(e) = v
    BY <1>2, <1>4, <1>9
  <2> QED
    BY <2>1, <2>2, EntryRead
<1>11. EntryAt(p + 1).next = p + 3 + v
  BY <1>10
<1> QED
  BY <1>2, <1>5, <1>7, <1>8, <1>9, <1>10, <1>11 DEF EntryOf, EndsInBlock

\* Behind the last entry is the end of the block.
LEMMA LastEntryEnds ==
    ASSUME file \in Seq(Unit), NEW s, NEW data, NEW slice, NEW ends,
           BlockAt(file, meta[s], data, slice, ends)
    PROVE  /\ DataEnd(s) \in Nat /\ Len(slice) \in Nat
           /\ EntryStart(s, ends, Len(slice) + 1) = DataEnd(s) + 1
           /\ EntryStart(s, ends, 1) = DataStart(s) + 1
<1>1. /\ slice \in Seq(SliceEntry) /\ EndsOf(slice, ends) /\ meta[s].offset \in Nat
      /\ meta[s].sparseIndexOffset = 1 + ends[Len(slice)]
  BY DEF BlockAt
<1>2. PICK n \in Nat : n = Len(slice)
  BY <1>1, SliceType
<1>3. PICK d \in Nat, o \in Nat : d = ends[n] /\ o = meta[s].offset
  BY <1>1, <1>2 DEF EndsOf
<1>4. DataStart(s) = o + 1 /\ DataEnd(s) = o + (1 + d)
  BY <1>1, <1>2, <1>3 DEF DataStart, DataEnd, DataStartOffset
<1>5. (n + 1) - 1 = n /\ 1 - 1 = 0 /\ ends[0] = 0
  BY <1>1 DEF EndsOf
<1>6. EntryStart(s, ends, n + 1) = (o + 1) + d + 1 /\ EntryStart(s, ends, 1) = (o + 1) + 0 + 1
  BY <1>3, <1>4, <1>5 DEF EntryStart
<1>7. (o + 1) + d + 1 = (o + (1 + d)) + 1 /\ (o + 1) + 0 + 1 = (o + 1) + 1 /\ o + (1 + d) \in Nat
  OBVIOUS
<1> QED
  BY <1>2, <1>4, <1>6, <1>7

\* One turn of the loop in Get: it stops at p, or goes on at the next entry.
WalksOn(s, target, p) == p <= DataEnd(s) /\ EndsInBlock(s, p) /\ EntryAt(p).key < target

WalkStop(s, target, p) ==
    IF p > DataEnd(s) THEN [result |-> Miss, visited |-> 0]
    ELSE [result |-> IF EndsInBlock(s, p) /\ EntryAt(p).key = target /\ ~ EntryAt(p).tomb
                     THEN Hit(EntryAt(p).bytes) ELSE Miss,
          visited |-> 1]

WalkTurn(f, s, target, p) ==
    IF p > DataEnd(s) THEN [result |-> Miss, visited |-> 0]
    ELSE IF EndsInBlock(s, p) /\ EntryAt(p).key < target
    THEN [f[EntryAt(p).next] EXCEPT !.visited = @ + 1]
    ELSE [result |-> IF EndsInBlock(s, p) /\ EntryAt(p).key = target /\ ~ EntryAt(p).tomb
                     THEN Hit(EntryAt(p).bytes) ELSE Miss,
          visited |-> 1]

IsWalk(f, s, target) == f = [p \in 1 .. DataEnd(s) + 1 |-> WalkTurn(f, s, target, p)]

LEMMA WalkIsWalk ==
    ASSUME NEW s, NEW target
    PROVE  Walk(s, target) =
              (CHOOSE f : IsWalk(f, s, target))[DataStart(s) + Seek(meta[s].index, target) + 1]
  BY Zenon DEF Walk, IsWalk, WalkTurn

\* The recursion in Get is well defined, whatever is in the file.
LEMMA WalkExists ==
    ASSUME NEW s, NEW target, DataEnd(s) \in Nat
    PROVE  \E f : IsWalk(f, s, target)
<1>1. PICK n \in Nat : n = DataEnd(s) + 1
  OBVIOUS
<1> DEFINE T == {p \in 1 .. n : WalksOn(s, target, p)}
           next == [p \in T |-> EntryAt(p).next]
           base == [p \in 1 .. n |-> WalkStop(s, target, p)]
           R == [result : {Miss} \cup {Hit(EntryAt(p).bytes) : p \in 1 .. n}, visited : Nat]
           op == [pr \in T \X R |-> [pr[2] EXCEPT !.visited = @ + 1]]
<1>2. ASSUME NEW p \in T PROVE next[p] = EntryAt(p).next /\ next[p] \in p + 1 .. n
  <2>1. next[p] = EntryAt(p).next /\ WalksOn(s, target, p)
    OBVIOUS
  <2> QED
    BY <1>1, <2>1 DEF WalksOn, EndsInBlock
<1>3. ASSUME NEW p \in 1 .. n PROVE base[p] = WalkStop(s, target, p) /\ base[p] \in R
  <2>1. base[p] = WalkStop(s, target, p)
    OBVIOUS
  <2> QED
    BY <2>1 DEF WalkStop
<1>4. ASSUME NEW p \in T, NEW r \in R
      PROVE  op[<<p, r>>] = [r EXCEPT !.visited = @ + 1] /\ op[<<p, r>>] \in R
  OBVIOUS
<1>5. PICK f \in [1 .. n -> R] : IsDescent(f, n, T, next, op, base)
  <2> HIDE DEF T, next, op, base, R
  <2> QED
    BY <1>2, <1>3, <1>4, DescentExists
<1>6. ASSUME NEW p \in 1 .. n PROVE f[p] = WalkTurn(f, s, target, p)
  <2>1. CASE p \in T
    <3>1. next[p] = EntryAt(p).next /\ next[p] \in 1 .. n
      BY <1>2, <2>1
    <3>2. f[next[p]] \in R
      BY <1>5, <3>1
    <3>3. f[p] = op[<<p, f[next[p]]>>]
      <4> HIDE DEF T, next, op, base, R
      <4> QED
        BY <1>5, <2>1 DEF IsDescent
    <3>4. f[p] = [f[next[p]] EXCEPT !.visited = @ + 1]
      <4> HIDE DEF T, next, op, base, R
      <4> QED
        BY <1>4, <2>1, <3>2, <3>3
    <3>5. ~ (p > DataEnd(s)) /\ EndsInBlock(s, p) /\ EntryAt(p).key < target
      BY <2>1 DEF WalksOn
    <3> HIDE DEF T, next, op, base, R
    <3> QED
      BY <3>1, <3>4, <3>5, Zenon DEF WalkTurn
  <2>2. CASE p \notin T
    <3>1. f[p] = WalkStop(s, target, p)
      <4> HIDE DEF T, next, op, base, R
      <4> QED
        BY <1>3, <1>5, <2>2 DEF IsDescent
    <3>2. p > DataEnd(s) \/ ~ (EndsInBlock(s, p) /\ EntryAt(p).key < target)
      BY <2>2 DEF WalksOn
    <3> HIDE DEF T, next, op, base, R
    <3> QED
      BY <3>1, <3>2, Zenon DEF WalkStop, WalkTurn
  <2> QED
    BY <2>1, <2>2
<1>7. f = [p \in 1 .. n |-> WalkTurn(f, s, target, p)]
  <2> HIDE DEF T, next, op, base, R
  <2> QED
    BY <1>5, <1>6
<1> QED
  BY <1>1, <1>7 DEF IsWalk

\* What Get returns for an entry of the key.
FoundResult(e) == IF e.v < 0 THEN Miss ELSE Hit(ValueOf(e.v))

\* A walk from the i-th entry: it returns what the entries from the i-th on have for
\* the target, and looks at no more than c of them if they end after c, or the c-th is
\* not smaller than the target.
WalkOK(w, slice, i, target) ==
    \E r, v :
        /\ w = [result |-> r, visited |-> v] /\ v \in Nat
        /\ \A j \in i .. Len(slice) : slice[j].key = target => r = FoundResult(slice[j])
        /\ (\A j \in i .. Len(slice) : slice[j].key # target) => r = Miss
        /\ \A c \in Nat :
              \/ i + c = Len(slice) + 1
              \/ c > 0 /\ i + c <= Len(slice) + 1 /\ slice[(i + c) - 1].key >= target
              => v <= c

LEMMA WalkEnds ==
    ASSUME NEW slice \in Seq(SliceEntry), NEW target
    PROVE  WalkOK([result |-> Miss, visited |-> 0], slice, Len(slice) + 1, target)
<1>1. Len(slice) \in Nat
  BY SliceType
<1>2. \A j \in Len(slice) + 1 .. Len(slice) : FALSE
  BY <1>1
<1>3. \A c \in Nat : 0 <= c
  OBVIOUS
<1> QED
  BY <1>2, <1>3 DEF WalkOK

LEMMA WalkStopsAt ==
    ASSUME NEW slice \in Seq(SliceEntry), Sorted(slice), NEW target \in Int,
           NEW i \in 1 .. Len(slice), slice[i].key >= target,
           NEW r, r = IF slice[i].key = target THEN FoundResult(slice[i]) ELSE Miss
    PROVE  WalkOK([result |-> r, visited |-> 1], slice, i, target)
<1>1. PICK n \in Nat : n = Len(slice) /\ DOMAIN slice = 1 .. n
  BY SliceType
<1>2. \A j \in 1 .. n : slice[j].key \in Int
  BY <1>1, SliceType, KeyType
<1>3. \A j \in i .. n : j # i => slice[j].key > target
  <2>1. ASSUME NEW j \in i .. n, j # i PROVE slice[j].key > target
    <3>1. i \in 1 .. n /\ j \in 1 .. n /\ i < j
      BY <1>1, <2>1
    <3>2. slice[i].key < slice[j].key
      BY <1>1, <3>1 DEF Sorted
    <3> QED
      BY <1>2, <3>1, <3>2
  <2> QED
    BY <2>1
<1>4. \A j \in i .. n : slice[j].key = target => j = i
  <2>1. \A j \in i .. n : j \in 1 .. n
    BY <1>1
  <2> QED
    BY <1>2, <1>3, <2>1
<1>5. \A j \in i .. n : slice[j].key = target => r = FoundResult(slice[j])
  BY <1>4
<1>6. (\A j \in i .. n : slice[j].key # target) => r = Miss
  <2>1. i \in i .. n
    BY <1>1
  <2> QED
    BY <2>1
<1>7. \A c \in Nat : i + c = n + 1 \/ c > 0 => 1 <= c
  BY <1>1
<1>8. \A c \in Nat : \/ i + c = n + 1
                     \/ c > 0 /\ i + c <= n + 1 /\ slice[(i + c) - 1].key >= target
                     => 1 <= c
  BY <1>7
<1> QED
  BY <1>1, <1>5, <1>6, <1>8 DEF WalkOK

LEMMA WalkGoesOn ==
    ASSUME NEW slice \in Seq(SliceEntry), NEW target \in Int,
           NEW i \in 1 .. Len(slice), slice[i].key < target,
           NEW rest, WalkOK(rest, slice, i + 1, target)
    PROVE  WalkOK([rest EXCEPT !.visited = @ + 1], slice, i, target)
<1>1. PICK n \in Nat : n = Len(slice)
  BY SliceType
<1>2. PICK r, v : 
        /\ rest = [result |-> r, visited |-> v] /\ v \in Nat
        /\ \A j \in i + 1 .. n : slice[j].key = target => r = FoundResult(slice[j])
        /\ (\A j \in i + 1 .. n : slice[j].key # target) => r = Miss
        /\ \A c \in Nat :
              \/ (i + 1) + c = n + 1
              \/ c > 0 /\ (i + 1) + c <= n + 1 /\ slice[((i + 1) + c) - 1].key >= target
              => v <= c
  BY <1>1, Zenon DEF WalkOK
<1>3. PICK k \in Int : k = slice[i].key /\ k < target
  BY <1>1, SliceType, KeyType
<1>4. [rest EXCEPT !.visited = @ + 1] = [result |-> r, visited |-> v + 1] /\ v + 1 \in Nat
  BY <1>2
<1>5. \A j \in i .. n : j = i \/ j \in i + 1 .. n
  BY <1>1
<1>6. \A j \in i + 1 .. n : j \in i .. n
  BY <1>1
<1>7. slice[i].key # target /\ ~ (slice[i].key >= target)
  BY <1>3
<1>8. \A j \in i .. n : slice[j].key = target => r = FoundResult(slice[j])
  BY <1>2, <1>5, <1>7
<1>9. (\A j \in i .. n : slice[j].key # target) => r = Miss
  BY <1>2, <1>6
<1>10. ASSUME NEW c \in Nat,
              \/ i + c = n + 1
              \/ c > 0 /\ i + c <= n + 1 /\ slice[(i + c) - 1].key >= target
       PROVE  v + 1 <= c
  <2>1. c > 0
    BY <1>1, <1>10
  <2>2. PICK b \in Nat : b = c - 1 /\ (i + 1) + b = i + c /\ ((i + 1) + b) - 1 = (i + c) - 1
    BY <2>1
  <2>4. CASE i + c = n + 1
    <3>1. v <= b
      BY <1>2, <2>2, <2>4
    <3> QED
      BY <1>2, <2>2, <3>1
  <2>5. CASE i + c # n + 1
    <3>1. i + c <= n + 1 /\ slice[(i + c) - 1].key >= target
      BY <1>10, <2>5
    <3>2. c # 1
      <4>1. c = 1 => (i + c) - 1 = i
        OBVIOUS
      <4> QED
        BY <1>7, <3>1, <4>1
    <3>3. b > 0
      BY <2>1, <2>2, <3>2
    <3>4. (i + 1) + b <= n + 1 /\ slice[((i + 1) + b) - 1].key >= target
      BY <2>2, <3>1
    <3>5. v <= b
      BY <1>2, <3>3, <3>4
    <3> QED
      BY <1>2, <2>2, <3>5
  <2> QED
    BY <2>4, <2>5
<1> QED
  BY <1>1, <1>4, <1>8, <1>9, <1>10 DEF WalkOK

\* The walk of a segment, from any of its entries.
LEMMA WalkFinds ==
    ASSUME file \in Seq(Unit), NEW s, NEW data, NEW slice, NEW ends,
           BlockAt(file, meta[s], data, slice, ends), NEW target \in Int,
           NEW f, IsWalk(f, s, target), NEW i \in 1 .. Len(slice) + 1
    PROVE  WalkOK(f[EntryStart(s, ends, i)], slice, i, target)
<1>1. slice \in Seq(SliceEntry) /\ Sorted(slice)
  BY DEF BlockAt
<1>2. PICK n \in Nat : n = Len(slice)
  BY <1>1, SliceType
<1>3. PICK size \in Nat : size = DataEnd(s) /\ EntryStart(s, ends, n + 1) = size + 1
  BY <1>2, LastEntryEnds
<1>4. ASSUME NEW p \in 1 .. size + 1 PROVE f[p] = WalkTurn(f, s, target, p)
  BY <1>3 DEF IsWalk
<1>5. WalkOK(f[EntryStart(s, ends, n + 1)], slice, n + 1, target)
  <2>1. size + 1 \in 1 .. size + 1 /\ size + 1 > size
    OBVIOUS
  <2>2. f[size + 1] = [result |-> Miss, visited |-> 0]
    BY <1>3, <1>4, <2>1 DEF WalkTurn
  <2> QED
    BY <1>1, <1>2, <1>3, <2>2, WalkEnds
<1>6. ASSUME NEW j \in 1 .. n, WalkOK(f[EntryStart(s, ends, j + 1)], slice, j + 1, target)
      PROVE  WalkOK(f[EntryStart(s, ends, j)], slice, j, target)
  <2>1. PICK p, q : p = EntryStart(s, ends, j) /\ q = EntryStart(s, ends, j + 1)
    OBVIOUS
  <2>2. /\ p \in 1 .. size /\ EntryAt(p) = EntryOf(slice[j], q) /\ EndsInBlock(s, p)
    <3>1. j \in 1 .. Len(slice)
      BY <1>2
    <3>2. /\ EntryStart(s, ends, j) \in 1 .. DataEnd(s)
          /\ EntryStart(s, ends, j + 1) \in EntryStart(s, ends, j) + 1 .. DataEnd(s) + 1
          /\ EntryAt(EntryStart(s, ends, j)) = EntryOf(slice[j], EntryStart(s, ends, j + 1))
          /\ EndsInBlock(s, EntryStart(s, ends, j))
      BY <3>1, EntryFound
    <3> QED
      BY <1>3, <2>1, <3>2
  <2>3. PICK e \in SliceEntry : e = slice[j]
    BY <1>1, <1>2, SliceType
  <2>4. PICK k \in Int : k = e.key
    BY KeyType
  <2>5. /\ EntryAt(p).key = k /\ EntryAt(p).next = q /\ EntryAt(p).tomb = (e.v < 0)
        /\ EntryAt(p).bytes = BytesOf(e)
    BY <2>2, <2>3, <2>4 DEF EntryOf
  <2>6. ~ (p > size) /\ p \in 1 .. size + 1
    BY <2>2
  <2>7. f[p] = WalkTurn(f, s, target, p)
    BY <1>4, <2>6
  <2>8. CASE k < target
    <3>1. f[p] = [f[q] EXCEPT !.visited = @ + 1]
      BY <1>3, <2>2, <2>5, <2>6, <2>7, <2>8, Zenon DEF WalkTurn
    <3>2. WalkOK(f[q], slice, j + 1, target) /\ slice[j].key < target /\ j \in 1 .. Len(slice)
      BY <1>2, <1>6, <2>1, <2>3, <2>4, <2>8
    <3> QED
      BY <1>1, <2>1, <3>1, <3>2, WalkGoesOn
  <2>9. CASE ~ (k < target)
    <3>1. PICK r : r = IF k = target /\ ~ (e.v < 0) THEN Hit(BytesOf(e)) ELSE Miss
      OBVIOUS
    <3>2. f[p] = [result |-> r, visited |-> 1]
      <4>1. f[p] = [result |-> IF EndsInBlock(s, p) /\ EntryAt(p).key = target /\ ~ EntryAt(p).tomb
                              THEN Hit(EntryAt(p).bytes) ELSE Miss, visited |-> 1]
        BY <1>3, <2>5, <2>6, <2>7, <2>9, Zenon DEF WalkTurn
      <4>2. (EndsInBlock(s, p) /\ EntryAt(p).key = target /\ ~ EntryAt(p).tomb)
            <=> (k = target /\ ~ (e.v < 0))
        BY <2>2, <2>5
      <4>3. r = IF EndsInBlock(s, p) /\ EntryAt(p).key = target /\ ~ EntryAt(p).tomb
                THEN Hit(EntryAt(p).bytes) ELSE Miss
        BY <2>5, <3>1, <4>2
      <4> QED
        BY <4>1, <4>3
    <3>3. r = IF slice[j].key = target THEN FoundResult(slice[j]) ELSE Miss
      BY <2>3, <2>4, <3>1 DEF FoundResult, BytesOf
    <3>4. slice[j].key >= target /\ j \in 1 .. Len(slice)
      BY <1>2, <2>3, <2>4, <2>9
    <3> QED
      BY <1>1, <2>1, <3>2, <3>3, <3>4, WalkStopsAt
  <2> QED
    BY <2>8, <2>9
<1> DEFINE Claim(j) == WalkOK(f[EntryStart(s, ends, j)], slice, j, target)
           S == {d \in Nat : d <= n => Claim(n + 1 - d)}
<1>7. 0 \in S
  <2>1. n + 1 - 0 = n + 1
    OBVIOUS
  <2> QED
    BY <1>5, <2>1
<1>8. ASSUME NEW d \in Nat, d \in S PROVE d + 1 \in S
  <2>1. SUFFICES ASSUME d + 1 <= n PROVE Claim(n + 1 - (d + 1))
    OBVIOUS
  <2>2. PICK j \in 1 .. n : j = n + 1 - (d + 1) /\ j + 1 = n + 1 - d
    BY <2>1
  <2>3. Claim(j + 1)
    BY <1>8, <2>1, <2>2
  <2>4. Claim(j)
    BY <1>6, <2>3
  <2> HIDE DEF Claim
  <2> QED
    BY <2>2, <2>4
<1>9. Nat \subseteq S
  <2> HIDE DEF S
  <2> QED
    BY <1>7, <1>8, NatInd
<1>10. PICK d \in Nat : d <= n /\ n + 1 - d = i
  <2>1. n + 1 - i \in Nat /\ n + 1 - i <= n /\ n + 1 - (n + 1 - i) = i
    BY <1>2
  <2> QED
    BY <2>1
<1>11. Claim(n + 1 - d)
  BY <1>9, <1>10
<1> QED
  BY <1>10, <1>11

\* Seek names an entry that the walk can begin at: the entries before it are smaller
\* than the target, and it is no more than Stride entries from the end, or from one
\* that is not smaller.
LEMMA SeekStarts ==
    ASSUME NEW slice \in Seq(SliceEntry), Len(slice) > 0, Sorted(slice),
           NEW ends, EndsOf(slice, ends), NEW target \in Int,
           NEW index, index = Samples(slice, ends)
    PROVE  \E m \in 1 .. Len(slice) :
              /\ Seek(index, target) = ends[m - 1]
              /\ \A j \in 1 .. Len(slice) : j < m => slice[j].key < target
              /\ \E c \in Nat :
                    /\ c <= Stride + 1
                    /\ \/ m + c = Len(slice) + 1
                       \/ c > 0 /\ m + c <= Len(slice) + 1 /\ slice[(m + c) - 1].key >= target
<1>1. PICK len \in Nat : len = Len(slice) /\ len > 0 /\ DOMAIN slice = 1 .. len
  BY SliceType
<1>2. \A j \in 1 .. len : slice[j].key \in Int
  BY <1>1, SliceType, KeyType
<1>3. PICK n \in Nat :
          /\ n > 0 /\ n * Stride >= len /\ Len(index.keys) = n
          /\ \A i \in 1 .. n :
                /\ (i - 1) * Stride \in Nat /\ 1 + (i - 1) * Stride \in 1 .. len
                /\ index.keys[i] = slice[1 + (i - 1) * Stride].key
                /\ index.offsets[i] = ends[(i - 1) * Stride]
  <2>1. \E n \in Nat : SampledAt(index, slice, ends, n)
    BY SamplesAt
  <2> QED
    BY <1>1, <2>1, Zenon DEF SampledAt
<1>4. PICK r : r = SortSearch(n, [j \in 0 .. n - 1 |-> index.keys[j + 1] > target])
  OBVIOUS
<1>5. Seek(index, target) = IF r = 0 THEN 0 ELSE index.offsets[r]
  BY <1>3, <1>4 DEF Seek
<1>6. /\ r \in 0 .. n
      /\ r < n => index.keys[r + 1] > target
      /\ r > 0 => ~ (index.keys[r] > target)
  <2> DEFINE holds == [j \in 0 .. n - 1 |-> index.keys[j + 1] > target]
  <2>1. \A j \in 0 .. n - 1 : holds[j] <=> index.keys[j + 1] > target
    BY Zenon
  <2>2. r = SortSearch(n, holds)
    BY <1>4
  <2> HIDE DEF holds
  <2>3. r \in 0 .. n /\ (r < n => holds[r]) /\ (r > 0 => ~ holds[r - 1])
    BY <2>2, SortSearchFinds
  <2>4. (r < n => r \in 0 .. n - 1) /\ (r > 0 => r - 1 \in 0 .. n - 1 /\ (r - 1) + 1 = r)
    BY <2>3
  <2>5. r < n => index.keys[r + 1] > target
    BY <2>1, <2>3, <2>4, Zenon
  <2>6. r > 0 => ~ (index.keys[r] > target)
    BY <2>1, <2>3, <2>4, Zenon
  <2> QED
    BY <2>3, <2>5, <2>6
<1>7. CASE r = 0
  <2>1. 1 \in 1 .. n /\ 1 \in 1 .. len
    BY <1>1, <1>3
  <2>2. index.keys[1] > target /\ index.keys[1] = slice[1].key
    <3>1. (1 - 1) * Stride = 0
      BY ReadPathAssumption
    <3>2. 1 + (1 - 1) * Stride = 1
      BY <3>1
    <3>3. index.keys[1] = slice[1].key
      BY <1>3, <2>1, <3>2
    <3> QED
      BY <1>3, <1>6, <1>7, <3>3
  <2>3. slice[1].key >= target
    BY <1>2, <2>1, <2>2
  <2>4. (1 + 1) - 1 = 1 /\ 1 + 1 <= len + 1 /\ 1 <= Stride + 1 /\ 1 - 1 = 0
    BY <1>1, ReadPathAssumption
  <2>5. \A j \in 1 .. len : ~ (j < 1)
    OBVIOUS
  <2>6. Seek(index, target) = ends[1 - 1]
    BY <1>5, <1>7, <2>4 DEF EndsOf
  <2> QED
    BY <1>1, <2>1, <2>3, <2>4, <2>5, <2>6
<1>8. CASE r > 0
  <2>1. r \in 1 .. n
    BY <1>6, <1>8
  <2>2. PICK x \in Nat : x = (r - 1) * Stride /\ 1 + x \in 1 .. len
    BY <1>3, <2>1
  <2>3. PICK m \in 1 .. len : m = 1 + x /\ m - 1 = x
    BY <2>2
  <2>4. Seek(index, target) = ends[m - 1] /\ ~ (slice[m].key > target)
    <3>1. index.keys[r] = slice[1 + x].key /\ index.offsets[r] = ends[x]
      BY <1>3, <2>1, <2>2, Zenon
    <3>2. Seek(index, target) = index.offsets[r]
      BY <1>5, <1>8
    <3> QED
      BY <1>6, <1>8, <2>3, <3>1, <3>2
  <2>5. ASSUME NEW j \in 1 .. len, j < m PROVE slice[j].key < target
    <3>1. slice[j].key < slice[m].key
      BY <1>1, <2>5 DEF Sorted
    <3> QED
      BY <1>2, <2>4, <3>1
  <2>6. CASE r < n
    <3>1. r + 1 \in 1 .. n /\ (r + 1) - 1 = r
      BY <1>6, <2>6
    <3>2. index.keys[r + 1] = slice[1 + r * Stride].key /\ 1 + r * Stride \in 1 .. len
      BY <1>3, <3>1
    <3>3. r * Stride = x + Stride
      BY <2>1, <2>2, ReadPathAssumption
    <3>4. PICK c \in Nat : c = Stride + 1
      BY ReadPathAssumption
    <3>5. (m + c) - 1 = 1 + r * Stride /\ c > 0 /\ m + c <= len + 1
      BY <2>2, <2>3, <3>2, <3>3, <3>4, ReadPathAssumption, SMTT(30)
    <3>6. slice[(m + c) - 1].key >= target
      BY <1>2, <1>6, <2>6, <3>2, <3>5
    <3>7. c <= Stride + 1
      BY <3>4
    <3> QED
      BY <1>1, <2>4, <2>5, <3>5, <3>6, <3>7
  <2>7. CASE ~ (r < n)
    <3>1. r = n
      BY <1>6, <2>7
    <3>2. x + Stride >= len
      <4>1. n * Stride = x + Stride
        BY <2>1, <2>2, <3>1, ReadPathAssumption
      <4> QED
        BY <1>3, <4>1
    <3>3. PICK c \in Nat : c = len + 1 - m
      OBVIOUS
    <3>4. m + c = len + 1 /\ c <= Stride + 1
      <4>1. PICK y \in Nat : y = Stride
        BY ReadPathAssumption
      <4>2. x + y >= len /\ m = 1 + x /\ c = len + 1 - m
        BY <2>3, <3>2, <3>3, <4>1
      <4>3. m + c = len + 1 /\ c <= y + 1
        BY <4>2
      <4> QED
        BY <4>1, <4>3
    <3> QED
      BY <1>1, <2>4, <2>5, <3>4
  <2> QED
    BY <2>6, <2>7
<1> QED
  BY <1>6, <1>7, <1>8

-----------------------------------------------------------------------------
(***************************************************************************)
(* Get and Scan of a whole segment.                                        *)
(***************************************************************************)
\* The slice a segment was made from holds what the segment's table does.
Holds(slice, data) ==
    /\ \A j \in 1 .. Len(slice) :
          /\ slice[j] \in SliceEntry /\ slice[j].key \in Keys
          /\ data[slice[j].key] = slice[j].v /\ slice[j].v \in Int \ {0}
    /\ \A k \in Keys : data[k] # Absent => \E j \in 1 .. Len(slice) : slice[j].key = k

LEMMA BlockHolds ==
    ASSUME NEW f, NEW m, NEW data, NEW slice, NEW ends, BlockAt(f, m, data, slice, ends)
    PROVE  Holds(slice, data)
<1>1. slice \in Seq(SliceEntry) /\ data \in Table
  BY DEF BlockAt
<1>2. ASSUME NEW j \in 1 .. Len(slice)
      PROVE  /\ slice[j] \in SliceEntry /\ slice[j].key \in Keys
             /\ data[slice[j].key] = slice[j].v /\ slice[j].v \in Int \ {0}
  <2>1. slice[j] \in SliceEntry /\ slice[j] \in ToSet(slice)
    BY <1>1, SliceType
  <2>2. PICK k \in Keys, v \in Int \ {0} : k = slice[j].key /\ v = slice[j].v
    BY <2>1, KeyType
  <2>3. slice[j] = Entry(k, v)
    BY <2>1, <2>2 DEF Entry, SliceEntry
  <2>4. data[k] = v
    BY <2>1, <2>2, <2>3 DEF BlockAt
  <2> QED
    BY <2>1, <2>2, <2>4
<1>3. ASSUME NEW k \in Keys, data[k] # Absent
      PROVE  \E j \in 1 .. Len(slice) : slice[j].key = k
  <2>1. PICK v \in Int \ {0} : v = data[k]
    BY <1>1, <1>3 DEF Table, Absent
  <2>2. Entry(k, v) \in ToSet(slice)
    BY <2>1 DEF BlockAt
  <2>3. PICK j \in 1 .. Len(slice) : slice[j] = Entry(k, v)
    BY <1>1, <2>2, SliceType
  <2> QED
    BY <2>3 DEF Entry
<1> QED
  BY <1>2, <1>3, Zenon DEF Holds

\* A key with an entry in a segment is in the range its metadata gives: the first and
\* the last key of the slice bound the range.
LEMMA KeyInRange ==
    ASSUME NEW f, NEW m, NEW seg, NEW slice, NEW ends, BlockAt(f, m, seg.data, slice, ends),
           NEW k \in Keys, seg.data[k] # Absent
    PROVE  InRange(seg, k)
<1>1. PICK n \in Nat : n = Len(slice) /\ n > 0 /\ DOMAIN slice = 1 .. n /\ Sorted(slice)
  BY SliceType DEF BlockAt
<1>2. PICK S : S = KeysOf(seg.data)
  OBVIOUS
<1>3. Holds(slice, seg.data)
  BY BlockHolds
<1>4. \A j \in 1 .. n : slice[j].key \in S /\ slice[j].key \in Nat
  BY <1>1, <1>2, <1>3, KeysAssumption DEF KeysOf, Absent, Holds
<1>5. \A x \in S : \E j \in 1 .. n : slice[j].key = x
  BY <1>1, <1>2, <1>3 DEF KeysOf, Holds
<1>6. PICK lo \in S, hi \in S : lo = slice[1].key /\ hi = slice[n].key
  BY <1>1, <1>4
<1>7. ASSUME NEW x \in S PROVE lo <= x /\ x <= hi /\ x \in Nat
  <2>1. PICK j \in 1 .. n : slice[j].key = x
    BY <1>5
  <2>2. 1 \in 1 .. n /\ n \in 1 .. n /\ (j = 1 \/ 1 < j) /\ (j = n \/ j < n)
    BY <1>1
  <2>3. lo = x \/ lo < x
    BY <1>1, <1>6, <2>1, <2>2 DEF Sorted
  <2>4. hi = x \/ x < hi
    BY <1>1, <1>6, <2>1, <2>2 DEF Sorted
  <2> QED
    BY <1>4, <1>6, <2>1, <2>2, <2>3, <2>4
<1>8. Min(S) \in S /\ \A y \in S : Min(S) <= y
  BY <1>6, <1>7 DEF Min
<1>9. \A y \in S : hi >= y
  BY <1>6, <1>7
<1>10. Max(S) \in S /\ \A y \in S : Max(S) >= y
  BY <1>6, <1>9 DEF Max
<1>11. k \in S
  BY <1>2 DEF KeysOf
<1> QED
  BY <1>2, <1>7, <1>8, <1>10, <1>11 DEF InRange, MinKey, MaxKey

\* The walk of Get: it returns what the table has for the key, and looks at no more
\* entries than there are between two samples and the one that ends it.
LEMMA WalkResult ==
    ASSUME FileInv, NEW s \in SegmentID, NEW k \in Keys
    PROVE  /\ segs[s].data[k] = Absent => Walk(s, k).result = Miss
           /\ segs[s].data[k] # Absent =>
                 Walk(s, k).result = IF segs[s].data[k] < 0 THEN Miss
                                     ELSE Hit(ValueOf(segs[s].data[k]))
           /\ Walk(s, k).visited \in Nat /\ Walk(s, k).visited <= Stride + 1
<1>1. PICK slice, ends : BlockAt(file, meta[s], segs[s].data, slice, ends)
  BY DEF FileInv, SegmentID
<1>2. /\ slice \in Seq(SliceEntry) /\ Len(slice) > 0 /\ Sorted(slice) /\ EndsOf(slice, ends)
      /\ meta[s].index = Samples(slice, ends)
  BY <1>1 DEF BlockAt
<1>3. file \in Seq(Unit) /\ k \in Int
  BY KeysAssumption DEF FileInv
<1>4. PICK n \in Nat : n = Len(slice)
  BY <1>2
<1>5. PICK m \in 1 .. n :
          /\ Seek(meta[s].index, k) = ends[m - 1]
          /\ \A j \in 1 .. n : j < m => slice[j].key < k
          /\ \E c \in Nat :
                /\ c <= Stride + 1
                /\ \/ m + c = n + 1
                   \/ c > 0 /\ m + c <= n + 1 /\ slice[(m + c) - 1].key >= k
  <2>1. PICK index : index = meta[s].index
    OBVIOUS
  <2>2. \E m \in 1 .. Len(slice) :
          /\ Seek(index, k) = ends[m - 1]
          /\ \A j \in 1 .. Len(slice) : j < m => slice[j].key < k
          /\ \E c \in Nat :
                /\ c <= Stride + 1
                /\ \/ m + c = Len(slice) + 1
                   \/ c > 0 /\ m + c <= Len(slice) + 1 /\ slice[(m + c) - 1].key >= k
    BY <1>2, <1>3, <2>1, SeekStarts, ZenonT(30)
  <2> QED
    BY <1>4, <2>1, <2>2, Zenon
<1>6. PICK f : f = CHOOSE g : IsWalk(g, s, k)
  OBVIOUS
<1>7. IsWalk(f, s, k)
  <2>1. DataEnd(s) \in Nat
    BY <1>1, <1>3, LastEntryEnds
  <2> QED
    BY <1>6, <2>1, WalkExists
<1>8. Walk(s, k) = f[EntryStart(s, ends, m)]
  BY <1>5, <1>6, WalkIsWalk DEF EntryStart
<1>9. WalkOK(Walk(s, k), slice, m, k)
  <2>1. m \in 1 .. Len(slice) + 1
    BY <1>4
  <2> QED
    BY <1>1, <1>3, <1>7, <1>8, <2>1, WalkFinds
<1>10. PICK r, v :
        /\ Walk(s, k) = [result |-> r, visited |-> v] /\ v \in Nat
        /\ \A j \in m .. n : slice[j].key = k => r = FoundResult(slice[j])
        /\ (\A j \in m .. n : slice[j].key # k) => r = Miss
        /\ \A c \in Nat :
              \/ m + c = n + 1
              \/ c > 0 /\ m + c <= n + 1 /\ slice[(m + c) - 1].key >= k
              => v <= c
  BY <1>4, <1>9, Zenon DEF WalkOK
<1>11. Walk(s, k).result = r /\ Walk(s, k).visited = v
  BY <1>10
<1>12. v <= Stride + 1
  <2>1. PICK c \in Nat :
          /\ c <= Stride + 1
          /\ \/ m + c = n + 1
             \/ c > 0 /\ m + c <= n + 1 /\ slice[(m + c) - 1].key >= k
    BY <1>5
  <2>2. v <= c
    BY <1>10, <2>1
  <2> QED
    BY <1>10, <2>1, <2>2, ReadPathAssumption
<1>13. /\ \A j \in 1 .. n : /\ slice[j].key \in Int /\ slice[j].v \in Int \ {0}
                            /\ segs[s].data[slice[j].key] = slice[j].v
       /\ segs[s].data[k] # Absent => \E j \in 1 .. n : slice[j].key = k
  <2>1. PICK data : data = segs[s].data
    OBVIOUS
  <2>2. BlockAt(file, meta[s], data, slice, ends)
    BY <1>1, <2>1
  <2>3. Holds(slice, data)
    BY <2>2, BlockHolds
  <2>4. \A j \in 1 .. n : /\ slice[j].key \in Keys /\ slice[j].v \in Int \ {0}
                          /\ data[slice[j].key] = slice[j].v
    BY <1>4, <2>3 DEF Holds
  <2>5. data[k] # Absent => \E j \in 1 .. n : slice[j].key = k
    BY <1>4, <2>3 DEF Holds
  <2> QED
    BY <2>1, <2>4, <2>5, KeysAssumption
<1>14. \A j \in m .. n : j \in 1 .. n
  OBVIOUS
<1>15. segs[s].data[k] = Absent => r = Miss
  <2>1. segs[s].data[k] = Absent => \A j \in m .. n : slice[j].key # k
    BY <1>13, <1>14 DEF Absent
  <2> QED
    BY <1>10, <2>1
<1>16. ASSUME segs[s].data[k] # Absent
       PROVE  r = IF segs[s].data[k] < 0 THEN Miss ELSE Hit(ValueOf(segs[s].data[k]))
  <2>1. PICK j \in 1 .. n : slice[j].key = k
    BY <1>13, <1>16
  <2>2. ~ (j < m)
    BY <1>3, <1>5, <2>1
  <2>3. j \in m .. n
    BY <2>2
  <2>4. r = FoundResult(slice[j])
    BY <1>10, <2>1, <2>3
  <2>5. segs[s].data[k] = slice[j].v
    BY <1>13, <2>1
  <2> QED
    BY <2>4, <2>5 DEF FoundResult
<1> QED
  BY <1>10, <1>11, <1>12, <1>15, <1>16

\* What Get returns of a segment, of which the file holds the slice.
LEMMA GetImplementation == FileInv => GetImplementsLookup
<1> SUFFICES ASSUME FileInv, NEW s \in SegmentID, NEW k \in Keys
             PROVE  ReaderGet(s, k) = IF Lookup(segs[s], k) = Absent THEN Miss
                                      ELSE Hit(ValueOf(Lookup(segs[s], k)))
  BY DEF GetImplementsLookup
<1>1. PICK slice, ends : BlockAt(file, meta[s], segs[s].data, slice, ends)
  BY DEF FileInv, SegmentID
<1>2. PICK d \in Int : d = segs[s].data[k]
  BY <1>1 DEF BlockAt, Table
<1>3. CASE d = 0
  <2>1. Walk(s, k).result = Miss /\ Lookup(segs[s], k) = Absent
    BY <1>2, <1>3, WalkResult DEF Lookup, Absent
  <2> QED
    BY <2>1 DEF ReaderGet
<1>4. CASE d # 0
  <2>1. InRange(segs[s], k)
    BY <1>1, <1>2, <1>4, KeyInRange DEF Absent
  <2>2. Walk(s, k).result = IF d < 0 THEN Miss ELSE Hit(ValueOf(d))
    BY <1>2, <1>4, WalkResult DEF Absent
  <2>3. Lookup(segs[s], k) = IF d < 0 THEN Absent ELSE d
    BY <1>2, <1>4 DEF Lookup
  <2>4. ReaderGet(s, k) = Walk(s, k).result
    BY <2>1 DEF ReaderGet
  <2> QED
    BY <1>4, <2>2, <2>3, <2>4 DEF Absent
<1> QED
  BY <1>3, <1>4

\* GetImplementsLookup (Reader.Get): by way of the sparse index and the offsets in the
\* file, Get returns what Lookup does on the table the segment was made from, for any
\* keys, any stride of the index and any number of segments: the abstraction of
\* Segments.tla is exact.
THEOREM GetIsLookup == Spec => []GetImplementsLookup
  BY GetImplementation, ReadPathInvariance, PTL

\* WalkBounded (SparseIndex.Seek, Reader.Get): a lookup looks at no more than Stride + 1
\* entries of a segment, whatever its length.
THEOREM WalkIsBounded == Spec => []WalkBounded
<1>1. FileInv => WalkBounded
  BY WalkResult DEF WalkBounded
<1> QED
  BY <1>1, ReadPathInvariance, PTL

-----------------------------------------------------------------------------
(***************************************************************************)
(* Scan.                                                                   *)
(***************************************************************************)
\* One turn of the loop in Scan: it takes the entry at p, or stops.
ScanTurn(f, s, p) ==
    IF p <= DataEnd(s) /\ EndsInBlock(s, p) THEN {EntryAt(p)} \cup f[EntryAt(p).next] ELSE {}

IsScan(f, s) == f = [p \in 1 .. DataEnd(s) + 1 |-> ScanTurn(f, s, p)]

\* The result of Scan, of the entries it takes.
BytesByKey(entries) ==
    [k \in {e.key : e \in entries} |->
        LET e == CHOOSE x \in entries : x.key = k IN IF e.tomb THEN <<>> ELSE e.bytes]

LEMMA ScanIsScan ==
    ASSUME NEW s
    PROVE  Scan(s) = BytesByKey((CHOOSE f : IsScan(f, s))[DataStart(s) + 1])
  BY Zenon DEF Scan, IsScan, ScanTurn, BytesByKey

\* The recursion in Scan is well defined, whatever is in the file.
LEMMA ScanExists ==
    ASSUME NEW s, DataEnd(s) \in Nat
    PROVE  \E f : IsScan(f, s)
<1>1. PICK n \in Nat : n = DataEnd(s) + 1
  OBVIOUS
<1> DEFINE T == {p \in 1 .. n : p <= DataEnd(s) /\ EndsInBlock(s, p)}
           next == [p \in T |-> EntryAt(p).next]
           base == [p \in 1 .. n |-> {}]
           R == SUBSET {EntryAt(p) : p \in 1 .. n}
           op == [pr \in T \X R |-> {EntryAt(pr[1])} \cup pr[2]]
<1>2. ASSUME NEW p \in T PROVE next[p] = EntryAt(p).next /\ next[p] \in p + 1 .. n
  BY <1>1, <1>2 DEF EndsInBlock
<1>3. ASSUME NEW p \in 1 .. n PROVE base[p] = {} /\ base[p] \in R
  OBVIOUS
<1>4. ASSUME NEW p \in T, NEW r \in R
      PROVE  op[<<p, r>>] = {EntryAt(p)} \cup r /\ op[<<p, r>>] \in R
  <2>1. op[<<p, r>>] = {EntryAt(p)} \cup r
    OBVIOUS
  <2> QED
    BY <2>1
<1>5. PICK f \in [1 .. n -> R] : IsDescent(f, n, T, next, op, base)
  <2> HIDE DEF T, next, op, base, R
  <2> QED
    BY <1>2, <1>3, <1>4, DescentExists
<1>6. ASSUME NEW p \in 1 .. n PROVE f[p] = ScanTurn(f, s, p)
  <2>1. CASE p \in T
    <3>1. next[p] = EntryAt(p).next /\ next[p] \in 1 .. n
      BY <1>2, <2>1
    <3>2. f[next[p]] \in R
      BY <1>5, <3>1
    <3>3. p <= DataEnd(s) /\ EndsInBlock(s, p)
      BY <2>1
    <3> HIDE DEF T, next, op, base, R
    <3>4. f[p] = op[<<p, f[next[p]]>>]
      BY <1>5, <2>1 DEF IsDescent
    <3>5. f[p] = {EntryAt(p)} \cup f[next[p]]
      BY <1>4, <2>1, <3>2, <3>4
    <3> QED
      BY <3>1, <3>3, <3>5, Zenon DEF ScanTurn
  <2>2. CASE p \notin T
    <3>1. ~ (p <= DataEnd(s) /\ EndsInBlock(s, p))
      BY <2>2
    <3> HIDE DEF T, next, op, base, R
    <3>2. f[p] = {}
      BY <1>3, <1>5, <2>2 DEF IsDescent
    <3> QED
      BY <3>1, <3>2, Zenon DEF ScanTurn
  <2> QED
    BY <2>1, <2>2
<1>7. f = [p \in 1 .. n |-> ScanTurn(f, s, p)]
  <2> HIDE DEF T, next, op, base, R
  <2> QED
    BY <1>5, <1>6
<1> QED
  BY <1>1, <1>7 DEF IsScan

\* The entries that a scan from the i-th entry takes.
Taken(s, slice, ends, i) ==
    {EntryOf(slice[j], EntryStart(s, ends, j + 1)) : j \in i .. Len(slice)}

LEMMA ScanTakes ==
    ASSUME file \in Seq(Unit), NEW s, NEW data, NEW slice, NEW ends,
           BlockAt(file, meta[s], data, slice, ends),
           NEW f, IsScan(f, s), NEW i \in 1 .. Len(slice) + 1
    PROVE  f[EntryStart(s, ends, i)] = Taken(s, slice, ends, i)
<1>1. slice \in Seq(SliceEntry)
  BY DEF BlockAt
<1>2. PICK n \in Nat : n = Len(slice)
  BY <1>1, SliceType
<1>3. PICK size \in Nat : size = DataEnd(s) /\ EntryStart(s, ends, n + 1) = size + 1
  BY <1>2, LastEntryEnds
<1>4. ASSUME NEW p \in 1 .. size + 1 PROVE f[p] = ScanTurn(f, s, p)
  BY <1>3 DEF IsScan
<1> DEFINE Claim(j) == f[EntryStart(s, ends, j)] = Taken(s, slice, ends, j)
           S == {d \in Nat : d <= n => Claim(n + 1 - d)}
<1>5. Claim(n + 1)
  <2>1. size + 1 \in 1 .. size + 1 /\ ~ (size + 1 <= size)
    OBVIOUS
  <2>2. f[size + 1] = {}
    BY <1>3, <1>4, <2>1 DEF ScanTurn
  <2>3. \A j \in n + 1 .. n : FALSE
    OBVIOUS
  <2>4. Taken(s, slice, ends, n + 1) = {}
    BY <1>2, <2>3 DEF Taken
  <2> QED
    BY <1>3, <2>2, <2>4
<1>6. ASSUME NEW j \in 1 .. n, Claim(j + 1) PROVE Claim(j)
  <2>1. PICK p, q : p = EntryStart(s, ends, j) /\ q = EntryStart(s, ends, j + 1)
    OBVIOUS
  <2>2. p \in 1 .. size /\ EntryAt(p) = EntryOf(slice[j], q) /\ EndsInBlock(s, p)
    <3>1. j \in 1 .. Len(slice)
      BY <1>2
    <3>2. /\ EntryStart(s, ends, j) \in 1 .. DataEnd(s)
          /\ EntryStart(s, ends, j + 1) \in EntryStart(s, ends, j) + 1 .. DataEnd(s) + 1
          /\ EntryAt(EntryStart(s, ends, j)) = EntryOf(slice[j], EntryStart(s, ends, j + 1))
          /\ EndsInBlock(s, EntryStart(s, ends, j))
      BY <3>1, EntryFound
    <3> QED
      BY <1>3, <2>1, <3>2
  <2>3. EntryAt(p).next = q
    BY <2>2 DEF EntryOf
  <2>4. f[p] = ScanTurn(f, s, p) /\ p <= size
    BY <1>4, <2>2
  <2>5. f[p] = {EntryOf(slice[j], q)} \cup f[q]
    BY <1>3, <2>2, <2>3, <2>4, Zenon DEF ScanTurn
  <2>6. f[q] = Taken(s, slice, ends, j + 1)
    BY <1>6, <2>1
  <2>7. \A x : x \in j .. n <=> x = j \/ x \in j + 1 .. n
    OBVIOUS
  <2>8. Taken(s, slice, ends, j) = {EntryOf(slice[j], q)} \cup Taken(s, slice, ends, j + 1)
    BY <1>2, <2>1, <2>7, Zenon DEF Taken
  <2> QED
    BY <2>1, <2>5, <2>6, <2>8
<1>7. 0 \in S
  <2>1. n + 1 - 0 = n + 1
    OBVIOUS
  <2> HIDE DEF Claim
  <2> QED
    BY <1>5, <2>1
<1>8. ASSUME NEW d \in Nat, d \in S PROVE d + 1 \in S
  <2>1. SUFFICES ASSUME d + 1 <= n PROVE Claim(n + 1 - (d + 1))
    OBVIOUS
  <2>2. PICK j \in 1 .. n : j = n + 1 - (d + 1) /\ j + 1 = n + 1 - d
    BY <2>1
  <2> HIDE DEF Claim
  <2>3. Claim(j + 1)
    BY <1>8, <2>1, <2>2
  <2>4. Claim(j)
    BY <1>6, <2>3
  <2> QED
    BY <2>2, <2>4
<1>9. Nat \subseteq S
  <2> HIDE DEF S
  <2> QED
    BY <1>7, <1>8, NatInd
<1>10. PICK d \in Nat : d <= n /\ n + 1 - d = i
  <2>1. n + 1 - i \in Nat /\ n + 1 - i <= n /\ n + 1 - (n + 1 - i) = i
    BY <1>2
  <2> QED
    BY <2>1
<1>11. Claim(n + 1 - d)
  <2> HIDE DEF Claim
  <2> QED
    BY <1>9, <1>10
<1> QED
  BY <1>10, <1>11

\* The keys of a slice are the keys of its table, and its entries differ in their keys.
LEMMA SliceKeys ==
    ASSUME NEW slice \in Seq(SliceEntry), Sorted(slice), NEW data, Holds(slice, data)
    PROVE  /\ KeysOf(data) = {slice[j].key : j \in 1 .. Len(slice)}
           /\ \A i, j \in 1 .. Len(slice) : slice[i].key = slice[j].key => i = j
<1>1. PICK n \in Nat : n = Len(slice) /\ DOMAIN slice = 1 .. n
  BY SliceType
<1>2. \A j \in 1 .. n : slice[j].key \in Keys /\ data[slice[j].key] # Absent
  BY <1>1 DEF Holds, Absent
<1>3. \A k \in Keys : data[k] # Absent => \E j \in 1 .. n : slice[j].key = k
  BY <1>1 DEF Holds
<1>4. KeysOf(data) = {slice[j].key : j \in 1 .. n}
  <2>1. ASSUME NEW k \in KeysOf(data) PROVE \E j \in 1 .. n : k = slice[j].key
    BY <1>3, <2>1, Zenon DEF KeysOf
  <2>2. ASSUME NEW j \in 1 .. n PROVE slice[j].key \in KeysOf(data)
    BY <1>2 DEF KeysOf
  <2> QED
    BY <2>1, <2>2
<1>5. \A j \in 1 .. n : slice[j].key \in Int
  BY <1>1, SliceType, KeyType
<1>6. ASSUME NEW i \in 1 .. n, NEW j \in 1 .. n, slice[i].key = slice[j].key PROVE i = j
  BY <1>1, <1>5, <1>6 DEF Sorted
<1> QED
  BY <1>1, <1>4, <1>6

\* ScanReturnsBlock (Reader.Scan): a scan returns every key of the segment, with no
\* bytes for a tombstone and the bytes of the value for any other, for segments of any
\* number of entries and values of any length, zero included.
THEOREM ScanIsBlock == Spec => []ScanReturnsBlock
<1>1. FileInv => ScanReturnsBlock
  <2> SUFFICES ASSUME FileInv, NEW s \in SegmentID
               PROVE  Scan(s) = [k \in KeysOf(segs[s].data) |->
                                    IF segs[s].data[k] < 0 THEN <<>> ELSE ValueOf(segs[s].data[k])]
    BY DEF ScanReturnsBlock
  <2>1. PICK slice, ends : BlockAt(file, meta[s], segs[s].data, slice, ends)
    BY DEF FileInv, SegmentID
  <2>2. slice \in Seq(SliceEntry) /\ Sorted(slice) /\ Len(slice) > 0
    BY <2>1 DEF BlockAt
  <2>3. PICK n \in Nat : n = Len(slice) /\ n > 0
    BY <2>2
  <2>4. PICK data : data = segs[s].data
    OBVIOUS
  <2>5. Holds(slice, data)
    BY <2>1, <2>4, BlockHolds
  <2>6. /\ KeysOf(data) = {slice[j].key : j \in 1 .. n}
        /\ \A i, j \in 1 .. n : slice[i].key = slice[j].key => i = j
    BY <2>2, <2>3, <2>5, SliceKeys
  <2>7. PICK entries : entries = Taken(s, slice, ends, 1)
    OBVIOUS
  <2>8. Scan(s) = BytesByKey(entries)
    <3>1. PICK f : f = CHOOSE g : IsScan(g, s)
      OBVIOUS
    <3>2. file \in Seq(Unit)
      BY DEF FileInv
    <3>3. DataEnd(s) \in Nat /\ EntryStart(s, ends, 1) = DataStart(s) + 1
      BY <2>1, <3>2, LastEntryEnds
    <3>4. IsScan(f, s)
      BY <3>1, <3>3, ScanExists
    <3>5. 1 \in 1 .. Len(slice) + 1
      BY <2>3
    <3>6. f[EntryStart(s, ends, 1)] = Taken(s, slice, ends, 1)
      <4>1. BlockAt(file, meta[s], data, slice, ends)
        BY <2>1, <2>4
      <4>2. PICK i \in 1 .. Len(slice) + 1 : i = 1
        BY <3>5
      <4>3. f[EntryStart(s, ends, i)] = Taken(s, slice, ends, i)
        BY <3>2, <3>4, <4>1, ScanTakes
      <4> QED
        BY <4>2, <4>3
    <3> QED
      BY <2>7, <3>1, <3>3, <3>6, ScanIsScan
  <2>9. PICK at : at = [j \in 1 .. n |-> EntryOf(slice[j], EntryStart(s, ends, j + 1))]
    OBVIOUS
  <2>10. entries = {at[j] : j \in 1 .. n}
    BY <2>3, <2>7, <2>9 DEF Taken
  <2>11. ASSUME NEW j \in 1 .. n
         PROVE  /\ at[j].key = slice[j].key /\ at[j].tomb = (slice[j].v < 0)
                /\ at[j].bytes = BytesOf(slice[j])
    BY <2>9 DEF EntryOf
  <2>12. {e.key : e \in entries} = KeysOf(data)
    BY <2>6, <2>10, <2>11
  <2>13. ASSUME NEW k \in KeysOf(data), NEW e, e = CHOOSE x \in entries : x.key = k
         PROVE  (IF e.tomb THEN <<>> ELSE e.bytes) = IF data[k] < 0 THEN <<>> ELSE ValueOf(data[k])
    <3>1. PICK j \in 1 .. n : slice[j].key = k
      BY <2>6
    <3>2. e \in entries /\ e.key = k
      BY <2>10, <2>11, <2>13, <3>1
    <3>3. PICK i \in 1 .. n : e = at[i]
      BY <2>10, <3>2
    <3>4. i = j
      BY <2>6, <2>11, <3>1, <3>2, <3>3
    <3>5. e.tomb = (slice[j].v < 0) /\ e.bytes = BytesOf(slice[j]) /\ data[k] = slice[j].v
      BY <2>3, <2>5, <2>11, <3>1, <3>3, <3>4 DEF Holds
    <3> QED
      BY <3>5 DEF BytesOf
  <2>14. BytesByKey(entries) = [k \in KeysOf(data) |-> IF data[k] < 0 THEN <<>> ELSE ValueOf(data[k])]
    BY <2>12, <2>13, Zenon DEF BytesByKey
  <2> QED
    BY <2>4, <2>8, <2>14
<1> QED
  BY <1>1, ReadPathInvariance, PTL

-----------------------------------------------------------------------------
(***************************************************************************)
(* The read handler.                                                       *)
(***************************************************************************)
\* Flushes register their segments one after the other, each with the newest values of
\* its keys and a creation time that is no smaller than the last.
OrderInv ==
    /\ DOMAIN ordered = DOMAIN segs
    /\ \A i \in DOMAIN ordered : ordered[i] = Len(segs) + 1 - i
    /\ \A s \in DOMAIN segs : segs[s].level = 0 /\ segs[s].created <= clock
    /\ \A s, t \in DOMAIN segs : s <= t => segs[s].created <= segs[t].created

AgeInv ==
    /\ \A k \in Keys : table[k] <= writes
    /\ \A s \in DOMAIN segs, k \in Keys :
          /\ segs[s].data[k] <= writes
          /\ table[k] > 0 => segs[s].data[k] < table[k]
          /\ \A t \in DOMAIN segs : s < t /\ segs[t].data[k] > 0 =>
                 segs[s].data[k] < segs[t].data[k]

\* What the tracker and the file say of the segments that there are.
LEMMA SegmentFacts ==
    ASSUME FileInv
    PROVE  /\ Len(segs) \in Nat /\ DOMAIN segs = 1 .. Len(segs)
           /\ \A s \in DOMAIN segs : segs[s].data \in Table /\ segs[s].created \in Nat
           /\ ordered \in Seq(1 .. Len(segs))
<1>1. segs \in Seq(SegmentMeta) /\ ordered \in Seq(DOMAIN segs)
  BY DEF FileInv, TrackerTypeOK, SegmentID
<1>2. PICK n \in Nat : n = Len(segs) /\ DOMAIN segs = 1 .. n
  BY <1>1
<1>3. \A s \in 1 .. n : segs[s] \in SegmentMeta
  BY <1>1, <1>2
<1> QED
  BY <1>1, <1>2, <1>3 DEF SegmentMeta

LEMMA WriteToAge ==
    ASSUME MemtableInv, FileInv, AgeInv, NEW k \in Keys, Put(k) \/ Delete(k)
    PROVE  AgeInv'
<1>1. PICK w \in Nat : w = writes
  BY DEF MemtableInv
<1>2. PICK v \in Int : /\ v = w + 1 \/ v = - (w + 1)
                       /\ WriteTo(k, v)
  BY <1>1 DEF Put, Delete
<1>3. /\ writes' = w + 1 /\ segs' = segs
      /\ table' = [table EXCEPT ![k] = v]
  BY <1>1, <1>2 DEF WriteTo, trackerVars
<1>4. table \in [Keys -> Int]
  BY DEF MemtableInv, Table
<1>5. \A j \in Keys : table'[j] = IF j = k THEN v ELSE table[j]
  BY <1>3, <1>4
<1>6. \A s \in DOMAIN segs, j \in Keys : segs[s].data[j] \in Int
  BY SegmentFacts DEF Table
<1>7. /\ \A j \in Keys : table[j] <= w
      /\ \A s \in DOMAIN segs, j \in Keys :
            /\ segs[s].data[j] <= w
            /\ table[j] > 0 => segs[s].data[j] < table[j]
            /\ \A t \in DOMAIN segs : s < t /\ segs[t].data[j] > 0 =>
                   segs[s].data[j] < segs[t].data[j]
  BY <1>1 DEF AgeInv
<1>8. ASSUME NEW j \in Keys PROVE table'[j] <= w + 1
  <2>1. PICK x \in Int : x = table[j] /\ x <= w
    BY <1>4, <1>7
  <2> QED
    BY <1>2, <1>5, <2>1
<1>9. ASSUME NEW s \in DOMAIN segs, NEW j \in Keys
      PROVE  segs[s].data[j] <= w + 1 /\ (table'[j] > 0 => segs[s].data[j] < table'[j])
  <2>1. PICK x \in Int, y \in Int :
            /\ x = segs[s].data[j] /\ y = table[j]
            /\ x <= w /\ (y > 0 => x < y)
    BY <1>4, <1>6, <1>7
  <2>2. table'[j] = IF j = k THEN v ELSE y
    BY <1>5, <2>1
  <2>3. x <= w + 1 /\ (v > 0 => x < v)
    BY <1>2, <2>1
  <2> QED
    BY <2>1, <2>2, <2>3
<1> QED
  BY <1>3, <1>7, <1>8, <1>9 DEF AgeInv

LEMMA FlushAge ==
    ASSUME MemtableInv, FileInv, AgeInv, NEW now \in Nat, FlushSegment(now)
    PROVE  AgeInv'
<1>1. PICK w \in Nat : w = writes
  BY DEF MemtableInv
<1>2. table \in [Keys -> Int] /\ table \in Table
  BY DEF MemtableInv, Table
<1>3. PICK n \in Nat : n = Len(segs) /\ DOMAIN segs = 1 .. n
  BY SegmentFacts
<1>4. /\ DOMAIN segs' = 1 .. n + 1 /\ \A s \in 1 .. n : segs'[s] = segs[s]
      /\ segs'[n + 1].data = table
  <2>1. TrackerTypeOK /\ obsolete = {}
    BY DEF FileInv
  <2> QED
    BY <1>2, <1>3, <2>1, FlushTracker
<1>5. writes' = w /\ table' = EmptyTable
  BY <1>1 DEF FlushSegment
<1>6. \A k \in Keys : table'[k] = 0
  BY <1>5, EmptyMemtable
<1>7. /\ \A k \in Keys : table[k] <= w
      /\ \A s \in 1 .. n, k \in Keys :
            /\ segs[s].data[k] <= w
            /\ table[k] > 0 => segs[s].data[k] < table[k]
            /\ \A t \in 1 .. n : s < t /\ segs[t].data[k] > 0 =>
                   segs[s].data[k] < segs[t].data[k]
  BY <1>1, <1>3 DEF AgeInv
<1>8. ASSUME NEW s \in 1 .. n + 1, NEW k \in Keys PROVE segs'[s].data[k] <= w
  <2>1. CASE s = n + 1
    BY <1>4, <1>7, <2>1
  <2>2. CASE s # n + 1
    <3>1. s \in 1 .. n
      BY <2>2
    <3> QED
      BY <1>4, <1>7, <3>1
  <2> QED
    BY <2>1, <2>2
<1>9. ASSUME NEW s \in 1 .. n + 1, NEW k \in Keys, NEW t \in 1 .. n + 1,
             s < t, segs'[t].data[k] > 0
      PROVE  segs'[s].data[k] < segs'[t].data[k]
  <2>1. s \in 1 .. n /\ segs'[s] = segs[s]
    BY <1>4, <1>9
  <2>2. CASE t = n + 1
    <3>1. segs'[t].data = table
      BY <1>4, <2>2
    <3> QED
      BY <1>7, <1>9, <2>1, <3>1
  <2>3. CASE t # n + 1
    <3>1. t \in 1 .. n /\ segs'[t] = segs[t]
      BY <1>4, <2>3
    <3> QED
      BY <1>7, <1>9, <2>1, <3>1
  <2> QED
    BY <2>2, <2>3
<1>10. \A k \in Keys : table'[k] <= w /\ ~ (table'[k] > 0)
  BY <1>6
<1> QED
  BY <1>4, <1>5, <1>8, <1>9, <1>10 DEF AgeInv

LEMMA FlushOrder ==
    ASSUME MemtableInv, FileInv, OrderInv, NEW now \in Nat, now >= clock, FlushSegment(now)
    PROVE  OrderInv'
<1>1. table \in Table /\ TrackerTypeOK /\ obsolete = {}
  BY DEF MemtableInv, FileInv
<1>2. PICK n \in Nat : n = Len(segs) /\ DOMAIN segs = 1 .. n
  BY SegmentFacts
<1>3. /\ DOMAIN segs' = 1 .. n + 1 /\ \A s \in 1 .. n : segs'[s] = segs[s]
      /\ segs'[n + 1].level = 0 /\ segs'[n + 1].created = now
      /\ ordered' = <<n + 1>> \o ordered
  BY <1>1, <1>2, FlushTracker
<1>4. Len(segs') = n + 1
  <2>1. segs' \in Seq(SegmentMeta)
    <3>1. TrackerTypeOK'
      BY <1>1, FlushTracker
    <3> QED
      BY <3>1 DEF TrackerTypeOK
  <2> QED
    BY <1>3, <2>1
<1>5. PICK c \in Nat : c = clock /\ c <= now
  BY DEF FileInv
<1>6. clock' = now
  BY DEF FlushSegment
<1>7. /\ ordered \in Seq(1 .. n) /\ Len(ordered) = n
      /\ \A i \in 1 .. n : ordered[i] = n + 1 - i
  <2>1. ordered \in Seq(1 .. n) /\ DOMAIN ordered = 1 .. n
    BY <1>2, SegmentFacts DEF OrderInv
  <2>2. Len(ordered) = n
    BY <2>1
  <2> QED
    BY <1>2, <2>1, <2>2 DEF OrderInv
<1>8. /\ DOMAIN ordered' = 1 .. n + 1
      /\ \A i \in 1 .. n + 1 : ordered'[i] = (n + 1) + 1 - i
  <2>1. PICK a \in Seq(Nat) : a = <<n + 1>> /\ Len(a) = 1 /\ a[1] = n + 1
    <3>1. <<n + 1>> \in Seq(Nat) /\ Len(<<n + 1>>) = 1 /\ <<n + 1>>[1] = n + 1
      OBVIOUS
    <3> QED
      BY <3>1
  <2>2. PICK b \in Seq(Nat) : b = ordered /\ Len(b) = n
    <3>1. 1 .. n \subseteq Nat
      OBVIOUS
    <3>2. ordered \in Seq(Nat)
      BY <1>7, <3>1
    <3> QED
      BY <1>7, <3>2
  <2>3. /\ a \o b \in Seq(Nat) /\ Len(a \o b) = Len(a) + Len(b)
        /\ \A i \in 1 .. Len(a) + Len(b) :
               (a \o b)[i] = IF i <= Len(a) THEN a[i] ELSE b[i - Len(a)]
    BY ConcatProperties
  <2>4. /\ ordered' \in Seq(Nat) /\ Len(ordered') = 1 + n
        /\ \A i \in 1 .. 1 + n : ordered'[i] = IF i <= 1 THEN a[i] ELSE b[i - 1]
    BY <1>3, <2>1, <2>2, <2>3
  <2>5. 1 + n = n + 1
    OBVIOUS
  <2>6. DOMAIN ordered' = 1 .. n + 1
    BY <2>4, <2>5
  <2>7. ASSUME NEW i \in 1 .. n + 1 PROVE ordered'[i] = (n + 1) + 1 - i
    <3>1. CASE i = 1
      BY <2>1, <2>4, <2>5, <3>1
    <3>2. CASE i # 1
      <4>1. ~ (i <= 1) /\ i - 1 \in 1 .. n /\ n + 1 - (i - 1) = (n + 1) + 1 - i
        BY <3>2
      <4> QED
        BY <1>7, <2>2, <2>4, <2>5, <4>1
    <3> QED
      BY <3>1, <3>2
  <2> QED
    BY <2>6, <2>7
<1>9. ASSUME NEW s \in 1 .. n
      PROVE  segs'[s].level = 0 /\ segs'[s].created \in Nat /\ segs'[s].created <= now
  <2>1. segs'[s] = segs[s] /\ segs[s].level = 0 /\ segs[s].created \in Nat /\ segs[s].created <= c
    BY <1>2, <1>3, <1>5, SegmentFacts DEF OrderInv
  <2> QED
    BY <1>5, <2>1
<1>10. ASSUME NEW s \in 1 .. n + 1, NEW t \in 1 .. n + 1, s <= t
       PROVE  segs'[s].created <= segs'[t].created
  <2>1. CASE t = n + 1
    <3>1. CASE s = n + 1
      BY <1>3, <2>1, <3>1
    <3>2. CASE s # n + 1
      <4>1. s \in 1 .. n
        BY <3>2
      <4> QED
        BY <1>3, <1>9, <2>1, <4>1
    <3> QED
      BY <3>1, <3>2
  <2>2. CASE t # n + 1
    <3>1. s \in 1 .. n /\ t \in 1 .. n
      BY <1>10, <2>2
    <3>2. segs[s].created <= segs[t].created
      BY <1>2, <1>10, <3>1 DEF OrderInv
    <3> QED
      BY <1>3, <3>1, <3>2
  <2> QED
    BY <2>1, <2>2
<1>11. ASSUME NEW s \in 1 .. n + 1
       PROVE  segs'[s].level = 0 /\ segs'[s].created <= now
  <2>1. CASE s = n + 1
    BY <1>3, <2>1
  <2>2. CASE s # n + 1
    <3>1. s \in 1 .. n
      BY <2>2
    <3> QED
      BY <1>9, <3>1
  <2> QED
    BY <2>1, <2>2
<1> QED
  BY <1>3, <1>4, <1>6, <1>8, <1>10, <1>11 DEF OrderInv

\* The segments and what is in them are in the order of the writes.
LEMMA HandlerInvariance == Spec => [](MemtableInv /\ FileInv /\ OrderInv /\ AgeInv)
<1>1. Init => OrderInv /\ AgeInv
  <2> SUFFICES ASSUME Init
               PROVE  OrderInv /\ AgeInv
    OBVIOUS
  <2>1. DOMAIN segs = {} /\ DOMAIN ordered = {} /\ \A k \in Keys : table[k] <= writes
    BY EmptyMemtable DEF Init, TrackerInit
  <2> QED
    BY <2>1 DEF OrderInv, AgeInv
<1>2. MemtableInv /\ FileInv /\ OrderInv /\ AgeInv /\ [Next]_vars => (OrderInv /\ AgeInv)'
  <2> SUFFICES ASSUME MemtableInv, FileInv, OrderInv, AgeInv, [Next]_vars
               PROVE  OrderInv' /\ AgeInv'
    OBVIOUS
  <2>1. ASSUME NEW k \in Keys, Put(k) \/ Delete(k)
        PROVE  OrderInv' /\ AgeInv'
    <3>1. UNCHANGED <<segs, ordered, clock>>
      BY <2>1 DEF Put, Delete, WriteTo, trackerVars
    <3>2. OrderInv'
      BY <3>1 DEF OrderInv
    <3> QED
      BY <2>1, <3>2, WriteToAge
  <2>2. ASSUME NEW now \in clock .. MaxClock, FlushSegment(now)
        PROVE  OrderInv' /\ AgeInv'
    <3>1. now \in Nat /\ now >= clock
      BY ReadPathAssumption DEF FileInv
    <3> QED
      BY <2>2, <3>1, FlushAge, FlushOrder
  <2>3. CASE UNCHANGED vars
    <3>1. UNCHANGED <<segs, ordered, clock, table, writes>>
      BY <2>3 DEF vars, trackerVars
    <3> QED
      BY <3>1 DEF OrderInv, AgeInv
  <2> QED
    BY <2>1, <2>2, <2>3 DEF Next
<1> QED
  BY <1>1, <1>2, ReadPathInvariance, PTL DEF Spec

\* Memtable.Get of the slice: the value in the table, if it is one.
LEMMA MemGetIsTable ==
    ASSUME MemtableInv, NEW k \in Keys
    PROVE  MemGet(mem, k) = IF table[k] > 0 THEN table[k] ELSE 0
<1>1. PICK slice \in Seq(SliceEntry) : slice = mem /\ Sorted(slice)
  BY DEF MemtableInv
<1>2. PICK n \in Nat : n = Len(slice) /\ DOMAIN slice = 1 .. n
  BY SliceType
<1>3. PICK key \in Int : key = k
  BY KeysAssumption
<1>4. PICK d \in Int : d = table[k]
  BY DEF MemtableInv, Table
<1>5. \A j \in 1 .. n : slice[j] \in SliceEntry /\ slice[j].key \in Int /\ slice[j].v \in Int \ {0}
  BY <1>2, SliceType, KeyType
<1>6. PICK r \in 0 .. n :
          /\ r = Search(slice, key)
          /\ r < n => slice[r + 1].key >= key
          /\ r > 0 => ~ (slice[r].key >= key)
  BY <1>2, SearchFinds
<1>7. MemGet(mem, k) = IF r < n /\ slice[r + 1].key = key /\ slice[r + 1].v > 0
                       THEN slice[r + 1].v ELSE 0
  BY <1>1, <1>2, <1>3, <1>6 DEF MemGet, FoundAt
<1>8. ASSUME NEW j \in 1 .. n, slice[j].key = key PROVE d = slice[j].v
  <2>1. slice[j] = Entry(key, slice[j].v)
    <3>1. slice[j] \in SliceEntry /\ slice[j].key = key
      BY <1>5, <1>8
    <3> QED
      BY <3>1 DEF Entry, SliceEntry
  <2>2. slice[j] \in ToSet(mem)
    BY <1>1, <1>2, SliceType
  <2>3. PICK v \in Int \ {0} : v = slice[j].v
    BY <1>5
  <2> QED
    BY <1>3, <1>4, <2>1, <2>2, <2>3 DEF MemtableInv
<1>9. ASSUME d # 0 PROVE \E j \in 1 .. n : slice[j].key = key /\ slice[j].v = d
  <2>1. Entry(k, d) \in ToSet(mem)
    BY <1>4, <1>9 DEF MemtableInv
  <2>2. PICK j \in 1 .. n : slice[j] = Entry(k, d)
    BY <1>1, <1>2, <2>1, SliceType
  <2> QED
    BY <1>3, <2>2 DEF Entry
<1>10. ASSUME NEW j \in 1 .. n, slice[j].key = key PROVE r < n /\ slice[r + 1].key = key
  <2>1. ~ (j <= r)
    <3>1. SUFFICES ASSUME j <= r PROVE FALSE
      OBVIOUS
    <3>2. r \in 1 .. n /\ r > 0
      BY <3>1
    <3>3. PICK x \in Int : x = slice[r].key /\ x < key
      BY <1>5, <1>6, <3>2
    <3>4. j = r \/ j < r
      BY <3>1
    <3>5. j < r => slice[j].key < x
      BY <1>1, <1>2, <3>2, <3>3 DEF Sorted
    <3> QED
      BY <1>10, <3>3, <3>4, <3>5
  <2>2. r + 1 \in 1 .. n /\ r < n /\ (j = r + 1 \/ r + 1 < j)
    BY <2>1
  <2>3. PICK x \in Int : x = slice[r + 1].key /\ x >= key
    BY <1>5, <1>6, <2>2
  <2>4. r + 1 < j => x < slice[j].key
    BY <1>1, <1>2, <2>2, <2>3 DEF Sorted
  <2> QED
    BY <1>10, <2>2, <2>3, <2>4
<1>11. CASE d > 0
  <2>1. PICK j \in 1 .. n : slice[j].key = key /\ slice[j].v = d
    BY <1>9, <1>11
  <2>2. r < n /\ slice[r + 1].key = key
    BY <1>10, <2>1
  <2>3. r + 1 \in 1 .. n
    BY <2>2
  <2>4. slice[r + 1].v = d
    BY <1>8, <2>2, <2>3
  <2> QED
    BY <1>4, <1>7, <1>11, <2>2, <2>4
<1>12. CASE ~ (d > 0)
  <2>1. r < n /\ slice[r + 1].key = key => ~ (slice[r + 1].v > 0)
    <3>1. SUFFICES ASSUME r < n, slice[r + 1].key = key PROVE ~ (slice[r + 1].v > 0)
      OBVIOUS
    <3>2. r + 1 \in 1 .. n
      BY <3>1
    <3>3. d = slice[r + 1].v
      BY <1>8, <3>1, <3>2
    <3> QED
      BY <1>12, <3>3
  <2> QED
    BY <1>4, <1>7, <1>12, <2>1
<1> QED
  BY <1>11, <1>12

\* Without compaction every segment is registered, and none is obsolete.
LEMMA LiveAll ==
    ASSUME FileInv, OrderInv
    PROVE  Live = DOMAIN segs
<1>1. PICK n \in Nat : n = Len(segs) /\ DOMAIN segs = 1 .. n
  BY SegmentFacts
<1>2. /\ ordered \in Seq(1 .. n) /\ DOMAIN ordered = 1 .. n
      /\ \A i \in 1 .. n : ordered[i] = n + 1 - i
  BY <1>1, SegmentFacts DEF OrderInv
<1>3. Live = ToSet(ordered)
  <2>1. obsolete = {}
    BY DEF FileInv
  <2> QED
    BY <2>1 DEF Live, Registered
<1>4. ASSUME NEW s \in ToSet(ordered) PROVE s \in 1 .. n
  <2>1. PICK i \in 1 .. n : s = ordered[i]
    BY <1>2, <1>4, Zenon DEF ToSet
  <2>2. s = n + 1 - i
    BY <1>2, <2>1
  <2> QED
    BY <2>2
<1>5. ASSUME NEW s \in 1 .. n PROVE s \in ToSet(ordered)
  <2>1. PICK i \in 1 .. n : i = n + 1 - s /\ n + 1 - i = s
    OBVIOUS
  <2>2. ordered[i] = s /\ i \in DOMAIN ordered
    BY <1>2, <2>1
  <2> QED
    BY <2>2 DEF ToSet
<1> QED
  BY <1>1, <1>3, <1>4, <1>5

\* GetSegmentsForKey: the segments with the key in their range, none of a later second
\* behind one of an earlier second.
LEMMA LatestFirst ==
    ASSUME FileInv, OrderInv, NEW k, NEW p \in GetSegmentsForKey(k)
    PROVE  /\ p \in Seq(DOMAIN segs)
           /\ ToSet(p) = {s \in DOMAIN segs : InRange(segs[s], k)}
           /\ \A i, j \in DOMAIN p : i < j => segs[p[j]].created <= segs[p[i]].created
<1>1. PICK n \in Nat : n = Len(segs) /\ DOMAIN segs = 1 .. n
  BY SegmentFacts
<1>3. Live = 1 .. n
  BY <1>1, LiveAll
<1>5. PICK S \in SUBSET (1 .. n) : S = {s \in 1 .. n : InRange(segs[s], k)}
  OBVIOUS
<1>6. p \in SortedOrders(S)
  BY <1>3, <1>5 DEF GetSegmentsForKey
<1>7. PICK m \in Nat : m = Cardinality(S) /\ IsFiniteSet(S)
  <2>1. IsFiniteSet(1 .. n)
    BY <1>1, FS_Interval
  <2>2. IsFiniteSet(S)
    BY <2>1, FS_Subset
  <2> QED
    BY <2>2, FS_CardinalityType
<1>8. p \in [1 .. m -> S] /\ \A i, j \in 1 .. m : i # j => p[i] # p[j]
  BY <1>6, <1>7 DEF SortedOrders, SetToSeqs
<1>9. p \in Surjection(1 .. m, S)
  <2>1. p \in Injection(1 .. m, S)
    BY <1>8 DEF Injection, IsInjective
  <2>2. Cardinality(1 .. m) = m
    BY <1>7, FS_Interval
  <2> QED
    BY <1>7, <2>1, <2>2, FS_Injection
<1>10. ToSet(p) = S
  BY <1>8, <1>9, ZenonT(30) DEF ToSet, Surjection
<1>11. ASSUME NEW i \in 1 .. m, NEW j \in 1 .. m, i < j
       PROVE  segs[p[j]].created <= segs[p[i]].created
  <2>1. PICK a \in 1 .. n, b \in 1 .. n : a = p[i] /\ b = p[j]
    <3>1. p[i] \in S /\ p[j] \in S
      BY <1>8, <1>11
    <3> QED
      BY <1>5, <3>1
  <2>2. PICK c \in Nat, d \in Nat : c = segs[a].created /\ d = segs[b].created
    BY <1>1, SegmentFacts
  <2>3. segs[a].level = 0 /\ segs[b].level = 0
    BY <1>1 DEF OrderInv
  <2>4. ~ SortsBefore(b, a)
    <3>1. i \in DOMAIN p /\ j \in DOMAIN p
      BY <1>8
    <3> QED
      BY <1>6, <1>11, <2>1, <3>1 DEF SortedOrders
  <2>5. ~ (d > c)
    BY <2>2, <2>3, <2>4 DEF SortsBefore
  <2> QED
    BY <2>1, <2>2, <2>5
<1>12. p \in Seq(1 .. n) /\ DOMAIN p = 1 .. m
  <2>1. p \in [1 .. m -> 1 .. n]
    BY <1>8
  <2> QED
    BY <2>1
<1> QED
  BY <1>1, <1>5, <1>10, <1>11, <1>12

\* Handler.Get goes through the candidates until one has a value.
LEMMA HandlerAsks ==
    ASSUME FileInv, OrderInv, AgeInv, NEW k \in Keys, NEW p \in GetSegmentsForKey(k),
           NEW r, r = IF p = <<>> THEN Miss ELSE ReaderGet(p[Asked(k, p)], k)
    PROVE  /\ Holders(k) = {} => r = Miss
           /\ Holders(k) # {} =>
                  \E s \in Holders(k) :
                      /\ r = Hit(ValueOf(segs[s].data[k]))
                      /\ \A t \in Holders(k) : segs[t].data[k] > segs[s].data[k] =>
                             segs[t].created = segs[s].created
<1>1. PICK n \in Nat : n = Len(segs) /\ DOMAIN segs = 1 .. n
  BY SegmentFacts
<1>2. PICK data : data = [s \in 1 .. n |-> segs[s].data[k]]
  OBVIOUS
<1>3. data \in [1 .. n -> Int]
  BY <1>1, <1>2, SegmentFacts DEF Table
<1>4. PICK H \in SUBSET (1 .. n) :
          H = Holders(k) /\ \A s \in 1 .. n : s \in H <=> data[s] > 0
  <2>1. Live = 1 .. n
    BY <1>1, LiveAll
  <2>2. Holders(k) = {s \in 1 .. n : data[s] > 0}
    BY <1>2, <2>1 DEF Holders
  <2> QED
    BY <2>2
<1>5. PICK m \in Nat :
          /\ m = Len(p) /\ DOMAIN p = 1 .. m /\ (p = <<>> <=> m = 0)
          /\ \A i \in 1 .. m : p[i] \in 1 .. n
          /\ \A i, j \in 1 .. m : i < j => segs[p[j]].created <= segs[p[i]].created
          /\ \A s \in 1 .. n : InRange(segs[s], k) => \E i \in 1 .. m : p[i] = s
  <2>1. /\ p \in Seq(1 .. n)
        /\ ToSet(p) = {s \in 1 .. n : InRange(segs[s], k)}
        /\ \A i, j \in DOMAIN p : i < j => segs[p[j]].created <= segs[p[i]].created
    <3>1. /\ p \in Seq(DOMAIN segs)
          /\ ToSet(p) = {s \in DOMAIN segs : InRange(segs[s], k)}
          /\ \A i, j \in DOMAIN p : i < j => segs[p[j]].created <= segs[p[i]].created
      BY LatestFirst
    <3> QED
      BY <1>1, <3>1
  <2>2. PICK m \in Nat : m = Len(p) /\ DOMAIN p = 1 .. m /\ (p = <<>> <=> m = 0)
    BY <2>1
  <2>3. \A i \in 1 .. m : p[i] \in 1 .. n
    BY <2>1, <2>2
  <2>4. ASSUME NEW s \in 1 .. n, InRange(segs[s], k) PROVE \E i \in 1 .. m : p[i] = s
    BY <2>1, <2>2, <2>4 DEF ToSet
  <2> QED
    BY <2>1, <2>2, <2>3, <2>4
<1>6. ASSUME NEW s \in 1 .. n
      PROVE  ReaderGet(s, k) = IF data[s] > 0 THEN Hit(ValueOf(data[s])) ELSE Miss
  <2>1. ReaderGet(s, k) = IF Lookup(segs[s], k) = Absent THEN Miss
                          ELSE Hit(ValueOf(Lookup(segs[s], k)))
    BY <1>1, <1>6, GetImplementation DEF GetImplementsLookup, SegmentID
  <2>2. Lookup(segs[s], k) = IF data[s] > 0 THEN data[s] ELSE 0
    BY <1>2 DEF Lookup, Absent
  <2>3. data[s] > 0 => data[s] # 0
    BY <1>3
  <2> QED
    BY <2>1, <2>2, <2>3 DEF Absent
<1>7. ASSUME NEW s \in 1 .. n, data[s] > 0 PROVE \E i \in 1 .. m : p[i] = s
  <2>1. segs[s].data[k] # Absent
    BY <1>2, <1>3, <1>7 DEF Absent
  <2>2. PICK slice, ends : BlockAt(file, meta[s], segs[s].data, slice, ends)
    BY <1>1 DEF FileInv
  <2>3. InRange(segs[s], k)
    BY <2>1, <2>2, KeyInRange
  <2> QED
    BY <1>5, <2>3
<1>8. \A s, t \in 1 .. n : s < t /\ data[t] > 0 => data[s] < data[t]
  BY <1>1, <1>2 DEF AgeInv
<1>9. PICK hits \in SUBSET (1 .. m) : hits = {i \in 1 .. m : data[p[i]] > 0}
  OBVIOUS
<1>10. Asked(k, p) = IF hits = {} THEN m ELSE Min(hits)
  <2>1. \A i \in 1 .. m : ReaderGet(p[i], k).ok <=> data[p[i]] > 0
    BY <1>5, <1>6 DEF Hit, Miss
  <2>2. hits = {i \in DOMAIN p : ReaderGet(p[i], k).ok}
    BY <1>5, <1>9, <2>1
  <2> QED
    BY <1>5, <2>2 DEF Asked
<1>11. CASE hits = {}
  <2>1. H = {}
    <3>1. ASSUME NEW s \in 1 .. n, data[s] > 0 PROVE FALSE
      <4>1. PICK i \in 1 .. m : p[i] = s
        BY <1>7, <3>1
      <4> QED
        BY <1>9, <1>11, <3>1, <4>1
    <3> QED
      BY <1>4, <3>1
  <2>2. ASSUME m # 0 PROVE ReaderGet(p[m], k) = Miss
    <3>1. m \in 1 .. m /\ p[m] \in 1 .. n
      BY <1>5, <2>2
    <3>2. ~ (data[p[m]] > 0)
      BY <1>9, <1>11, <3>1
    <3> QED
      BY <1>6, <3>1, <3>2
  <2> QED
    BY <1>4, <1>5, <1>10, <1>11, <2>1, <2>2
<1>12. CASE hits # {}
  <2>1. PICK i \in hits : \A j \in hits : i <= j
    <3>1. hits \in SUBSET Nat
      OBVIOUS
    <3> QED
      BY <1>12, <3>1, NatMinimum
  <2>2. Min(hits) = i
    <3>1. Min(hits) \in hits /\ \A j \in hits : Min(hits) <= j
      <4>1. \E x \in hits : \A j \in hits : x <= j
        BY <2>1, Zenon
      <4> QED
        BY <4>1, Zenon DEF Min
    <3>2. PICK x \in hits : x = Min(hits) /\ x <= i /\ i <= x
      BY <2>1, <3>1
    <3> QED
      BY <3>2
  <2>3. PICK s \in 1 .. n : s = p[i] /\ data[s] > 0
    BY <1>5, <1>9
  <2>4. r = Hit(ValueOf(data[s]))
    <3>1. m # 0
      BY <2>1
    <3> QED
      BY <1>5, <1>6, <1>10, <1>12, <2>2, <2>3, <3>1
  <2>5. ASSUME NEW t \in H, data[t] > data[s]
        PROVE  segs[t].created = segs[s].created
    <3>1. t \in 1 .. n /\ data[t] > 0
      BY <1>4
    <3>2. PICK j \in 1 .. m : p[j] = t
      BY <1>7, <3>1
    <3>3. j \in hits
      BY <1>9, <3>1, <3>2
    <3>4. i # j
      BY <1>3, <2>3, <2>5, <3>2
    <3>5. segs[t].created <= segs[s].created
      BY <2>1, <2>3, <3>2, <3>3, <3>4, <1>5
    <3>6. ~ (t < s)
      BY <1>3, <1>8, <2>3, <2>5, <3>1
    <3>7. segs[s].created <= segs[t].created
      BY <1>1, <3>1, <3>6 DEF OrderInv
    <3>8. segs[s].created \in Nat /\ segs[t].created \in Nat
      BY <1>1, <3>1, SegmentFacts
    <3> QED
      BY <3>5, <3>7, <3>8
  <2>6. s \in H /\ data[s] = segs[s].data[k] /\ \A t \in H : data[t] = segs[t].data[k]
    BY <1>2, <1>4, <2>3
  <2> QED
    BY <1>4, <2>4, <2>5, <2>6
<1> QED
  BY <1>11, <1>12

\* HandlerReadsWithinSecond (read.Handler.Get): by way of the memtable, the tracker's
\* order, the sparse indexes and the file, a lookup of a key that has no tombstone
\* returns the memtable's value or that of a segment than which only those of its own
\* second have a newer one, and misses no key that is stored.
THEOREM HandlerWithinSecond == Spec => []HandlerReadsWithinSecond
<1>1. MemtableInv /\ FileInv /\ OrderInv /\ AgeInv => HandlerReadsWithinSecond
  <2> SUFFICES ASSUME MemtableInv, FileInv, OrderInv, AgeInv,
                      NEW k \in Keys, NEW p \in GetSegmentsForKey(k)
               PROVE  /\ table[k] > 0 => HandlerResult(k, p) = Hit(ValueOf(table[k]))
                      /\ table[k] = 0 /\ Holders(k) = {} => HandlerResult(k, p) = Miss
                      /\ table[k] = 0 /\ Holders(k) # {} =>
                            \E s \in Holders(k) :
                                /\ HandlerResult(k, p) = Hit(ValueOf(segs[s].data[k]))
                                /\ \A t \in Holders(k) :
                                       segs[t].data[k] > segs[s].data[k] =>
                                       segs[t].created = segs[s].created
    BY DEF HandlerReadsWithinSecond
  <2>1. PICK d \in Int : d = table[k]
    BY DEF MemtableInv, Table
  <2>2. MemGet(mem, k) = IF d > 0 THEN d ELSE 0
    BY <2>1, MemGetIsTable
  <2>3. CASE d > 0
    BY <2>1, <2>2, <2>3 DEF HandlerResult
  <2>4. CASE d = 0
    <3>1. PICK r : r = HandlerResult(k, p)
      OBVIOUS
    <3>2. r = IF p = <<>> THEN Miss ELSE ReaderGet(p[Asked(k, p)], k)
      BY <2>2, <2>4, <3>1 DEF HandlerResult
    <3>3. /\ Holders(k) = {} => r = Miss
          /\ Holders(k) # {} =>
                 \E s \in Holders(k) :
                     /\ r = Hit(ValueOf(segs[s].data[k]))
                     /\ \A t \in Holders(k) : segs[t].data[k] > segs[s].data[k] =>
                            segs[t].created = segs[s].created
      BY <3>2, HandlerAsks
    <3> QED
      BY <2>1, <2>4, <3>1, <3>3
  <2>5. CASE ~ (d > 0) /\ d # 0
    BY <2>1, <2>5
  <2> QED
    BY <2>3, <2>4, <2>5
<1> QED
  BY <1>1, HandlerInvariance, PTL
=============================================================================
