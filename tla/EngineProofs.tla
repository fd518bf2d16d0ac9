---------------------------- MODULE EngineProofs ----------------------------
(***************************************************************************)
(* The engine of Engine.tla and the log of WAL.tla, for all values of the  *)
(* constants: what is in the log, the memtable and the data file, and what *)
(* ReadAll makes of the log's bytes.                                       *)
(***************************************************************************)
EXTENDS Engine, MemtableProofs, FiniteSetTheorems, TLAPS

LogRecord == [n : Nat, len : Nat]

\* The log is a sequence of parts of records, none empty.
LogInv ==
    /\ writes \in Seq(WALEntry)
    /\ log \in Seq(LogRecord)
    /\ \A i \in 1 .. Len(log) :
           log[i].n \in 1 .. Len(writes) /\ log[i].len \in 1 .. RecordLength(log[i].n)

\* Lengths of records, in a log that was written to.
LEMMA RecordLengths ==
    ASSUME NEW w \in Seq(WALEntry), NEW n \in 1 .. Len(w)
    PROVE  w[n] \in WALEntry /\ w[n].key \in Keys /\ w[n].vLen \in Nat
<1>1. w[n] \in WALEntry
  OBVIOUS
<1>2. \A x \in ToSet(ValueLengths) : x \in Nat
  BY LogAssumption DEF ToSet
<1> QED
  BY <1>1, <1>2 DEF WALEntry

\* The entries that are logged are entries.
LEMMA NewEntryType ==
    ASSUME writes \in Seq(WALEntry), NEW k \in Keys
    PROVE  NewEntry(k) \in WALEntry
<1>1. Len(ValueLengths) \in Nat \ {0} /\ Len(writes) \in Nat
  BY LogAssumption
<1>2. 1 + (Len(writes) % Len(ValueLengths)) \in 1 .. Len(ValueLengths)
  BY <1>1
<1>3. ValueLengths[1 + (Len(writes) % Len(ValueLengths))] \in ToSet(ValueLengths)
  BY <1>2, LogAssumption DEF ToSet
<1> QED
  BY <1>3 DEF NewEntry, WALEntry

\* A write extends "writes"; the records in the log keep their lengths.
LEMMA WritesGrow ==
    ASSUME LogInv, NEW e \in WALEntry, writes' = Append(writes, e),
           NEW m, m = Len(writes) + 1
    PROVE  /\ writes' \in Seq(WALEntry) /\ Len(writes') = m
           /\ m \in 1 .. Len(writes') /\ writes'[m] = e
           /\ RecordLength(m)' = HeaderLength + KeyLength + e.vLen
           /\ \A n \in 1 .. Len(writes) :
                  /\ n \in 1 .. Len(writes') /\ writes'[n] = writes[n]
                  /\ RecordLength(n)' = RecordLength(n)
<1>1. /\ writes' \in Seq(WALEntry) /\ Len(writes') = m
      /\ Len(writes) \in Nat /\ m \in Nat
      /\ \A n \in 1 .. Len(writes) : writes'[n] = writes[n]
      /\ writes'[m] = e
  BY DEF LogInv
<1>2. \A n \in 1 .. Len(writes) : RecordLength(n)' = RecordLength(n)
  BY <1>1 DEF RecordLength
<1>3. RecordLength(m)' = HeaderLength + KeyLength + e.vLen
  BY <1>1 DEF RecordLength
<1> QED
  BY <1>1, <1>2, <1>3

\* The calls that write a record keep the log.
LEMMA WriteInv ==
    ASSUME LogInv, NEW e \in WALEntry, Write(e) \/ WriteFails(e)
    PROVE  LogInv'
<1>1. writes' = Append(writes, e)
  BY DEF Write, WriteFails
<1>2. PICK m : m = Len(writes) + 1
  OBVIOUS
<1>3. /\ writes' \in Seq(WALEntry) /\ m \in 1 .. Len(writes')
      /\ RecordLength(m)' = HeaderLength + KeyLength + e.vLen
      /\ \A n \in 1 .. Len(writes) :
             n \in 1 .. Len(writes') /\ RecordLength(n)' = RecordLength(n)
  BY <1>1, <1>2, WritesGrow
<1>4. /\ HeaderLength + KeyLength + e.vLen \in Nat \ {0}
      /\ HeaderLength + KeyLength + e.vLen - 1 = (HeaderLength + KeyLength + e.vLen) - 1
  <2>1. e.vLen \in Nat
    <3>1. \A x \in ToSet(ValueLengths) : x \in Nat
      BY LogAssumption DEF ToSet
    <3> QED
      BY <3>1 DEF WALEntry
  <2> QED
    BY <2>1 DEF HeaderLength, KeyLength
<1>5. PICK length : length = HeaderLength + KeyLength + e.vLen
  OBVIOUS
<1>6. log' = log \/ \E len \in 1 .. length : log' = Append(log, [n |-> m, len |-> len])
  <2>1. CASE Write(e)
    <3>1. log' = Append(log, [n |-> m, len |-> length])
      BY <1>2, <1>5, <2>1 DEF Write
    <3> QED
      BY <1>4, <1>5, <3>1
  <2>2. CASE WriteFails(e)
    <3>1. \E n \in 0 .. HeaderLength + KeyLength + e.vLen - 1 :
              log' = IF n = 0 THEN log
                     ELSE Append(log, [n |-> Len(writes) + 1, len |-> n])
      BY <2>2 DEF WriteFails
    <3>2. HeaderLength + KeyLength + e.vLen - 1 = length - 1 /\ Len(writes) + 1 = m
      BY <1>2, <1>4, <1>5
    <3>3. PICK n \in 0 .. length - 1 :
              log' = IF n = 0 THEN log ELSE Append(log, [n |-> m, len |-> n])
      BY <3>1, <3>2, Zenon
    <3>4. n = 0 \/ n \in 1 .. length
      BY <1>4, <1>5
    <3> QED
      BY <3>3, <3>4
  <2> QED
    BY <2>1, <2>2
<1>7. log \in Seq(LogRecord) /\ Len(log) \in Nat
  BY DEF LogInv
<1>8. CASE log' = log
  BY <1>3, <1>7, <1>8 DEF LogInv
<1>9. CASE \E len \in 1 .. length : log' = Append(log, [n |-> m, len |-> len])
  <2>1. PICK len \in 1 .. length : log' = Append(log, [n |-> m, len |-> len])
    BY <1>9
  <2>2. PICK r : r = [n |-> m, len |-> len]
    OBVIOUS
  <2>3. r \in LogRecord /\ r.n = m /\ r.len = len
    BY <1>3, <1>4, <1>5, <2>2 DEF LogRecord
  <2>4. /\ log' \in Seq(LogRecord) /\ Len(log') = Len(log) + 1
        /\ \A i \in 1 .. Len(log) : log'[i] = log[i]
        /\ log'[Len(log) + 1] = r
    BY <1>7, <2>1, <2>2, <2>3, AppendProperties
  <2>5. ASSUME NEW i \in 1 .. Len(log')
        PROVE  log'[i].n \in 1 .. Len(writes') /\ log'[i].len \in 1 .. RecordLength(log[i].n)'
    <3>1. CASE i \in 1 .. Len(log)
      BY <1>3, <2>4, <3>1 DEF LogInv, RecordLength
    <3>2. CASE i = Len(log) + 1
      <4>1. log'[i] = r /\ len \in 1 .. RecordLength(m)'
        BY <1>3, <1>5, <2>4, <3>2
      <4> QED
        BY <1>3, <2>3, <4>1 DEF RecordLength
    <3> QED
      BY <1>7, <2>4, <3>1, <3>2
  <2> QED
    BY <1>3, <2>4, <2>5 DEF LogInv
<1> QED
  BY <1>6, <1>8, <1>9

\* Truncations, whether they succeed or not.
LEMMA TruncateInv ==
    ASSUME LogInv, Truncate \/ TruncateFails
    PROVE  LogInv'
<1>1. writes' = writes /\ log' \in {log, <<>>}
  BY DEF Truncate, TruncateFails
<1>2. \A n : RecordLength(n)' = RecordLength(n)
  BY <1>1 DEF RecordLength
<1>3. CASE log' = log
  BY <1>1, <1>3 DEF LogInv, RecordLength
<1>4. CASE log' = <<>>
  <2>1. <<>> \in Seq(LogRecord) /\ Len(<<>>) = 0
    OBVIOUS
  <2> QED
    BY <1>1, <1>4, <2>1 DEF LogInv
<1> QED
  BY <1>1, <1>3, <1>4

\* A power failure.
LEMMA TailInv ==
    ASSUME LogInv, LosesTail
    PROVE  LogInv'
<1>1. writes' = writes
  BY DEF LosesTail
<1>2. \A n : RecordLength(n)' = RecordLength(n)
  BY <1>1 DEF RecordLength
<1>3. log \in Seq(LogRecord) /\ Len(log) \in Nat
  BY DEF LogInv
<1>4. \A i \in 0 .. Len(log) :
          /\ SubSeq(log, 1, i) \in Seq(LogRecord) /\ Len(SubSeq(log, 1, i)) = i
          /\ \A j \in 1 .. i : SubSeq(log, 1, i)[j] = log[j] /\ j \in 1 .. Len(log)
  BY <1>3
<1>5. CASE \E i \in 0 .. Len(log) - 1 : log' = SubSeq(log, 1, i)
  <2>1. PICK i \in 0 .. Len(log) - 1 : log' = SubSeq(log, 1, i)
    BY <1>5
  <2>2. i \in 0 .. Len(log)
    BY <1>3
  <2> QED
    BY <1>1, <1>2, <1>4, <2>1, <2>2 DEF LogInv
<1>6. CASE \E i \in 1 .. Len(log) : \E n \in 1 .. log[i].len - 1 :
               log' = Append(SubSeq(log, 1, i - 1), [log[i] EXCEPT !.len = n])
  <2>1. PICK i \in 1 .. Len(log) : \E n \in 1 .. log[i].len - 1 :
               log' = Append(SubSeq(log, 1, i - 1), [log[i] EXCEPT !.len = n])
    BY <1>6
  <2>2. PICK n \in 1 .. log[i].len - 1 :
               log' = Append(SubSeq(log, 1, i - 1), [log[i] EXCEPT !.len = n])
    BY <2>1
  <2>3. /\ log[i] \in LogRecord /\ log[i].n \in 1 .. Len(writes)
        /\ log[i].len \in 1 .. RecordLength(log[i].n)
    BY <1>3 DEF LogInv
  <2>4. PICK r : r = [log[i] EXCEPT !.len = n]
    OBVIOUS
  <2>5. /\ r \in LogRecord /\ r.n = log[i].n /\ r.len = n
        /\ n \in 1 .. RecordLength(log[i].n)
    <3>1. log[i].n \in Nat /\ log[i].len \in Nat /\ log[i] = [n |-> log[i].n, len |-> log[i].len]
      BY <2>3 DEF LogRecord
    <3>2. r = [n |-> log[i].n, len |-> n]
      BY <2>4, <3>1
    <3>3. n \in Nat /\ n \in 1 .. RecordLength(log[i].n)
      <4>1. RecordLength(log[i].n) \in Int
        BY <2>3, RecordLengths DEF RecordLength, HeaderLength, KeyLength, LogInv
      <4> QED
        BY <2>2, <2>3, <3>1, <4>1
    <3> QED
      BY <3>1, <3>2, <3>3 DEF LogRecord
  <2>6. PICK a : a = SubSeq(log, 1, i - 1)
    OBVIOUS
  <2>7. /\ a \in Seq(LogRecord) /\ Len(a) = i - 1 /\ i - 1 \in Nat
        /\ \A j \in 1 .. i - 1 : a[j] = log[j] /\ j \in 1 .. Len(log)
    <3>1. i - 1 \in 0 .. Len(log)
      BY <1>3
    <3> QED
      BY <1>4, <2>6, <3>1
  <2>8. /\ log' \in Seq(LogRecord) /\ Len(log') = i
        /\ \A j \in 1 .. i - 1 : log'[j] = a[j]
        /\ log'[i] = r
    BY <2>2, <2>4, <2>5, <2>6, <2>7, AppendProperties
  <2>9. ASSUME NEW j \in 1 .. Len(log')
        PROVE  log'[j].n \in 1 .. Len(writes) /\ log'[j].len \in 1 .. RecordLength(log'[j].n)
    <3>1. CASE j \in 1 .. i - 1
      BY <2>7, <2>8, <3>1 DEF LogInv
    <3>2. CASE j = i
      BY <2>3, <2>5, <2>8, <3>2
    <3> QED
      BY <2>8, <3>1, <3>2
  <2> QED
    BY <1>1, <1>2, <2>8, <2>9 DEF LogInv
<1> QED
  BY <1>5, <1>6 DEF LosesTail

\* The log of WAL.tla, as its type invariant states it.
LEMMA LogType ==
    ASSUME LogInv
    PROVE  WALTypeOK /\ DOMAIN writes = 1 .. Len(writes) /\ DOMAIN log = 1 .. Len(log)
<1>1. DOMAIN writes = 1 .. Len(writes) /\ DOMAIN log = 1 .. Len(log)
  BY DEF LogInv
<1> QED
  BY <1>1 DEF LogInv, WALTypeOK

-----------------------------------------------------------------------------
(***************************************************************************)
(* The slices.                                                             *)
(***************************************************************************)
SliceEntry == [key : Keys, v : Nat \ {0}]

\* A slice of writes, each with the key it was logged under.
Held(slice) ==
    /\ slice \in Seq(SliceEntry)
    /\ \A x \in ToSet(slice) : x.v \in 1 .. Len(writes) /\ x.key = writes[x.v].key

LEMMA HeldEmpty == Held(<<>>)
<1>1. <<>> \in Seq(SliceEntry) /\ ToSet(<<>>) = {}
  BY DEF ToSet
<1> QED
  BY <1>1 DEF Held

LEMMA HeldIsSlice ==
    ASSUME NEW slice, Held(slice), DOMAIN writes = 1 .. Len(writes)
    PROVE  IsSlice(slice)
<1>1. \A i \in DOMAIN slice : slice[i] \in ToSet(slice)
  BY DEF Held, ToSet
<1> QED
  BY <1>1 DEF Held, IsSlice

\* A slice stays one while "writes" grows, or stays as it is.
LEMMA HeldGrows ==
    ASSUME LogInv, NEW slice, Held(slice),
           \/ writes' = writes
           \/ \E e \in WALEntry : writes' = Append(writes, e)
    PROVE  Held(slice)'
<1>1. CASE writes' = writes
  BY <1>1 DEF Held
<1>2. ASSUME NEW e \in WALEntry, writes' = Append(writes, e)
      PROVE  Held(slice)'
  <2>1. \A n \in 1 .. Len(writes) : n \in 1 .. Len(writes') /\ writes'[n] = writes[n]
    BY <1>2, WritesGrow
  <2> QED
    BY <2>1 DEF Held
<1> QED
  BY <1>1, <1>2

\* memtable.Put of a write.
LEMMA HeldUpsert ==
    ASSUME LogInv, NEW slice, Held(slice), NEW n \in 1 .. Len(writes),
           NEW q, q = Upsert(slice, Entry(writes[n].key, n))
    PROVE  Held(q) /\ Len(q) \in {Len(slice), Len(slice) + 1}
<1>1. PICK e : e = Entry(writes[n].key, n)
  OBVIOUS
<1>2. writes[n].key \in Keys
  BY RecordLengths DEF LogInv
<1>3. e \in SliceEntry /\ e.v = n /\ e.key = writes[n].key
  BY <1>1, <1>2 DEF Entry, SliceEntry
<1>4. /\ q \in Seq(SliceEntry)
      /\ Len(q) \in {Len(slice), Len(slice) + 1}
      /\ ToSet(q) \subseteq ToSet(slice) \cup {e}
  BY <1>1, <1>3, UpsertEntries DEF Held
<1> QED
  BY <1>3, <1>4 DEF Held

-----------------------------------------------------------------------------
(***************************************************************************)
(* The clients.                                                            *)
(***************************************************************************)
Labels == {"idle", "mem", "check", "flush", "write", "truncate"}

\* The clients that have put an entry and not emptied the memtable since.
Crowd == {c \in Clients : pc[c] \in {"check", "flush"}}

LEMMA CrowdFinite ==
    /\ IsFiniteSet(Crowd) /\ Cardinality(Crowd) \in Nat
    /\ Cardinality(Clients) \in Nat /\ Cardinality(Crowd) <= Cardinality(Clients)
<1>1. IsFiniteSet(Clients) /\ Crowd \subseteq Clients
  BY EngineAssumption DEF Crowd
<1> QED
  BY <1>1, FS_Subset, FS_CardinalityType

\* Steps into the crowd, out of it, and others.
LEMMA CrowdStep ==
    ASSUME pc \in [Clients -> Labels], NEW c \in Clients, NEW label \in Labels, Goto(c, label)
    PROVE  /\ pc' \in [Clients -> Labels] /\ pc'[c] = label
           /\ \A d \in Clients \ {c} : pc'[d] = pc[d]
           /\ Cardinality(Crowd') <= Cardinality(Crowd) + 1
           /\ pc[c] \in {"check", "flush"} /\ label \notin {"check", "flush"} =>
                  Cardinality(Crowd') = Cardinality(Crowd) - 1
           /\ (pc[c] \in {"check", "flush"}) = (label \in {"check", "flush"}) =>
                  Cardinality(Crowd') = Cardinality(Crowd)
           /\ pc[c] \notin {"check", "flush"} /\ label \in {"check", "flush"} =>
                  Cardinality(Crowd') = Cardinality(Crowd) + 1
<1>1. /\ pc' \in [Clients -> Labels] /\ pc'[c] = label
      /\ \A d \in Clients \ {c} : pc'[d] = pc[d]
  BY DEF Goto
<1>2. IsFiniteSet(Crowd) /\ Cardinality(Crowd) \in Nat
  BY CrowdFinite
<1>3. CASE pc[c] \in {"check", "flush"} /\ label \notin {"check", "flush"}
  <2>1. c \in Crowd /\ Crowd' = Crowd \ {c}
    BY <1>1, <1>3 DEF Crowd
  <2>2. Cardinality(Crowd') = Cardinality(Crowd) - 1
    BY <1>2, <2>1, FS_RemoveElement
  <2> QED
    BY <1>1, <1>2, <1>3, <2>2
<1>4. CASE pc[c] \notin {"check", "flush"} /\ label \in {"check", "flush"}
  <2>1. c \notin Crowd /\ Crowd' = Crowd \cup {c}
    BY <1>1, <1>4 DEF Crowd
  <2>2. Cardinality(Crowd') = Cardinality(Crowd) + 1
    BY <1>2, <2>1, FS_AddElement
  <2> QED
    BY <1>1, <1>2, <1>4, <2>2
<1>5. CASE (pc[c] \in {"check", "flush"}) = (label \in {"check", "flush"})
  <2>1. Crowd' = Crowd
    BY <1>1, <1>5 DEF Crowd
  <2> QED
    BY <1>1, <1>2, <1>5, <2>1
<1> QED
  BY <1>3, <1>4, <1>5

-----------------------------------------------------------------------------
(***************************************************************************)
(* The inductive invariant.                                                *)
(***************************************************************************)
\* A Put that is under way has logged its write.
FlowInv ==
    /\ pc \in [Clients -> Labels]
    /\ cur \in [Clients -> Nat]
    /\ \A c \in Clients : cur[c] \in 0 .. Len(writes) /\ (pc[c] # "idle" => cur[c] # 0)

\* The memtable exceeds its limit only by entries whose Put has not yet flushed.
MemInv == Held(mem) /\ Len(mem) <= (maxEntries - 1) + Cardinality(Crowd)

DiskInv ==
    /\ disk \in Seq(Seq(SliceEntry))
    /\ \A i \in 1 .. Len(disk) : disk[i] # <<>> /\ Held(disk[i])

BatchInv ==
    /\ batch \in [Clients -> Seq(SliceEntry)]
    /\ \A c \in Clients : Held(batch[c])

HistoryInv ==
    /\ faults \in 0 .. MaxFaults /\ restarts \in 0 .. MaxRestarts
    /\ acked \cup overlapped \cup dropped \cup forfeited \subseteq 1 .. Len(writes)
    /\ boot \in 0 .. Len(writes)

EngineInv == LogInv /\ FlowInv /\ MemInv /\ DiskInv /\ BatchInv /\ HistoryInv

\* Every step leaves the log as it is, logs a write, or cuts the log.
WritesStep == writes' = writes \/ \E e \in WALEntry : writes' = Append(writes, e)

LEMMA WritesKept ==
    ASSUME LogInv, WritesStep
    PROVE  /\ Len(writes) \in Nat /\ Len(writes') \in Nat /\ Len(writes) <= Len(writes')
           /\ \A slice : Held(slice) => Held(slice)'
<1>1. Len(writes) \in Nat
  BY DEF LogInv
<1>2. Len(writes') \in Nat /\ Len(writes) <= Len(writes')
  <2>1. CASE writes' = writes
    BY <1>1, <2>1
  <2>2. CASE \E e \in WALEntry : writes' = Append(writes, e)
    BY <1>1, <2>2, WritesGrow
  <2> QED
    BY <2>1, <2>2 DEF WritesStep
<1>3. ASSUME NEW slice, Held(slice) PROVE Held(slice)'
  BY <1>3, HeldGrows DEF WritesStep
<1> QED
  BY <1>1, <1>2, <1>3

\* What a step leaves alone stays right.
LEMMA SlicesKept ==
    ASSUME EngineInv, WritesStep
    PROVE  /\ mem' = mem /\ Cardinality(Crowd') = Cardinality(Crowd) => MemInv'
           /\ disk' = disk => DiskInv'
           /\ batch' = batch => BatchInv'
<1>1. \A slice : Held(slice) => Held(slice)'
  BY WritesKept DEF EngineInv
<1>2. ASSUME mem' = mem, Cardinality(Crowd') = Cardinality(Crowd) PROVE MemInv'
  <2>1. PICK q : q = mem
    OBVIOUS
  <2>2. Held(q)'
    BY <1>1, <2>1 DEF EngineInv, MemInv
  <2> QED
    BY <1>2, <2>1, <2>2 DEF EngineInv, MemInv, Held
<1>3. ASSUME disk' = disk PROVE DiskInv'
  <2>1. ASSUME NEW i \in 1 .. Len(disk') PROVE disk'[i] # <<>> /\ Held(disk[i])'
    <3>1. PICK q : q = disk[i]
      OBVIOUS
    <3>2. Held(q)' /\ q # <<>>
      BY <1>1, <1>3, <3>1 DEF EngineInv, DiskInv
    <3> QED
      BY <1>3, <3>1, <3>2 DEF Held
  <2> QED
    BY <1>3, <2>1 DEF EngineInv, DiskInv
<1>4. ASSUME batch' = batch PROVE BatchInv'
  <2>1. ASSUME NEW c \in Clients PROVE Held(batch[c])'
    <3>1. PICK q : q = batch[c]
      OBVIOUS
    <3>2. Held(q)'
      BY <1>1, <3>1 DEF EngineInv, BatchInv
    <3> QED
      BY <1>4, <3>1, <3>2 DEF Held
  <2> QED
    BY <1>4, <2>1 DEF EngineInv, BatchInv
<1> QED
  BY <1>2, <1>3, <1>4

\* A step of a Put to another label; its write stays the same.
LEMMA FlowKept ==
    ASSUME EngineInv, NEW c \in Clients, NEW label \in Labels, Goto(c, label),
           pc[c] # "idle", cur' = cur, writes' = writes
    PROVE  FlowInv'
<1>1. /\ pc' \in [Clients -> Labels] /\ \A d \in Clients : d # c => pc'[d] = pc[d]
  BY CrowdStep DEF EngineInv, FlowInv
<1> QED
  BY <1>1 DEF EngineInv, FlowInv

-----------------------------------------------------------------------------
(***************************************************************************)
(* The steps.                                                              *)
(***************************************************************************)
LEMMA InitInv ==
    ASSUME Init
    PROVE  EngineInv
<1> USE DEF Init, WALInit
<1>1. LogInv
  BY DEF LogInv
<1>2. FlowInv
  BY DEF FlowInv, Labels
<1>3. MemInv
  BY HeldEmpty, CrowdFinite, EngineAssumption DEF MemInv
<1>4. DiskInv
  BY DEF DiskInv
<1>5. BatchInv
  BY HeldEmpty DEF BatchInv, Held
<1>6. HistoryInv
  BY EngineAssumption DEF HistoryInv
<1> QED
  BY <1>1, <1>2, <1>3, <1>4, <1>5, <1>6 DEF EngineInv

LEMMA LogPutInv ==
    ASSUME EngineInv, NEW c \in Clients, NEW k \in Keys, LogPut(c, k)
    PROVE  EngineInv'
<1>1. PICK e \in WALEntry : Write(e)
  BY NewEntryType DEF LogPut, EngineInv, LogInv
<1>2. WritesStep /\ writes' = Append(writes, e)
  BY <1>1 DEF WritesStep, Write
<1>3. LogInv'
  BY <1>1, WriteInv DEF EngineInv
<1>4. /\ Len(writes) \in Nat /\ Len(writes') = Len(writes) + 1
  BY <1>2 DEF EngineInv, LogInv
<1>5. /\ pc[c] = "idle" /\ Goto(c, "mem") /\ "mem" \in Labels
      /\ cur' = [cur EXCEPT ![c] = Len(writes) + 1]
      /\ mem' = mem /\ disk' = disk /\ batch' = batch
      /\ UNCHANGED <<faults, restarts, acked, dropped, boot, forfeited>>
      /\ overlapped' \subseteq overlapped \cup {Len(writes) + 1}
                         \cup {cur[d] : d \in {x \in Clients \ {c} : pc[x] # "idle"}}
  BY DEF LogPut, Labels
<1>6. /\ pc' \in [Clients -> Labels] /\ Cardinality(Crowd') = Cardinality(Crowd)
      /\ pc'[c] = "mem" /\ \A d \in Clients : d # c => pc'[d] = pc[d]
  BY <1>5, CrowdStep DEF EngineInv, FlowInv
<1>7. FlowInv'
  <2>1. PICK n \in Nat : n = Len(writes) + 1 /\ n # 0
    BY <1>4
  <2>2. cur' \in [Clients -> Nat] /\ \A d \in Clients : cur'[d] = IF d = c THEN n ELSE cur[d]
    BY <1>5, <2>1 DEF EngineInv, FlowInv
  <2>3. ASSUME NEW d \in Clients
        PROVE  cur'[d] \in 0 .. Len(writes') /\ (pc'[d] # "idle" => cur'[d] # 0)
    <3>1. CASE d = c
      BY <1>4, <2>1, <2>2, <3>1
    <3>2. CASE d # c
      BY <1>4, <1>6, <2>2, <3>2 DEF EngineInv, FlowInv
    <3> QED
      BY <3>1, <3>2
  <2> QED
    BY <1>6, <2>2, <2>3 DEF FlowInv
<1>8. MemInv' /\ DiskInv' /\ BatchInv'
  BY <1>2, <1>5, <1>6, SlicesKept
<1>9. HistoryInv'
  <2>1. \A d \in Clients : pc[d] # "idle" => cur[d] \in 1 .. Len(writes)
    BY <1>4 DEF EngineInv, FlowInv
  <2>2. 1 .. Len(writes) \subseteq 1 .. Len(writes') /\ Len(writes) + 1 \in 1 .. Len(writes')
    BY <1>4
  <2>3. overlapped' \subseteq 1 .. Len(writes')
    BY <1>5, <2>1, <2>2 DEF EngineInv, HistoryInv
  <2>4. /\ faults' \in 0 .. MaxFaults /\ restarts' \in 0 .. MaxRestarts
        /\ acked' \cup dropped' \cup forfeited' \subseteq 1 .. Len(writes)
        /\ boot' \in 0 .. Len(writes)
    BY <1>5 DEF EngineInv, HistoryInv
  <2>5. boot' \in 0 .. Len(writes')
    BY <1>4, <2>4
  <2> QED
    BY <2>2, <2>3, <2>4, <2>5 DEF HistoryInv
<1> QED
  BY <1>3, <1>7, <1>8, <1>9 DEF EngineInv

LEMMA LogPutFailsInv ==
    ASSUME EngineInv, NEW c \in Clients, NEW k \in Keys, LogPutFails(c, k)
    PROVE  EngineInv'
<1>1. PICK e \in WALEntry : WriteFails(e)
  BY NewEntryType DEF LogPutFails, EngineInv, LogInv
<1>2. WritesStep /\ writes' = Append(writes, e)
  BY <1>1 DEF WritesStep, WriteFails
<1>3. LogInv'
  BY <1>1, WriteInv DEF EngineInv
<1>4. Len(writes) \in Nat /\ Len(writes') = Len(writes) + 1
  BY <1>2 DEF EngineInv, LogInv
<1>5. /\ faults < MaxFaults /\ faults' = faults + 1
      /\ UNCHANGED <<mem, disk, pc, cur, batch, restarts, history>>
  BY DEF LogPutFails, Fault
<1>6. FlowInv'
  BY <1>4, <1>5 DEF EngineInv, FlowInv
<1>7. MemInv' /\ DiskInv' /\ BatchInv'
  <2>1. Crowd' = Crowd
    BY <1>5 DEF Crowd
  <2> QED
    BY <1>2, <1>5, <2>1, SlicesKept
<1>8. HistoryInv'
  BY <1>4, <1>5, EngineAssumption DEF EngineInv, HistoryInv, history
<1> QED
  BY <1>3, <1>6, <1>7, <1>8 DEF EngineInv

\* The steps that write nothing to the log and lose nothing of it.
LEMMA LogUnchanged ==
    ASSUME LogInv, UNCHANGED walVars
    PROVE  LogInv' /\ WritesStep /\ writes' = writes
<1>1. writes' = writes /\ log' = log
  BY DEF walVars
<1> QED
  BY <1>1 DEF LogInv, RecordLength, WritesStep

LEMMA MemPutInv ==
    ASSUME EngineInv, NEW c \in Clients, MemPut(c)
    PROVE  EngineInv'
<1>1. /\ pc[c] = "mem" /\ Goto(c, "check") /\ "check" \in Labels
      /\ UNCHANGED <<walVars, disk, cur, batch, faults, restarts, history>>
  BY DEF MemPut, Labels
<1>2. LogInv' /\ WritesStep /\ writes' = writes
  BY <1>1, LogUnchanged DEF EngineInv
<1>3. FlowInv'
  BY <1>1, <1>2, FlowKept
<1>4. DiskInv' /\ BatchInv'
  BY <1>1, <1>2, SlicesKept
<1>5. Cardinality(Crowd') = Cardinality(Crowd) + 1 /\ Cardinality(Crowd) \in Nat
  BY <1>1, CrowdStep, CrowdFinite DEF EngineInv, FlowInv
<1>6. PICK n \in 1 .. Len(writes) : n = cur[c]
  BY <1>1 DEF EngineInv, FlowInv, LogInv
<1>7. PICK q : q = mem'
  OBVIOUS
<1>8. q = Upsert(mem, Entry(writes[n].key, n))
  BY <1>6, <1>7 DEF MemPut
<1>9. Held(q) /\ Len(q) \in {Len(mem), Len(mem) + 1}
  BY <1>6, <1>8, HeldUpsert DEF EngineInv, MemInv
<1>10. MemInv'
  <2>1. Held(q)'
    BY <1>2, <1>9, WritesKept DEF EngineInv
  <2>2. Len(mem) \in Nat /\ maxEntries \in Nat
    BY EngineAssumption DEF EngineInv, MemInv, Held
  <2>3. Len(q) <= (maxEntries - 1) + (Cardinality(Crowd) + 1)
    BY <1>5, <1>9, <2>2 DEF EngineInv, MemInv
  <2> QED
    BY <1>5, <1>7, <2>1, <2>3 DEF MemInv, Held
<1>11. HistoryInv'
  BY <1>1, <1>2 DEF EngineInv, HistoryInv, history
<1> QED
  BY <1>2, <1>3, <1>4, <1>10, <1>11 DEF EngineInv

\* Put returns: the write it is about is acknowledged.
LEMMA AckInv ==
    ASSUME EngineInv, NEW c \in Clients, pc[c] # "idle", Ack(c)
    PROVE  Goto(c, "idle") /\ "idle" \in Labels /\ acked' \subseteq 1 .. Len(writes)
<1>1. cur[c] \in 1 .. Len(writes)
  BY DEF EngineInv, FlowInv, LogInv
<1> QED
  BY <1>1 DEF Ack, Labels, EngineInv, HistoryInv

LEMMA CheckInv ==
    ASSUME EngineInv, NEW c \in Clients, CheckShouldFlush(c)
    PROVE  EngineInv'
<1>1. /\ pc[c] = "check"
      /\ UNCHANGED <<walVars, mem, disk, cur, batch, faults, restarts, overlapped, dropped, boot>>
      /\ \/ /\ Goto(c, "flush")
            /\ forfeited' \in {DOMAIN writes, forfeited} /\ acked' = acked
         \/ Len(mem) < maxEntries /\ Ack(c) /\ forfeited' = forfeited
  BY DEF CheckShouldFlush
<1>2. LogInv' /\ WritesStep /\ writes' = writes
  BY <1>1, LogUnchanged DEF EngineInv
<1>3. DiskInv' /\ BatchInv'
  BY <1>1, <1>2, SlicesKept
<1>4. DOMAIN writes = 1 .. Len(writes)
  BY DEF EngineInv, LogInv
<1>5. CASE Goto(c, "flush") /\ forfeited' \in {DOMAIN writes, forfeited} /\ acked' = acked
  <2>1. "flush" \in Labels
    BY DEF Labels
  <2>2. FlowInv'
    BY <1>1, <1>2, <1>5, <2>1, FlowKept
  <2>3. MemInv'
    <3>1. Cardinality(Crowd') = Cardinality(Crowd)
      BY <1>1, <1>5, <2>1, CrowdStep DEF EngineInv, FlowInv
    <3> QED
      BY <1>1, <1>2, <3>1, SlicesKept
  <2>4. HistoryInv'
    BY <1>1, <1>2, <1>4, <1>5 DEF EngineInv, HistoryInv
  <2> QED
    BY <1>2, <1>3, <2>2, <2>3, <2>4 DEF EngineInv
<1>6. CASE Len(mem) < maxEntries /\ Ack(c) /\ forfeited' = forfeited
  <2>1. Goto(c, "idle") /\ "idle" \in Labels /\ acked' \subseteq 1 .. Len(writes)
    BY <1>1, <1>6, AckInv
  <2>2. FlowInv'
    BY <1>1, <1>2, <2>1, FlowKept
  <2>3. MemInv'
    <3>1. Cardinality(Crowd') \in Nat /\ Cardinality(Crowd) \in Nat
      <4>1. Cardinality(Crowd') = Cardinality(Crowd) - 1 /\ c \in Crowd
        BY <1>1, <2>1, CrowdStep DEF EngineInv, FlowInv, Crowd
      <4>2. Cardinality(Crowd) # 0 /\ Cardinality(Crowd) \in Nat
        BY <4>1, CrowdFinite, FS_EmptySet
      <4> QED
        BY <4>1, <4>2
    <3>2. Len(mem) \in Nat /\ maxEntries \in Nat
      BY EngineAssumption DEF EngineInv, MemInv, Held
    <3>3. Len(mem') <= (maxEntries - 1) + Cardinality(Crowd')
      BY <1>1, <1>6, <3>1, <3>2
    <3> QED
      BY <1>1, <1>2, <3>3 DEF EngineInv, MemInv, Held
  <2>4. HistoryInv'
    BY <1>1, <1>2, <1>6, <2>1 DEF EngineInv, HistoryInv
  <2> QED
    BY <1>2, <1>3, <2>2, <2>3, <2>4 DEF EngineInv
<1> QED
  BY <1>1, <1>5, <1>6

LEMMA FlushInv ==
    ASSUME EngineInv, NEW c \in Clients, Flush(c)
    PROVE  EngineInv'
<1>1. /\ pc[c] = "flush" /\ Goto(c, "write") /\ "write" \in Labels
      /\ batch' = [batch EXCEPT ![c] = mem] /\ mem' = <<>>
      /\ UNCHANGED <<walVars, disk, cur, faults, restarts, history>>
  BY DEF Flush, Labels
<1>2. LogInv' /\ WritesStep /\ writes' = writes
  BY <1>1, LogUnchanged DEF EngineInv
<1>3. FlowInv'
  BY <1>1, <1>2, FlowKept
<1>4. DiskInv'
  BY <1>1, <1>2, SlicesKept
<1>5. MemInv'
  <2>1. Cardinality(Crowd') \in Nat
    <3>1. IsFiniteSet(Crowd')
      <4>1. Crowd' \subseteq Clients
        BY DEF Crowd
      <4> QED
        BY <4>1, EngineAssumption, FS_Subset
    <3> QED
      BY <3>1, FS_CardinalityType
  <2>2. Held(<<>>)'
    BY <1>2, HeldEmpty DEF Held
  <2> QED
    BY <1>1, <2>1, <2>2, EngineAssumption DEF MemInv, Held
<1>6. BatchInv'
  BY <1>1, <1>2 DEF EngineInv, BatchInv, MemInv, Held
<1>7. HistoryInv'
  BY <1>1, <1>2 DEF EngineInv, HistoryInv, history
<1> QED
  BY <1>2, <1>3, <1>4, <1>5, <1>6, <1>7 DEF EngineInv

LEMMA WriteSegmentInv ==
    ASSUME EngineInv, NEW c \in Clients, WriteSegment(c)
    PROVE  EngineInv'
<1>1. /\ pc[c] = "write" /\ Goto(c, "truncate") /\ "truncate" \in Labels
      /\ disk' = IF batch[c] = <<>> THEN disk ELSE Append(disk, batch[c])
      /\ batch' = [batch EXCEPT ![c] = <<>>]
      /\ UNCHANGED <<walVars, mem, cur, faults, restarts, history>>
  BY DEF WriteSegment, Labels
<1>2. LogInv' /\ WritesStep /\ writes' = writes
  BY <1>1, LogUnchanged DEF EngineInv
<1>3. FlowInv'
  BY <1>1, <1>2, FlowKept
<1>4. MemInv'
  <2>1. Cardinality(Crowd') = Cardinality(Crowd)
    BY <1>1, CrowdStep DEF EngineInv, FlowInv
  <2> QED
    BY <1>1, <1>2, <2>1, SlicesKept
<1>5. DiskInv'
  <2>1. CASE batch[c] = <<>>
    BY <1>1, <1>2, <2>1, SlicesKept
  <2>2. CASE batch[c] # <<>>
    <3>1. PICK q : q = batch[c]
      OBVIOUS
    <3>2. q \in Seq(SliceEntry) /\ Held(q)' /\ q # <<>>
      BY <1>2, <2>2, <3>1 DEF EngineInv, BatchInv, Held
    <3>3. disk \in Seq(Seq(SliceEntry)) /\ Len(disk) \in Nat
      BY DEF EngineInv, DiskInv
    <3>4. /\ disk' \in Seq(Seq(SliceEntry)) /\ Len(disk') = Len(disk) + 1
          /\ \A i \in 1 .. Len(disk) : disk'[i] = disk[i]
          /\ disk'[Len(disk) + 1] = q
      BY <1>1, <2>2, <3>1, <3>2, <3>3, AppendProperties
    <3>5. ASSUME NEW i \in 1 .. Len(disk') PROVE disk'[i] # <<>> /\ Held(disk[i])'
      <4>1. CASE i \in 1 .. Len(disk)
        BY <1>2, <3>4, <4>1 DEF EngineInv, DiskInv, Held
      <4>2. CASE i = Len(disk) + 1
        BY <3>2, <3>4, <4>2 DEF Held
      <4> QED
        BY <3>3, <3>4, <4>1, <4>2
    <3> QED
      BY <3>4, <3>5 DEF DiskInv
  <2> QED
    BY <2>1, <2>2
<1>6. BatchInv'
  <2>1. Held(<<>>)
    BY HeldEmpty
  <2> QED
    BY <1>1, <1>2, <2>1 DEF EngineInv, BatchInv, Held
<1>7. HistoryInv'
  BY <1>1, <1>2 DEF EngineInv, HistoryInv, history
<1> QED
  BY <1>2, <1>3, <1>4, <1>5, <1>6, <1>7 DEF EngineInv

LEMMA WriteSegmentFailsInv ==
    ASSUME EngineInv, NEW c \in Clients, WriteSegmentFails(c)
    PROVE  EngineInv'
<1>1. /\ pc[c] = "write" /\ Goto(c, "idle") /\ "idle" \in Labels
      /\ batch' = [batch EXCEPT ![c] = <<>>]
      /\ dropped' = dropped \cup LostWith(batch[c])
      /\ faults < MaxFaults /\ faults' = faults + 1
      /\ UNCHANGED <<walVars, mem, disk, cur, restarts, acked, overlapped, boot, forfeited>>
  BY DEF WriteSegmentFails, Labels, Fault
<1>2. LogInv' /\ WritesStep /\ writes' = writes
  BY <1>1, LogUnchanged DEF EngineInv
<1>3. FlowInv'
  BY <1>1, <1>2, FlowKept
<1>4. MemInv' /\ DiskInv'
  <2>1. Cardinality(Crowd') = Cardinality(Crowd)
    BY <1>1, CrowdStep DEF EngineInv, FlowInv
  <2> QED
    BY <1>1, <1>2, <2>1, SlicesKept
<1>5. BatchInv'
  <2>1. Held(<<>>)
    BY HeldEmpty
  <2> QED
    BY <1>1, <1>2, <2>1 DEF EngineInv, BatchInv, Held
<1>6. HistoryInv'
  <2>1. LostWith(batch[c]) \subseteq 1 .. Len(writes)
    <3>1. \A i \in DOMAIN log : log[i].n \in 1 .. Len(writes)
      BY DEF EngineInv, LogInv
    <3> QED
      BY <3>1 DEF LostWith
  <2> QED
    BY <1>1, <1>2, <2>1, EngineAssumption DEF EngineInv, HistoryInv
<1> QED
  BY <1>2, <1>3, <1>4, <1>5, <1>6 DEF EngineInv

\* Both ways a truncation ends.
LEMMA TruncateLogInv ==
    ASSUME EngineInv, NEW c \in Clients, TruncateLog(c) \/ TruncateLogFails(c)
    PROVE  EngineInv'
<1>1. /\ pc[c] = "truncate" /\ (Truncate \/ TruncateFails) /\ Forfeit
      /\ Goto(c, "idle") /\ "idle" \in Labels
      /\ acked' = acked \/ Ack(c)
      /\ faults' = faults \/ (faults < MaxFaults /\ faults' = faults + 1)
      /\ UNCHANGED <<mem, disk, cur, batch, restarts, overlapped, dropped, boot>>
  BY DEF TruncateLog, TruncateLogFails, Labels, Fault, Ack
<1>2. LogInv'
  BY <1>1, TruncateInv DEF EngineInv
<1>3. WritesStep /\ writes' = writes
  BY <1>1 DEF Truncate, TruncateFails, WritesStep
<1>4. FlowInv'
  BY <1>1, <1>3, FlowKept
<1>5. MemInv' /\ DiskInv' /\ BatchInv'
  <2>1. Cardinality(Crowd') = Cardinality(Crowd)
    BY <1>1, CrowdStep DEF EngineInv, FlowInv
  <2> QED
    BY <1>1, <1>3, <2>1, SlicesKept
<1>6. HistoryInv'
  <2>1. acked' \subseteq 1 .. Len(writes)
    BY <1>1, AckInv DEF EngineInv, HistoryInv
  <2>2. forfeited' \subseteq 1 .. Len(writes)
    BY <1>1 DEF Forfeit, EngineInv, HistoryInv, LogInv
  <2>3. faults' \in 0 .. MaxFaults
    BY <1>1, EngineAssumption DEF EngineInv, HistoryInv
  <2>4. /\ restarts' \in 0 .. MaxRestarts /\ boot' \in 0 .. Len(writes)
        /\ overlapped' \cup dropped' \subseteq 1 .. Len(writes)
    BY <1>1 DEF EngineInv, HistoryInv
  <2> QED
    BY <1>3, <2>1, <2>2, <2>3, <2>4 DEF HistoryInv
<1> QED
  BY <1>2, <1>3, <1>4, <1>5, <1>6 DEF EngineInv

\* The process or the machine ends.
LEMMA RestartInv ==
    ASSUME EngineInv, Restart \/ PowerFailure
    PROVE  EngineInv'
<1>1. /\ restarts < MaxRestarts /\ restarts' = restarts + 1
      /\ mem' = <<>> /\ pc' = [c \in Clients |-> "idle"]
      /\ batch' = [c \in Clients |-> <<>>] /\ boot' = Len(writes)
      /\ UNCHANGED <<disk, cur, faults, acked, overlapped, dropped>>
      /\ forfeited' \in {forfeited, DOMAIN writes}
      /\ UNCHANGED walVars \/ LosesTail
  BY DEF Restart, PowerFailure, StartAgain
<1>2. LogInv'
  BY <1>1, LogUnchanged, TailInv DEF EngineInv
<1>3. WritesStep /\ writes' = writes
  BY <1>1 DEF walVars, LosesTail, WritesStep
<1>4. FlowInv'
  BY <1>1, <1>3 DEF EngineInv, FlowInv, Labels
<1>5. Held(<<>>)'
  BY <1>3, HeldEmpty DEF Held
<1>6. MemInv'
  <2>1. Cardinality(Crowd') = 0
    <3>1. Crowd' = {}
      BY <1>1 DEF Crowd
    <3> QED
      BY <3>1, FS_EmptySet
  <2> QED
    BY <1>1, <1>5, <2>1, EngineAssumption DEF MemInv, Held
<1>7. DiskInv'
  BY <1>1, <1>3, SlicesKept
<1>8. BatchInv'
  BY <1>1, <1>5 DEF BatchInv, Held
<1>9. HistoryInv'
  <2>1. Len(writes) \in Nat /\ DOMAIN writes = 1 .. Len(writes)
    BY DEF EngineInv, LogInv
  <2>2. restarts' \in 0 .. MaxRestarts
    BY <1>1, EngineAssumption DEF EngineInv, HistoryInv
  <2> QED
    BY <1>1, <1>3, <2>1, <2>2 DEF EngineInv, HistoryInv
<1> QED
  BY <1>2, <1>4, <1>6, <1>7, <1>8, <1>9 DEF EngineInv

LEMMA StutterInv ==
    ASSUME EngineInv, UNCHANGED vars
    PROVE  EngineInv'
<1>1. UNCHANGED walVars /\ UNCHANGED engineVars /\ UNCHANGED history
  BY DEF vars
<1>2. LogInv' /\ WritesStep /\ writes' = writes
  BY <1>1, LogUnchanged DEF EngineInv
<1>3. /\ mem' = mem /\ disk' = disk /\ pc' = pc /\ cur' = cur /\ batch' = batch
      /\ faults' = faults /\ restarts' = restarts
  BY <1>1 DEF engineVars
<1>4. FlowInv'
  BY <1>2, <1>3 DEF EngineInv, FlowInv
<1>5. MemInv' /\ DiskInv' /\ BatchInv'
  <2>1. Crowd' = Crowd
    BY <1>3 DEF Crowd
  <2> QED
    BY <1>2, <1>3, <2>1, SlicesKept
<1>6. HistoryInv'
  BY <1>1, <1>2, <1>3 DEF EngineInv, HistoryInv, history
<1> QED
  BY <1>2, <1>4, <1>5, <1>6 DEF EngineInv

LEMMA NextInv ==
    ASSUME EngineInv, [Next]_vars
    PROVE  EngineInv'
<1>1. ASSUME NEW c \in Clients, NEW k \in Keys, LogPut(c, k) \/ LogPutFails(c, k)
      PROVE  EngineInv'
  BY <1>1, LogPutInv, LogPutFailsInv
<1>2. ASSUME NEW c \in Clients, MemPut(c) \/ CheckShouldFlush(c)
      PROVE  EngineInv'
  BY <1>2, MemPutInv, CheckInv
<1>3. ASSUME NEW c \in Clients, Flush(c) \/ WriteSegment(c) \/ WriteSegmentFails(c)
      PROVE  EngineInv'
  BY <1>3, FlushInv, WriteSegmentInv, WriteSegmentFailsInv
<1>4. ASSUME NEW c \in Clients, TruncateLog(c) \/ TruncateLogFails(c)
      PROVE  EngineInv'
  BY <1>4, TruncateLogInv
<1>5. CASE Restart \/ PowerFailure
  BY <1>5, RestartInv
<1>6. CASE UNCHANGED vars
  BY <1>6, StutterInv
<1> QED
  BY <1>1, <1>2, <1>3, <1>4, <1>5, <1>6 DEF Next

LEMMA Invariance == Spec => []EngineInv
<1>1. Init => EngineInv
  BY InitInv
<1>2. EngineInv /\ [Next]_vars => EngineInv'
  BY NextInv
<1> QED
  BY <1>1, <1>2, PTL DEF Spec

\* Whatever the clients do and whatever fails: the engine holds only writes that were
\* logged, under their keys, writes no empty slice to the data file, and the memtable
\* exceeds its limit by less than one entry per client (engine.go checks the limit
\* after the entry is in, with no lock held in between).
THEOREM EngineTypes == Spec => []EngineTypeOK
<1>1. EngineInv => EngineTypeOK
  <2> SUFFICES ASSUME EngineInv
               PROVE  EngineTypeOK
    OBVIOUS
  <2>1. WALTypeOK /\ DOMAIN writes = 1 .. Len(writes)
    BY LogType DEF EngineInv
  <2>2. \A slice : Held(slice) => IsSlice(slice)
    BY <2>1, HeldIsSlice
  <2>3. IsSlice(mem) /\ Len(mem) <= maxEntries + Cardinality(Clients) - 1
    <3>1. Len(mem) \in Nat /\ Len(mem) <= (maxEntries - 1) + Cardinality(Crowd)
      BY DEF EngineInv, MemInv, Held
    <3> QED
      BY <2>2, <3>1, CrowdFinite, EngineAssumption DEF EngineInv, MemInv
  <2>4. \A i \in DOMAIN disk : disk[i] # <<>> /\ IsSlice(disk[i])
    BY <2>2 DEF EngineInv, DiskInv
  <2>5. \A c \in Clients : IsSlice(batch[c])
    BY <2>2 DEF EngineInv, BatchInv
  <2>6. cur \in [Clients -> {0} \cup DOMAIN writes]
    <3>1. \A c \in Clients : cur[c] \in {0} \cup DOMAIN writes
      BY <2>1 DEF EngineInv, FlowInv, LogInv
    <3> QED
      BY <3>1 DEF EngineInv, FlowInv
  <2>7. pc \in [Clients -> {"idle", "mem", "check", "flush", "write", "truncate"}]
    BY DEF EngineInv, FlowInv, Labels
  <2> QED
    BY <2>1, <2>3, <2>4, <2>5, <2>6, <2>7 DEF EngineInv, HistoryInv, EngineTypeOK
<1> QED
  BY <1>1, Invariance, PTL

-----------------------------------------------------------------------------
(***************************************************************************)
(* ReadAll.  Records of the log are one behind the other in its bytes; the *)
(* recursion of ReadAll goes from the start of one to the start of the     *)
(* next.                                                                   *)
(***************************************************************************)
ReadResult == [status : {"ok", "error", "unknown"}, entries : Seq(Nat)]

HeaderAt(bytes, p) == bytes[p][2] = 1 /\ bytes[p + 1] = <<bytes[p][1], 2>>

NextRecord(bytes, p) == p + HeaderLength + KeyLength + ValueSpan(bytes[p][1])

RecordAt(bytes, p) ==
    IF \A i \in p .. NextRecord(bytes, p) - 1 : bytes[i] = <<bytes[p][1], i - p + 1>>
    THEN bytes[p][1] ELSE 0

PrependEntry(e, rest) ==
    [rest EXCEPT !.entries = IF rest.status = "ok" THEN <<e>> \o @ ELSE <<>>]

\* One turn of the loop in ReadAll.
ReadTurn(f, bytes, p) ==
    CASE p = Len(bytes) + 1 -> [status |-> "ok", entries |-> <<>>]
      [] p < Len(bytes) + 1 /\ p + HeaderLength > Len(bytes) + 1 -> ShortRead
      [] p + HeaderLength <= Len(bytes) + 1 /\ ~ HeaderAt(bytes, p) ->
            [status |-> "unknown", entries |-> <<>>]
      [] OTHER -> IF NextRecord(bytes, p) > Len(bytes) + 1 THEN ShortRead
                  ELSE PrependEntry(RecordAt(bytes, p), f[NextRecord(bytes, p)])

IsReading(f, bytes) == f = [p \in 1 .. Len(bytes) + 1 |-> ReadTurn(f, bytes, p)]

LEMMA ReadAllReads == ReadAll = (CHOOSE f : IsReading(f, Bytes))[1]
  BY Zenon DEF ReadAll, IsReading, ReadTurn, HeaderAt, NextRecord, RecordAt, PrependEntry

\* Places of the bytes at which records end.
LogLayout(bytes, ends) ==
    /\ bytes \in Seq(Nat \X Nat) /\ ends \in [Nat -> Nat]
    /\ ends[0] = 0 /\ Len(bytes) = ends[Len(log)]
    /\ \A i \in 1 .. Len(log) :
           /\ ends[i] = ends[i - 1] + log[i].len
           /\ \A j \in 1 .. log[i].len :
                  /\ ends[i - 1] + j \in 1 .. Len(bytes)
                  /\ bytes[ends[i - 1] + j] = <<log[i].n, j>>
    /\ \A p \in 1 .. Len(bytes) : bytes[p][1] \in 1 .. Len(writes)

LEMMA BytesLayout ==
    ASSUME LogInv
    PROVE  \E ends : LogLayout(Bytes, ends)
<1>1. PICK q : q = [i \in DOMAIN log |-> [j \in 1 .. log[i].len |-> <<log[i].n, j>>]]
  OBVIOUS
<1>2. Len(log) \in Nat /\ DOMAIN log = 1 .. Len(log)
  BY DEF LogInv
<1>3. ASSUME NEW i \in 1 .. Len(log)
      PROVE  /\ log[i].len \in Nat /\ log[i].n \in Nat
             /\ log[i].n \in 1 .. Len(writes)
  <2>1. log[i] \in LogRecord
    BY DEF LogInv
  <2> QED
    BY <2>1 DEF LogInv, LogRecord
<1>4. \A i \in 1 .. Len(log) : q[i] = [j \in 1 .. log[i].len |-> <<log[i].n, j>>]
  BY <1>1, <1>2
<1>5. ASSUME NEW i \in 1 .. Len(log)
      PROVE  /\ q[i] \in Seq(Nat \X Nat) /\ Len(q[i]) = log[i].len
             /\ \A j \in 1 .. log[i].len : q[i][j] = <<log[i].n, j>>
  <2>1. PICK s : s = [j \in 1 .. log[i].len |-> <<log[i].n, j>>]
    OBVIOUS
  <2>2. \A j \in 1 .. log[i].len : s[j] = <<log[i].n, j>> /\ s[j] \in Nat \X Nat
    BY <1>3, <2>1
  <2>3. s \in [1 .. log[i].len -> Nat \X Nat]
    BY <2>1, <2>2
  <2>4. s \in Seq(Nat \X Nat) /\ Len(s) = log[i].len
    BY <1>3, <2>3
  <2> QED
    BY <1>4, <2>1, <2>2, <2>4
<1>6. Len(q) = Len(log) /\ (q = <<>> \/ Len(q) > 0)
  BY <1>1, <1>2
<1>7. /\ FlattenSeq(q) \in Seq(Nat \X Nat)
      /\ \E ends \in [Nat -> Nat] : Layout(q, Len(q), FlattenSeq(q), ends)
  BY <1>2, <1>5, <1>6, FlattenLayout
<1>8. PICK bytes : bytes = FlattenSeq(q)
  OBVIOUS
<1>9. PICK ends \in [Nat -> Nat] : Layout(q, Len(log), bytes, ends)
  BY <1>6, <1>7, <1>8
<1>10. ASSUME NEW i \in 1 .. Len(log)
       PROVE  /\ ends[i] = ends[i - 1] + log[i].len
              /\ \A j \in 1 .. log[i].len :
                     /\ ends[i - 1] + j \in 1 .. Len(bytes)
                     /\ bytes[ends[i - 1] + j] = <<log[i].n, j>>
  <2>1. /\ ends[i] = ends[i - 1] + Len(q[i])
        /\ \A j \in 1 .. Len(q[i]) :
               /\ ends[i - 1] + j \in 1 .. Len(bytes)
               /\ bytes[ends[i - 1] + j] = q[i][j]
    BY <1>9, Zenon DEF Layout
  <2>2. Len(q[i]) = log[i].len /\ \A j \in 1 .. log[i].len : q[i][j] = <<log[i].n, j>>
    BY <1>5
  <2>3. ASSUME NEW j \in 1 .. log[i].len
        PROVE  ends[i - 1] + j \in 1 .. Len(bytes) /\ bytes[ends[i - 1] + j] = <<log[i].n, j>>
    BY <2>1, <2>2, <2>3, Zenon
  <2> QED
    BY <2>1, <2>2, <2>3
<1>11. ASSUME NEW p \in 1 .. Len(bytes) PROVE bytes[p][1] \in 1 .. Len(writes)
  <2>1. PICK i \in 1 .. Len(log) : \E j \in 1 .. Len(q[i]) : p = ends[i - 1] + j
    BY <1>9 DEF Layout
  <2>2. PICK j \in 1 .. log[i].len : p = ends[i - 1] + j
    BY <1>5, <2>1
  <2>3. bytes[p] = <<log[i].n, j>>
    BY <1>10, <2>2
  <2>4. <<log[i].n, j>>[1] = log[i].n
    OBVIOUS
  <2> QED
    BY <1>3, <2>3, <2>4
<1>12. ends[0] = 0 /\ Len(bytes) = ends[Len(log)]
  BY <1>9 DEF Layout
<1>13. LogLayout(bytes, ends)
  BY <1>7, <1>8, <1>9, <1>10, <1>11, <1>12 DEF LogLayout
<1> QED
  BY <1>1, <1>8, <1>13 DEF Bytes

LEMMA PrependType ==
    ASSUME NEW e \in Nat, NEW rest \in ReadResult
    PROVE  PrependEntry(e, rest) \in ReadResult
<1>1. <<e>> \in Seq(Nat) /\ <<>> \in Seq(Nat) /\ rest.entries \in Seq(Nat)
  BY DEF ReadResult
<1>2. <<e>> \o rest.entries \in Seq(Nat)
  BY <1>1, ConcatProperties
<1> QED
  BY <1>1, <1>2 DEF ReadResult, PrependEntry

\* The next record is behind this one.
LEMMA NextIsBehind ==
    ASSUME LogInv, NEW bytes \in Seq(Nat \X Nat),
           \A p \in 1 .. Len(bytes) : bytes[p][1] \in 1 .. Len(writes),
           NEW p \in 1 .. Len(bytes)
    PROVE  /\ NextRecord(bytes, p) \in Nat /\ NextRecord(bytes, p) > p
           /\ RecordAt(bytes, p) \in Nat
           /\ NextRecord(bytes, p) = p + RecordLength(bytes[p][1])
           /\ RecordLength(bytes[p][1]) \in Nat
<1>1. PICK n \in 1 .. Len(writes) : n = bytes[p][1]
  OBVIOUS
<1>2. writes[n].vLen \in Nat /\ n \in Nat
  BY <1>1, RecordLengths DEF LogInv
<1>3. p \in Nat
  OBVIOUS
<1>4. NextRecord(bytes, p) = p + 2 + 1 + writes[n].vLen /\ RecordLength(n) = 2 + 1 + writes[n].vLen
  BY <1>1 DEF NextRecord, ValueSpan, RecordLength, HeaderLength, KeyLength
<1>5. RecordAt(bytes, p) \in Nat
  BY <1>1, <1>2 DEF RecordAt
<1>6. PICK v \in Nat : v = writes[n].vLen
  BY <1>2
<1>7. /\ NextRecord(bytes, p) \in Nat /\ NextRecord(bytes, p) > p
      /\ NextRecord(bytes, p) = p + RecordLength(n) /\ RecordLength(n) \in Nat
  <2>1. NextRecord(bytes, p) = p + 2 + 1 + v /\ RecordLength(n) = 2 + 1 + v
    BY <1>4, <1>6
  <2>2. PICK a : a = NextRecord(bytes, p)
    OBVIOUS
  <2>3. PICK b : b = RecordLength(n)
    OBVIOUS
  <2>4. a = p + 2 + 1 + v /\ b = 2 + 1 + v /\ p \in Nat /\ v \in Nat
    BY <1>3, <2>1, <2>2, <2>3
  <2>5. a \in Nat /\ a > p
    BY <2>4
  <2>6. a = p + b /\ b \in Nat
    BY <2>4
  <2> QED
    BY <2>2, <2>3, <2>5, <2>6
<1> QED
  BY <1>1, <1>5, <1>7

\* The recursion in ReadAll is well defined.
LEMMA ReadingExists ==
    ASSUME LogInv, NEW bytes \in Seq(Nat \X Nat),
           \A p \in 1 .. Len(bytes) : bytes[p][1] \in 1 .. Len(writes)
    PROVE  \E f : IsReading(f, bytes)
<1>1. PICK n \in Nat : n = Len(bytes) + 1
  OBVIOUS
<1> DEFINE T == {p \in 1 .. n : /\ p + HeaderLength <= n /\ HeaderAt(bytes, p)
                                /\ NextRecord(bytes, p) <= n}
           next == [p \in T |-> NextRecord(bytes, p)]
           Stop(p) == IF p = n THEN [status |-> "ok", entries |-> <<>>]
                      ELSE IF p + HeaderLength > n THEN ShortRead
                      ELSE IF ~ HeaderAt(bytes, p) THEN [status |-> "unknown", entries |-> <<>>]
                      ELSE ShortRead
           base == [p \in 1 .. n |-> Stop(p)]
           op == [pr \in T \X ReadResult |-> PrependEntry(RecordAt(bytes, pr[1]), pr[2])]
<1>2. \A p \in T : p \in 1 .. Len(bytes)
  BY <1>1 DEF HeaderLength
<1>3. ASSUME NEW p \in T PROVE next[p] = NextRecord(bytes, p) /\ next[p] \in p + 1 .. n
  <2>1. next[p] = NextRecord(bytes, p) /\ NextRecord(bytes, p) <= n
    OBVIOUS
  <2>2. NextRecord(bytes, p) \in Nat /\ NextRecord(bytes, p) > p
    BY <1>2, NextIsBehind
  <2> QED
    BY <1>2, <2>1, <2>2
<1>4. \A p \in 1 .. n : base[p] = Stop(p)
  OBVIOUS
<1>5. \A p \in 1 .. n : base[p] \in ReadResult
  <2>1. ShortRead \in ReadResult
    BY DEF ShortRead, ReadResult
  <2>2. \A s \in {"ok", "unknown"} : [status |-> s, entries |-> <<>>] \in ReadResult
    BY DEF ReadResult
  <2> QED
    BY <1>4, <2>1, <2>2
<1>6. ASSUME NEW p \in T, NEW r \in ReadResult
      PROVE  op[<<p, r>>] = PrependEntry(RecordAt(bytes, p), r) /\ op[<<p, r>>] \in ReadResult
  <2>1. op[<<p, r>>] = PrependEntry(RecordAt(bytes, p), r)
    OBVIOUS
  <2>2. RecordAt(bytes, p) \in Nat
    BY <1>2, NextIsBehind
  <2> QED
    BY <2>1, <2>2, PrependType
<1>7. PICK f \in [1 .. n -> ReadResult] : IsDescent(f, n, T, next, op, base)
  <2> HIDE DEF T, next, op, base, Stop
  <2> QED
    BY <1>3, <1>5, <1>6, DescentExists
<1>8. ASSUME NEW p \in 1 .. n PROVE f[p] = ReadTurn(f, bytes, p)
  <2>1. CASE p \in T
    <3>1. next[p] \in 1 .. n
      BY <1>3, <2>1
    <3>2. f[next[p]] \in ReadResult
      BY <1>7, <3>1
    <3>3. f[p] = PrependEntry(RecordAt(bytes, p), f[NextRecord(bytes, p)])
      <4> HIDE DEF T, next, op, base, Stop
      <4> QED
        BY <1>3, <1>6, <1>7, <2>1, <3>2 DEF IsDescent
    <3>4. /\ p # Len(bytes) + 1 /\ ~ (p + HeaderLength > Len(bytes) + 1)
          /\ HeaderAt(bytes, p) /\ ~ (NextRecord(bytes, p) > Len(bytes) + 1)
      <4>1. NextRecord(bytes, p) \in Nat /\ NextRecord(bytes, p) <= n
        BY <1>2, <2>1, NextIsBehind
      <4> QED
        BY <1>1, <1>2, <2>1, <4>1 DEF HeaderLength
    <3> QED
      BY <3>3, <3>4 DEF ReadTurn
  <2>2. CASE p \notin T
    <3>1. f[p] = Stop(p)
      <4> HIDE DEF T, next, op, base, Stop
      <4> QED
        BY <1>4, <1>7, <2>2 DEF IsDescent
    <3>2. p = n \/ (p # n /\ p < n)
      OBVIOUS
    <3>3. /\ p # n /\ p + HeaderLength <= n /\ HeaderAt(bytes, p)
          => NextRecord(bytes, p) > n
      <4>1. p # n => NextRecord(bytes, p) \in Nat
        BY <1>1, NextIsBehind
      <4> QED
        BY <2>2, <4>1
    <3>4. p + HeaderLength > n <=> ~ (p + HeaderLength <= n)
      BY DEF HeaderLength
    <3>5. CASE p = n
      <4> HIDE DEF T, next, op, base
      <4>1. f[p] = [status |-> "ok", entries |-> <<>>]
        BY <3>1, <3>5
      <4>2. ~ (p < Len(bytes) + 1) /\ ~ (p + HeaderLength <= Len(bytes) + 1)
        BY <1>1, <3>5 DEF HeaderLength
      <4> QED
        BY <1>1, <3>5, <4>1, <4>2 DEF ReadTurn
    <3>6. CASE p # n /\ p + HeaderLength > n
      <4> HIDE DEF T, next, op, base
      <4>1. f[p] = ShortRead
        BY <3>1, <3>6
      <4> QED
        BY <1>1, <3>2, <3>4, <3>6, <4>1 DEF ReadTurn
    <3>7. CASE p # n /\ p + HeaderLength <= n /\ ~ HeaderAt(bytes, p)
      <4> HIDE DEF T, next, op, base
      <4> QED
        BY <1>1, <3>1, <3>4, <3>7 DEF ReadTurn
    <3>8. CASE p # n /\ p + HeaderLength <= n /\ HeaderAt(bytes, p)
      <4> HIDE DEF T, next, op, base
      <4> QED
        BY <1>1, <3>1, <3>3, <3>4, <3>8 DEF ReadTurn
    <3> QED
      BY <3>4, <3>5, <3>6, <3>7, <3>8
  <2> QED
    BY <2>1, <2>2
<1>9. f = [p \in 1 .. n |-> ReadTurn(f, bytes, p)]
  BY <1>7, <1>8
<1> QED
  BY <1>1, <1>9 DEF IsReading

\* Every record but the last one is complete.
WholeButLast == \A i \in 1 .. Len(log) : i < Len(log) => Complete(log[i])

TornFrom(i) == \E j \in i + 1 .. Len(log) : ~ Complete(log[j])

\* What ReadAll makes of the records behind the i-th one.
Rest(i) ==
    IF TornFrom(i) THEN ShortRead
    ELSE [status |-> "ok", entries |-> [j \in 1 .. Len(log) - i |-> log[i + j].n]]

\* Places in a record of len units at p, the first of which is behind the first s of
\* size units; v is the length of its value.
WholeAt(p, s, len, v, size) ==
    /\ p + 2 + 1 + v = (s + len) + 1
    /\ p \in 1 .. size + 1 /\ (s + len) + 1 \in 1 .. size + 1
    /\ p # size + 1 /\ ~ (p + 2 > size + 1)
    /\ ~ ((s + len) + 1 > size + 1)
    /\ 1 \in 1 .. len /\ 2 \in 1 .. len /\ s + 2 = p + 1
    /\ \A k \in p .. ((s + len) + 1) - 1 :
           k - s \in 1 .. len /\ s + (k - s) = k /\ k - s = k - p + 1

TornAt(p, len, s, v, size) ==
    /\ p \in 1 .. size + 1 /\ p # size + 1 /\ p < size + 1
    /\ len = 1 => p + 2 > size + 1 /\ ~ (p + 2 <= size + 1)
    /\ len # 1 => /\ 1 \in 1 .. len /\ 2 \in 1 .. len /\ s + 2 = p + 1
                  /\ p + 2 + 1 + v > size + 1 /\ ~ (p + 2 > size + 1)

LEMMA RecordPlaces ==
    ASSUME NEW s \in Nat, NEW len \in Nat, NEW v \in Nat, NEW size \in Nat,
           NEW p \in Nat, p = s + 1
    PROVE  /\ len = 3 + v /\ s + len <= size => WholeAt(p, s, len, v, size)
           /\ len >= 1 /\ len < 3 + v /\ size = s + len => TornAt(p, len, s, v, size)
  BY DEF WholeAt, TornAt

\* At the start of a complete record it reads the record and goes on behind it.
LEMMA WholeRecord ==
    ASSUME LogInv, NEW bytes, NEW ends, LogLayout(bytes, ends),
           NEW i \in 1 .. Len(log), Complete(log[i]), ends[i] <= Len(bytes),
           NEW f, NEW p \in Nat, p = ends[i - 1] + 1
    PROVE  /\ p \in 1 .. Len(bytes) + 1 /\ ends[i] + 1 \in 1 .. Len(bytes) + 1
           /\ ReadTurn(f, bytes, p) = PrependEntry(log[i].n, f[ends[i] + 1])
<1>1. PICK n \in 1 .. Len(writes) : n = log[i].n
  BY DEF LogInv
<1>2. PICK len \in Nat : len = log[i].len
  BY DEF LogInv, LogRecord
<1>3. PICK v \in Nat : v = writes[n].vLen
  BY RecordLengths DEF LogInv
<1>4. len = 3 + v
  <2>1. RecordLength(n) = 2 + 1 + v
    BY <1>3 DEF RecordLength, HeaderLength, KeyLength
  <2> QED
    BY <1>1, <1>2, <1>3, <2>1 DEF Complete
<1>5. PICK s \in Nat : s = ends[i - 1]
  <2>1. i - 1 \in Nat
    OBVIOUS
  <2> QED
    BY <2>1 DEF LogLayout
<1>6. PICK size \in Nat : size = Len(bytes)
  BY DEF LogLayout
<1>7. p = s + 1 /\ ends[i] = s + len /\ s + len <= size
  BY <1>2, <1>5, <1>6 DEF LogLayout
<1>8. ASSUME NEW j \in 1 .. len PROVE bytes[s + j] = <<n, j>>
  BY <1>1, <1>2, <1>5, Zenon DEF LogLayout
<1>9. /\ p + 2 + 1 + v = (s + len) + 1
       /\ p \in 1 .. size + 1 /\ (s + len) + 1 \in 1 .. size + 1
       /\ p # size + 1 /\ ~ (p + 2 > size + 1)
       /\ ~ ((s + len) + 1 > size + 1)
       /\ 1 \in 1 .. len /\ 2 \in 1 .. len /\ s + 2 = p + 1
       /\ \A k \in p .. ((s + len) + 1) - 1 :
              k - s \in 1 .. len /\ s + (k - s) = k /\ k - s = k - p + 1
  <2>1. WholeAt(p, s, len, v, size)
    BY <1>4, <1>7, RecordPlaces
  <2> QED
    BY <2>1, Zenon DEF WholeAt
<1>10. bytes[p] = <<n, 1>> /\ bytes[p + 1] = <<n, 2>>
  BY <1>7, <1>8, <1>9, Zenon
<1>11. bytes[p][1] = n /\ bytes[p][2] = 1
  <2>1. <<n, 1>>[1] = n /\ <<n, 1>>[2] = 1
    OBVIOUS
  <2> QED
    BY <1>10, <2>1
<1>12. HeaderAt(bytes, p)
  BY <1>10, <1>11 DEF HeaderAt
<1>13. NextRecord(bytes, p) = p + 2 + 1 + v
  BY <1>3, <1>11 DEF NextRecord, ValueSpan, HeaderLength, KeyLength
<1>14. RecordAt(bytes, p) = n
  <2>1. ASSUME NEW k \in p .. ((s + len) + 1) - 1
        PROVE  bytes[k] = <<n, k - p + 1>>
    <3>1. bytes[s + (k - s)] = <<n, k - s>>
      BY <1>8, <1>9, Zenon
    <3> QED
      BY <1>9, <3>1, Zenon
  <2>2. NextRecord(bytes, p) - 1 = ((s + len) + 1) - 1
    BY <1>9, <1>13, Zenon
  <2> QED
    BY <1>11, <2>1, <2>2 DEF RecordAt
<1>15. ReadTurn(f, bytes, p) = PrependEntry(n, f[(s + len) + 1])
  BY <1>6, <1>9, <1>12, <1>13, <1>14 DEF ReadTurn, HeaderLength
<1> QED
  BY <1>1, <1>6, <1>7, <1>9, <1>15

\* At the start of a last record that is cut short it fails.
LEMMA TornRecord ==
    ASSUME LogInv, NEW bytes, NEW ends, LogLayout(bytes, ends),
           NEW i \in 1 .. Len(log), i = Len(log), ~ Complete(log[i]),
           NEW f, NEW p \in Nat, p = ends[i - 1] + 1
    PROVE  /\ p \in 1 .. Len(bytes) + 1
           /\ ReadTurn(f, bytes, p) = ShortRead
<1>1. PICK n \in 1 .. Len(writes) : n = log[i].n
  BY DEF LogInv
<1>2. PICK len \in Nat : len = log[i].len
  BY DEF LogInv, LogRecord
<1>3. PICK v \in Nat : v = writes[n].vLen
  BY RecordLengths DEF LogInv
<1>4. len >= 1 /\ len < 3 + v
  <2>1. RecordLength(n) = 2 + 1 + v
    BY <1>3 DEF RecordLength, HeaderLength, KeyLength
  <2>2. len \in 1 .. 2 + 1 + v /\ len # 2 + 1 + v
    BY <1>1, <1>2, <2>1 DEF Complete, LogInv
  <2> QED
    BY <1>2, <1>3, <2>2
<1>5. PICK s \in Nat : s = ends[i - 1]
  <2>1. i - 1 \in Nat
    OBVIOUS
  <2> QED
    BY <2>1 DEF LogLayout
<1>6. PICK size \in Nat : size = Len(bytes)
  BY DEF LogLayout
<1>7. p = s + 1 /\ size = s + len
  BY <1>2, <1>5, <1>6 DEF LogLayout
<1>8. ASSUME NEW j \in 1 .. len PROVE bytes[s + j] = <<n, j>>
  BY <1>1, <1>2, <1>5, Zenon DEF LogLayout
<1>9. /\ p \in 1 .. size + 1 /\ p # size + 1 /\ p < size + 1
      /\ len = 1 => p + 2 > size + 1 /\ ~ (p + 2 <= size + 1)
      /\ len # 1 => /\ 1 \in 1 .. len /\ 2 \in 1 .. len /\ s + 2 = p + 1
                   /\ p + 2 + 1 + v > size + 1 /\ ~ (p + 2 > size + 1)
  <2>1. TornAt(p, len, s, v, size)
    BY <1>4, <1>7, RecordPlaces
  <2> QED
    BY <2>1, Zenon DEF TornAt
<1>10. CASE len = 1
  <2> QED
    BY <1>6, <1>9, <1>10 DEF ReadTurn, HeaderLength
<1>11. CASE len # 1
  <2>1. bytes[p] = <<n, 1>> /\ bytes[p + 1] = <<n, 2>>
    BY <1>7, <1>8, <1>9, <1>11, Zenon
  <2>2. bytes[p][1] = n /\ bytes[p][2] = 1
    <3>1. <<n, 1>>[1] = n /\ <<n, 1>>[2] = 1
      OBVIOUS
    <3> QED
      BY <2>1, <3>1
  <2>3. HeaderAt(bytes, p)
    BY <2>1, <2>2 DEF HeaderAt
  <2>4. NextRecord(bytes, p) = p + 2 + 1 + v
    BY <1>3, <2>2 DEF NextRecord, ValueSpan, HeaderLength, KeyLength
  <2> QED
    BY <1>6, <1>9, <1>11, <2>3, <2>4 DEF ReadTurn, HeaderLength
<1> QED
  BY <1>6, <1>9, <1>10, <1>11

\* Numbers with another one in front.
LEMMA InFront ==
    ASSUME NEW m \in Nat, NEW n \in Nat, NEW a \in [1 .. m -> Nat],
           NEW b \in [1 .. m + 1 -> Nat], b[1] = n, \A j \in 1 .. m : b[j + 1] = a[j]
    PROVE  <<n>> \o a = b
<1>1. a \in Seq(Nat) /\ Len(a) = m
  OBVIOUS
<1>2. b \in Seq(Nat) /\ Len(b) = m + 1
  <2>1. m + 1 \in Nat
    OBVIOUS
  <2> QED
    BY <2>1
<1>3. <<n>> \in Seq(Nat) /\ Len(<<n>>) = 1 /\ <<n>>[1] = n
  OBVIOUS
<1>4. PICK c : c = <<n>> \o a
  OBVIOUS
<1>5. /\ c \in Seq(Nat) /\ Len(c) = 1 + m
      /\ \A j \in 1 .. 1 + m : c[j] = IF j <= 1 THEN <<n>>[j] ELSE a[j - 1]
  <2>1. /\ c \in Seq(Nat) /\ Len(c) = Len(<<n>>) + Len(a)
        /\ \A j \in 1 .. Len(<<n>>) + Len(a) :
               c[j] = IF j <= Len(<<n>>) THEN <<n>>[j] ELSE a[j - Len(<<n>>)]
    BY <1>1, <1>3, <1>4, ConcatProperties
  <2> QED
    BY <1>1, <1>3, <2>1
<1>6. ASSUME NEW j \in 1 .. m + 1 PROVE c[j] = b[j]
  <2>1. CASE j = 1
    BY <1>3, <1>5, <2>1
  <2>2. CASE j # 1
    <3>1. j \in 1 .. 1 + m /\ ~ (j <= 1) /\ j - 1 \in 1 .. m /\ (j - 1) + 1 = j
      BY <2>2
    <3>2. c[j] = a[j - 1]
      BY <1>5, <3>1
    <3>3. b[(j - 1) + 1] = a[j - 1]
      BY <3>1
    <3> QED
      BY <3>1, <3>2, <3>3
  <2> QED
    BY <2>1, <2>2
<1>7. Len(c) = Len(b)
  BY <1>2, <1>5
<1> QED
  BY <1>2, <1>4, <1>5, <1>6, <1>7

\* What an entry in front of the rest makes of it.
LEMMA RestStep ==
    ASSUME LogInv, NEW i \in 1 .. Len(log), Complete(log[i])
    PROVE  PrependEntry(log[i].n, Rest(i)) = Rest(i - 1)
<1>1. Len(log) \in Nat /\ i - 1 \in Nat /\ (i - 1) + 1 = i
  BY DEF LogInv
<1>2. \A j \in i .. Len(log) : j = i \/ j \in i + 1 .. Len(log)
  BY <1>1
<1>3. TornFrom(i - 1) <=> TornFrom(i)
  <2>1. i + 1 .. Len(log) \subseteq i .. Len(log)
    BY <1>1
  <2> QED
    BY <1>1, <1>2, <2>1 DEF TornFrom
<1>4. CASE TornFrom(i)
  BY <1>3, <1>4 DEF Rest, ShortRead, PrependEntry
<1>5. CASE ~ TornFrom(i)
  <2>1. PICK n \in Nat : n = log[i].n
    BY DEF LogInv, LogRecord
  <2>2. PICK m \in Nat : m = Len(log) - i /\ m + 1 = Len(log) - (i - 1)
    <3>1. /\ Len(log) - i \in Nat
          /\ (Len(log) - i) + 1 = Len(log) - (i - 1)
      BY <1>1
    <3> QED
      BY <3>1
  <2>3. \A j \in 1 .. Len(log) : log[j].n \in Nat
    BY DEF LogInv, LogRecord
  <2>4. PICK a : a = [j \in 1 .. m |-> log[i + j].n]
    OBVIOUS
  <2>5. a \in [1 .. m -> Nat]
    <3>1. \A j \in 1 .. m : i + j \in 1 .. Len(log)
      BY <1>1, <2>2
    <3> QED
      BY <2>3, <2>4, <3>1
  <2>6. PICK b : b = [j \in 1 .. m + 1 |-> log[(i - 1) + j].n]
    OBVIOUS
  <2>7. b \in [1 .. m + 1 -> Nat]
    <3>1. \A j \in 1 .. m + 1 : (i - 1) + j \in 1 .. Len(log)
      BY <1>1, <2>2
    <3> QED
      BY <2>3, <2>6, <3>1
  <2>8. b[1] = n /\ \A j \in 1 .. m : b[j + 1] = a[j]
    <3>1. 1 \in 1 .. m + 1 /\ \A j \in 1 .. m : j + 1 \in 1 .. m + 1
                                                /\ (i - 1) + (j + 1) = i + j
      BY <1>1
    <3> QED
      BY <1>1, <2>1, <2>4, <2>6, <3>1
  <2>9. <<n>> \o a = b
    BY <2>5, <2>7, <2>8, InFront
  <2>10. Rest(i) = [status |-> "ok", entries |-> a]
    BY <1>5, <2>2, <2>4 DEF Rest
  <2>11. Rest(i - 1) = [status |-> "ok", entries |-> b]
    BY <1>3, <1>5, <2>2, <2>6 DEF Rest
  <2>12. PrependEntry(n, [status |-> "ok", entries |-> a]) = [status |-> "ok", entries |-> <<n>> \o a]
    <3>1. PICK rest : rest = [status |-> "ok", entries |-> a]
      OBVIOUS
    <3>2. PICK x : x = <<n>> \o a
      OBVIOUS
    <3>3. rest.status = "ok" /\ rest.entries = a
      BY <3>1
    <3>4. [rest EXCEPT !.entries = x] = [status |-> "ok", entries |-> x]
      BY <3>1
    <3>5. PrependEntry(n, rest) = [rest EXCEPT !.entries = x]
      BY <3>2, <3>3 DEF PrependEntry
    <3> QED
      BY <3>1, <3>2, <3>4, <3>5
  <2> QED
    BY <2>1, <2>9, <2>10, <2>11, <2>12
<1> QED
  BY <1>4, <1>5

\* ReadAll, for a log that is whole but for its last record.
LEMMA ReadAllRest ==
    ASSUME LogInv, WholeButLast
    PROVE  ReadAll = Rest(0)
<1>1. PICK bytes : bytes = Bytes
  OBVIOUS
<1>2. PICK ends : LogLayout(bytes, ends)
  BY <1>1, BytesLayout
<1>3. PICK f : f = CHOOSE g : IsReading(g, bytes)
  OBVIOUS
<1>4. IsReading(f, bytes)
  BY <1>2, <1>3, ReadingExists DEF LogLayout
<1>5. \A p \in 1 .. Len(bytes) + 1 : f[p] = ReadTurn(f, bytes, p)
  BY <1>4 DEF IsReading
<1>6. Len(log) \in Nat /\ Len(bytes) \in Nat
  BY <1>2 DEF LogInv, LogLayout
<1>7. \A i \in 0 .. Len(log) : ends[i] \in Nat
  BY <1>2 DEF LogLayout
<1>8. \A i \in 1 .. Len(log) : ends[i] <= Len(bytes)
  <2>1. ASSUME NEW i \in 1 .. Len(log) PROVE ends[i] <= Len(bytes)
    <3>1. log[i].len \in Nat /\ log[i].len \in 1 .. log[i].len
      BY DEF LogInv, LogRecord
    <3>2. ends[i - 1] + log[i].len \in 1 .. Len(bytes)
      BY <1>2, <3>1, Zenon DEF LogLayout
    <3>3. ends[i] = ends[i - 1] + log[i].len
      BY <1>2 DEF LogLayout
    <3> QED
      BY <1>6, <3>2, <3>3
  <2> QED
    BY <2>1
<1> DEFINE Done(d) == d <= Len(log) => f[ends[Len(log) - d] + 1] = Rest(Len(log) - d)
           S == {d \in Nat : Done(d)}
<1>9. 0 \in S
  <2>1. Len(log) - 0 = Len(log) /\ Len(bytes) + 1 \in 1 .. Len(bytes) + 1
    BY <1>6
  <2>2. ends[Len(log)] = Len(bytes)
    BY <1>2 DEF LogLayout
  <2>3. f[Len(bytes) + 1] = [status |-> "ok", entries |-> <<>>]
    <3>1. ~ (Len(bytes) + 1 < Len(bytes) + 1) /\ ~ (Len(bytes) + 1 + HeaderLength <= Len(bytes) + 1)
      BY <1>6 DEF HeaderLength
    <3> QED
      BY <1>5, <2>1, <3>1 DEF ReadTurn
  <2>4. Rest(Len(log)) = [status |-> "ok", entries |-> <<>>]
    <3>1. ~ TornFrom(Len(log))
      BY <1>6 DEF TornFrom
    <3>2. [j \in 1 .. Len(log) - Len(log) |-> log[Len(log) + j].n] = <<>>
      BY <1>6
    <3> QED
      BY <3>1, <3>2 DEF Rest
  <2> QED
    BY <2>1, <2>2, <2>3, <2>4
<1>10. ASSUME NEW d \in Nat, d \in S PROVE d + 1 \in S
  <2>1. CASE d + 1 <= Len(log)
    <3>1. PICK i \in 1 .. Len(log) : i = Len(log) - d /\ i - 1 = Len(log) - (d + 1)
      BY <1>6, <2>1
    <3>2. f[ends[i] + 1] = Rest(i)
      BY <1>6, <1>10, <2>1, <3>1
    <3>3. PICK p \in Nat : p = ends[i - 1] + 1
      <4>1. i - 1 \in 0 .. Len(log)
        BY <1>6
      <4> QED
        BY <1>7, <4>1
    <3>4. f[p] = Rest(i - 1)
      <4>1. CASE Complete(log[i])
        <5>1. p \in 1 .. Len(bytes) + 1 /\ ReadTurn(f, bytes, p) = PrependEntry(log[i].n, f[ends[i] + 1])
          BY <1>2, <1>8, <3>3, <4>1, WholeRecord
        <5>2. PrependEntry(log[i].n, Rest(i)) = Rest(i - 1)
          BY <4>1, RestStep
        <5> QED
          BY <1>5, <3>2, <5>1, <5>2
      <4>2. CASE ~ Complete(log[i])
        <5>1. i = Len(log)
          BY <1>6, <4>2 DEF WholeButLast
        <5>2. p \in 1 .. Len(bytes) + 1 /\ ReadTurn(f, bytes, p) = ShortRead
          BY <1>2, <3>3, <4>2, <5>1, TornRecord
        <5>3. TornFrom(i - 1)
          <6>1. i \in (i - 1) + 1 .. Len(log)
            BY <1>6
          <6> QED
            BY <4>2, <6>1 DEF TornFrom
        <5> QED
          BY <1>5, <5>2, <5>3 DEF Rest
      <4> QED
        BY <4>1, <4>2
    <3> QED
      BY <3>1, <3>3, <3>4
  <2>2. CASE ~ (d + 1 <= Len(log))
    BY <2>2
  <2> QED
    BY <2>1, <2>2
<1>11. Len(log) \in S
  <2> HIDE DEF S
  <2> QED
    BY <1>6, <1>9, <1>10, NatInd
<1>12. f[ends[0] + 1] = Rest(0)
  <2>1. Len(log) <= Len(log) /\ Len(log) - Len(log) = 0
    BY <1>6
  <2> QED
    BY <1>11, <2>1
<1>13. ReadAll = f[1]
  BY <1>1, <1>3, ReadAllReads
<1>14. ends[0] + 1 = 1
  BY <1>2 DEF LogLayout
<1> QED
  BY <1>12, <1>13, <1>14

\* Whatever the lengths of the records and wherever the last one is cut: ReadAll, which
\* has only the lengths in the headers to go by, returns every record in order, or an
\* error if the last one is short; it never drops a record in silence (wal.go).
THEOREM ReadsBack == Spec => []LogReadsBack
<1>1. EngineInv => LogReadsBack
  <2> SUFFICES ASSUME EngineInv, \A i \in DOMAIN log : i < Len(log) => Complete(log[i])
               PROVE  IF Torn THEN ReadAll.status = "error"
                      ELSE ReadAll = [status |-> "ok", entries |-> [i \in DOMAIN log |-> log[i].n]]
    BY DEF LogReadsBack
  <2>1. LogInv /\ DOMAIN log = 1 .. Len(log) /\ Len(log) \in Nat
    BY DEF EngineInv, LogInv
  <2>2. ReadAll = Rest(0)
    BY <2>1, ReadAllRest DEF WholeButLast
  <2>3. 0 + 1 = 1 /\ Len(log) - 0 = Len(log) /\ \A j \in 1 .. Len(log) : 0 + j = j
    BY <2>1
  <2>4. Torn <=> TornFrom(0)
    BY <2>1, <2>3 DEF Torn, TornFrom
  <2>5. [j \in 1 .. Len(log) - 0 |-> log[0 + j].n] = [i \in DOMAIN log |-> log[i].n]
    BY <2>1, <2>3
  <2> QED
    BY <2>2, <2>4, <2>5 DEF Rest, ShortRead
<1> QED
  BY <1>1, Invariance, PTL

-----------------------------------------------------------------------------
(***************************************************************************)
(* What an acknowledged Put can count on.                                  *)
(***************************************************************************)
\* The writes that are in the memtable, or were, and have not been given up.
Promised ==
    (acked \cup {cur[c] : c \in {d \in Clients : pc[d] \notin {"idle", "mem"}}})
        \ (overlapped \cup forfeited)

Logged(n) == \E i \in 1 .. Len(log) : log[i].n = n

\* The slice has the key of write n; it has no older write of that key.
Shows(slice, n) == \E x \in ToSet(slice) : x.key = writes[n].key

NotOlder(slice, n) == \A x \in ToSet(slice) : x.key = writes[n].key => x.v >= n

\* The last segment with the key of write n has that write or a newer one.
Stored(n) ==
    \E i \in 1 .. Len(disk) :
        Shows(disk[i], n) /\ \A j \in i .. Len(disk) : NotOlder(disk[j], n)

OrderedLog == \A i, j \in 1 .. Len(log) : i < j => log[i].n < log[j].n

\* A client holds a slice only between taking it and writing it.
BatchesTaken == \A c \in Clients : pc[c] # "write" => batch[c] = <<>>

\* Puts that run at the same time know of each other.
OverlapsNoted ==
    \A c \in Clients, d \in Clients :
        c # d /\ pc[c] # "idle" /\ pc[d] # "idle" => cur[c] \in overlapped

\* A Put that began after another one ended has a higher number.
LaterIsNewer ==
    \A c \in Clients : pc[c] # "idle" => \A n \in acked \ overlapped : n < cur[c]

FlushesAlone ==
    \A c \in Clients, d \in Clients : c # d /\ Flushing(c) /\ Flushing(d) => Promised = {}

LoggedFirst ==
    \A c \in Clients : pc[c] = "mem" /\ cur[c] \notin overlapped \cup forfeited => Logged(cur[c])

\* A write that the log still has is on its way to the data file as well, unless it
\* has been dropped or is from before the last start.
UnderWay(n) ==
    \/ n \in dropped \/ n <= boot \/ Stored(n)
    \/ \E c \in Clients : pc[c] = "write" /\ Shows(batch[c], n)
    \/ Shows(mem, n) /\ \A c \in Clients : pc[c] \notin {"write", "truncate"}

Kept(n) ==
    /\ NotOlder(mem, n) /\ \A c \in Clients : NotOlder(batch[c], n)
    /\ \/ Logged(n) /\ UnderWay(n)
       \/ Stored(n) /\ \A i \in 1 .. Len(log) : log[i].n > n

RecoveryInv ==
    /\ Sorted(mem) /\ OrderedLog /\ BatchesTaken
    /\ OverlapsNoted /\ LaterIsNewer /\ FlushesAlone /\ LoggedFirst
    /\ \A n \in Promised : Kept(n)

-----------------------------------------------------------------------------
(***************************************************************************)
(* The steps, by what they do to Puts.                                     *)
(***************************************************************************)
\* Every step but the logging and the memtable's part of a Put: Puts go on or end,
\* and what has been given up stays so.
Onward ==
    /\ cur' = cur /\ overlapped' = overlapped /\ forfeited \subseteq forfeited'
    /\ \A d \in Clients : pc'[d] \notin {"idle", "mem"} => pc[d] \notin {"idle", "mem"}
    /\ \A d \in Clients : pc'[d] = "mem" => pc[d] = "mem"
    /\ acked \subseteq acked'
    /\ \A n \in acked' \ acked : \E d \in Clients :
           n = cur[d] /\ pc[d] \notin {"idle", "mem"} /\ pc'[d] = "idle"

LEMMA OnwardAck ==
    ASSUME EngineInv, NEW c \in Clients, pc[c] \in {"check", "truncate"}, Ack(c),
           cur' = cur, overlapped' = overlapped, forfeited \subseteq forfeited'
    PROVE  Onward
<1>1. pc \in [Clients -> Labels]
  BY DEF EngineInv, FlowInv
<1>2. pc'[c] = "idle" /\ \A d \in Clients : d # c => pc'[d] = pc[d]
  BY <1>1 DEF Ack, Goto
<1>3. acked' = acked \cup {cur[c]}
  BY DEF Ack
<1> QED
  BY <1>2, <1>3 DEF Onward

LEMMA OnwardGoto ==
    ASSUME EngineInv, NEW c \in Clients, NEW label \in Labels \ {"mem"}, Goto(c, label),
           pc[c] \notin {"idle", "mem"},
           cur' = cur, overlapped' = overlapped, forfeited \subseteq forfeited', acked' = acked
    PROVE  Onward
<1>1. pc \in [Clients -> Labels]
  BY DEF EngineInv, FlowInv
<1>2. pc'[c] = label /\ \A d \in Clients : d # c => pc'[d] = pc[d]
  BY <1>1 DEF Goto
<1> QED
  BY <1>2 DEF Onward

LEMMA OnwardSteps ==
    ASSUME EngineInv, EngineInv'
    PROVE  /\ \A c \in Clients, k \in Keys : LogPutFails(c, k) => Onward
           /\ \A c \in Clients :
                  CheckShouldFlush(c) \/ Flush(c) \/ WriteSegment(c) \/ WriteSegmentFails(c)
                  \/ TruncateLog(c) \/ TruncateLogFails(c) => Onward
           /\ Restart \/ PowerFailure \/ UNCHANGED vars => Onward
<1>1. ASSUME NEW c \in Clients, NEW k \in Keys, LogPutFails(c, k) PROVE Onward
  BY <1>1 DEF LogPutFails, history, Onward
<1>2. ASSUME NEW c \in Clients, CheckShouldFlush(c) PROVE Onward
  <2>1. /\ pc[c] = "check" /\ cur' = cur /\ overlapped' = overlapped
        /\ \/ /\ Goto(c, "flush")
              /\ forfeited' \in {DOMAIN writes, forfeited} /\ acked' = acked
           \/ Ack(c) /\ forfeited' = forfeited
    BY <1>2 DEF CheckShouldFlush
  <2>2. forfeited \subseteq DOMAIN writes
    BY DEF EngineInv, HistoryInv, LogInv
  <2>3. CASE Ack(c) /\ forfeited' = forfeited
    BY <2>1, <2>3, OnwardAck
  <2>4. CASE Goto(c, "flush") /\ forfeited' \in {DOMAIN writes, forfeited} /\ acked' = acked
    <3>1. forfeited \subseteq forfeited'
      BY <2>2, <2>4
    <3> QED
      BY <2>1, <2>4, <3>1, OnwardGoto DEF Labels
  <2> QED
    BY <2>1, <2>3, <2>4
<1>3. ASSUME NEW c \in Clients, Flush(c) \/ WriteSegment(c) PROVE Onward
  <2>1. /\ pc[c] \notin {"idle", "mem"} /\ (Goto(c, "write") \/ Goto(c, "truncate"))
        /\ cur' = cur /\ overlapped' = overlapped /\ forfeited' = forfeited /\ acked' = acked
    BY <1>3 DEF Flush, WriteSegment, history
  <2> QED
    BY <2>1, OnwardGoto DEF Labels
<1>4. ASSUME NEW c \in Clients, WriteSegmentFails(c) PROVE Onward
  BY <1>4, OnwardGoto DEF WriteSegmentFails, Labels
<1>5. ASSUME NEW c \in Clients, TruncateLog(c) PROVE Onward
  BY <1>5, OnwardAck DEF TruncateLog, Forfeit
<1>6. ASSUME NEW c \in Clients, TruncateLogFails(c) PROVE Onward
  BY <1>6, OnwardGoto DEF TruncateLogFails, Forfeit, Labels
<1>7. ASSUME Restart \/ PowerFailure PROVE Onward
  <2>1. forfeited \subseteq DOMAIN writes
    BY DEF EngineInv, HistoryInv, LogInv
  <2> QED
    BY <1>7, <2>1 DEF Restart, PowerFailure, StartAgain, Onward
<1>8. ASSUME UNCHANGED vars PROVE Onward
  BY <1>8 DEF vars, engineVars, history, Onward
<1> QED
  BY <1>1, <1>2, <1>3, <1>4, <1>5, <1>6, <1>7, <1>8

\* The three kinds of steps.
LEMMA StepKinds ==
    ASSUME EngineInv, EngineInv', [Next]_vars
    PROVE  \/ \E c \in Clients, k \in Keys : LogPut(c, k)
           \/ \E c \in Clients : MemPut(c)
           \/ Onward
  BY OnwardSteps DEF Next

\* What the other Puts are to a Put that logs its write.
LEMMA LogPutStep ==
    ASSUME EngineInv, NEW c \in Clients, NEW k \in Keys, LogPut(c, k), NEW m, m = Len(writes) + 1
    PROVE  /\ pc[c] = "idle" /\ pc'[c] = "mem" /\ cur'[c] = m
           /\ \A d \in Clients : d # c => pc'[d] = pc[d] /\ cur'[d] = cur[d]
           /\ overlapped \subseteq overlapped'
           /\ \A d \in Clients : d # c /\ pc[d] # "idle" =>
                  cur[d] \in overlapped' /\ m \in overlapped'
           /\ acked' = acked /\ forfeited' = forfeited /\ dropped' = dropped /\ boot' = boot
           /\ mem' = mem /\ disk' = disk /\ batch' = batch
<1>1. pc \in [Clients -> Labels] /\ cur \in [Clients -> Nat]
  BY DEF EngineInv, FlowInv
<1>2. PICK others : others = {d \in Clients \ {c} : pc[d] # "idle"}
  OBVIOUS
<1>3. overlapped' = IF others = {} THEN overlapped
                    ELSE overlapped \cup {m} \cup {cur[d] : d \in others}
  BY <1>2 DEF LogPut
<1>4. overlapped \subseteq overlapped'
  BY <1>3
<1>5. \A d \in Clients : d # c /\ pc[d] # "idle" => cur[d] \in overlapped' /\ m \in overlapped'
  BY <1>2, <1>3
<1>6. /\ pc[c] = "idle" /\ pc'[c] = "mem" /\ cur'[c] = m
      /\ \A d \in Clients : d # c => pc'[d] = pc[d] /\ cur'[d] = cur[d]
  BY <1>1 DEF LogPut, Goto
<1> QED
  BY <1>4, <1>5, <1>6 DEF LogPut

LEMMA MemPutStep ==
    ASSUME EngineInv, NEW c \in Clients, MemPut(c)
    PROVE  /\ pc[c] = "mem" /\ pc'[c] = "check"
           /\ \A d \in Clients : d # c => pc'[d] = pc[d]
           /\ mem' = Upsert(mem, Entry(writes[cur[c]].key, cur[c]))
           /\ writes' = writes /\ log' = log /\ cur' = cur /\ disk' = disk /\ batch' = batch
           /\ acked' = acked /\ forfeited' = forfeited /\ dropped' = dropped /\ boot' = boot
           /\ overlapped' = overlapped
<1>1. pc \in [Clients -> Labels]
  BY DEF EngineInv, FlowInv
<1> QED
  BY <1>1 DEF MemPut, Goto, walVars, history

LEMMA PromisedRange ==
    ASSUME EngineInv
    PROVE  /\ Promised \subseteq 1 .. Len(writes)
           /\ \A c \in Clients : pc[c] # "idle" => cur[c] \in 1 .. Len(writes)
           /\ Len(writes) \in Nat
<1>1. Len(writes) \in Nat
  BY DEF EngineInv, LogInv
<1>2. \A c \in Clients : pc[c] # "idle" => cur[c] \in 1 .. Len(writes)
  BY <1>1 DEF EngineInv, FlowInv
<1> QED
  BY <1>1, <1>2 DEF EngineInv, HistoryInv, Promised

-----------------------------------------------------------------------------
(***************************************************************************)
(* The parts of the invariant.                                             *)
(***************************************************************************)
LEMMA OverlapsStep ==
    ASSUME EngineInv, EngineInv', OverlapsNoted, [Next]_vars
    PROVE  OverlapsNoted'
<1>1. ASSUME NEW c \in Clients, NEW k \in Keys, LogPut(c, k) PROVE OverlapsNoted'
  <2>1. PICK m : m = Len(writes) + 1
    OBVIOUS
  <2>2. /\ pc'[c] = "mem" /\ cur'[c] = m
        /\ \A d \in Clients : d # c => pc'[d] = pc[d] /\ cur'[d] = cur[d]
        /\ overlapped \subseteq overlapped'
        /\ \A d \in Clients : d # c /\ pc[d] # "idle" =>
               cur[d] \in overlapped' /\ m \in overlapped'
    BY <1>1, <2>1, LogPutStep
  <2> QED
    BY <2>2 DEF OverlapsNoted
<1>2. ASSUME NEW c \in Clients, MemPut(c) PROVE OverlapsNoted'
  <2>1. /\ pc[c] = "mem" /\ \A d \in Clients : d # c => pc'[d] = pc[d]
        /\ cur' = cur /\ overlapped' = overlapped
    BY <1>2, MemPutStep
  <2> QED
    BY <2>1 DEF OverlapsNoted
<1>3. CASE Onward
  BY <1>3 DEF Onward, OverlapsNoted
<1> QED
  BY <1>1, <1>2, <1>3, StepKinds

LEMMA LaterStep ==
    ASSUME EngineInv, EngineInv', OverlapsNoted, LaterIsNewer, [Next]_vars
    PROVE  LaterIsNewer'
<1>1. ASSUME NEW c \in Clients, NEW k \in Keys, LogPut(c, k) PROVE LaterIsNewer'
  <2>1. PICK m : m = Len(writes) + 1
    OBVIOUS
  <2>2. /\ cur'[c] = m /\ acked' = acked
        /\ \A d \in Clients : d # c => pc'[d] = pc[d] /\ cur'[d] = cur[d]
        /\ overlapped \subseteq overlapped'
    BY <1>1, <2>1, LogPutStep
  <2>3. \A n \in acked : n < m
    <3>1. Len(writes) \in Nat /\ acked \subseteq 1 .. Len(writes)
      BY PromisedRange DEF EngineInv, HistoryInv
    <3> QED
      BY <2>1, <3>1
  <2> QED
    BY <2>2, <2>3 DEF LaterIsNewer
<1>2. ASSUME NEW c \in Clients, MemPut(c) PROVE LaterIsNewer'
  <2>1. /\ pc[c] = "mem" /\ \A d \in Clients : d # c => pc'[d] = pc[d]
        /\ cur' = cur /\ overlapped' = overlapped /\ acked' = acked
    BY <1>2, MemPutStep
  <2> QED
    BY <2>1 DEF LaterIsNewer
<1>3. CASE Onward
  <2>1. ASSUME NEW d \in Clients, pc'[d] # "idle", NEW n \in acked' \ overlapped'
        PROVE  n < cur'[d]
    <3>1. pc[d] # "idle" /\ cur' = cur /\ overlapped' = overlapped
      BY <1>3, <2>1 DEF Onward
    <3>2. CASE n \in acked
      BY <3>1, <3>2 DEF LaterIsNewer
    <3>3. CASE n \notin acked
      <4>1. PICK e \in Clients : n = cur[e] /\ pc[e] \notin {"idle", "mem"} /\ pc'[e] = "idle"
        BY <1>3, <3>3 DEF Onward
      <4>2. e # d /\ cur[e] \in overlapped
        BY <2>1, <3>1, <4>1 DEF OverlapsNoted
      <4> QED
        BY <3>1, <4>1, <4>2
    <3> QED
      BY <3>2, <3>3
  <2> QED
    BY <2>1 DEF LaterIsNewer
<1> QED
  BY <1>1, <1>2, <1>3, StepKinds

\* A write is promised from the step on that puts it into the memtable.
LEMMA PromisedStep ==
    ASSUME EngineInv, EngineInv', [Next]_vars, NEW n \in Promised'
    PROVE  \/ n \in Promised
           \/ \E c \in Clients : MemPut(c) /\ n = cur[c] /\ n \notin overlapped \cup forfeited
<1>1. n \notin overlapped' \cup forfeited'
  BY DEF Promised
<1>2. n \in acked' \/ \E d \in Clients : pc'[d] \notin {"idle", "mem"} /\ n = cur'[d]
  BY DEF Promised
<1>3. ASSUME NEW c \in Clients, NEW k \in Keys, LogPut(c, k) PROVE n \in Promised
  <2>1. PICK m : m = Len(writes) + 1
    OBVIOUS
  <2>2. /\ pc'[c] = "mem" /\ acked' = acked /\ forfeited' = forfeited
        /\ \A d \in Clients : d # c => pc'[d] = pc[d] /\ cur'[d] = cur[d]
        /\ overlapped \subseteq overlapped'
    BY <1>3, <2>1, LogPutStep
  <2> QED
    BY <1>1, <1>2, <2>2 DEF Promised
<1>4. ASSUME NEW c \in Clients, MemPut(c)
      PROVE  n \in Promised \/ (n = cur[c] /\ n \notin overlapped \cup forfeited)
  <2>1. /\ pc[c] = "mem" /\ \A d \in Clients : d # c => pc'[d] = pc[d]
        /\ cur' = cur /\ overlapped' = overlapped /\ acked' = acked /\ forfeited' = forfeited
    BY <1>4, MemPutStep
  <2> QED
    BY <1>1, <1>2, <2>1 DEF Promised
<1>5. CASE Onward
  <2>1. /\ cur' = cur /\ overlapped' = overlapped /\ n \notin forfeited
        /\ \A d \in Clients : pc'[d] \notin {"idle", "mem"} => pc[d] \notin {"idle", "mem"}
        /\ n \in acked' \ acked =>
               \E d \in Clients : n = cur[d] /\ pc[d] \notin {"idle", "mem"}
    BY <1>1, <1>5 DEF Onward
  <2> QED
    BY <1>1, <1>2, <2>1 DEF Promised
<1> QED
  BY <1>3, <1>4, <1>5, StepKinds

-----------------------------------------------------------------------------
(***************************************************************************)
(* What a step does to the log.                                            *)
(***************************************************************************)
\* The log is cut, or grows by the record of a new write.
LogCut ==
    \E i \in 0 .. Len(log) : Len(log') = i /\ \A j \in 1 .. i : log'[j].n = log[j].n

LogGrown ==
    /\ Len(log') = Len(log) + 1
    /\ \A j \in 1 .. Len(log) : log'[j] = log[j]
    /\ log'[Len(log) + 1].n = Len(writes) + 1

LEMMA LogSame ==
    ASSUME LogInv, log' = log
    PROVE  LogCut
<1>1. Len(log) \in Nat
  BY DEF LogInv
<1>2. Len(log) \in 0 .. Len(log)
  BY <1>1
<1> QED
  BY <1>2 DEF LogCut

LEMMA LogEmpty ==
    ASSUME LogInv, log' = <<>>
    PROVE  LogCut
<1>1. 0 \in 0 .. Len(log) /\ Len(log') = 0
  BY DEF LogInv
<1>2. \A j \in 1 .. 0 : log'[j].n = log[j].n
  OBVIOUS
<1> QED
  BY <1>1, <1>2 DEF LogCut

LEMMA LogLonger ==
    ASSUME LogInv, NEW r, log' = Append(log, r), r.n = Len(writes) + 1
    PROVE  LogGrown
<1>1. log \in Seq(LogRecord)
  BY DEF LogInv
<1>2. /\ Len(log') = Len(log) + 1 /\ Len(log) \in Nat
      /\ \A j \in 1 .. Len(log) : log'[j] = log[j]
      /\ log'[Len(log) + 1] = r
  BY <1>1
<1> QED
  BY <1>2 DEF LogGrown

LEMMA LogPutGrows ==
    ASSUME EngineInv, NEW c \in Clients, NEW k \in Keys, LogPut(c, k)
    PROVE  LogGrown /\ WritesStep
<1>1. PICK e \in WALEntry : Write(e)
  BY NewEntryType DEF LogPut, EngineInv, LogInv
<1>2. LogInv /\ log' = Append(log, [n |-> Len(writes) + 1, len |-> HeaderLength + KeyLength + e.vLen])
  BY <1>1 DEF EngineInv, Write
<1>3. LogGrown
  BY <1>2, LogLonger
<1> QED
  BY <1>1, <1>3 DEF Write, WritesStep

LEMMA LogPutFailsGrows ==
    ASSUME EngineInv, NEW c \in Clients, NEW k \in Keys, LogPutFails(c, k)
    PROVE  (log' = log \/ LogGrown) /\ WritesStep
<1>1. PICK e \in WALEntry : WriteFails(e)
  BY NewEntryType DEF LogPutFails, EngineInv, LogInv
<1>2. PICK len : log' = IF len = 0 THEN log ELSE Append(log, [n |-> Len(writes) + 1, len |-> len])
  BY <1>1 DEF WriteFails
<1>3. log' # log => LogGrown
  BY <1>2, LogLonger DEF EngineInv
<1> QED
  BY <1>1, <1>3 DEF WriteFails, WritesStep

\* Every step: the log grows, or stays, or a flush or the machine cuts it.
LEMMA LogSteps ==
    ASSUME EngineInv, [Next]_vars
    PROVE  /\ WritesStep
           /\ \/ log' = log
              \/ LogGrown
              \/ log' = <<>> /\ \E c \in Clients : TruncateLog(c) \/ TruncateLogFails(c)
              \/ LogCut /\ PowerFailure
<1>1. ASSUME NEW c \in Clients, NEW k \in Keys, LogPut(c, k) \/ LogPutFails(c, k)
      PROVE  WritesStep /\ (log' = log \/ LogGrown)
  BY <1>1, LogPutGrows, LogPutFailsGrows
<1>2. ASSUME NEW c \in Clients,
             \/ MemPut(c) \/ CheckShouldFlush(c) \/ Flush(c)
             \/ WriteSegment(c) \/ WriteSegmentFails(c)
      PROVE  WritesStep /\ log' = log
  BY <1>2 DEF MemPut, CheckShouldFlush, Flush, WriteSegment, WriteSegmentFails, walVars, WritesStep
<1>3. ASSUME NEW c \in Clients, TruncateLog(c) \/ TruncateLogFails(c)
      PROVE  WritesStep /\ log' \in {log, <<>>}
  BY <1>3 DEF TruncateLog, TruncateLogFails, Truncate, TruncateFails, WritesStep
<1>4. CASE Restart \/ UNCHANGED vars
  BY <1>4 DEF Restart, vars, walVars, WritesStep
<1>5. CASE PowerFailure
  <2>1. LosesTail /\ WritesStep
    BY <1>5 DEF PowerFailure, LosesTail, WritesStep
  <2>2. log \in Seq(LogRecord) /\ Len(log) \in Nat
    BY DEF EngineInv, LogInv
  <2>3. ASSUME NEW i \in 0 .. Len(log) - 1, log' = SubSeq(log, 1, i)
        PROVE  LogCut
    <3>1. /\ i \in Int /\ i >= 0 /\ i <= Len(log)
          /\ Len(log') = i /\ \A j \in 1 .. i : log'[j] = log[j]
      BY <2>2, <2>3
    <3>2. i \in 0 .. Len(log)
      BY <2>2, <3>1
    <3> QED
      BY <3>1, <3>2 DEF LogCut
  <2>4. ASSUME NEW i \in 1 .. Len(log), NEW len,
               log' = Append(SubSeq(log, 1, i - 1), [log[i] EXCEPT !.len = len])
        PROVE  LogCut
    <3>1. PICK q : q = SubSeq(log, 1, i - 1)
      OBVIOUS
    <3>2. q \in Seq(LogRecord) /\ Len(q) = i - 1 /\ \A j \in 1 .. i - 1 : q[j] = log[j]
      BY <2>2, <3>1
    <3>3. PICK r : r = [log[i] EXCEPT !.len = len]
      OBVIOUS
    <3>4. r.n = log[i].n
      <4>1. log[i] \in LogRecord
        BY <2>2
      <4> QED
        BY <3>3, <4>1 DEF LogRecord
    <3>5. log' = Append(q, r)
      BY <2>4, <3>1, <3>3
    <3>6. Len(log') = i /\ (\A j \in 1 .. i - 1 : log'[j] = q[j]) /\ log'[i] = r
      BY <3>2, <3>5
    <3>7. \A j \in 1 .. i : log'[j].n = log[j].n
      <4>1. \A j \in 1 .. i : j = i \/ j \in 1 .. i - 1
        OBVIOUS
      <4> QED
        BY <3>2, <3>4, <3>6, <4>1
    <3>8. i \in 0 .. Len(log)
      BY <2>2
    <3> QED
      BY <3>6, <3>7, <3>8 DEF LogCut
  <2> QED
    BY <1>5, <2>1, <2>3, <2>4 DEF LosesTail
<1> QED
  BY <1>1, <1>2, <1>3, <1>4, <1>5 DEF Next

LEMMA OrderedStep ==
    ASSUME EngineInv, EngineInv', OrderedLog, [Next]_vars
    PROVE  OrderedLog'
<1>1. /\ Len(log) \in Nat /\ Len(log') \in Nat /\ Len(writes) \in Nat
      /\ \A i \in 1 .. Len(log) : log[i].n \in 1 .. Len(writes)
  BY DEF EngineInv, LogInv
<1>2. CASE LogCut
  <2>1. PICK i \in 0 .. Len(log) : Len(log') = i /\ \A j \in 1 .. i : log'[j].n = log[j].n
    BY <1>2 DEF LogCut
  <2>2. \A j \in 1 .. i : j \in 1 .. Len(log)
    BY <1>1
  <2> QED
    BY <2>1, <2>2 DEF OrderedLog
<1>3. CASE LogGrown
  <2>1. SUFFICES ASSUME NEW i \in 1 .. Len(log'), NEW j \in 1 .. Len(log'), i < j
                 PROVE  log'[i].n < log'[j].n
    BY DEF OrderedLog
  <2>2. i \in 1 .. Len(log) /\ log'[i] = log[i]
    BY <1>1, <1>3, <2>1 DEF LogGrown
  <2>3. CASE j \in 1 .. Len(log)
    BY <1>3, <2>1, <2>2, <2>3 DEF LogGrown, OrderedLog
  <2>4. CASE j = Len(log) + 1
    <3>1. PICK x \in 1 .. Len(writes) : log[i].n = x
      BY <1>1, <2>2
    <3>2. log'[j].n = Len(writes) + 1
      BY <1>3, <2>4 DEF LogGrown
    <3>3. x < Len(writes) + 1
      BY <1>1
    <3> QED
      BY <2>2, <3>1, <3>2, <3>3
  <2> QED
    BY <1>1, <1>3, <2>3, <2>4 DEF LogGrown
<1> QED
  BY <1>2, <1>3, LogSteps, LogSame, LogEmpty DEF EngineInv

\* Keys are numbers.
LEMMA EntryKeys == \A x \in SliceEntry : x.key \in Int
<1>1. Keys \subseteq Int
  BY LogAssumption
<1>2. ASSUME NEW x \in SliceEntry PROVE x.key \in Keys
  BY <1>2 DEF SliceEntry
<1> QED
  BY <1>1, <1>2

LEMMA SortedStep ==
    ASSUME EngineInv, EngineInv', Sorted(mem), [Next]_vars
    PROVE  Sorted(mem)'
<1>1. ASSUME NEW c \in Clients, MemPut(c) PROVE Sorted(mem)'
  <2>1. PICK m : m = cur[c]
    OBVIOUS
  <2>2. m \in 1 .. Len(writes)
    BY <1>1, <2>1, MemPutStep, PromisedRange
  <2>3. writes[m].key \in Keys
    BY <2>2, RecordLengths DEF EngineInv, LogInv
  <2>4. PICK e : e = Entry(writes[m].key, m)
    OBVIOUS
  <2>5. e \in SliceEntry
    BY <2>2, <2>3, <2>4 DEF Entry, SliceEntry
  <2>6. \A x \in SliceEntry : x.key \in Int
    BY EntryKeys
  <2>7. mem \in Seq(SliceEntry)
    BY DEF EngineInv, MemInv, Held
  <2>8. Sorted(Upsert(mem, e))
    BY <2>5, <2>6, <2>7, UpsertSorted
  <2>9. mem' = Upsert(mem, e)
    BY <1>1, <2>1, <2>4, MemPutStep
  <2> QED
    BY <2>8, <2>9
<1>2. CASE mem' = <<>>
  BY <1>2 DEF Sorted
<1>3. CASE mem' = mem
  BY <1>3 DEF Sorted
<1>4. mem' \in {mem, <<>>} \/ \E c \in Clients : MemPut(c)
  BY DEF Next, LogPut, LogPutFails, CheckShouldFlush, Flush, WriteSegment, WriteSegmentFails,
         TruncateLog, TruncateLogFails, Restart, PowerFailure, StartAgain, vars, engineVars
<1> QED
  BY <1>1, <1>2, <1>3, <1>4

LEMMA BatchesStep ==
    ASSUME EngineInv, EngineInv', BatchesTaken, [Next]_vars
    PROVE  BatchesTaken'
<1>1. pc \in [Clients -> Labels] /\ batch \in [Clients -> Seq(SliceEntry)]
  BY DEF EngineInv, FlowInv, BatchInv
<1>2. ASSUME NEW c \in Clients, NEW k \in Keys, LogPut(c, k) \/ LogPutFails(c, k)
      PROVE  BatchesTaken'
  BY <1>1, <1>2 DEF LogPut, LogPutFails, Goto, BatchesTaken
<1>3. ASSUME NEW c \in Clients, MemPut(c) \/ CheckShouldFlush(c)
      PROVE  BatchesTaken'
  BY <1>1, <1>3 DEF MemPut, CheckShouldFlush, Ack, Goto, BatchesTaken
<1>4. ASSUME NEW c \in Clients, Flush(c)
      PROVE  BatchesTaken'
  BY <1>1, <1>4 DEF Flush, Goto, BatchesTaken
<1>5. ASSUME NEW c \in Clients, WriteSegment(c) \/ WriteSegmentFails(c)
      PROVE  BatchesTaken'
  BY <1>1, <1>5 DEF WriteSegment, WriteSegmentFails, Goto, BatchesTaken
<1>6. ASSUME NEW c \in Clients, TruncateLog(c) \/ TruncateLogFails(c)
      PROVE  BatchesTaken'
  BY <1>1, <1>6 DEF TruncateLog, TruncateLogFails, Ack, Goto, BatchesTaken
<1>7. CASE Restart \/ PowerFailure
  BY <1>7 DEF Restart, PowerFailure, StartAgain, BatchesTaken
<1>8. CASE UNCHANGED vars
  BY <1>8 DEF vars, engineVars, BatchesTaken
<1> QED
  BY <1>2, <1>3, <1>4, <1>5, <1>6, <1>7, <1>8 DEF Next

\* A flush starts when a Put has seen the memtable at its limit.
LEMMA FlushStarts ==
    ASSUME EngineInv, [Next]_vars, NEW c \in Clients, ~ Flushing(c), Flushing(c)'
    PROVE  /\ \A d \in Clients : d # c => pc'[d] = pc[d]
           /\ writes' = writes
           /\ (\E d \in Clients : Flushing(d)) => forfeited' = DOMAIN writes
<1>1. pc \in [Clients -> Labels]
  BY DEF EngineInv, FlowInv
<1>2. ASSUME NEW e \in Clients, NEW k \in Keys, LogPut(e, k) \/ LogPutFails(e, k)
      PROVE  FALSE
  BY <1>1, <1>2 DEF LogPut, LogPutFails, Goto, Flushing
<1>3. ASSUME NEW e \in Clients,
             \/ MemPut(e) \/ Flush(e) \/ WriteSegment(e) \/ WriteSegmentFails(e)
             \/ TruncateLog(e) \/ TruncateLogFails(e)
      PROVE  FALSE
  BY <1>1, <1>3 DEF MemPut, Flush, WriteSegment, WriteSegmentFails, TruncateLog,
                    TruncateLogFails, Ack, Goto, Flushing
<1>4. ASSUME Restart \/ PowerFailure \/ UNCHANGED vars
      PROVE  FALSE
  BY <1>4 DEF Restart, PowerFailure, StartAgain, vars, engineVars, Flushing
<1>5. PICK e \in Clients : CheckShouldFlush(e)
  BY <1>2, <1>3, <1>4 DEF Next
<1>6. e = c /\ Goto(c, "flush")
  BY <1>1, <1>5 DEF CheckShouldFlush, Ack, Goto, Flushing
<1>7. ~ Ack(c)
  BY <1>1, <1>6 DEF Ack, Goto
<1> QED
  BY <1>1, <1>5, <1>6, <1>7 DEF CheckShouldFlush, Goto, walVars

LEMMA FlushesStep ==
    ASSUME EngineInv, EngineInv', OverlapsNoted, FlushesAlone, [Next]_vars
    PROVE  FlushesAlone'
<1>1. SUFFICES ASSUME NEW c \in Clients, NEW d \in Clients, c # d, Flushing(c)', Flushing(d)',
                      NEW n \in Promised'
               PROVE  FALSE
  BY DEF FlushesAlone
<1>2. ASSUME NEW e \in Clients, MemPut(e), n = cur[e], n \notin overlapped
      PROVE  FALSE
  <2>1. pc[e] = "mem" /\ pc'[e] = "check" /\ \A x \in Clients : x # e => pc'[x] = pc[x]
    BY <1>2, MemPutStep
  <2>2. pc[c] # "idle" /\ c # e
    BY <1>1, <2>1 DEF Flushing
  <2> QED
    BY <1>2, <2>1, <2>2 DEF OverlapsNoted
<1>3. n \in Promised
  BY <1>2, PromisedStep
<1>4. ~ Flushing(c) \/ ~ Flushing(d)
  BY <1>1, <1>3 DEF FlushesAlone
<1>5. ASSUME NEW x \in Clients, NEW y \in Clients, x # y, ~ Flushing(x), Flushing(x)', Flushing(y)'
      PROVE  FALSE
  <2>1. /\ \A z \in Clients : z # x => pc'[z] = pc[z]
        /\ (\E z \in Clients : Flushing(z)) => forfeited' = DOMAIN writes
    BY <1>5, FlushStarts
  <2>2. Flushing(y)
    BY <1>5, <2>1 DEF Flushing
  <2>3. forfeited' = DOMAIN writes
    BY <2>1, <2>2
  <2>4. n \in DOMAIN writes
    BY <1>3, PromisedRange, LogType DEF EngineInv
  <2> QED
    BY <2>3, <2>4 DEF Promised
<1> QED
  BY <1>1, <1>4, <1>5

\* A record leaves the log by a truncation, or with the machine.
LEMMA LoggedStep ==
    ASSUME EngineInv, EngineInv', [Next]_vars, NEW n, Logged(n)
    PROVE  \/ Logged(n)'
           \/ \E c \in Clients : TruncateLog(c) \/ TruncateLogFails(c)
           \/ PowerFailure
<1>1. CASE log' = log
  BY <1>1 DEF Logged
<1>2. CASE LogGrown
  <2>1. PICK i \in 1 .. Len(log) : log[i].n = n
    BY DEF Logged
  <2>2. i \in 1 .. Len(log') /\ log'[i] = log[i]
    BY <1>2 DEF LogGrown, EngineInv, LogInv
  <2> QED
    BY <2>1, <2>2 DEF Logged
<1> QED
  BY <1>1, <1>2, LogSteps

LEMMA LoggedFirstStep ==
    ASSUME EngineInv, EngineInv', OverlapsNoted, LoggedFirst, [Next]_vars
    PROVE  LoggedFirst'
<1>1. SUFFICES ASSUME NEW c \in Clients, pc'[c] = "mem",
                      cur'[c] \notin overlapped', cur'[c] \notin forfeited'
               PROVE  \E i \in 1 .. Len(log') : log'[i].n = cur'[c]
  BY DEF LoggedFirst, Logged
<1>2. ASSUME NEW e \in Clients, NEW k \in Keys, LogPut(e, k)
      PROVE  \E i \in 1 .. Len(log') : log'[i].n = cur'[c]
  <2>1. PICK m : m = Len(writes) + 1
    OBVIOUS
  <2>2. /\ pc[e] = "idle" /\ cur'[e] = m
        /\ \A d \in Clients : d # e => pc'[d] = pc[d] /\ cur'[d] = cur[d]
        /\ \A d \in Clients : d # e /\ pc[d] # "idle" => cur[d] \in overlapped'
    BY <1>2, <2>1, LogPutStep
  <2>3. c = e
    BY <1>1, <2>2
  <2>4. LogGrown /\ Len(log) \in Nat
    BY <1>2, LogPutGrows DEF EngineInv, LogInv
  <2>5. Len(log) + 1 \in 1 .. Len(log') /\ log'[Len(log) + 1].n = m
    BY <2>1, <2>4 DEF LogGrown
  <2> QED
    BY <2>2, <2>3, <2>5
<1>3. ASSUME NEW e \in Clients, MemPut(e)
      PROVE  \E i \in 1 .. Len(log') : log'[i].n = cur'[c]
  <2>1. /\ pc'[e] = "check" /\ \A d \in Clients : d # e => pc'[d] = pc[d]
        /\ log' = log /\ cur' = cur /\ forfeited' = forfeited /\ overlapped' = overlapped
    BY <1>3, MemPutStep
  <2>2. pc[c] = "mem"
    BY <1>1, <2>1
  <2> QED
    BY <1>1, <2>1, <2>2 DEF LoggedFirst, Logged
<1>4. CASE Onward
  <2>1. /\ pc[c] = "mem" /\ cur' = cur /\ cur[c] \notin overlapped /\ cur[c] \notin forfeited
    BY <1>1, <1>4 DEF Onward
  <2>2. PICK n : n = cur[c]
    OBVIOUS
  <2>3. Logged(n)
    BY <2>1, <2>2 DEF LoggedFirst
  <2>4. ASSUME NEW e \in Clients, TruncateLog(e) \/ TruncateLogFails(e)
        PROVE  FALSE
    <3>1. pc[e] = "truncate"
      BY <2>4 DEF TruncateLog, TruncateLogFails
    <3> QED
      BY <2>1, <3>1 DEF OverlapsNoted
  <2>5. ~ PowerFailure
    BY <1>1 DEF PowerFailure, StartAgain
  <2>6. Logged(n)'
    BY <2>3, <2>4, <2>5, LoggedStep
  <2> QED
    BY <2>1, <2>2, <2>6 DEF Logged
<1> QED
  BY <1>2, <1>3, <1>4, StepKinds

-----------------------------------------------------------------------------
(***************************************************************************)
(* The steps keep what is promised.                                        *)
(***************************************************************************)
\* Logged writes keep their keys.
LEMMA KeysKept ==
    ASSUME EngineInv, WritesStep, NEW n \in 1 .. Len(writes)
    PROVE  /\ writes'[n] = writes[n]
           /\ \A s : (Shows(s, n)' <=> Shows(s, n)) /\ (NotOlder(s, n)' <=> NotOlder(s, n))
<1>1. writes'[n] = writes[n]
  BY WritesGrow DEF EngineInv, WritesStep
<1>2. ASSUME NEW s PROVE (Shows(s, n)' <=> Shows(s, n)) /\ (NotOlder(s, n)' <=> NotOlder(s, n))
  BY <1>1 DEF Shows, NotOlder
<1> QED
  BY <1>1, <1>2

\* Steps that leave the slices where they are.
LEMMA StoredKept ==
    ASSUME EngineInv, WritesStep, NEW n \in 1 .. Len(writes), disk' = disk, Stored(n)
    PROVE  Stored(n)'
<1>1. writes'[n] = writes[n]
  BY KeysKept
<1> QED
  BY <1>1 DEF Stored, Shows, NotOlder

\* The records that come after those of a write stay newer.
LEMMA NewerKept ==
    ASSUME EngineInv, EngineInv', NEW n \in 1 .. Len(writes), log' = log \/ LogGrown,
           \A i \in 1 .. Len(log) : log[i].n > n
    PROVE  \A i \in 1 .. Len(log') : log'[i].n > n
<1>1. Len(log) \in Nat /\ Len(writes) \in Nat
  BY DEF EngineInv, LogInv
<1>2. CASE LogGrown
  <2>1. Len(writes) + 1 > n
    BY <1>1
  <2> QED
    BY <1>1, <1>2, <2>1 DEF LogGrown
<1> QED
  BY <1>2

\* LogPut, LogPutFails, CheckShouldFlush and stuttering steps.
LEMMA KeptQuiet ==
    ASSUME EngineInv, EngineInv', WritesStep, NEW n \in 1 .. Len(writes), Kept(n),
           log' = log \/ LogGrown, Logged(n) => Logged(n)',
           mem' = mem, disk' = disk, batch' = batch, dropped' = dropped, boot' = boot,
           \A d \in Clients : pc'[d] = "write" <=> pc[d] = "write",
           \A d \in Clients : pc'[d] = "truncate" <=> pc[d] = "truncate"
    PROVE  Kept(n)'
<1>1. writes'[n] = writes[n]
  BY KeysKept
<1>2. NotOlder(mem, n)' /\ \A c \in Clients : NotOlder(batch[c], n)'
  BY <1>1 DEF Kept, NotOlder
<1>3. Stored(n) => Stored(n)'
  BY StoredKept
<1>4. UnderWay(n) => UnderWay(n)'
  BY <1>1, <1>3 DEF UnderWay, Shows
<1>5. (\A i \in 1 .. Len(log) : log[i].n > n) => \A i \in 1 .. Len(log') : log'[i].n > n
  BY NewerKept
<1> QED
  BY <1>2, <1>3, <1>4, <1>5 DEF Kept

\* memtable.Put of a newer write.
LEMMA KeptMemPut ==
    ASSUME EngineInv, EngineInv', OverlapsNoted, LaterIsNewer,
           NEW n \in Promised, Kept(n), NEW c \in Clients, MemPut(c)
    PROVE  Kept(n)'
<1>1. /\ pc[c] = "mem" /\ pc'[c] = "check" /\ \A d \in Clients : d # c => pc'[d] = pc[d]
      /\ mem' = Upsert(mem, Entry(writes[cur[c]].key, cur[c]))
      /\ writes' = writes /\ log' = log /\ cur' = cur /\ disk' = disk /\ batch' = batch
      /\ dropped' = dropped /\ boot' = boot
  BY MemPutStep
<1>2. PICK m : m = cur[c]
  OBVIOUS
<1>3. m \in 1 .. Len(writes) /\ n \in 1 .. Len(writes) /\ Len(writes) \in Nat
  BY <1>1, <1>2, PromisedRange
<1>4. n < m
  <2>1. CASE n \in acked
    BY <1>1, <1>2, <2>1 DEF LaterIsNewer, Promised
  <2>2. CASE n \notin acked
    <3>1. PICK d \in Clients : n = cur[d] /\ pc[d] \notin {"idle", "mem"} /\ n \notin overlapped
      BY <2>2 DEF Promised
    <3> QED
      BY <1>1, <3>1 DEF OverlapsNoted
  <2> QED
    BY <2>1, <2>2
<1>5. PICK e : e = Entry(writes[m].key, m)
  OBVIOUS
<1>6. e.key = writes[m].key /\ e.v = m /\ e \in SliceEntry
  <2>1. writes[m].key \in Keys
    BY <1>3, RecordLengths DEF EngineInv, LogInv
  <2> QED
    BY <1>3, <1>5, <2>1 DEF Entry, SliceEntry
<1>7. PICK q : q = Upsert(mem, e)
  OBVIOUS
<1>8. mem' = q
  BY <1>1, <1>2, <1>5, <1>7
<1>9. /\ e \in ToSet(q) /\ ToSet(q) \subseteq ToSet(mem) \cup {e}
      /\ \A x \in ToSet(mem) : x.key # e.key => x \in ToSet(q)
  BY <1>6, <1>7, UpsertEntries DEF EngineInv, MemInv, Held
<1>10. NotOlder(q, n)
  <2>1. m >= n
    BY <1>3, <1>4
  <2> QED
    BY <1>6, <1>9, <2>1 DEF Kept, NotOlder
<1>11. Shows(mem, n) => Shows(q, n)
  BY <1>9 DEF Shows
<1>12. NotOlder(mem, n)' /\ \A d \in Clients : NotOlder(batch[d], n)'
  BY <1>1, <1>8, <1>10 DEF Kept, NotOlder
<1>13. Stored(n) => Stored(n)'
  BY <1>1 DEF Stored, Shows, NotOlder
<1>14. UnderWay(n) => UnderWay(n)'
  BY <1>1, <1>8, <1>11, <1>13 DEF UnderWay, Shows
<1> QED
  BY <1>1, <1>12, <1>13, <1>14 DEF Kept, Logged

\* memtable.Put of the write itself: no other Put is under way.
LEMMA KeptFirst ==
    ASSUME EngineInv, EngineInv', Sorted(mem)', OverlapsNoted, BatchesTaken, LoggedFirst,
           NEW c \in Clients, MemPut(c), NEW n, n = cur[c], n \notin overlapped \cup forfeited
    PROVE  Kept(n)'
<1>1. /\ pc[c] = "mem" /\ pc'[c] = "check" /\ \A d \in Clients : d # c => pc'[d] = pc[d]
      /\ mem' = Upsert(mem, Entry(writes[cur[c]].key, cur[c]))
      /\ writes' = writes /\ log' = log /\ cur' = cur /\ batch' = batch
  BY MemPutStep
<1>2. n \in 1 .. Len(writes) /\ Len(writes) \in Nat
  BY <1>1, PromisedRange
<1>3. \A d \in Clients : d # c => pc[d] = "idle"
  BY <1>1 DEF OverlapsNoted
<1>4. \A d \in Clients : batch[d] = <<>> /\ pc'[d] \notin {"write", "truncate"}
  BY <1>1, <1>3 DEF BatchesTaken
<1>5. Logged(n)
  BY <1>1 DEF LoggedFirst
<1>6. PICK e : e = Entry(writes[n].key, n)
  OBVIOUS
<1>7. e.key = writes[n].key /\ e.v = n /\ e \in SliceEntry
  <2>1. writes[n].key \in Keys
    BY <1>2, RecordLengths DEF EngineInv, LogInv
  <2> QED
    BY <1>2, <1>6, <2>1 DEF Entry, SliceEntry
<1>8. PICK q : q = Upsert(mem, e)
  OBVIOUS
<1>9. mem' = q
  BY <1>1, <1>6, <1>8
<1>10. q \in Seq(SliceEntry) /\ e \in ToSet(q)
  BY <1>7, <1>8, UpsertEntries DEF EngineInv, MemInv, Held
<1>11. Sorted(q)
  BY <1>9 DEF Sorted
<1>12. \A x \in ToSet(q) : x.key = e.key => x = e
  BY <1>10, <1>11, EntryKeys, SortedUnique
<1>13. NotOlder(q, n)
  <2>1. n >= n
    BY <1>2
  <2> QED
    BY <1>7, <1>12, <2>1 DEF NotOlder
<1>14. NotOlder(mem, n)'
  BY <1>1, <1>9, <1>13 DEF NotOlder
<1>15. \A d \in Clients : NotOlder(batch[d], n)'
  <2>1. ToSet(<<>>) = {}
    BY DEF ToSet
  <2> QED
    BY <1>1, <1>4, <2>1 DEF NotOlder
<1>16. Shows(mem, n)'
  BY <1>1, <1>7, <1>9, <1>10 DEF Shows
<1>17. UnderWay(n)'
  BY <1>4, <1>16 DEF UnderWay
<1> QED
  BY <1>1, <1>5, <1>14, <1>15, <1>17 DEF Kept, Logged

\* memtable.Flush: the slice goes from the memtable to the client.
LEMMA KeptFlush ==
    ASSUME EngineInv, NEW n \in 1 .. Len(writes), Kept(n), NEW c \in Clients, Flush(c)
    PROVE  Kept(n)'
<1>1. /\ pc[c] = "flush" /\ pc'[c] = "write" /\ \A d \in Clients : d # c => pc'[d] = pc[d]
      /\ batch'[c] = mem /\ \A d \in Clients : d # c => batch'[d] = batch[d]
      /\ mem' = <<>> /\ disk' = disk /\ writes' = writes /\ log' = log
      /\ dropped' = dropped /\ boot' = boot
  BY DEF Flush, Goto, walVars, history, EngineInv, FlowInv, BatchInv
<1>2. NotOlder(mem, n)'
  <2>1. ToSet(<<>>) = {}
    BY DEF ToSet
  <2> QED
    BY <1>1, <2>1 DEF NotOlder
<1>3. \A d \in Clients : NotOlder(batch[d], n)'
  <2>1. ASSUME NEW d \in Clients PROVE NotOlder(batch[d], n)'
    <3>1. batch'[d] \in {mem, batch[d]}
      BY <1>1
    <3> QED
      BY <1>1, <3>1 DEF Kept, NotOlder
  <2> QED
    BY <2>1
<1>4. Stored(n) => Stored(n)'
  BY <1>1 DEF Stored, Shows, NotOlder
<1>5. Shows(mem, n) => pc'[c] = "write" /\ Shows(batch[c], n)'
  BY <1>1 DEF Shows
<1>6. ASSUME NEW d \in Clients, pc[d] = "write", Shows(batch[d], n)
      PROVE  pc'[d] = "write" /\ Shows(batch[d], n)'
  <2>1. d # c
    BY <1>1, <1>6
  <2>2. pc'[d] = "write" /\ batch'[d] = batch[d]
    BY <1>1, <1>6, <2>1
  <2> QED
    BY <1>1, <1>6, <2>2 DEF Shows
<1>7. UnderWay(n) => UnderWay(n)'
  BY <1>1, <1>4, <1>5, <1>6 DEF UnderWay
<1> QED
  BY <1>1, <1>2, <1>3, <1>4, <1>7 DEF Kept, Logged

\* WriteSegment: the slice goes to the end of the data file, if it is not empty.
LEMMA StoredGrows ==
    ASSUME NEW n, NEW slice, NEW S, disk \in Seq(S), slice \in S, writes' = writes,
           slice # <<>> => disk' = Append(disk, slice), slice = <<>> => disk' = disk,
           NotOlder(slice, n), Stored(n) \/ Shows(slice, n)
    PROVE  Stored(n)'
<1>1. CASE slice = <<>>
  <2>1. ToSet(slice) = {}
    BY <1>1 DEF ToSet
  <2>2. Stored(n)
    BY <2>1 DEF Shows
  <2> QED
    BY <1>1, <2>2 DEF Stored, Shows, NotOlder
<1>2. CASE slice # <<>>
  <2>1. PICK len \in Nat : len = Len(disk)
    OBVIOUS
  <2>2. /\ Len(disk') = len + 1 /\ disk'[len + 1] = slice
        /\ \A i \in 1 .. len : disk'[i] = disk[i]
    BY <1>2, <2>1
  <2>3. NotOlder(disk'[len + 1], n)
    BY <2>2
  <2>4. \A i \in 1 .. len + 1 : i \in 1 .. len \/ i = len + 1
    OBVIOUS
  <2>5. CASE Stored(n)
    <3>1. PICK i \in 1 .. len : Shows(disk[i], n) /\ \A j \in i .. len : NotOlder(disk[j], n)
      BY <2>1, <2>5 DEF Stored
    <3>2. Shows(disk'[i], n) /\ i \in 1 .. len + 1
      BY <2>2, <3>1
    <3>3. ASSUME NEW j \in i .. len + 1 PROVE NotOlder(disk'[j], n)
      <4>1. (j \in i .. len /\ j \in 1 .. len) \/ j = len + 1
        OBVIOUS
      <4> QED
        BY <2>2, <2>3, <3>1, <4>1
    <3> QED
      BY <2>2, <3>2, <3>3 DEF Stored, Shows, NotOlder
  <2>6. CASE Shows(slice, n)
    <3>1. Shows(disk'[len + 1], n) /\ len + 1 \in 1 .. len + 1
      BY <2>2, <2>6
    <3>2. ASSUME NEW j \in len + 1 .. len + 1 PROVE NotOlder(disk'[j], n)
      <4>1. j = len + 1
        OBVIOUS
      <4> QED
        BY <2>3, <4>1
    <3> QED
      BY <2>2, <3>1, <3>2 DEF Stored, Shows, NotOlder
  <2> QED
    BY <2>5, <2>6
<1> QED
  BY <1>1, <1>2

LEMMA KeptWrite ==
    ASSUME EngineInv, NEW n \in 1 .. Len(writes), Kept(n), NEW c \in Clients, WriteSegment(c)
    PROVE  Kept(n)'
<1>1. /\ pc[c] = "write" /\ \A d \in Clients : d # c => pc'[d] = pc[d]
      /\ batch'[c] = <<>> /\ \A d \in Clients : d # c => batch'[d] = batch[d]
      /\ disk' = IF batch[c] = <<>> THEN disk ELSE Append(disk, batch[c])
      /\ mem' = mem /\ writes' = writes /\ log' = log
      /\ dropped' = dropped /\ boot' = boot
  BY DEF WriteSegment, Goto, walVars, history, EngineInv, FlowInv, BatchInv
<1>2. NotOlder(mem, n)'
  BY <1>1 DEF Kept, NotOlder
<1>3. \A d \in Clients : NotOlder(batch[d], n)'
  <2>1. ToSet(<<>>) = {}
    BY DEF ToSet
  <2>2. ASSUME NEW d \in Clients PROVE NotOlder(batch[d], n)'
    <3>1. batch'[d] \in {<<>>, batch[d]}
      BY <1>1
    <3> QED
      BY <1>1, <2>1, <3>1 DEF Kept, NotOlder
  <2> QED
    BY <2>2
<1>4. Stored(n) \/ Shows(batch[c], n) => Stored(n)'
  <2>1. PICK slice : slice = batch[c]
    OBVIOUS
  <2>2. disk \in Seq(Seq(SliceEntry)) /\ slice \in Seq(SliceEntry) /\ NotOlder(slice, n)
    BY <2>1 DEF EngineInv, DiskInv, BatchInv, Kept
  <2>3. /\ slice # <<>> => disk' = Append(disk, slice)
        /\ slice = <<>> => disk' = disk
    BY <1>1, <2>1
  <2> QED
    BY <1>1, <2>1, <2>2, <2>3, StoredGrows
<1>5. ASSUME NEW d \in Clients, d # c, pc[d] = "write", Shows(batch[d], n)
      PROVE  pc'[d] = "write" /\ Shows(batch[d], n)'
  <2>1. pc'[d] = "write" /\ batch'[d] = batch[d]
    BY <1>1, <1>5
  <2> QED
    BY <1>1, <1>5, <2>1 DEF Shows
<1>6. UnderWay(n) => UnderWay(n)'
  BY <1>1, <1>4, <1>5 DEF UnderWay
<1> QED
  BY <1>1, <1>2, <1>3, <1>4, <1>6 DEF Kept, Logged

\* A failed WriteSegment: what it loses is dropped.
LEMMA KeptWriteFails ==
    ASSUME EngineInv, NEW n \in 1 .. Len(writes), Kept(n), NEW c \in Clients, WriteSegmentFails(c)
    PROVE  Kept(n)'
<1>1. /\ pc[c] = "write" /\ \A d \in Clients : d # c => pc'[d] = pc[d]
      /\ batch'[c] = <<>> /\ \A d \in Clients : d # c => batch'[d] = batch[d]
      /\ disk' = disk /\ mem' = mem /\ writes' = writes /\ log' = log
      /\ dropped' = dropped \cup LostWith(batch[c]) /\ boot' = boot
  BY DEF WriteSegmentFails, Goto, walVars, EngineInv, FlowInv, BatchInv
<1>2. NotOlder(mem, n)'
  BY <1>1 DEF Kept, NotOlder
<1>3. \A d \in Clients : NotOlder(batch[d], n)'
  <2>1. ToSet(<<>>) = {}
    BY DEF ToSet
  <2>2. ASSUME NEW d \in Clients PROVE NotOlder(batch[d], n)'
    <3>1. batch'[d] \in {<<>>, batch[d]}
      BY <1>1
    <3> QED
      BY <1>1, <2>1, <3>1 DEF Kept, NotOlder
  <2> QED
    BY <2>2
<1>4. Stored(n) => Stored(n)'
  BY <1>1 DEF Stored, Shows, NotOlder
<1>5. Logged(n) /\ Shows(batch[c], n) => n \in dropped'
  <2>1. SUFFICES ASSUME Logged(n), Shows(batch[c], n)
                 PROVE  n \in LostWith(batch[c])
    BY <1>1
  <2>2. n \in {log[i].n : i \in DOMAIN log}
    BY <2>1, LogType DEF Logged, EngineInv
  <2>3. PICK x \in ToSet(batch[c]) : x.key = writes[n].key
    BY <2>1 DEF Shows
  <2>4. x.v >= n
    BY <2>3 DEF Kept, NotOlder
  <2>5. PICK j \in DOMAIN batch[c] : batch[c][j] = x
    BY <2>3 DEF ToSet
  <2> QED
    BY <2>2, <2>3, <2>4, <2>5 DEF LostWith
<1>6. ASSUME NEW d \in Clients, d # c, pc[d] = "write", Shows(batch[d], n)
      PROVE  pc'[d] = "write" /\ Shows(batch[d], n)'
  <2>1. pc'[d] = "write" /\ batch'[d] = batch[d]
    BY <1>1, <1>6
  <2> QED
    BY <1>1, <1>6, <2>1 DEF Shows
<1>7. Logged(n) /\ UnderWay(n) => UnderWay(n)'
  BY <1>1, <1>4, <1>5, <1>6 DEF UnderWay
<1> QED
  BY <1>1, <1>2, <1>3, <1>4, <1>7 DEF Kept, Logged

\* A truncation: what it cuts off is in the data file.
LEMMA KeptTruncate ==
    ASSUME EngineInv, FlushesAlone, NEW n \in Promised, n \in Promised', Kept(n),
           NEW c \in Clients, TruncateLog(c) \/ TruncateLogFails(c)
    PROVE  Kept(n)'
<1>1. /\ pc[c] = "truncate" /\ \A d \in Clients : d # c => pc'[d] = pc[d]
      /\ batch' = batch /\ disk' = disk /\ mem' = mem /\ writes' = writes
      /\ log' \in {log, <<>>} /\ dropped' = dropped /\ boot' = boot
      /\ forfeited' = forfeited \cup dropped \cup 1 .. boot
  BY DEF TruncateLog, TruncateLogFails, Truncate, TruncateFails, Forfeit, Ack, Goto,
         EngineInv, FlowInv
<1>2. n \in 1 .. Len(writes) /\ boot \in Nat
  BY PromisedRange DEF EngineInv, HistoryInv
<1>3. n \notin dropped /\ ~ (n <= boot)
  BY <1>1, <1>2 DEF Promised
<1>4. NotOlder(mem, n)' /\ \A d \in Clients : NotOlder(batch[d], n)'
  BY <1>1 DEF Kept, NotOlder
<1>5. Stored(n)
  <2>1. SUFFICES ASSUME UnderWay(n), ~ Stored(n) PROVE FALSE
    BY DEF Kept
  <2>2. PICK d \in Clients : pc[d] = "write"
    BY <1>1, <1>3, <2>1 DEF UnderWay
  <2>3. c # d /\ Flushing(c) /\ Flushing(d)
    BY <1>1, <2>2 DEF Flushing
  <2> QED
    BY <2>3 DEF FlushesAlone
<1>6. Stored(n)'
  BY <1>1, <1>5 DEF Stored, Shows, NotOlder
<1>7. Kept(n)' \/ log' = <<>>
  BY <1>1, <1>4, <1>6 DEF Kept, UnderWay, Logged
<1>8. log' = <<>> => \A i \in 1 .. Len(log') : log'[i].n > n
  <2>1. Len(<<>>) = 0
    OBVIOUS
  <2> QED
    BY <2>1
<1> QED
  BY <1>4, <1>6, <1>7, <1>8 DEF Kept

\* A restart: the log still has what is not in the data file.
LEMMA KeptRestart ==
    ASSUME EngineInv, NEW n \in 1 .. Len(writes), Kept(n), Restart
    PROVE  Kept(n)'
<1>1. /\ mem' = <<>> /\ \A d \in Clients : batch'[d] = <<>>
      /\ disk' = disk /\ writes' = writes /\ log' = log /\ boot' = Len(writes)
  BY DEF Restart, StartAgain, walVars
<1>2. ToSet(<<>>) = {}
  BY DEF ToSet
<1>3. NotOlder(mem, n)' /\ \A d \in Clients : NotOlder(batch[d], n)'
  BY <1>1, <1>2 DEF NotOlder
<1>4. Stored(n) => Stored(n)'
  BY <1>1 DEF Stored, Shows, NotOlder
<1>5. UnderWay(n)'
  <2>1. n <= boot'
    BY <1>1 DEF EngineInv, LogInv
  <2> QED
    BY <2>1 DEF UnderWay
<1> QED
  BY <1>1, <1>3, <1>4, <1>5 DEF Kept, Logged

\* LogPut, LogPutFails, CheckShouldFlush and stuttering steps are quiet.
LEMMA KeptOthers ==
    ASSUME EngineInv, EngineInv', NEW n \in 1 .. Len(writes), Kept(n),
           \/ \E c \in Clients, k \in Keys : LogPut(c, k) \/ LogPutFails(c, k)
           \/ \E c \in Clients : CheckShouldFlush(c)
           \/ UNCHANGED vars
    PROVE  Kept(n)'
<1>1. pc \in [Clients -> Labels]
  BY DEF EngineInv, FlowInv
<1>2. ASSUME NEW c \in Clients, NEW k \in Keys, LogPut(c, k) \/ LogPutFails(c, k)
      PROVE  /\ mem' = mem /\ disk' = disk /\ batch' = batch /\ dropped' = dropped /\ boot' = boot
             /\ \A d \in Clients : pc'[d] = "write" <=> pc[d] = "write"
             /\ \A d \in Clients : pc'[d] = "truncate" <=> pc[d] = "truncate"
             /\ WritesStep /\ (log' = log \/ LogGrown)
  BY <1>1, <1>2, LogPutGrows, LogPutFailsGrows DEF LogPut, LogPutFails, Goto, history
<1>3. ASSUME NEW c \in Clients, CheckShouldFlush(c)
      PROVE  /\ mem' = mem /\ disk' = disk /\ batch' = batch /\ dropped' = dropped /\ boot' = boot
             /\ \A d \in Clients : pc'[d] = "write" <=> pc[d] = "write"
             /\ \A d \in Clients : pc'[d] = "truncate" <=> pc[d] = "truncate"
             /\ WritesStep /\ (log' = log \/ LogGrown)
  BY <1>1, <1>3 DEF CheckShouldFlush, Ack, Goto, walVars, WritesStep
<1>4. ASSUME UNCHANGED vars
      PROVE  /\ mem' = mem /\ disk' = disk /\ batch' = batch /\ dropped' = dropped /\ boot' = boot
             /\ \A d \in Clients : pc'[d] = "write" <=> pc[d] = "write"
             /\ \A d \in Clients : pc'[d] = "truncate" <=> pc[d] = "truncate"
             /\ WritesStep /\ (log' = log \/ LogGrown)
  BY <1>4 DEF vars, engineVars, history, walVars, WritesStep
<1>5. /\ mem' = mem /\ disk' = disk /\ batch' = batch /\ dropped' = dropped /\ boot' = boot
      /\ \A d \in Clients : pc'[d] = "write" <=> pc[d] = "write"
      /\ \A d \in Clients : pc'[d] = "truncate" <=> pc[d] = "truncate"
      /\ WritesStep /\ (log' = log \/ LogGrown)
  BY <1>2, <1>3, <1>4
<1>6. Logged(n) => Logged(n)'
  <2>1. ASSUME LogGrown, NEW i \in 1 .. Len(log)
        PROVE  i \in 1 .. Len(log') /\ log'[i] = log[i]
    BY <2>1 DEF LogGrown, EngineInv, LogInv
  <2>2. CASE LogGrown
    BY <2>1, <2>2 DEF Logged
  <2>3. CASE log' = log
    BY <2>3 DEF Logged
  <2> QED
    BY <1>5, <2>2, <2>3
<1> QED
  BY <1>5, <1>6, KeptQuiet

LEMMA KeptStep ==
    ASSUME EngineInv, EngineInv', RecoveryInv, Sorted(mem)', [Next]_vars, NEW n \in Promised'
    PROVE  Kept(n)'
<1>1. ASSUME NEW c \in Clients, MemPut(c), n = cur[c], n \notin overlapped \cup forfeited
      PROVE  Kept(n)'
  BY <1>1, KeptFirst DEF RecoveryInv
<1>2. CASE n \in Promised
  <2>1. n \in 1 .. Len(writes) /\ Kept(n)
    BY <1>2, PromisedRange DEF RecoveryInv
  <2>2. ASSUME NEW c \in Clients, MemPut(c) PROVE Kept(n)'
    BY <1>2, <2>1, <2>2, KeptMemPut DEF RecoveryInv
  <2>3. ASSUME NEW c \in Clients, Flush(c) \/ WriteSegment(c) \/ WriteSegmentFails(c)
        PROVE  Kept(n)'
    BY <2>1, <2>3, KeptFlush, KeptWrite, KeptWriteFails
  <2>4. ASSUME NEW c \in Clients, TruncateLog(c) \/ TruncateLogFails(c)
        PROVE  Kept(n)'
    BY <1>2, <2>1, <2>4, KeptTruncate DEF RecoveryInv
  <2>5. CASE Restart
    BY <2>1, <2>5, KeptRestart
  <2>6. ~ PowerFailure
    <3>1. DOMAIN writes = 1 .. Len(writes)
      BY LogType DEF EngineInv
    <3> QED
      BY <2>1, <3>1 DEF PowerFailure, Promised
  <2>7. CASE \/ \E c \in Clients, k \in Keys : LogPut(c, k) \/ LogPutFails(c, k)
             \/ \E c \in Clients : CheckShouldFlush(c)
             \/ UNCHANGED vars
    BY <2>1, <2>7, KeptOthers
  <2> QED
    BY <2>2, <2>3, <2>4, <2>5, <2>6, <2>7 DEF Next
<1> QED
  BY <1>1, <1>2, PromisedStep

LEMMA RecoveryInit ==
    ASSUME Init
    PROVE  RecoveryInv
<1> USE DEF Init, WALInit
<1>1. Sorted(mem) /\ OrderedLog
  BY DEF Sorted, OrderedLog
<1>2. BatchesTaken /\ OverlapsNoted /\ LaterIsNewer /\ FlushesAlone /\ LoggedFirst
  BY DEF BatchesTaken, OverlapsNoted, LaterIsNewer, FlushesAlone, Flushing, LoggedFirst
<1>3. Promised = {}
  BY DEF Promised
<1> QED
  BY <1>1, <1>2, <1>3 DEF RecoveryInv

\* The inductive invariant for what a recovery finds.
LEMMA RecoveryInvariance == Spec => [](EngineInv /\ RecoveryInv)
<1>1. Init => RecoveryInv
  BY RecoveryInit
<1>2. EngineInv /\ EngineInv' /\ RecoveryInv /\ [Next]_vars => RecoveryInv'
  <2> SUFFICES ASSUME EngineInv, EngineInv', RecoveryInv, [Next]_vars
               PROVE  RecoveryInv'
    OBVIOUS
  <2>1. Sorted(mem)' /\ OrderedLog' /\ BatchesTaken'
    BY SortedStep, OrderedStep, BatchesStep DEF RecoveryInv
  <2>2. OverlapsNoted' /\ LaterIsNewer' /\ FlushesAlone' /\ LoggedFirst'
    BY OverlapsStep, LaterStep, FlushesStep, LoggedFirstStep DEF RecoveryInv
  <2>3. \A n \in Promised' : Kept(n)'
    BY <2>1, KeptStep
  <2> QED
    BY <2>1, <2>2, <2>3 DEF RecoveryInv
<1> QED
  BY <1>1, <1>2, Invariance, PTL DEF Spec

-----------------------------------------------------------------------------
(***************************************************************************)
(* What a recovery finds.                                                  *)
(***************************************************************************)
\* A nonempty set of places has a last one.
LEMMA LastPlace ==
    ASSUME NEW len \in Nat, NEW S \in SUBSET (1 .. len), S # {}
    PROVE  Max(S) \in S /\ \A y \in S : Max(S) >= y
<1>1. PICK T : T = {len - x : x \in S}
  OBVIOUS
<1>2. PICK y \in T : \A z \in T : y <= z
  <2>1. ASSUME NEW x \in S PROVE len - x \in Nat
    <3>1. x \in 1 .. len
      OBVIOUS
    <3> QED
      BY <3>1
  <2>2. T \in SUBSET Nat /\ T # {}
    BY <1>1, <2>1
  <2> QED
    BY <2>2, NatMinimum
<1>3. PICK x \in S : y = len - x
  BY <1>1, <1>2
<1>4. ASSUME NEW z \in S PROVE x >= z
  <2>1. len - z \in T /\ z \in 1 .. len /\ x \in 1 .. len
    BY <1>1
  <2>2. len - x <= len - z
    BY <1>2, <1>3, <2>1
  <2> QED
    BY <2>1, <2>2
<1> QED
  BY <1>3, <1>4 DEF Max

\* LastOf finds the last place of the key.
LEMMA LastOfFinds ==
    ASSUME NEW k, NEW ns \in Seq(Nat)
    PROVE  \/ /\ LastOf(k, ns) = 0
              /\ \A i \in 1 .. Len(ns) : ~ (ns[i] # 0 /\ writes[ns[i]].key = k)
           \/ \E m \in 1 .. Len(ns) :
                  /\ LastOf(k, ns) = ns[m] /\ ns[m] # 0 /\ writes[ns[m]].key = k
                  /\ \A i \in 1 .. Len(ns) : ns[i] # 0 /\ writes[ns[i]].key = k => i <= m
<1>1. DOMAIN ns = 1 .. Len(ns) /\ Len(ns) \in Nat
  OBVIOUS
<1>2. PICK places : places = {i \in 1 .. Len(ns) : ns[i] # 0 /\ writes[ns[i]].key = k}
  OBVIOUS
<1>3. LastOf(k, ns) = IF places = {} THEN 0 ELSE ns[Max(places)]
  BY <1>1, <1>2 DEF LastOf
<1>4. CASE places = {}
  BY <1>2, <1>3, <1>4
<1>5. CASE places # {}
  <2>1. PICK m : m = Max(places)
    OBVIOUS
  <2>2. m \in places /\ \A i \in places : m >= i
    BY <1>1, <1>2, <1>5, <2>1, LastPlace
  <2>3. \A i \in places : i <= m
    BY <1>2, <2>2
  <2> QED
    BY <1>2, <1>3, <1>5, <2>1, <2>2, <2>3
<1> QED
  BY <1>4, <1>5

LEMMA LastOfIn ==
    ASSUME NEW k, NEW ns \in Seq(Nat)
    PROVE  LastOf(k, ns) = 0 \/ \E m \in 1 .. Len(ns) : LastOf(k, ns) = ns[m]
  BY LastOfFinds

\* A place behind another one is not in an earlier segment.
LEMMA LaterSegment ==
    ASSUME NEW m \in Nat, NEW ends \in [Nat -> Nat],
           \A i \in 1 .. m : ends[i - 1] <= ends[i],
           NEW i \in 1 .. m, NEW a \in Nat \ {0}, NEW j \in 1 .. m, NEW b \in Nat,
           ends[j - 1] + b <= ends[j],
           ends[i - 1] + a <= ends[j - 1] + b
    PROVE  i <= j
<1>1. SUFFICES ASSUME j < i PROVE FALSE
  OBVIOUS
<1>2. i - 1 \in Nat /\ j - 1 \in Nat /\ j \in Nat /\ j <= i - 1 /\ i - 1 <= m
  BY <1>1
<1>3. ends[j] <= ends[i - 1]
  BY <1>2, EndsGrow
<1>4. ends[j] \in Nat /\ ends[i - 1] \in Nat /\ ends[j - 1] \in Nat
  BY <1>2
<1> QED
  BY <1>3, <1>4

\* Where the writes in the segments are.
LEMMA StoredPlaces ==
    ASSUME EngineInv
    PROVE  /\ StoredWrites \in Seq(Nat)
           /\ \E ends \in [Nat -> Nat] :
                  /\ \A i \in 1 .. Len(disk) : ends[i - 1] <= ends[i]
                  /\ \A i \in 1 .. Len(disk) : \A j \in 1 .. Len(disk[i]) :
                         /\ ends[i - 1] + j \in 1 .. Len(StoredWrites)
                         /\ StoredWrites[ends[i - 1] + j] = disk[i][j].v
                         /\ ends[i - 1] + j <= ends[i]
                  /\ \A p \in 1 .. Len(StoredWrites) :
                         \E i \in 1 .. Len(disk) : \E j \in 1 .. Len(disk[i]) : p = ends[i - 1] + j
<1>1. PICK q : q = [i \in DOMAIN disk |-> [j \in DOMAIN disk[i] |-> disk[i][j].v]]
  OBVIOUS
<1>2. disk \in Seq(Seq(SliceEntry)) /\ DOMAIN disk = 1 .. Len(disk) /\ Len(disk) \in Nat
  BY DEF EngineInv, DiskInv
<1>3. ASSUME NEW i \in 1 .. Len(disk)
      PROVE  /\ q[i] \in Seq(Nat) /\ Len(q[i]) = Len(disk[i]) /\ Len(disk[i]) \in Nat
             /\ \A j \in 1 .. Len(disk[i]) : q[i][j] = disk[i][j].v
  <2>1. PICK s \in Seq(SliceEntry) : s = disk[i]
    BY <1>2
  <2>2. PICK r : r = [j \in DOMAIN s |-> s[j].v]
    OBVIOUS
  <2>3. q[i] = r
    BY <1>1, <1>2, <2>1, <2>2
  <2>4. DOMAIN s = 1 .. Len(s) /\ Len(s) \in Nat
    BY <2>1
  <2>5. \A j \in 1 .. Len(s) : s[j].v \in Nat
    <3>1. \A j \in 1 .. Len(s) : s[j] \in SliceEntry
      BY <2>1
    <3> QED
      BY <3>1 DEF SliceEntry
  <2>6. r \in [1 .. Len(s) -> Nat]
    BY <2>2, <2>4, <2>5
  <2>7. r \in Seq(Nat) /\ Len(r) = Len(s)
    BY <2>4, <2>6
  <2> QED
    BY <2>1, <2>2, <2>3, <2>4, <2>7
<1>4. Len(q) = Len(disk) /\ (q = <<>> \/ Len(q) > 0)
  BY <1>1, <1>2
<1>5. /\ FlattenSeq(q) \in Seq(Nat)
      /\ \E ends \in [Nat -> Nat] : Layout(q, Len(q), FlattenSeq(q), ends)
  BY <1>2, <1>3, <1>4, FlattenLayout
<1>6. PICK flat : flat = FlattenSeq(q)
  OBVIOUS
<1>7. StoredWrites = flat
  BY <1>1, <1>6 DEF StoredWrites
<1>8. PICK ends \in [Nat -> Nat] : Layout(q, Len(disk), flat, ends)
  BY <1>4, <1>5, <1>6
<1>9. ASSUME NEW i \in 1 .. Len(disk)
      PROVE  /\ ends[i - 1] <= ends[i]
             /\ \A j \in 1 .. Len(disk[i]) : ends[i - 1] + j <= ends[i]
  <2>1. ends[i] = ends[i - 1] + Len(q[i])
    BY <1>8 DEF Layout
  <2>2. PICK len \in Nat : len = Len(disk[i])
    BY <1>3
  <2>3. PICK e \in Nat : e = ends[i - 1]
    BY <1>2
  <2>4. ends[i] = e + len
    BY <1>3, <2>1, <2>2, <2>3
  <2>5. e <= e + len /\ \A j \in 1 .. len : e + j <= e + len
    OBVIOUS
  <2> QED
    BY <2>2, <2>3, <2>4, <2>5
<1>10. ASSUME NEW i \in 1 .. Len(disk), NEW j \in 1 .. Len(disk[i])
       PROVE  /\ ends[i - 1] + j \in 1 .. Len(flat)
              /\ flat[ends[i - 1] + j] = disk[i][j].v
  <2>1. /\ ends[i - 1] + j \in 1 .. Len(flat)
        /\ flat[ends[i - 1] + j] = q[i][j]
    <3>1. j \in 1 .. Len(q[i])
      BY <1>3
    <3> QED
      BY <1>8, <3>1, Zenon DEF Layout
  <2> QED
    BY <1>3, <2>1, Zenon
<1>11. ASSUME NEW p \in 1 .. Len(flat)
       PROVE  \E i \in 1 .. Len(disk) : \E j \in 1 .. Len(disk[i]) : p = ends[i - 1] + j
  <2>1. PICK i \in 1 .. Len(disk) : \E j \in 1 .. Len(q[i]) : p = ends[i - 1] + j
    BY <1>8 DEF Layout
  <2>2. PICK j \in 1 .. Len(disk[i]) : p = ends[i - 1] + j
    BY <1>3, <2>1
  <2> QED
    BY <2>2
<1> QED
  BY <1>5, <1>6, <1>7, <1>9, <1>10, <1>11

\* What the data file holds for a stored write.
LEMMA StoredFound ==
    ASSUME EngineInv, NEW n \in 1 .. Len(writes), Stored(n)
    PROVE  LastOf(writes[n].key, StoredWrites) >= n
<1>1. PICK i \in 1 .. Len(disk) :
          Shows(disk[i], n) /\ \A j \in i .. Len(disk) : NotOlder(disk[j], n)
  BY DEF Stored
<1>2. PICK k : k = writes[n].key
  OBVIOUS
<1>3. PICK ns \in Seq(Nat) : ns = StoredWrites
  BY StoredPlaces
<1>4. PICK ends \in [Nat -> Nat] :
          /\ \A x \in 1 .. Len(disk) : ends[x - 1] <= ends[x]
          /\ \A x \in 1 .. Len(disk) : \A y \in 1 .. Len(disk[x]) :
                 /\ ends[x - 1] + y \in 1 .. Len(ns)
                 /\ ns[ends[x - 1] + y] = disk[x][y].v
                 /\ ends[x - 1] + y <= ends[x]
          /\ \A p \in 1 .. Len(ns) :
                 \E x \in 1 .. Len(disk) : \E y \in 1 .. Len(disk[x]) : p = ends[x - 1] + y
  BY <1>3, StoredPlaces
<1>5. \A x \in 1 .. Len(disk) : /\ Len(disk[x]) \in Nat
                                /\ \A e : e \in ToSet(disk[x]) <=>
                                       \E y \in 1 .. Len(disk[x]) : disk[x][y] = e
                                /\ \A e \in ToSet(disk[x]) :
                                       e.v \in 1 .. Len(writes) /\ e.key = writes[e.v].key
  <2>1. ASSUME NEW x \in 1 .. Len(disk) PROVE Held(disk[x])
    BY DEF EngineInv, DiskInv
  <2> QED
    BY <2>1, SliceType DEF Held
<1>6. PICK a \in 1 .. Len(disk[i]) : disk[i][a].key = k
  <2>1. PICK e \in ToSet(disk[i]) : e.key = k
    BY <1>1, <1>2 DEF Shows
  <2>2. PICK y \in 1 .. Len(disk[i]) : disk[i][y] = e
    BY <1>5, <2>1
  <2> QED
    BY <2>1, <2>2
<1>7. PICK p \in 1 .. Len(ns) : p = ends[i - 1] + a
  BY <1>4
<1>8. ns[p] # 0 /\ writes[ns[p]].key = k
  <2>1. disk[i][a] \in ToSet(disk[i])
    BY <1>5
  <2>2. disk[i][a].v \in 1 .. Len(writes) /\ writes[disk[i][a].v].key = k
    BY <1>5, <1>6, <2>1
  <2>3. ns[p] = disk[i][a].v
    BY <1>4, <1>7
  <2>4. PICK v \in 1 .. Len(writes) : disk[i][a].v = v
    BY <2>2
  <2>5. v # 0
    BY <2>4
  <2> QED
    BY <2>2, <2>3, <2>4, <2>5
<1>9. PICK m \in 1 .. Len(ns) : LastOf(k, ns) = ns[m] /\ writes[ns[m]].key = k /\ p <= m
  BY <1>8, LastOfFinds
<1>10. PICK j \in 1 .. Len(disk) : \E y \in 1 .. Len(disk[j]) : m = ends[j - 1] + y
  BY <1>4
<1>11. PICK b \in 1 .. Len(disk[j]) : m = ends[j - 1] + b
  BY <1>10
<1>12. i <= j
  <2>1. Len(disk) \in Nat /\ a \in Nat \ {0} /\ b \in Nat
    <3>1. disk \in Seq(Seq(SliceEntry))
      BY DEF EngineInv, DiskInv
    <3>2. Len(disk[i]) \in Nat /\ Len(disk[j]) \in Nat /\ Len(disk) \in Nat
      BY <1>5, <3>1
    <3>3. a \in Nat \ {0} /\ b \in Nat
      BY <3>2
    <3> QED
      BY <3>2, <3>3
  <2>2. ends[j - 1] + b <= ends[j] /\ ends[i - 1] + a <= ends[j - 1] + b
    BY <1>4, <1>7, <1>9, <1>11
  <2>3. \A x \in 1 .. Len(disk) : ends[x - 1] <= ends[x]
    BY <1>4
  <2> QED
    BY <2>1, <2>2, <2>3, LaterSegment
<1>13. NotOlder(disk[j], n)
  <2>1. j \in i .. Len(disk)
    BY <1>12
  <2> QED
    BY <1>1, <2>1
<1>14. disk[j][b] \in ToSet(disk[j]) /\ ns[m] = disk[j][b].v
  BY <1>4, <1>5, <1>11
<1>15. disk[j][b].key = k
  BY <1>5, <1>9, <1>14
<1>16. disk[j][b].v >= n
  BY <1>2, <1>13, <1>14, <1>15 DEF NotOlder
<1> QED
  BY <1>2, <1>3, <1>9, <1>14, <1>16

\* What the log holds for a write.
LEMMA LoggedFound ==
    ASSUME EngineInv, OrderedLog, NEW n \in 1 .. Len(writes), NEW ns,
           ns = [i \in DOMAIN log |-> log[i].n]
    PROVE  /\ Logged(n) => LastOf(writes[n].key, ns) >= n
           /\ (\A i \in 1 .. Len(log) : log[i].n > n) => LastOf(writes[n].key, ns) \in {0} \cup (n .. Len(writes))
<1>1. DOMAIN log = 1 .. Len(log) /\ Len(log) \in Nat
  BY LogType DEF EngineInv, LogInv
<1>2. \A i \in 1 .. Len(log) : log[i].n \in 1 .. Len(writes)
  BY DEF EngineInv, LogInv
<1>3. ns \in [1 .. Len(log) -> Nat] /\ Len(writes) \in Nat
  BY <1>1, <1>2 DEF EngineInv, LogInv
<1>4. ns \in Seq(Nat) /\ Len(ns) = Len(log) /\ \A i \in 1 .. Len(log) : ns[i] = log[i].n
  BY <1>1, <1>3
<1>5. PICK k : k = writes[n].key
  OBVIOUS
<1>6. ASSUME NEW i \in 1 .. Len(log), log[i].n = n
      PROVE  LastOf(k, ns) >= n
  <2>1. ns[i] # 0 /\ writes[ns[i]].key = k
    BY <1>4, <1>5, <1>6
  <2>2. PICK m \in 1 .. Len(log) : LastOf(k, ns) = ns[m] /\ i <= m
    BY <1>4, <2>1, LastOfFinds
  <2>3. CASE i = m
    BY <1>4, <1>6, <2>2, <2>3
  <2>4. CASE i # m
    <3>1. i < m
      BY <2>2, <2>4
    <3>2. log[i].n < log[m].n
      BY <2>2, <3>1 DEF OrderedLog
    <3>3. PICK x \in 1 .. Len(writes) : log[m].n = x
      BY <1>2, <2>2
    <3>4. n < x
      BY <1>6, <3>2, <3>3
    <3>5. x >= n
      BY <3>4
    <3> QED
      BY <1>4, <2>2, <3>3, <3>5
  <2> QED
    BY <2>3, <2>4
<1>7. ASSUME \A i \in 1 .. Len(log) : log[i].n > n
      PROVE  LastOf(k, ns) \in {0} \cup (n .. Len(writes))
  <2>1. ASSUME NEW m \in 1 .. Len(log) PROVE ns[m] \in n .. Len(writes)
    <3>1. PICK x \in 1 .. Len(writes) : log[m].n = x
      BY <1>2
    <3>2. x > n
      BY <1>7, <3>1
    <3>3. x \in n .. Len(writes)
      BY <3>2
    <3> QED
      BY <1>4, <3>1, <3>3
  <2>2. LastOf(k, ns) = 0 \/ \E m \in 1 .. Len(log) : LastOf(k, ns) = ns[m]
    <3>1. LastOf(k, ns) = 0 \/ \E m \in 1 .. Len(ns) : LastOf(k, ns) = ns[m]
      BY <1>4, LastOfIn
    <3> QED
      BY <1>4, <3>1
  <2> QED
    BY <2>1, <2>2
<1> QED
  BY <1>5, <1>6, <1>7 DEF Logged

\* AckedRecoverable (Engine.Put, Engine.ExecuteFlush): an acknowledged Put that no
\* other Put overlapped is found by a recovery, for all numbers of clients, keys,
\* writes, failures and restarts.
THEOREM Recoverable == Spec => []AckedRecoverable
<1>1. EngineInv /\ RecoveryInv => AckedRecoverable
  <2>1. SUFFICES ASSUME EngineInv, RecoveryInv, NEW n \in acked \ (overlapped \cup forfeited), ~ Torn
                 PROVE  Recovered(writes[n].key) >= n
    BY DEF AckedRecoverable
  <2>2. n \in Promised /\ n \in 1 .. Len(writes) /\ Len(writes) \in Nat
    <3>1. n \in Promised
      BY <2>1 DEF Promised
    <3> QED
      BY <2>1, <3>1, PromisedRange
  <2>3. LogInv /\ DOMAIN log = 1 .. Len(log) /\ Len(log) \in Nat
    BY <2>1, LogType DEF EngineInv, LogInv
  <2>4. WholeButLast /\ ~ TornFrom(0)
    <3>1. \A i \in 1 .. Len(log) : Complete(log[i])
      BY <2>1, <2>3 DEF Torn
    <3>2. 0 + 1 = 1
      OBVIOUS
    <3> QED
      BY <3>1, <3>2 DEF WholeButLast, TornFrom
  <2>5. PICK ns : ns = [i \in DOMAIN log |-> log[i].n]
    OBVIOUS
  <2>6. ReadAll.entries = ns
    <3>1. ReadAll = Rest(0)
      BY <2>3, <2>4, ReadAllRest
    <3>2. Len(log) - 0 = Len(log) /\ \A j \in 1 .. Len(log) : 0 + j = j
      BY <2>3
    <3>3. [j \in 1 .. Len(log) - 0 |-> log[0 + j].n] = ns
      BY <2>3, <2>5, <3>2
    <3> QED
      BY <2>4, <3>1, <3>3 DEF Rest
  <2>7. PICK k : k = writes[n].key
    OBVIOUS
  <2>8. Recovered(k) = IF LastOf(k, ns) # 0 THEN LastOf(k, ns) ELSE LastOf(k, StoredWrites)
    BY <2>6 DEF Recovered, StoredWrites
  <2>9. Kept(n) /\ OrderedLog
    BY <2>1, <2>2 DEF RecoveryInv
  <2>10. CASE Logged(n)
    <3>1. LastOf(k, ns) >= n
      BY <2>1, <2>2, <2>5, <2>7, <2>9, <2>10, LoggedFound
    <3>2. LastOf(k, ns) # 0
      BY <2>2, <3>1
    <3> QED
      BY <2>7, <2>8, <3>1, <3>2
  <2>11. CASE Stored(n) /\ \A i \in 1 .. Len(log) : log[i].n > n
    <3>1. LastOf(k, ns) \in {0} \cup (n .. Len(writes))
      BY <2>1, <2>2, <2>5, <2>7, <2>9, <2>11, LoggedFound
    <3>2. LastOf(k, StoredWrites) >= n
      BY <2>1, <2>2, <2>7, <2>11, StoredFound
    <3>3. CASE LastOf(k, ns) = 0
      BY <2>7, <2>8, <3>2, <3>3
    <3>4. CASE LastOf(k, ns) # 0
      <4>1. PICK x \in n .. Len(writes) : LastOf(k, ns) = x
        BY <3>1, <3>4
      <4>2. x >= n
        BY <2>2
      <4> QED
        BY <2>7, <2>8, <3>4, <4>1, <4>2
    <3> QED
      BY <3>3, <3>4
  <2> QED
    BY <2>9, <2>10, <2>11 DEF Kept
<1> QED
  BY <1>1, RecoveryInvariance, PTL

-----------------------------------------------------------------------------
(***************************************************************************)
(* Replaying the log.                                                      *)
(***************************************************************************)
\* Nothing has failed, and no Puts have overlapped.
Smooth == faults = 0 /\ restarts = 0 /\ overlapped = {}

\* What the i-th record of the log puts into a slice.
Replay(slice, i) == Upsert(slice, Entry(writes[log[i].n].key, log[i].n))

\* f[i] is the slice that the first i records make.
Replays(f) ==
    /\ f \in [0 .. Len(log) -> Seq(SliceEntry)]
    /\ f[0] = <<>>
    /\ \A i \in 1 .. Len(log) : f[i] = Replay(f[i - 1], i)

\* The memtable is what the log replays to; it lacks the last record while that is on
\* its way, and everything between a flush and the truncation.
Rebuilt(f) ==
    /\ \A c \in Clients : pc[c] = "mem" =>
           Len(log) > 0 /\ log[Len(log)].n = cur[c] /\ mem = f[Len(log) - 1]
    /\ \A c \in Clients : pc[c] \in {"write", "truncate"} => mem = <<>>
    /\ (\A c \in Clients : pc[c] \notin {"mem", "write", "truncate"}) => mem = f[Len(log)]

ReplayInv ==
    Smooth =>
        /\ \A i \in 1 .. Len(log) : Complete(log[i])
        /\ \E f : Replays(f) /\ Rebuilt(f)

\* Puts that have not overlapped run one at a time.
LEMMA OneAtATime ==
    ASSUME OverlapsNoted, Smooth, NEW c \in Clients, pc[c] # "idle"
    PROVE  \A d \in Clients : d # c => pc[d] = "idle"
  BY DEF OverlapsNoted, Smooth

\* An empty log replays to an empty slice.
LEMMA ReplaysEmpty == \E f : f \in [0 .. 0 -> Seq(SliceEntry)] /\ f[0] = <<>>
<1>1. PICK f : f = [i \in 0 .. 0 |-> <<>>]
  OBVIOUS
<1>2. f \in [0 .. 0 -> Seq(SliceEntry)] /\ f[0] = <<>>
  BY <1>1
<1> QED
  BY <1>2

\* Faults, restarts and overlaps are not forgotten.
LEMMA SmoothBefore ==
    ASSUME EngineInv, EngineInv', [Next]_vars, Smooth'
    PROVE  /\ Smooth
           /\ \/ \E c \in Clients, k \in Keys : LogPut(c, k)
              \/ \E c \in Clients :
                     MemPut(c) \/ CheckShouldFlush(c) \/ Flush(c) \/ WriteSegment(c) \/ TruncateLog(c)
              \/ UNCHANGED vars
<1>1. faults \in Nat /\ restarts \in Nat /\ faults' = 0 /\ restarts' = 0 /\ overlapped' = {}
  BY EngineAssumption DEF EngineInv, HistoryInv, Smooth
<1>2. ASSUME NEW c \in Clients, NEW k \in Keys
      PROVE  ~ LogPutFails(c, k) /\ ~ WriteSegmentFails(c) /\ ~ TruncateLogFails(c)
  BY <1>1 DEF LogPutFails, WriteSegmentFails, TruncateLogFails, Fault
<1>3. ~ StartAgain
  BY <1>1 DEF StartAgain
<1>4. ASSUME NEW c \in Clients, NEW k \in Keys, LogPut(c, k)
      PROVE  Smooth
  <2>1. PICK m : m = Len(writes) + 1
    OBVIOUS
  <2>2. overlapped \subseteq overlapped' /\ faults' = faults /\ restarts' = restarts
    BY <1>4, <2>1, LogPutStep DEF LogPut
  <2> QED
    BY <1>1, <2>2 DEF Smooth
<1>5. ASSUME NEW c \in Clients,
             MemPut(c) \/ CheckShouldFlush(c) \/ Flush(c) \/ WriteSegment(c) \/ TruncateLog(c)
      PROVE  Smooth
  BY <1>1, <1>5 DEF MemPut, CheckShouldFlush, Flush, WriteSegment, TruncateLog, history, Smooth
<1>6. CASE UNCHANGED vars
  BY <1>1, <1>6 DEF vars, engineVars, history, Smooth
<1>7. \/ \E c \in Clients, k \in Keys : LogPut(c, k)
      \/ \E c \in Clients :
             MemPut(c) \/ CheckShouldFlush(c) \/ Flush(c) \/ WriteSegment(c) \/ TruncateLog(c)
      \/ UNCHANGED vars
  <2>1. ASSUME NEW c \in Clients PROVE ~ WriteSegmentFails(c) /\ ~ TruncateLogFails(c)
    BY <1>1 DEF WriteSegmentFails, TruncateLogFails, Fault
  <2> QED
    BY <1>2, <1>3, <2>1 DEF Next, Restart, PowerFailure
<1> QED
  BY <1>4, <1>5, <1>6, <1>7

\* A record more makes one slice more.
LEMMA ReplaysGrown ==
    ASSUME EngineInv, EngineInv', NEW e \in WALEntry, writes' = Append(writes, e), LogGrown,
           NEW f, Replays(f)
    PROVE  \E g : Replays(g)' /\ g[Len(log') - 1] = f[Len(log)]
<1>1. PICK len \in Nat : len = Len(log)
  BY DEF EngineInv, LogInv
<1>2. PICK m : m = Len(writes) + 1
  OBVIOUS
<1>3. /\ Len(log') = len + 1 /\ log'[len + 1].n = m
      /\ \A j \in 1 .. len : log'[j] = log[j]
  BY <1>1, <1>2 DEF LogGrown
<1>4. /\ m \in 1 .. Len(writes') /\ \A n \in 1 .. Len(writes) : writes'[n] = writes[n]
  BY <1>2, WritesGrow DEF EngineInv
<1>5. PICK x : x = Entry(writes'[m].key, m)
  OBVIOUS
<1>6. x \in SliceEntry
  <2>1. writes'[m].key \in Keys /\ m \in Nat \ {0}
    <3>1. writes' \in Seq(WALEntry)
      BY DEF EngineInv, LogInv
    <3>2. m \in Nat \ {0}
      BY <1>4, <3>1
    <3>3. writes'[m] \in WALEntry
      BY <1>4, <3>1
    <3> QED
      BY <3>2, <3>3 DEF WALEntry
  <2> QED
    BY <1>5, <2>1 DEF Entry, SliceEntry
<1>7. /\ f \in [0 .. len -> Seq(SliceEntry)] /\ f[0] = <<>>
      /\ \A i \in 1 .. len : f[i] = Replay(f[i - 1], i)
  BY <1>1 DEF Replays
<1>8. PICK q \in Seq(SliceEntry) : q = Upsert(f[len], x)
  BY <1>6, <1>7, UpsertEntries
<1>9. PICK g : g = [i \in 0 .. len + 1 |-> IF i <= len THEN f[i] ELSE q]
  OBVIOUS
<1>10. /\ g \in [0 .. len + 1 -> Seq(SliceEntry)]
       /\ g[len + 1] = q /\ \A i \in 0 .. len : g[i] = f[i]
  <2>1. ASSUME NEW i \in 0 .. len + 1 PROVE (IF i <= len THEN f[i] ELSE q) \in Seq(SliceEntry)
    BY <1>7
  <2>2. g \in [0 .. len + 1 -> Seq(SliceEntry)]
    BY <1>9, <2>1
  <2>3. g[len + 1] = q /\ \A i \in 0 .. len : g[i] = f[i]
    BY <1>9
  <2> QED
    BY <2>2, <2>3
<1>11. ASSUME NEW i \in 1 .. len + 1
       PROVE  g[i] = Upsert(g[i - 1], Entry(writes'[log'[i].n].key, log'[i].n))
  <2>1. CASE i = len + 1
    <3>1. i - 1 = len /\ len \in 0 .. len
      BY <2>1
    <3>2. g[i - 1] = f[len]
      BY <1>10, <3>1
    <3> QED
      BY <1>3, <1>5, <1>8, <1>10, <2>1, <3>2
  <2>2. CASE i # len + 1
    <3>1. i \in 1 .. len /\ i \in 0 .. len /\ i - 1 \in 0 .. len
      BY <2>2
    <3>2. log'[i] = log[i] /\ log[i].n \in 1 .. Len(writes)
      BY <1>1, <1>3, <3>1 DEF EngineInv, LogInv
    <3>3. f[i] = Upsert(f[i - 1], Entry(writes[log[i].n].key, log[i].n))
      BY <1>7, <3>1 DEF Replay
    <3> QED
      BY <1>4, <1>10, <3>1, <3>2, <3>3
  <2> QED
    BY <2>1, <2>2
<1>12. g[0] = <<>> /\ g[len] = f[len]
  BY <1>7, <1>10
<1>13. Replays(g)'
  BY <1>3, <1>10, <1>11, <1>12 DEF Replays, Replay
<1>14. Len(log') - 1 = len
  BY <1>3
<1> QED
  BY <1>1, <1>12, <1>13, <1>14

LEMMA LogPutReplay ==
    ASSUME EngineInv, EngineInv', OverlapsNoted, OverlapsNoted', ReplayInv, Smooth, Smooth',
           NEW c \in Clients, NEW k \in Keys, LogPut(c, k)
    PROVE  ReplayInv'
<1>1. PICK e \in WALEntry : Write(e)
  BY NewEntryType DEF LogPut, EngineInv, LogInv
<1>2. PICK m : m = Len(writes) + 1
  OBVIOUS
<1>3. /\ pc[c] = "idle" /\ pc'[c] = "mem" /\ cur'[c] = m /\ mem' = mem
      /\ \A d \in Clients : d # c => pc'[d] = pc[d]
  BY <1>2, LogPutStep
<1>4. \A d \in Clients : d # c => pc'[d] = "idle"
  <2>1. overlapped' = {}
    BY DEF Smooth
  <2>2. pc'[c] # "idle"
    BY <1>3
  <2> QED
    BY <2>1, <2>2 DEF OverlapsNoted
<1>5. \A d \in Clients : pc[d] \notin {"mem", "write", "truncate"}
  BY <1>3, <1>4
<1>6. PICK f : Replays(f) /\ mem = f[Len(log)]
  BY <1>5 DEF ReplayInv, Rebuilt
<1>7. LogGrown /\ writes' = Append(writes, e)
  BY <1>1, LogPutGrows DEF Write
<1>8. PICK g : Replays(g)' /\ g[Len(log') - 1] = f[Len(log)]
  BY <1>6, <1>7, ReplaysGrown
<1>9. Len(log) \in Nat /\ Len(log') = Len(log) + 1 /\ log'[Len(log')].n = m
  BY <1>2, <1>7 DEF LogGrown, EngineInv, LogInv
<1>10. Rebuilt(g)'
  <2>1. Len(log') > 0
    BY <1>9
  <2> QED
    BY <1>3, <1>4, <1>6, <1>8, <1>9, <2>1 DEF Rebuilt
<1>11. ASSUME NEW i \in 1 .. Len(log') PROVE Complete(log[i])'
  <2>1. CASE i \in 1 .. Len(log)
    <3>1. log'[i] = log[i] /\ log[i].n \in 1 .. Len(writes) /\ Complete(log[i])
      BY <1>7, <2>1 DEF LogGrown, ReplayInv, EngineInv, LogInv
    <3>2. PICK n \in 1 .. Len(writes) : n = log[i].n
      BY <3>1
    <3>3. RecordLength(n)' = RecordLength(n)
      BY <1>2, <1>7, WritesGrow DEF EngineInv
    <3> QED
      BY <3>1, <3>2, <3>3 DEF Complete, RecordLength
  <2>2. CASE i = Len(log) + 1
    <3>1. log' = Append(log, [n |-> m, len |-> HeaderLength + KeyLength + e.vLen])
      BY <1>1, <1>2 DEF Write
    <3>2. log'[i] = [n |-> m, len |-> HeaderLength + KeyLength + e.vLen]
      BY <2>2, <3>1 DEF EngineInv, LogInv
    <3>3. RecordLength(m)' = HeaderLength + KeyLength + e.vLen
      BY <1>2, <1>7, WritesGrow DEF EngineInv
    <3> QED
      BY <3>2, <3>3 DEF Complete, RecordLength
  <2> QED
    BY <1>9, <2>1, <2>2
<1> QED
  BY <1>8, <1>10, <1>11 DEF ReplayInv

\* MemPut, CheckShouldFlush, Flush and WriteSegment leave the log alone.
LEMMA SameLogReplay ==
    ASSUME log' = log, writes' = writes, Smooth, ReplayInv,
           \A f : Replays(f) /\ Rebuilt(f) => Rebuilt(f)'
    PROVE  ReplayInv'
<1>1. \A i \in 1 .. Len(log) : Complete(log[i])'
  BY DEF ReplayInv, Complete, RecordLength
<1>2. PICK f : Replays(f) /\ Rebuilt(f)
  BY DEF ReplayInv
<1>3. Replays(f)'
  BY <1>2 DEF Replays, Replay
<1> QED
  BY <1>1, <1>2, <1>3 DEF ReplayInv, Complete

LEMMA MemPutReplay ==
    ASSUME EngineInv, OverlapsNoted, ReplayInv, Smooth, NEW c \in Clients, MemPut(c)
    PROVE  ReplayInv'
<1>1. /\ pc[c] = "mem" /\ pc'[c] = "check" /\ \A d \in Clients : d # c => pc'[d] = pc[d]
      /\ mem' = Upsert(mem, Entry(writes[cur[c]].key, cur[c]))
      /\ writes' = writes /\ log' = log
  BY MemPutStep
<1>2. \A d \in Clients : pc'[d] \in {"idle", "check"}
  BY <1>1, OneAtATime
<1>3. ASSUME NEW f, Replays(f), Rebuilt(f) PROVE Rebuilt(f)'
  <2>1. PICK len : len = Len(log)
    OBVIOUS
  <2>2. len \in Nat /\ len > 0 /\ log[len].n = cur[c] /\ mem = f[len - 1]
    BY <1>1, <1>3, <2>1 DEF Rebuilt, EngineInv, LogInv
  <2>3. len \in 1 .. Len(log)
    BY <2>1, <2>2
  <2>4. f[len] = mem'
    BY <1>1, <1>3, <2>2, <2>3 DEF Replays, Replay
  <2> QED
    BY <1>1, <1>2, <2>1, <2>4 DEF Rebuilt
<1> QED
  BY <1>1, <1>3, SameLogReplay

LEMMA FlushReplay ==
    ASSUME EngineInv, OverlapsNoted, ReplayInv, Smooth, NEW c \in Clients,
           CheckShouldFlush(c) \/ Flush(c) \/ WriteSegment(c)
    PROVE  ReplayInv'
<1>1. writes' = writes /\ log' = log /\ pc \in [Clients -> Labels] /\ pc[c] # "idle" /\ cur' = cur
  BY DEF CheckShouldFlush, Flush, WriteSegment, walVars, EngineInv, FlowInv
<1>2. /\ \A d \in Clients : d # c => pc[d] = "idle" /\ pc'[d] = "idle"
      /\ \/ pc[c] = "check" /\ pc'[c] \in {"flush", "idle"} /\ mem' = mem
         \/ pc[c] = "flush" /\ pc'[c] = "write" /\ mem' = <<>>
         \/ pc[c] = "write" /\ pc'[c] = "truncate" /\ mem' = mem
  <2>1. \A d \in Clients : d # c => pc[d] = "idle"
    BY <1>1, OneAtATime
  <2> QED
    BY <1>1, <2>1 DEF CheckShouldFlush, Flush, WriteSegment, Ack, Goto
<1>3. ASSUME NEW f, Replays(f), Rebuilt(f) PROVE Rebuilt(f)'
  <2>1. CASE pc[c] = "check" /\ pc'[c] \in {"flush", "idle"} /\ mem' = mem
    <3>1. mem = f[Len(log)]
      <4>1. \A d \in Clients : pc[d] \notin {"mem", "write", "truncate"}
        BY <1>2, <2>1
      <4> QED
        BY <1>3, <4>1 DEF Rebuilt
    <3>2. \A d \in Clients : pc'[d] \notin {"mem", "write", "truncate"}
      BY <1>2, <2>1
    <3> QED
      BY <1>1, <2>1, <3>1, <3>2 DEF Rebuilt
  <2>2. CASE pc[c] = "flush" /\ pc'[c] = "write" /\ mem' = <<>>
    BY <1>2, <2>2 DEF Rebuilt
  <2>3. CASE pc[c] = "write" /\ pc'[c] = "truncate" /\ mem' = mem
    <3>1. mem = <<>>
      BY <1>3, <2>3 DEF Rebuilt
    <3> QED
      BY <1>2, <2>3, <3>1 DEF Rebuilt
  <2> QED
    BY <1>2, <2>1, <2>2, <2>3
<1> QED
  BY <1>1, <1>3, SameLogReplay

LEMMA TruncateReplay ==
    ASSUME EngineInv, OverlapsNoted, ReplayInv, Smooth, NEW c \in Clients, TruncateLog(c)
    PROVE  ReplayInv'
<1>1. /\ pc[c] = "truncate" /\ pc'[c] = "idle" /\ mem' = mem /\ log' = <<>>
      /\ \A d \in Clients : d # c => pc'[d] = pc[d]
  BY DEF TruncateLog, Truncate, Ack, Goto, EngineInv, FlowInv
<1>2. \A d \in Clients : pc'[d] = "idle"
  BY <1>1, OneAtATime
<1>3. mem' = <<>>
  BY <1>1 DEF ReplayInv, Rebuilt
<1>4. PICK f : f \in [0 .. 0 -> Seq(SliceEntry)] /\ f[0] = <<>>
  BY ReplaysEmpty
<1>5. Replays(f)' /\ f[Len(log')] = <<>>
  <2>1. Len(log') = 0
    BY <1>1
  <2> QED
    BY <1>4, <2>1 DEF Replays
<1>6. Rebuilt(f)'
  BY <1>2, <1>3, <1>5 DEF Rebuilt
<1>7. \A i \in 1 .. Len(log') : Complete(log[i])'
  <2>1. Len(log') = 0
    BY <1>1
  <2> QED
    BY <2>1
<1> QED
  BY <1>5, <1>6, <1>7 DEF ReplayInv

LEMMA ReplayStep ==
    ASSUME EngineInv, EngineInv', RecoveryInv, RecoveryInv', ReplayInv, [Next]_vars
    PROVE  ReplayInv'
<1>1. SUFFICES ASSUME Smooth' PROVE ReplayInv'
  BY DEF ReplayInv
<1>2. OverlapsNoted /\ OverlapsNoted'
  BY DEF RecoveryInv
<1>3. CASE UNCHANGED vars
  <2>1. /\ log' = log /\ writes' = writes /\ mem' = mem /\ pc' = pc /\ cur' = cur
    BY <1>3 DEF vars, walVars, engineVars
  <2>2. \A f : Replays(f) /\ Rebuilt(f) => Rebuilt(f)'
    BY <2>1 DEF Rebuilt
  <2> QED
    BY <1>1, <2>1, <2>2, SmoothBefore, SameLogReplay
<1> QED
  BY <1>1, <1>2, <1>3, SmoothBefore, LogPutReplay, MemPutReplay, FlushReplay, TruncateReplay

LEMMA ReplayInit ==
    ASSUME Init
    PROVE  ReplayInv
<1>1. log = <<>> /\ mem = <<>> /\ pc = [c \in Clients |-> "idle"]
  BY DEF Init, WALInit
<1>2. PICK f : Replays(f) /\ f[Len(log)] = <<>>
  <2>1. Len(log) = 0
    BY <1>1
  <2> QED
    BY <2>1, ReplaysEmpty DEF Replays
<1>3. Rebuilt(f)
  BY <1>1, <1>2 DEF Rebuilt
<1>4. \A i \in 1 .. Len(log) : Complete(log[i])
  <2>1. Len(log) = 0
    BY <1>1
  <2> QED
    BY <2>1
<1> QED
  BY <1>2, <1>3, <1>4 DEF ReplayInv

\* The recursion of Replayed.
UpsertTurn(g, ns, i) ==
    IF i = 0 THEN <<>> ELSE Upsert(g[i - 1], Entry(writes[ns[i]].key, ns[i]))

IsReplay(g, ns) == g = [i \in 0 .. Len(ns) |-> UpsertTurn(g, ns, i)]

LEMMA ReplayedIs ==
    ASSUME NEW ns
    PROVE  Replayed(ns) = (CHOOSE g : IsReplay(g, ns))[Len(ns)]
  BY Zenon DEF Replayed, IsReplay, UpsertTurn

\* There is one such function only.
LEMMA ReplayedLast ==
    ASSUME NEW ns, NEW len \in Nat, Len(ns) = len, NEW f, NEW T,
           f \in [0 .. len -> T], f[0] = <<>>,
           \A i \in 1 .. len : f[i] = Upsert(f[i - 1], Entry(writes[ns[i]].key, ns[i]))
    PROVE  Replayed(ns) = f[len]
<1>1. IsReplay(f, ns)
  <2>1. ASSUME NEW i \in 0 .. len PROVE f[i] = UpsertTurn(f, ns, i)
    <3>1. i = 0 \/ i \in 1 .. len
      OBVIOUS
    <3>2. CASE i = 0
      BY <3>2 DEF UpsertTurn
    <3>3. CASE i \in 1 .. len
      <4>1. i # 0
        BY <3>3
      <4> QED
        BY <3>3, <4>1 DEF UpsertTurn
    <3> QED
      BY <3>1, <3>2, <3>3
  <2>2. f = [i \in 0 .. len |-> UpsertTurn(f, ns, i)]
    BY <2>1
  <2> QED
    BY <2>2 DEF IsReplay
<1>2. PICK g : g = CHOOSE h : IsReplay(h, ns)
  OBVIOUS
<1>3. IsReplay(g, ns)
  BY <1>1, <1>2
<1>4. \A i \in 0 .. len : g[i] = UpsertTurn(g, ns, i)
  BY <1>3 DEF IsReplay
<1> DEFINE S == {i \in Nat : i <= len => g[i] = f[i]}
<1>5. 0 \in S
  <2>1. 0 \in 0 .. len
    OBVIOUS
  <2>2. g[0] = <<>>
    BY <1>4, <2>1 DEF UpsertTurn
  <2> QED
    BY <2>2
<1>6. ASSUME NEW i \in Nat, i \in S PROVE i + 1 \in S
  <2>1. SUFFICES ASSUME i + 1 <= len PROVE g[i + 1] = f[i + 1]
    OBVIOUS
  <2>2. i + 1 \in 0 .. len /\ i + 1 \in 1 .. len /\ i + 1 # 0 /\ (i + 1) - 1 = i /\ i <= len
    BY <2>1
  <2>3. g[i] = f[i]
    BY <1>6, <2>2
  <2>4. g[i + 1] = Upsert(g[i], Entry(writes[ns[i + 1]].key, ns[i + 1]))
    BY <1>4, <2>2 DEF UpsertTurn
  <2>5. f[i + 1] = Upsert(f[i], Entry(writes[ns[i + 1]].key, ns[i + 1]))
    BY <2>2
  <2> QED
    BY <2>3, <2>4, <2>5
<1>7. Nat \subseteq S
  <2> HIDE DEF S
  <2> QED
    BY <1>5, <1>6, NatInd
<1>8. len \in S
  BY <1>7
<1>9. g[len] = f[len]
  BY <1>8
<1> QED
  BY <1>2, <1>9, ReplayedIs

\* ReplayRebuildsMemtable (Engine.Put, Engine.ExecuteFlush, diskWAL.ReadAll): between
\* two Puts that did not overlap, and without failures, the log read back and put into
\* an empty memtable gives the memtable, for all keys, clients and numbers of writes.
THEOREM ReplayRebuilds == Spec => []ReplayRebuildsMemtable
<1>1. EngineInv /\ ReplayInv => ReplayRebuildsMemtable
  <2>1. SUFFICES ASSUME EngineInv, ReplayInv, Smooth, \A c \in Clients : pc[c] = "idle"
                 PROVE  mem = Replayed(ReadAll.entries)
    BY DEF ReplayRebuildsMemtable, Smooth
  <2>2. LogInv /\ DOMAIN log = 1 .. Len(log) /\ Len(log) \in Nat
    BY <2>1, LogType DEF EngineInv, LogInv
  <2>3. PICK len \in Nat : len = Len(log)
    BY <2>2
  <2>4. \A i \in 1 .. Len(log) : Complete(log[i])
    BY <2>1 DEF ReplayInv
  <2>5. PICK f : Replays(f) /\ mem = f[len]
    BY <2>1, <2>3 DEF ReplayInv, Rebuilt
  <2>6. PICK ns : ns = [i \in 1 .. len |-> log[i].n]
    OBVIOUS
  <2>7. ReadAll.entries = ns
    <3>1. WholeButLast /\ ~ TornFrom(0)
      <4>1. 0 + 1 = 1
        OBVIOUS
      <4> QED
        BY <2>4, <4>1 DEF WholeButLast, TornFrom
    <3>2. ReadAll = Rest(0)
      BY <2>2, <3>1, ReadAllRest
    <3>3. len - 0 = len /\ \A j \in 1 .. len : 0 + j = j
      BY <2>3
    <3>4. [j \in 1 .. Len(log) - 0 |-> log[0 + j].n] = ns
      BY <2>3, <2>6, <3>3
    <3> QED
      BY <3>1, <3>2, <3>4 DEF Rest
  <2>8. Len(ns) = len
    BY <2>3, <2>6
  <2>9. \A i \in 1 .. len : f[i] = Upsert(f[i - 1], Entry(writes[ns[i]].key, ns[i]))
    BY <2>3, <2>5, <2>6 DEF Replays, Replay
  <2>10. f \in [0 .. len -> Seq(SliceEntry)] /\ f[0] = <<>>
    BY <2>3, <2>5 DEF Replays
  <2>11. Replayed(ns) = f[len]
    BY <2>8, <2>9, <2>10, ReplayedLast
  <2> QED
    BY <2>5, <2>7, <2>11
<1> QED
  <2>1. Init => ReplayInv
    BY ReplayInit
  <2>2. /\ EngineInv /\ RecoveryInv /\ EngineInv' /\ RecoveryInv' /\ ReplayInv /\ [Next]_vars
        => ReplayInv'
    BY ReplayStep
  <2> QED
    BY <1>1, <2>1, <2>2, RecoveryInvariance, PTL DEF Spec
=============================================================================
