-------------------------- MODULE SegmentFileProofs -------------------------
(***************************************************************************)
(* The properties of SegmentFile.tla, for any set of goroutines and any    *)
(* number of appends, failures and closes.  None of them is inductive by   *)
(* itself: what a goroutine finds under the write lock depends on what it  *)
(* saw under the read lock, and on what the others did in between.         *)
(***************************************************************************)
EXTENDS SegmentFile, SequenceTheorems, TLAPS

\* The fields of the file manager agree with each other and with the address space.
\* After a failed remap mmapData is stale; only then may it be set without a mapping.
MappingInv ==
    /\ mapped \subseteq {mmapData}
    /\ isMMapped <=> mmapData \in mapped
    /\ mmappedSize = LenOf(mmapData)
    /\ \A m \in DOMAIN maps : maps[m] <= size
    /\ closed => ~ isMMapped
    /\ failures = 0 /\ ~ isMMapped => mmapData = 0

\* A goroutine on its way to remap has seen a size that covers what it reads.
CallOK(g) ==
    /\ pc[g] \in {"call"} \cup InCall => calls[g] >= 1
    /\ pc[g] # "idle" => want[g] >= 1
    /\ pc[g] = "remap" =>
          /\ 1 <= stat[g] /\ want[g] <= stat[g]
          /\ LenOf(slice[g]) <= stat[g]

\* As long as mmap does not fail: a mapping seen under the read lock is replaced but
\* never lost before the write lock is taken, unless the file is deleted; so the
\* mapping that appears while a goroutine goes to make the first one is not an old one.
CoverOK(g) ==
    failures = 0 =>
        /\ pc[g] = "remap" /\ ~ closed => isMMapped
        /\ pc[g] = "first" /\ isMMapped =>
              want[g] <= mmappedSize /\ LenOf(slice[g]) <= mmappedSize
        /\ pc[g] # "short"

CallInv == \A g \in Goroutines : CallOK(g)
CoverInv == \A g \in Goroutines : CoverOK(g)

FileInv == FileTypeOK /\ MappingInv /\ CallInv /\ CoverInv

-----------------------------------------------------------------------------
\* The bounds are naturals, and so is everything that is counted.
LEMMA FileNumbers ==
    ASSUME FileTypeOK
    PROVE  /\ size \in Nat /\ mmappedSize \in Nat /\ failures \in Nat
           /\ \A g \in Goroutines : want[g] \in Nat /\ stat[g] \in Nat
           /\ \A m \in DOMAIN maps : maps[m] \in Nat \ {0}
           /\ Len(maps) \in Nat /\ DOMAIN maps = 1 .. Len(maps) /\ 0 \notin DOMAIN maps
           /\ LenOf(mmapData) \in Nat
           /\ \A g \in Goroutines : LenOf(slice[g]) \in Nat
  BY FileAssumption DEF FileTypeOK, LenOf

\* A goroutine that leaves GetMmapData with a mapping keeps its types.
LEMMA ReturnType ==
    ASSUME FileTypeOK, NEW g \in Goroutines, NEW m, NEW length,
           pc[g] \in InCall, calls[g] >= 1, Return(g, m, length)
    PROVE  /\ pc' \in [Goroutines -> {"idle", "call", "short", "use"} \cup InCall]
           /\ calls' \in [Goroutines -> 0 .. 2]
           /\ \A h \in Goroutines \ {g} :
                  pc'[h] = pc[h] /\ calls'[h] = calls[h] /\ slice'[h] = slice[h]
           /\ slice'[g] = m
           /\ pc'[g] \in {"short", "call", "use"}
           /\ pc'[g] = "call" => calls'[g] = 1
           /\ pc'[g] = "short" <=> length < want[g] \/ length < LenOf(slice[g])
           /\ UNCHANGED <<want, stat>>
  BY DEF Return, FileTypeOK, InCall

\* Mappings that were made keep their length, and so do the slices of them.
LEMMA SliceLength ==
    ASSUME FileTypeOK, \A m \in DOMAIN maps : maps'[m] = maps[m],
           NEW h \in Goroutines, slice'[h] = slice[h]
    PROVE  LenOf(slice[h])' = LenOf(slice[h])
  BY DEF FileTypeOK, LenOf

\* What a goroutine on its way needs survives the return of another one, and a
\* goroutine that returns needs nothing more.
LEMMA ReturnCallInv ==
    ASSUME FileInv, NEW g \in Goroutines, NEW m, NEW length,
           pc[g] \in InCall, Return(g, m, length),
           \A i \in DOMAIN maps : maps'[i] = maps[i]
    PROVE  CallInv'
<1>1. calls[g] >= 1 /\ CallOK(g) /\ FileTypeOK
  BY DEF FileInv, CallInv, CallOK
<1>2. CallOK(g)'
  BY <1>1, ReturnType DEF CallOK, InCall
<1>3. ASSUME NEW h \in Goroutines \ {g} PROVE CallOK(h)'
  <2>1. CallOK(h)
    BY DEF FileInv, CallInv
  <2> QED
    BY <1>1, <2>1, ReturnType, SliceLength DEF CallOK
<1> QED
  BY <1>2, <1>3 DEF CallInv

\* The steps that leave the file and its mapping alone, and begin or end a read.
LEMMA OutsideFileInv ==
    ASSUME FileInv, NEW g \in Goroutines,
           \/ \E s \in 1 .. size, n \in {1, 2} : BeginRead(g, s, n)
           \/ Enter(g)
           \/ Use(g)
    PROVE  FileInv'
<1> USE FileNumbers DEF FileInv
<1>1. UNCHANGED fileVars /\ MappingInv'
  BY SMTT(30) DEF BeginRead, Enter, Use, MappingInv, LenOf, fileVars
<1>2. CASE \E s \in 1 .. size, n \in {1, 2} : BeginRead(g, s, n)
  <2>1. PICK s \in 1 .. size, n \in {1, 2} : BeginRead(g, s, n)
    BY <1>2
  <2>2. FileTypeOK'
    BY <1>1, <2>1 DEF BeginRead, FileTypeOK, fileVars
  <2>3. ASSUME NEW h \in Goroutines PROVE CallOK(h)' /\ CoverOK(h)'
    <3>1. CallOK(h) /\ CoverOK(h)
      BY DEF CallInv, CoverInv
    <3>2. CASE h = g
      BY <1>1, <2>1, <3>2 DEF BeginRead, FileTypeOK, CallOK, CoverOK, InCall
    <3>3. CASE h # g
      BY <1>1, <2>1, <3>1, <3>3 DEF BeginRead, FileTypeOK, CallOK, CoverOK, LenOf, fileVars
    <3> QED
      BY <3>2, <3>3
  <2> QED
    BY <1>1, <2>2, <2>3 DEF CallInv, CoverInv
<1>3. CASE Enter(g) \/ Use(g)
  <2>1. FileTypeOK'
    BY <1>1, <1>3 DEF Enter, Use, FileTypeOK, fileVars, InCall
  <2>2. ASSUME NEW h \in Goroutines PROVE CallOK(h)' /\ CoverOK(h)'
    <3>1. CallOK(h) /\ CoverOK(h)
      BY DEF CallInv, CoverInv
    <3> QED
      BY <1>1, <1>3, <3>1
      DEF Enter, Use, FileTypeOK, CallOK, CoverOK, LenOf, fileVars, InCall
  <2> QED
    BY <1>1, <2>1, <2>2 DEF CallInv, CoverInv
<1> QED
  BY <1>2, <1>3

\* The section under the read lock.
LEMMA CheckMappingFileInv ==
    ASSUME FileInv, NEW g \in Goroutines, CheckMapping(g)
    PROVE  FileInv'
<1> USE FileNumbers DEF FileInv
<1>1. UNCHANGED fileVars /\ pc[g] = "enter" /\ calls[g] >= 1
  BY DEF CheckMapping, CallInv, CallOK, InCall
<1>2. CASE AlreadyMapped /\ UpToDate(size) /\ Return(g, mmapData, LenOf(mmapData))
  <2>1. LenOf(mmapData) = mmappedSize /\ size <= mmappedSize
    BY <1>2 DEF MappingInv, UpToDate
  <2>2. want[g] <= size /\ LenOf(slice[g]) <= size
    BY DEF FileTypeOK, MappingInv, LenOf
  <2>3. pc'[g] \in {"call", "use"} /\ slice'[g] = mmapData
    BY <1>1, <1>2, <2>1, <2>2, ReturnType DEF InCall
  <2>4. FileTypeOK'
    BY <1>1, <1>2, ReturnType DEF FileTypeOK, fileVars, InCall, Return
  <2>5. MappingInv'
    BY <1>1 DEF MappingInv, fileVars, LenOf
  <2>6. CallInv'
    BY <1>1, <1>2, ReturnCallInv DEF fileVars, InCall
  <2>7. ASSUME NEW h \in Goroutines \ {g} PROVE CoverOK(h)'
    <3>1. CoverOK(h)
      BY DEF CoverInv
    <3> QED
      BY <1>1, <1>2, <3>1, ReturnType, SliceLength DEF CoverOK, fileVars, InCall
  <2> QED
    BY <2>3, <2>4, <2>5, <2>6, <2>7 DEF CoverInv, CoverOK
<1>3. CASE /\ AlreadyMapped /\ ~ UpToDate(size)
           /\ pc' = [pc EXCEPT ![g] = "remap"]
           /\ stat' = [stat EXCEPT ![g] = size]
           /\ UNCHANGED <<calls, want, slice>>
  BY <1>1, <1>3 DEF fileVars, FileTypeOK, MappingInv, CallInv, CoverInv, CallOK, CoverOK,
                    LenOf, InCall, AlreadyMapped, UpToDate
<1>4. CASE /\ ~ AlreadyMapped
           /\ pc' = [pc EXCEPT ![g] = "first"]
           /\ UNCHANGED <<calls, want, stat, slice>>
  BY <1>1, <1>4 DEF fileVars, FileTypeOK, MappingInv, CallInv, CoverInv, CallOK, CoverOK,
                    LenOf, InCall, AlreadyMapped, UpToDate
<1> QED
  BY <1>1, <1>2, <1>3, <1>4 DEF CheckMapping

-----------------------------------------------------------------------------
\* A mapping of the whole of a file that is n long, in place of the current one.
LEMMA MapFileMappingInv ==
    ASSUME FileInv, NEW n \in 1 .. size, NEW kept, kept = {} \/ kept = mapped \ {mmapData},
           ~ closed, MapFile(n, kept), UNCHANGED <<size, closed, failures>>
    PROVE  /\ MappingInv'
           /\ maps' \in Seq(1 .. MaxAppends)
           /\ mapped' \subseteq DOMAIN maps'
           /\ mmapData' \in DOMAIN maps'
           /\ DOMAIN maps \subseteq DOMAIN maps'
           /\ \A i \in DOMAIN maps : maps'[i] = maps[i]
<1> USE FileNumbers DEF FileInv
<1>1. /\ maps' = Append(maps, n) /\ mmapData' = Len(maps) + 1
      /\ mapped' = {Len(maps) + 1}
      /\ mmappedSize' = n /\ isMMapped'
  BY DEF MapFile, MappingInv
<1>2. n \in 1 .. MaxAppends
  BY FileAssumption DEF FileTypeOK
<1>3. /\ maps' \in Seq(1 .. MaxAppends)
      /\ DOMAIN maps' = 1 .. (Len(maps) + 1)
      /\ \A i \in DOMAIN maps : maps'[i] = maps[i]
      /\ maps'[Len(maps) + 1] = n
  <2>1. maps \in Seq(1 .. MaxAppends)
    BY DEF FileTypeOK
  <2> QED
    BY <1>1, <1>2, <2>1, AppendProperties
<1>4. LenOf(mmapData)' = n /\ \A m \in DOMAIN maps' : maps'[m] <= size'
  BY <1>1, <1>3 DEF MappingInv, LenOf
<1>5. MappingInv'
  BY <1>1, <1>4 DEF MappingInv
<1> QED
  BY <1>1, <1>3, <1>5

\* The section under the write lock for a file that has grown.
LEMMA RemapFileInv ==
    ASSUME FileInv, NEW g \in Goroutines, Remap(g)
    PROVE  FileInv'
<1> USE FileNumbers DEF FileInv
<1>1. pc[g] = "remap" /\ pc[g] \in InCall /\ CallOK(g) /\ CoverOK(g) /\ calls[g] >= 1
  BY DEF Remap, CallInv, CoverInv, CallOK, InCall
<1>2. CASE ~ StillStale(g) /\ Return(g, mmapData, LenOf(mmapData)) /\ UNCHANGED fileVars
  <2>1. want[g] <= LenOf(mmapData) /\ LenOf(slice[g]) <= LenOf(mmapData)
    BY <1>1, <1>2 DEF StillStale, UpToDate, MappingInv, CallOK, FileTypeOK
  <2>2. FileTypeOK'
    BY <1>1, <1>2, ReturnType DEF FileTypeOK, fileVars, Return
  <2>3. MappingInv'
    BY <1>2 DEF MappingInv, fileVars, LenOf
  <2>4. CallInv'
    BY <1>1, <1>2, ReturnCallInv DEF fileVars
  <2>5. CoverOK(g)'
    BY <1>1, <1>2, <2>1, ReturnType DEF CoverOK
  <2>6. ASSUME NEW h \in Goroutines \ {g} PROVE CoverOK(h)'
    <3>1. CoverOK(h)
      BY DEF CoverInv
    <3> QED
      BY <1>1, <1>2, <3>1, ReturnType, SliceLength DEF CoverOK, fileVars
  <2> QED
    BY <2>2, <2>3, <2>4, <2>5, <2>6 DEF CoverInv
<1>3. CASE /\ StillStale(g) /\ ~ closed
           /\ MapFile(stat[g], mapped \ {mmapData})
           /\ Return(g, Len(maps) + 1, stat[g])
           /\ UNCHANGED <<size, closed, failures, closes>>
  <2>1. stat[g] \in 1 .. size /\ stat[g] > mmappedSize
    BY <1>1, <1>3 DEF CallOK, FileTypeOK, StillStale, UpToDate
  <2>2. /\ MappingInv'
        /\ maps' \in Seq(1 .. MaxAppends)
        /\ mapped' \subseteq DOMAIN maps'
        /\ mmapData' \in DOMAIN maps'
        /\ DOMAIN maps \subseteq DOMAIN maps'
        /\ \A i \in DOMAIN maps : maps'[i] = maps[i]
    BY <1>3, <2>1, MapFileMappingInv
  <2>3. mmapData' = Len(maps) + 1 /\ mmappedSize' = stat[g] /\ isMMapped' = TRUE
    BY <1>3 DEF MapFile
  <2>4. FileTypeOK'
    BY <1>1, <1>3, <2>1, <2>2, <2>3, ReturnType DEF FileTypeOK, Return
  <2>5. CallInv'
    BY <1>1, <1>3, <2>2, ReturnCallInv
  <2>6. CoverOK(g)'
    BY <1>1, <1>3, ReturnType DEF CoverOK, CallOK
  <2>7. ASSUME NEW h \in Goroutines \ {g} PROVE CoverOK(h)'
    <3>1. CoverOK(h)
      BY DEF CoverInv
    <3>2. pc'[h] = pc[h] /\ want'[h] = want[h] /\ LenOf(slice[h])' = LenOf(slice[h])
      BY <1>1, <1>3, <2>2, ReturnType, SliceLength
    <3>3. CASE isMMapped
      BY <1>3, <2>1, <2>3, <3>1, <3>2, <3>3 DEF CoverOK, FileTypeOK
    <3>4. CASE failures = 0 /\ ~ isMMapped
      BY <1>1, <1>3, <3>4 DEF CoverOK
    <3> QED
      BY <1>3, <3>3, <3>4 DEF CoverOK, FileTypeOK
  <2> QED
    BY <2>2, <2>4, <2>5, <2>6, <2>7 DEF CoverInv
<1>4. CASE /\ StillStale(g)
           /\ \/ closed /\ UNCHANGED failures
              \/ failures < MaxFailures /\ failures' = failures + 1
           /\ mapped' = mapped \ {mmapData}
           /\ isMMapped' = FALSE
           /\ ReturnError(g)
           /\ UNCHANGED <<size, closed, maps, mmapData, mmappedSize, closes>>
  <2>1. FileTypeOK'
    <3>1. failures' \in 0 .. MaxFailures
      BY FileAssumption, <1>4 DEF FileTypeOK
    <3>2. pc' \in [Goroutines -> {"idle", "call", "short", "use"} \cup InCall]
      BY <1>4 DEF FileTypeOK, ReturnError
    <3> QED
      BY <1>4, <3>1, <3>2 DEF FileTypeOK, ReturnError
  <2>2. MappingInv'
    <3>1. mapped' = {} /\ ~ isMMapped' /\ LenOf(mmapData)' = LenOf(mmapData)
      BY <1>4 DEF MappingInv, LenOf
    <3>2. failures' = 0 => mmapData' = 0
      BY <1>4 DEF FileTypeOK, MappingInv
    <3> QED
      BY <1>4, <3>1, <3>2 DEF FileTypeOK, MappingInv
  <2>3. ASSUME NEW h \in Goroutines PROVE CallOK(h)' /\ CoverOK(h)'
    <3>1. CallOK(h) /\ CoverOK(h)
      BY DEF CallInv, CoverInv
    <3>2. CallOK(h)'
      BY <1>4, <3>1 DEF ReturnError, CallOK, FileTypeOK, LenOf, InCall
    <3>3. CoverOK(h)'
      BY <1>4, <3>1 DEF ReturnError, CoverOK, FileTypeOK
    <3> QED
      BY <3>2, <3>3
  <2> QED
    BY <2>1, <2>2, <2>3 DEF CallInv, CoverInv
<1> QED
  BY <1>2, <1>3, <1>4 DEF Remap

\* A mapping number is 0 only when there is no mapping.
LEMMA MappedIsCurrent ==
    ASSUME FileInv
    PROVE  /\ AlreadyMapped <=> isMMapped
           /\ ~ AlreadyMapped => mapped = {}
  BY FileNumbers DEF FileInv, FileTypeOK, MappingInv, AlreadyMapped

\* The section under the write lock for a file that is not mapped.
LEMMA FirstMapFileInv ==
    ASSUME FileInv, NEW g \in Goroutines, FirstMap(g)
    PROVE  FileInv'
<1> USE FileNumbers DEF FileInv
<1>1. pc[g] = "first" /\ pc[g] \in InCall /\ CallOK(g) /\ CoverOK(g) /\ calls[g] >= 1
  BY DEF FirstMap, CallInv, CoverInv, CallOK, InCall
<1>2. CASE FirstCheck /\ Return(g, mmapData, LenOf(mmapData)) /\ UNCHANGED fileVars
  <2>1. failures = 0 => want[g] <= LenOf(mmapData) /\ LenOf(slice[g]) <= LenOf(mmapData)
    BY <1>1, <1>2 DEF FirstCheck, AlreadyMapped, MappingInv, CoverOK
  <2>2. FileTypeOK'
    BY <1>1, <1>2, ReturnType DEF FileTypeOK, fileVars, Return
  <2>3. MappingInv'
    BY <1>2 DEF MappingInv, fileVars, LenOf
  <2>4. CallInv'
    BY <1>1, <1>2, ReturnCallInv DEF fileVars
  <2>5. CoverOK(g)'
    BY <1>1, <1>2, <2>1, ReturnType DEF CoverOK, fileVars
  <2>6. ASSUME NEW h \in Goroutines \ {g} PROVE CoverOK(h)'
    <3>1. CoverOK(h)
      BY DEF CoverInv
    <3> QED
      BY <1>1, <1>2, <3>1, ReturnType, SliceLength DEF CoverOK, fileVars
  <2> QED
    BY <2>2, <2>3, <2>4, <2>5, <2>6 DEF CoverInv
<1>3. CASE /\ ~ FirstCheck /\ ~ closed
           /\ MapFile(size, mapped)
           /\ Return(g, Len(maps) + 1, size)
           /\ UNCHANGED <<size, closed, failures, closes>>
  <2>1. mapped = {} /\ size \in 1 .. size
    BY <1>1, <1>3, MappedIsCurrent DEF FirstCheck, CallOK, FileTypeOK
  <2>2. /\ MappingInv'
        /\ maps' \in Seq(1 .. MaxAppends)
        /\ mapped' \subseteq DOMAIN maps'
        /\ mmapData' \in DOMAIN maps'
        /\ DOMAIN maps \subseteq DOMAIN maps'
        /\ \A i \in DOMAIN maps : maps'[i] = maps[i]
    BY <1>3, <2>1, MapFileMappingInv
  <2>3. mmapData' = Len(maps) + 1 /\ mmappedSize' = size /\ isMMapped' = TRUE
    BY <1>3 DEF MapFile
  <2>4. FileTypeOK'
    BY SMTT(30), <1>1, <1>3, <2>2, <2>3, ReturnType DEF FileTypeOK, Return
  <2>5. CallInv'
    BY <1>1, <1>3, <2>2, ReturnCallInv
  <2>6. ASSUME NEW h \in Goroutines PROVE want[h] <= size /\ LenOf(slice[h]) <= size
    BY DEF FileTypeOK, MappingInv, LenOf
  <2>7. CoverOK(g)'
    BY <1>1, <1>3, <2>6, ReturnType DEF CoverOK
  <2>8. ASSUME NEW h \in Goroutines \ {g} PROVE CoverOK(h)'
    <3>1. CoverOK(h)
      BY DEF CoverInv
    <3>2. pc'[h] = pc[h] /\ want'[h] = want[h] /\ LenOf(slice[h])' = LenOf(slice[h])
      BY <1>1, <1>3, <2>2, ReturnType, SliceLength
    <3> QED
      BY <1>3, <2>3, <2>6, <3>1, <3>2 DEF CoverOK
  <2> QED
    BY <2>2, <2>4, <2>5, <2>7, <2>8 DEF CoverInv
<1>4. CASE /\ ~ FirstCheck
           /\ \/ closed /\ UNCHANGED failures
              \/ failures < MaxFailures /\ failures' = failures + 1
           /\ ReturnError(g)
           /\ UNCHANGED <<size, closed, maps, mapped, mmapData, mmappedSize, isMMapped, closes>>
  <2>1. FileTypeOK'
    <3>1. failures' \in 0 .. MaxFailures
      BY FileAssumption, <1>4 DEF FileTypeOK
    <3>2. pc' \in [Goroutines -> {"idle", "call", "short", "use"} \cup InCall]
      BY <1>4 DEF FileTypeOK, ReturnError
    <3> QED
      BY <1>4, <3>1, <3>2 DEF FileTypeOK, ReturnError
  <2>2. MappingInv'
    BY <1>4 DEF FileTypeOK, MappingInv, LenOf
  <2>3. ASSUME NEW h \in Goroutines PROVE CallOK(h)' /\ CoverOK(h)'
    <3>1. CallOK(h) /\ CoverOK(h)
      BY DEF CallInv, CoverInv
    <3>2. CallOK(h)'
      BY <1>4, <3>1 DEF ReturnError, CallOK, FileTypeOK, LenOf, InCall
    <3>3. CoverOK(h)'
      BY <1>4, <3>1 DEF ReturnError, CoverOK, FileTypeOK, LenOf
    <3> QED
      BY <3>2, <3>3
  <2> QED
    BY <2>1, <2>2, <2>3 DEF CallInv, CoverInv
<1> QED
  BY <1>2, <1>3, <1>4 DEF FirstMap

-----------------------------------------------------------------------------
\* An append makes the file longer and leaves the mapping as it is.
LEMMA AppendDataFileInv ==
    ASSUME FileInv, NEW g \in Goroutines, AppendData(g)
    PROVE  FileInv'
<1> USE FileNumbers DEF FileInv
<1>1. size' \in Nat /\ size <= size' /\ size' <= MaxAppends
  BY SMTT(30), FileAssumption DEF AppendData, FileTypeOK
<1>2. FileTypeOK'
  <2>1. size' \in 0 .. MaxAppends /\ 0 .. size \subseteq 0 .. size'
    BY FileAssumption, <1>1
  <2>2. /\ mmappedSize' \in 0 .. size'
        /\ want' \in [Goroutines -> 0 .. size']
        /\ stat' \in [Goroutines -> 0 .. size']
    BY <2>1 DEF AppendData, callVars, FileTypeOK
  <2> QED
    BY <2>1, <2>2 DEF AppendData, callVars, FileTypeOK
<1>3. MappingInv'
  BY <1>1 DEF AppendData, MappingInv, LenOf
<1>4. CallInv' /\ CoverInv'
  BY DEF AppendData, callVars, CallInv, CoverInv, CallOK, CoverOK, LenOf
<1> QED
  BY <1>2, <1>3, <1>4

\* What Forget leaves is no mapping, whether there was one or not.
LEMMA ForgetMapping ==
    ASSUME FileInv, Forget, UNCHANGED <<size, maps, failures>>
    PROVE  /\ closed' = closed => MappingInv'
           /\ ~ isMMapped' /\ mapped' = {}
           /\ mmappedSize' = LenOf(mmapData)' /\ (failures' = 0 => mmapData' = 0)
           /\ closes' \in 0 .. MaxCloses
           /\ isMMapped' \in BOOLEAN
           /\ mmapData' \in {0, mmapData}
           /\ mmappedSize' \in {0, mmappedSize}
<1> USE FileNumbers DEF FileInv
<1>1. closes' \in 0 .. MaxCloses
  BY FileAssumption DEF Forget, FileTypeOK
<1>2. /\ ~ isMMapped' /\ mapped' = {} /\ isMMapped' \in BOOLEAN
      /\ mmapData' \in {0, mmapData}
      /\ mmappedSize' \in {0, mmappedSize}
  BY MappedIsCurrent DEF Forget, FileTypeOK, MappingInv
<1>3. mmappedSize' = LenOf(mmapData)' /\ (failures = 0 => mmapData' = 0)
  BY MappedIsCurrent DEF Forget, MappingInv, LenOf
<1> QED
  BY <1>1, <1>2, <1>3 DEF MappingInv

\* ReleaseMmap meets no goroutine between its two looks at the size.
LEMMA ReleaseMmapFileInv ==
    ASSUME FileInv, ReleaseMmap
    PROVE  FileInv'
<1>1. UNCHANGED <<size, closed, maps, failures, callVars>> /\ Forget
  BY DEF ReleaseMmap
<1>2. /\ MappingInv' /\ mapped' = {} /\ closes' \in 0 .. MaxCloses
      /\ isMMapped' \in BOOLEAN
      /\ mmapData' \in {0, mmapData} /\ mmappedSize' \in {0, mmappedSize}
  BY <1>1, ForgetMapping DEF callVars
<1>3. FileTypeOK'
  BY <1>1, <1>2, FileNumbers DEF FileInv, FileTypeOK, callVars
<1>4. ASSUME NEW g \in Goroutines PROVE CallOK(g)' /\ CoverOK(g)'
  <2>1. CallOK(g) /\ CoverOK(g) /\ pc[g] \notin InCall
    BY DEF FileInv, ReleaseMmap, CallInv, CoverInv
  <2> QED
    BY <1>1, <2>1 DEF callVars, CallOK, CoverOK, LenOf, InCall
<1> QED
  BY <1>2, <1>3, <1>4 DEF FileInv, CallInv, CoverInv

\* Delete may meet one: then the file is closed.
LEMMA DeleteFileInv ==
    ASSUME FileInv, Delete
    PROVE  FileInv'
<1>1. UNCHANGED <<size, maps, failures, callVars>> /\ Forget /\ closed' = TRUE
  BY DEF Delete
<1>2. /\ ~ isMMapped' /\ mapped' = {} /\ closes' \in 0 .. MaxCloses
      /\ isMMapped' \in BOOLEAN /\ mmappedSize' = LenOf(mmapData)'
      /\ mmapData' \in {0, mmapData} /\ mmappedSize' \in {0, mmappedSize}
      /\ failures' = 0 => mmapData' = 0
  BY <1>1, ForgetMapping
<1>3. MappingInv'
  BY <1>1, <1>2 DEF FileInv, MappingInv
<1>4. FileTypeOK'
  BY SMTT(30), <1>1, <1>2, FileNumbers DEF FileInv, FileTypeOK, callVars
<1>5. ASSUME NEW g \in Goroutines PROVE CallOK(g)' /\ CoverOK(g)'
  <2>1. CallOK(g) /\ CoverOK(g)
    BY DEF FileInv, CallInv, CoverInv
  <2> QED
    BY <1>1, <1>2, <2>1 DEF callVars, CallOK, CoverOK, LenOf
<1> QED
  BY <1>3, <1>4, <1>5 DEF FileInv, CallInv, CoverInv

\* FileInv holds at first: nothing is mapped and nobody reads.
LEMMA InitFileInv == Init => FileInv
<1> SUFFICES ASSUME Init PROVE FileInv
  OBVIOUS
<1>1. maps \in Seq(1 .. MaxAppends) /\ DOMAIN maps = {}
  BY DEF Init
<1>2. FileTypeOK
  <2>1. /\ size \in 0 .. MaxAppends /\ mmappedSize \in 0 .. size
        /\ failures \in 0 .. MaxFailures /\ closes \in 0 .. MaxCloses
    BY FileAssumption DEF Init
  <2>2. /\ pc \in [Goroutines -> {"idle", "call", "short", "use"} \cup InCall]
        /\ calls \in [Goroutines -> 0 .. 2]
        /\ want \in [Goroutines -> 0 .. size]
        /\ stat \in [Goroutines -> 0 .. size]
        /\ slice \in [Goroutines -> {0} \cup DOMAIN maps]
    BY DEF Init
  <2>3. closed \in BOOLEAN /\ isMMapped \in BOOLEAN
    BY DEF Init
  <2> QED
    BY <1>1, <2>1, <2>2, <2>3 DEF Init, FileTypeOK
<1>3. MappingInv
  BY <1>1 DEF Init, MappingInv, LenOf
<1>4. CallInv /\ CoverInv
  BY DEF Init, CallInv, CoverInv, CallOK, CoverOK, InCall
<1> QED
  BY <1>2, <1>3, <1>4 DEF FileInv

\* Every step keeps FileInv.
LEMMA NextFileInv == FileInv /\ [Next]_vars => FileInv'
<1> SUFFICES ASSUME FileInv, [Next]_vars PROVE FileInv'
  OBVIOUS
<1>1. ASSUME NEW g \in Goroutines,
             \/ \E s \in 1 .. size, n \in {1, 2} : BeginRead(g, s, n)
             \/ Enter(g) \/ Use(g)
      PROVE  FileInv'
  BY <1>1, OutsideFileInv
<1>2. ASSUME NEW g \in Goroutines, CheckMapping(g) PROVE FileInv'
  BY <1>2, CheckMappingFileInv
<1>3. ASSUME NEW g \in Goroutines, Remap(g) PROVE FileInv'
  BY <1>3, RemapFileInv
<1>4. ASSUME NEW g \in Goroutines, FirstMap(g) PROVE FileInv'
  BY <1>4, FirstMapFileInv
<1>5. ASSUME NEW g \in Goroutines, AppendData(g) PROVE FileInv'
  BY <1>5, AppendDataFileInv
<1>6. CASE ReleaseMmap
  BY <1>6, ReleaseMmapFileInv
<1>7. CASE Delete
  BY <1>7, DeleteFileInv
<1>8. CASE UNCHANGED vars
  BY <1>8 DEF vars, fileVars, callVars, FileInv, FileTypeOK, MappingInv, CallInv, CoverInv,
              CallOK, CoverOK, LenOf
<1> QED
  BY <1>1, <1>2, <1>3, <1>4, <1>5, <1>6, <1>7, <1>8 DEF Next

\* The inductive invariant of the specification.
LEMMA SpecFileInv == Spec => []FileInv
<1>1. Init => FileInv
  BY InitFileInv
<1>2. FileInv /\ [Next]_vars => FileInv'
  BY NextFileInv
<1> QED
  BY <1>1, <1>2, PTL DEF Spec

-----------------------------------------------------------------------------
(***************************************************************************)
(* The properties.                                                         *)
(***************************************************************************)
\* Every field keeps its type: a recorded mapping is a mapping that was made, it never
\* reaches behind the end of the file, and the sizes that a goroutine works with have
\* been sizes of the file.
THEOREM FileTypes == Spec => []FileTypeOK
<1>1. FileInv => FileTypeOK
  BY DEF FileInv
<1> QED
  BY <1>1, SpecFileInv, PTL

\* However GetMmapData, ReleaseMmap and Delete overtake each other, at most the
\* mapping that mmapData names is in the address space.
THEOREM NoLeak == Spec => []NoMappingLeak
<1>1. FileInv => NoMappingLeak
  BY DEF FileInv, MappingInv, NoMappingLeak
<1> QED
  BY <1>1, SpecFileInv, PTL

\* Until mmap fails, no read of Get or Scan is turned away for a mapping that is too
\* short, for any number of goroutines and appends.
THEOREM CoversSegment == Spec => []MappingCoversSegment
<1>1. FileInv => MappingCoversSegment
  BY DEF FileInv, CoverInv, CoverOK, MappingCoversSegment
<1> QED
  BY <1>1, SpecFileInv, PTL

\* No step replaces a mapping by a shorter one.  The steps that set mmappedSize are
\* Remap, which has looked again, FirstMap, which finds no mapping, and Forget, which
\* leaves none.
THEOREM NeverShrinks == Spec => RemapNeverShrinks
<1>1. ASSUME FileInv, [Next]_vars, isMMapped, isMMapped'
      PROVE  mmappedSize' >= mmappedSize
  <2> USE <1>1, FileNumbers DEF FileInv
  <2>1. CASE UNCHANGED <<mmappedSize>>
    BY <2>1
  <2>2. ASSUME NEW g \in Goroutines, Remap(g) PROVE mmappedSize' >= mmappedSize
    BY <2>2 DEF Remap, MapFile, StillStale, UpToDate, fileVars, FileTypeOK
  <2>3. ASSUME NEW g \in Goroutines, FirstMap(g) PROVE UNCHANGED mmappedSize
    BY <2>3, MappedIsCurrent DEF FirstMap, FirstCheck, fileVars
  <2>4. ~ ReleaseMmap /\ ~ Delete
    BY ForgetMapping DEF ReleaseMmap, Delete
  <2> QED
    BY <2>1, <2>2, <2>3, <2>4
    DEF Next, vars, BeginRead, Enter, Use, CheckMapping, AppendData, fileVars
<1>2. FileInv /\ [Next]_vars
        => [isMMapped /\ isMMapped' => mmappedSize' >= mmappedSize]_vars
  BY <1>1
<1> QED
  BY <1>2, SpecFileInv, PTL DEF Spec, RemapNeverShrinks

\* Until mmap fails, what GetMmapData returns is in the address space when it returns:
\* the mapping just made, or the current one.  Remap never returns a mapping that is
\* gone: a goroutine that finds nothing mapped has seen a larger size than 0.
THEOREM LiveMappingReturned == Spec => ReturnsLiveMapping
<1>1. ASSUME FileInv, [Next]_vars, failures = 0, NEW g \in Goroutines,
             pc[g] \in InCall, pc'[g] = "use"
      PROVE  slice'[g] \in mapped'
  <2> USE <1>1, FileNumbers DEF FileInv
  <2>1. pc[g] \in {"enter", "remap", "first"} /\ CallOK(g) /\ calls[g] >= 1
    BY <1>1 DEF InCall, CallInv, CallOK
  <2>2. CASE CheckMapping(g)
    BY <2>1, <2>2, MappedIsCurrent
    DEF CheckMapping, Return, fileVars, FileTypeOK, MappingInv
  <2>3. CASE Remap(g)
    <3>1. ~ UpToDate(stat[g]) \/ isMMapped
      BY <2>1, <2>3 DEF Remap, UpToDate, MappingInv, CallOK, LenOf, FileTypeOK
    <3> QED
      BY <2>3, <3>1
      DEF Remap, Return, ReturnError, MapFile, StillStale, fileVars, FileTypeOK, MappingInv
  <2>4. CASE FirstMap(g)
    BY <2>4, MappedIsCurrent
    DEF FirstMap, FirstCheck, Return, ReturnError, MapFile, fileVars, FileTypeOK, MappingInv
  <2>5. ASSUME NEW h \in Goroutines, h # g,
               CheckMapping(h) \/ Remap(h) \/ FirstMap(h)
        PROVE  pc'[g] = pc[g]
    BY <2>5 DEF CheckMapping, Remap, FirstMap, Return, ReturnError, FileTypeOK
  <2>6. ASSUME NEW h \in Goroutines,
               \/ \E s \in 1 .. size, n \in {1, 2} : BeginRead(h, s, n)
               \/ Enter(h) \/ Use(h) \/ AppendData(h)
        PROVE  pc'[g] # "use"
    BY <2>1, <2>6 DEF BeginRead, Enter, Use, AppendData, callVars, FileTypeOK
  <2>7. ReleaseMmap \/ Delete \/ UNCHANGED vars => pc'[g] = pc[g]
    BY DEF ReleaseMmap, Delete, vars, callVars
  <2> QED
    BY <2>1, <2>2, <2>3, <2>4, <2>5, <2>6, <2>7 DEF Next
<1>2. FileInv /\ [Next]_vars
        => [\A g \in Goroutines :
              pc[g] \in InCall /\ pc'[g] = "use" => slice'[g] \in mapped' \/ failures > 0]_vars
  BY <1>1, FileNumbers DEF FileInv
<1> QED
  BY <1>2, SpecFileInv, PTL DEF Spec, ReturnsLiveMapping
=============================================================================
