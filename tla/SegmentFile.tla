----------------------------- MODULE SegmentFile ----------------------------
(***************************************************************************)
(* The data file and its memory mapping: goroutines append segments, and   *)
(* read them through a mapping that GetMmapData replaces by a larger one   *)
(* when the file has grown.                                                *)
(*                                                                         *)
(* Source: internal/segmentfile/segmentfile.go, with the calls that        *)
(* Reader.Get and Reader.Scan make into it.  What the code does under the  *)
(* read or the write lock is one step here; the steps between which another*)
(* goroutine can run are the gaps between two locked sections.             *)
(***************************************************************************)
EXTENDS Integers, FiniteSets, Sequences

CONSTANTS
    Goroutines,   \* the goroutines that use the file
    MaxAppends,   \* bound: segments appended
    MaxFailures,  \* bound: calls of mmap that fail
    MaxCloses     \* bound: calls of ReleaseMmap and Delete

ASSUME FileAssumption ==
    MaxAppends \in Nat /\ MaxFailures \in Nat /\ MaxCloses \in Nat

VARIABLES
    size,         \* length of the file; a segment has length 1 and ends at its number
    closed,       \* the file was closed and removed
    maps,         \* lengths of the mappings made so far
    mapped,       \* the mappings that are in the address space
    mmapData,     \* the current mapping, 0 for nil
    mmappedSize,
    isMMapped,
    failures,     \* mmap calls that failed
    closes,       \* calls of ReleaseMmap and Delete
    pc,           \* per goroutine: where it is
    calls,        \* per goroutine: calls of GetMmapData still to make
    want,         \* per goroutine: the segment it reads
    stat,         \* per goroutine: the file size it saw under the read lock
    slice         \* per goroutine: the mapping its last call returned, 0 for none

fileVars == <<size, closed, maps, mapped, mmapData, mmappedSize, isMMapped, failures, closes>>
callVars == <<pc, calls, want, stat, slice>>
vars == <<fileVars, callVars>>

\* The goroutines counted by activeReads are in these places.
InCall == {"enter", "remap", "first"}

FileTypeOK ==
    /\ size \in 0 .. MaxAppends
    /\ closed \in BOOLEAN
    /\ maps \in Seq(1 .. MaxAppends)
    /\ mapped \subseteq DOMAIN maps
    /\ mmapData \in {0} \cup DOMAIN maps
    /\ mmappedSize \in 0 .. size
    /\ isMMapped \in BOOLEAN
    /\ failures \in 0 .. MaxFailures
    /\ closes \in 0 .. MaxCloses
    /\ pc \in [Goroutines -> {"idle", "call", "short", "use"} \cup InCall]
    /\ calls \in [Goroutines -> 0 .. 2]
    /\ want \in [Goroutines -> 0 .. size]
    /\ stat \in [Goroutines -> 0 .. size]
    /\ slice \in [Goroutines -> {0} \cup DOMAIN maps]

Init ==
    /\ size = 0
    /\ closed = FALSE
    /\ maps = <<>>
    /\ mapped = {}
    /\ mmapData = 0
    /\ mmappedSize = 0
    /\ isMMapped = FALSE
    /\ failures = 0
    /\ closes = 0
    /\ pc = [g \in Goroutines |-> "idle"]
    /\ calls = [g \in Goroutines |-> 0]
    /\ want = [g \in Goroutines |-> 0]
    /\ stat = [g \in Goroutines |-> 0]
    /\ slice = [g \in Goroutines |-> 0]

LenOf(m) == IF m = 0 THEN 0 ELSE maps[m]

-----------------------------------------------------------------------------
(***************************************************************************)
(* The readers.                                                            *)
(***************************************************************************)
\* Reader.Get calls GetMmapData once, Reader.Scan twice.
BeginRead(g, s, n) ==
    /\ pc[g] = "idle"
    /\ pc' = [pc EXCEPT ![g] = "call"]
    /\ calls' = [calls EXCEPT ![g] = n]
    /\ want' = [want EXCEPT ![g] = s]
    /\ slice' = [slice EXCEPT ![g] = 0]
    /\ UNCHANGED <<stat, fileVars>>

Enter(g) ==
    /\ pc[g] = "call"
    /\ pc' = [pc EXCEPT ![g] = "enter"]
    /\ UNCHANGED <<calls, want, stat, slice, fileVars>>

\* GetMmapData has returned mapping m of the given length.  The readers turn a
\* segment away that ends behind it, and Scan a mapping shorter than its first.
Return(g, m, length) ==
    /\ slice' = [slice EXCEPT ![g] = m]
    /\ calls' = [calls EXCEPT ![g] = @ - 1]
    /\ pc' = [pc EXCEPT ![g] =
                 IF length < want[g] \/ length < LenOf(slice[g]) THEN "short"
                 ELSE IF calls[g] = 2 THEN "call" ELSE "use"]
    /\ UNCHANGED <<want, stat>>

\* GetMmapData has returned an error: Get misses, Scan fails.
ReturnError(g) ==
    /\ pc' = [pc EXCEPT ![g] = "idle"]
    /\ UNCHANGED <<calls, want, stat, slice>>

\* Get parses the entries in the mapping itself, Scan copies them out of it; both
\* without a lock.
Use(g) ==
    /\ pc[g] \in {"use", "short"}
    /\ pc' = [pc EXCEPT ![g] = "idle"]
    /\ UNCHANGED <<calls, want, stat, slice, fileVars>>

-----------------------------------------------------------------------------
(***************************************************************************)
(* GetMmapData.                                                            *)
(***************************************************************************)
AlreadyMapped == isMMapped /\ mmapData # 0

\* Mutant of UpToDate: MAP_SHARED is trusted to show what was appended.
UpToDateMutant(n) == TRUE

\* A file of length n does not reach beyond the mapping.
UpToDate(n) == n <= mmappedSize

\* Mutant of MapFile: what is unmapped is the mapping just made.
MapFileMutant(n, kept) ==
    /\ maps' = Append(maps, n)
    /\ mmapData' = Len(maps) + 1
    /\ UNCHANGED mapped
    /\ mmappedSize' = n
    /\ isMMapped' = TRUE

\* Mutant of MapFile: the length is rounded up to a whole page.
MapFileRoundedMutant(n, kept) ==
    /\ maps' = Append(maps, n)
    /\ mmapData' = Len(maps) + 1
    /\ mapped' = kept \cup {Len(maps) + 1}
    /\ mmappedSize' = n + (n % 2)
    /\ isMMapped' = TRUE

\* A new mapping of length n beside the ones that are kept.
MapFile(n, kept) ==
    /\ maps' = Append(maps, n)
    /\ mmapData' = Len(maps) + 1
    /\ mapped' = kept \cup {Len(maps) + 1}
    /\ mmappedSize' = n
    /\ isMMapped' = TRUE

\* The section under the read lock.
CheckMapping(g) ==
    /\ pc[g] = "enter"
    /\ \/ /\ AlreadyMapped /\ UpToDate(size)
          /\ Return(g, mmapData, LenOf(mmapData))
       \/ /\ AlreadyMapped /\ ~ UpToDate(size)
          /\ pc' = [pc EXCEPT ![g] = "remap"]
          /\ stat' = [stat EXCEPT ![g] = size]
          /\ UNCHANGED <<calls, want, slice>>
       \/ /\ ~ AlreadyMapped
          /\ pc' = [pc EXCEPT ![g] = "first"]
          /\ UNCHANGED <<calls, want, stat, slice>>
    /\ UNCHANGED fileVars

\* Mutant of StillStale: no second look under the write lock.
StillStaleMutant(g) == TRUE

\* The second look under the write lock, with the size seen under the read lock.
StillStale(g) == ~ UpToDate(stat[g])

\* The section under the write lock for a file that has grown.
Remap(g) ==
    /\ pc[g] = "remap"
    /\ \/ /\ ~ StillStale(g)
          /\ Return(g, mmapData, LenOf(mmapData))
          /\ UNCHANGED fileVars
       \/ /\ StillStale(g) /\ ~ closed
          /\ MapFile(stat[g], mapped \ {mmapData})
          /\ Return(g, Len(maps) + 1, stat[g])
          /\ UNCHANGED <<size, closed, failures, closes>>
       \/ /\ StillStale(g)
          /\ \/ closed /\ UNCHANGED failures
             \/ failures < MaxFailures /\ failures' = failures + 1
          /\ mapped' = mapped \ {mmapData}
          /\ isMMapped' = FALSE
          /\ ReturnError(g)
          /\ UNCHANGED <<size, closed, maps, mmapData, mmappedSize, closes>>

\* Mutant of FirstCheck: no second look under the write lock.
FirstCheckMutant == FALSE

FirstCheck == AlreadyMapped

\* The section under the write lock for a file that is not mapped.  The file is
\* not empty: it holds the segment that is read.
FirstMap(g) ==
    /\ pc[g] = "first"
    /\ \/ /\ FirstCheck
          /\ Return(g, mmapData, LenOf(mmapData))
          /\ UNCHANGED fileVars
       \/ /\ ~ FirstCheck /\ ~ closed
          /\ MapFile(size, mapped)
          /\ Return(g, Len(maps) + 1, size)
          /\ UNCHANGED <<size, closed, failures, closes>>
       \/ /\ ~ FirstCheck
          /\ \/ closed /\ UNCHANGED failures
             \/ failures < MaxFailures /\ failures' = failures + 1
          /\ ReturnError(g)
          /\ UNCHANGED <<size, closed, maps, mapped, mmapData, mmappedSize, isMMapped, closes>>

-----------------------------------------------------------------------------
(***************************************************************************)
(* The writers of the file and of the mapping.                             *)
(***************************************************************************)
\* Append, under the write lock; the mapping stays as it is.
AppendData(g) ==
    /\ pc[g] = "idle"
    /\ \/ /\ ~ closed
          /\ size < MaxAppends
          /\ size' = size + 1
       \/ closed /\ UNCHANGED size
    /\ UNCHANGED <<closed, maps, mapped, mmapData, mmappedSize, isMMapped, failures, closes>>
    /\ UNCHANGED callVars

\* The mapping is removed and forgotten.
Forget ==
    /\ closes < MaxCloses
    /\ closes' = closes + 1
    /\ mapped' = IF AlreadyMapped THEN mapped \ {mmapData} ELSE mapped
    /\ isMMapped' = IF AlreadyMapped THEN FALSE ELSE isMMapped
    /\ mmapData' = IF AlreadyMapped THEN 0 ELSE mmapData
    /\ mmappedSize' = IF AlreadyMapped THEN 0 ELSE mmappedSize

\* ReleaseMmap waits until nobody is inside GetMmapData.
ReleaseMmap ==
    /\ \A g \in Goroutines : pc[g] \notin InCall
    /\ Forget
    /\ UNCHANGED <<size, closed, maps, failures>>
    /\ UNCHANGED callVars

\* Delete does not wait; it also closes and removes the file.
Delete ==
    /\ ~ closed
    /\ Forget
    /\ closed' = TRUE
    /\ UNCHANGED <<size, maps, failures>>
    /\ UNCHANGED callVars

Next ==
    \/ \E g \in Goroutines :
        \/ \E s \in 1 .. size, n \in {1, 2} : BeginRead(g, s, n)
        \/ Enter(g) \/ CheckMapping(g) \/ Remap(g) \/ FirstMap(g) \/ Use(g) \/ AppendData(g)
    \/ ReleaseMmap
    \/ Delete

Spec == Init /\ [][Next]_vars

-----------------------------------------------------------------------------
(***************************************************************************)
(* Properties.                                                             *)
(***************************************************************************)
\* Until a call of mmap fails, the bounds checks of Get and Scan never turn a segment
\* of the file away, and "file shrank during scan" is never reported: whatever the
\* two looks at the size saw, the mapping that GetMmapData returns reaches to the end
\* of every segment that was appended before the call.  After a failure the second
\* look of the first mapping, which does not compare sizes, may return a mapping that
\* another goroutine made with an older size.
MappingCoversSegment == failures = 0 => \A g \in Goroutines : pc[g] # "short"

\* Mappings do not leak: at most the current one is in the address space, however
\* the goroutines that map and remap the file overtake each other.
NoMappingLeak == mapped \subseteq {mmapData}

\* A remap never replaces a mapping by a shorter one, though it works with a file
\* size that was read before the write lock was taken.
RemapNeverShrinks ==
    [][isMMapped /\ isMMapped' => mmappedSize' >= mmappedSize]_vars

\* GetMmapData returns a mapping that is in the address space, unless a call of mmap
\* has failed before: after a failed remap mmapData still names the mapping that was
\* removed.  A file that is deleted meanwhile is no exception.
ReturnsLiveMapping ==
    [][\A g \in Goroutines :
        pc[g] \in InCall /\ pc'[g] = "use" =>
            slice'[g] \in mapped' \/ failures > 0]_vars

\* "now safe to copy using the new map": the mapping a reader uses is in the address
\* space (reader.go).
UsesLiveMapping == \A g \in Goroutines : pc[g] = "use" => slice[g] \in mapped

\* The same promise for the moment at which GetMmapData returns, whatever has failed.
ReturnsMapped ==
    [][\A g \in Goroutines :
        pc[g] \in InCall /\ pc'[g] = "use" => slice'[g] \in mapped']_vars
=============================================================================
