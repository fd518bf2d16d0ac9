------------------------------- MODULE Tracker ------------------------------
(***************************************************************************)
(* The metadata tracker: the registry of every segment ever written, which *)
(* of them are obsolete, and the queries the read path and the compaction  *)
(* director ask.                                                           *)
(*                                                                         *)
(* Source: internal/metadata/metadata.go.  Every method holds the tracker  *)
(* lock, so each is one step here.                                         *)
(***************************************************************************)
EXTENDS Segments

CONSTANT
    StableSort   \* TRUE: sort.Slice keeps the order of equal elements (its
                 \* insertion sort, up to 12 elements); FALSE: it may not

ASSUME SortAssumption == StableSort \in BOOLEAN

VARIABLES
    segs,        \* every segment appended to the data file; its ID is its place
    ordered,     \* IDs of the registered segments, last registered first
    obsolete     \* IDs of the segments marked obsolete

trackerVars == <<segs, ordered, obsolete>>

SegmentID == DOMAIN segs

Registered == ToSet(ordered)

Live == Registered \ obsolete

TrackerTypeOK ==
    /\ segs \in Seq(SegmentMeta)
    /\ ordered \in Seq(SegmentID)
    /\ obsolete \subseteq Registered

TrackerInit ==
    /\ segs = <<>>
    /\ ordered = <<>>
    /\ obsolete = {}

-----------------------------------------------------------------------------
\* Mutant of GetOverlappingSegments: obsolete segments are not left out.
GetOverlappingSegmentsMutant(target) ==
    {s \in Registered \ {target} : Overlap(segs[target], segs[s])}

\* The live segments other than the target whose key range meets the target's.
GetOverlappingSegments(target) ==
    {s \in Live \ {target} : Overlap(segs[target], segs[s])}

\* Mutant of SortsBefore: creation time up.
SortsBeforeMutant(a, b) ==
    \/ segs[a].level < segs[b].level
    \/ segs[a].level = segs[b].level /\ segs[a].created < segs[b].created

\* The comparison both queries sort with: level up, then creation time down.
SortsBefore(a, b) ==
    \/ segs[a].level < segs[b].level
    \/ segs[a].level = segs[b].level /\ segs[a].created > segs[b].created

Place(s) == CHOOSE i \in DOMAIN ordered : ordered[i] = s

\* Every order sort.Slice may leave the segments S in: no inversion, and for a
\* stable sort the ties in registration order, last registered first.
SortedOrders(S) ==
    {p \in SetToSeqs(S) :
        \A i, j \in DOMAIN p : i < j =>
            /\ ~ SortsBefore(p[j], p[i])
            /\ StableSort /\ ~ SortsBefore(p[i], p[j]) => Place(p[i]) < Place(p[j])}

GetAllSegments == SortedOrders(Live)

GetSegmentsForKey(key) == SortedOrders({s \in Live : InRange(segs[s], key)})

-----------------------------------------------------------------------------
\* WriteSegment's effect on the data file: the segment is appended and synced.
AppendSegment(seg) ==
    /\ segs' = Append(segs, seg)
    /\ UNCHANGED <<ordered, obsolete>>

\* Mutant of CountOverlaps: only the segments of its own level are counted.
CountOverlapsMutant(id) ==
    Cardinality({s \in Live : segs[s].level = segs[id].level /\ Overlap(segs[id], segs[s])})

CountOverlaps(id) == Cardinality({s \in Live : Overlap(segs[id], segs[s])})

RegisterSegment(id) ==
    /\ segs' = [segs EXCEPT ![id].overlapCount = CountOverlaps(id)]
    /\ ordered' = <<id>> \o ordered
    /\ UNCHANGED obsolete

MarkObsolete(id) ==
    /\ obsolete' = obsolete \cup {id}
    /\ UNCHANGED <<segs, ordered>>
=============================================================================
