----------------------------- MODULE Compaction -----------------------------
(***************************************************************************)
(* The compaction director, which plans, and the executor, which merges.   *)
(* A compactor is a goroutine that calls MaybePlan and then Execute: the   *)
(* background goroutine of main, and main itself at the end of some        *)
(* workloads.  Each step below is a stretch of one call between two places *)
(* where another goroutine can change the tracker or see a change.         *)
(*                                                                         *)
(* Source: internal/compaction/director.go and executor.go.  The decision  *)
(* of the FSM controller (internal/adaptive) is left open: at any call it  *)
(* may or may not ask for a switch of a segment's strategy.                *)
(***************************************************************************)
EXTENDS Tracker

CONSTANTS
    MaxInputs,    \* the director's limit on the inputs of one plan (50)
    MaxSwitches,  \* bound: strategy switches the FSM controller asks for
    Faults,       \* which calls may fail: "append" (WriteSegment's Append),
                  \* "mmap" (mapping the data file in Scan and Get), "log" (any
                  \* call of the write-ahead log, see Amethyst.tla)
    MaxFaults     \* bound: failures of "append" and "mmap"

ASSUME BoundAssumption ==
    MaxInputs \in Nat /\ MaxInputs > 1 /\ MaxSwitches \in Nat /\ MaxFaults \in Nat

ASSUME FaultAssumption == Faults \subseteq {"append", "mmap", "log"}

VARIABLES
    clock,         \* time.Now().Unix(), in seconds
    currentPolicy, \* the director's policy, shared by the compactors
    switches,      \* strategy switches so far
    faults,        \* failures so far
    panicked,      \* a nil dereference ended the process
    inCompaction,  \* segments whose InCompaction flag is set
    pc,            \* per compactor: where it is in MaybePlan and Execute
    todo,          \* per compactor: what its current loop still has to visit
    plan,          \* per compactor: the Plan
    merged,        \* per compactor: the merge map of Execute
    newSeg         \* per compactor: ID of the output, 0 for nil

compactionVars == <<clock, currentPolicy, switches, faults, panicked, inCompaction,
                    pc, todo, plan, merged, newSeg>>

Compactors == {"bg", "main"}

\* "nil": MaybePlan returned nil; "err", "ok": Execute returned.
Results == {"nil", "err", "ok"}

Executing == {"scan", "register", "mark"}

PC == {"idle", "decide", "leveled", "collect", "validate", "flag", "stopped"}
          \cup Executing \cup Results

Plan == [inputs : Seq(SegmentID), strategy : CompactionType, level : Nat]

NoPlan == [inputs |-> <<>>, strategy |-> TIERED, level |-> 0]

CompactionTypeOK ==
    /\ clock \in Nat
    /\ currentPolicy \in CompactionType
    /\ switches \in Nat
    /\ faults \in Nat
    /\ panicked \in BOOLEAN
    /\ inCompaction \subseteq SegmentID
    /\ pc \in [Compactors -> PC]
    /\ todo \in [Compactors -> Seq(SegmentID)]
    /\ plan \in [Compactors -> Plan]
    /\ merged \in [Compactors -> Table]
    /\ newSeg \in [Compactors -> {0} \cup SegmentID]

CompactionInit ==
    /\ clock = 0
    /\ currentPolicy = TIERED
    /\ switches = 0
    /\ faults = 0
    /\ panicked = FALSE
    /\ inCompaction = {}
    /\ pc = [c \in Compactors |-> "idle"]
    /\ todo = [c \in Compactors |-> <<>>]
    /\ plan = [c \in Compactors |-> NoPlan]
    /\ merged = [c \in Compactors |-> EmptyTable]
    /\ newSeg = [c \in Compactors |-> 0]

Goto(c, from, to) == pc[c] = from /\ pc' = [pc EXCEPT ![c] = to]

MayFail(call) == call \in Faults /\ faults < MaxFaults

Inputs(c) == ToSet(plan[c].inputs)

-----------------------------------------------------------------------------
(***************************************************************************)
(* The director.                                                           *)
(***************************************************************************)
\* The inputs of a merge around a target: the target, then its overlapping
\* segments in the order of a map iteration, up to the limit.
collectLimitedOverlaps(target) ==
    LET overlaps == GetOverlappingSegments(target)
        count    == IF Cardinality(overlaps) < MaxInputs THEN Cardinality(overlaps)
                                                         ELSE MaxInputs - 1
    IN  {<<target>> \o SubSeq(p, 1, count) : p \in SetToSeqs(overlaps)}

\* MaybePlan: the snapshot of the live segments.
MaybePlan(c) ==
    /\ pc[c] = "idle"
    /\ \E segments \in GetAllSegments :
        IF segments = <<>>
        THEN Goto(c, "idle", "nil") /\ UNCHANGED todo
        ELSE Goto(c, "idle", "decide") /\ todo' = [todo EXCEPT ![c] = segments]
    /\ UNCHANGED <<clock, currentPolicy, switches, faults, panicked, inCompaction,
                   plan, merged, newSeg>>
    /\ UNCHANGED trackerVars

\* Mutant of TargetLevel: a switch to leveled moves the output up.
TargetLevelMutant(seg, newStrategy) ==
    IF newStrategy = LEVELED THEN segs[seg].level - 1 ELSE segs[seg].level

\* The level a strategy switch of a segment writes to.
TargetLevel(seg, newStrategy) ==
    IF newStrategy = LEVELED THEN segs[seg].level + 1 ELSE segs[seg].level

\* ShouldRewrite answered yes for a segment of the snapshot: a switch to leveled
\* still has to collect its inputs, a switch to tiered rewrites the segment alone.
PlanSwitch(c) ==
    /\ pc[c] = "decide"
    /\ switches < MaxSwitches
    /\ switches' = switches + 1
    /\ \E seg \in ToSet(todo[c]) \ obsolete, newStrategy \in CompactionType :
        /\ newStrategy # segs[seg].strategy
        /\ currentPolicy' = newStrategy
        /\ \/ /\ newStrategy = LEVELED
              /\ Goto(c, "decide", "collect")
              /\ todo' = [todo EXCEPT ![c] = <<seg>>]
              /\ UNCHANGED plan
           \/ /\ newStrategy = TIERED
              /\ Goto(c, "decide", "validate")
              /\ todo' = [todo EXCEPT ![c] = <<>>]
              /\ plan' = [plan EXCEPT ![c] =
                     [inputs |-> <<seg>>, strategy |-> TIERED,
                      level |-> TargetLevel(seg, TIERED)]]
    /\ UNCHANGED <<clock, faults, panicked, inCompaction, merged, newSeg>>
    /\ UNCHANGED trackerVars

\* Two runs on one level whose sizes are within a factor of two of each other.
SimilarRuns(a, b) ==
    /\ segs[a].level = segs[b].level
    /\ Length(segs[a]) < 2 * Length(segs[b])
    /\ 2 * Length(segs[a]) > Length(segs[b])

\* The index pairs planTieredCompaction accepts.
TieredPairs(segments) ==
    {ij \in (DOMAIN segments) \X (DOMAIN segments) :
        /\ ij[1] < ij[2]
        /\ segments[ij[1]] \notin obsolete /\ segments[ij[2]] \notin obsolete
        /\ SimilarRuns(segments[ij[1]], segments[ij[2]])}

\* Its two nested loops stop at the first one.
planTieredCompaction(c) ==
    /\ currentPolicy = TIERED
    /\ Goto(c, "decide", "validate")
    /\ \E ij \in TieredPairs(todo[c]) :
        /\ \A xy \in TieredPairs(todo[c]) :
               ij[1] < xy[1] \/ (ij[1] = xy[1] /\ ij[2] <= xy[2])
        /\ plan' = [plan EXCEPT ![c] =
               [inputs |-> <<todo[c][ij[1]], todo[c][ij[2]]>>, strategy |-> TIERED,
                level |-> segs[todo[c][ij[1]]].level]]
    /\ todo' = [todo EXCEPT ![c] = <<>>]
    /\ UNCHANGED <<clock, currentPolicy, switches, faults, panicked, inCompaction,
                   merged, newSeg>>
    /\ UNCHANGED trackerVars

\* No tiered plan, or the leveled policy: on to the loop of planLeveledCompaction.
TryLeveled(c) ==
    /\ currentPolicy = TIERED => TieredPairs(todo[c]) = {}
    /\ Goto(c, "decide", "leveled")
    /\ UNCHANGED <<clock, currentPolicy, switches, faults, panicked, inCompaction,
                   todo, plan, merged, newSeg>>
    /\ UNCHANGED trackerVars

\* One turn of the loop: each segment asks the tracker for its overlaps.
planLeveledCompaction(c) ==
    /\ pc[c] = "leveled"
    /\ \/ /\ todo[c] = <<>>
          /\ Goto(c, "leveled", "nil")
          /\ UNCHANGED todo
       \/ /\ todo[c] # <<>>
          /\ Head(todo[c]) \in obsolete \/ GetOverlappingSegments(Head(todo[c])) = {}
          /\ todo' = [todo EXCEPT ![c] = Tail(@)]
          /\ UNCHANGED pc
       \/ /\ todo[c] # <<>>
          /\ Head(todo[c]) \notin obsolete
          /\ GetOverlappingSegments(Head(todo[c])) # {}
          /\ Goto(c, "leveled", "collect")
          /\ todo' = [todo EXCEPT ![c] = <<Head(@)>>]
    /\ UNCHANGED <<clock, currentPolicy, switches, faults, panicked, inCompaction,
                   plan, merged, newSeg>>
    /\ UNCHANGED trackerVars

\* The inputs of a leveled plan come from a query of their own: what the target
\* overlapped before may be retired by now, and then it is rewritten alone.
PlanLeveled(c) ==
    /\ Goto(c, "collect", "validate")
    /\ todo[c] # <<>>
    /\ \E inputs \in collectLimitedOverlaps(Head(todo[c])) :
        plan' = [plan EXCEPT ![c] =
            [inputs |-> inputs, strategy |-> LEVELED,
             level |-> TargetLevel(Head(todo[c]), LEVELED)]]
    /\ todo' = [todo EXCEPT ![c] = <<>>]
    /\ UNCHANGED <<clock, currentPolicy, switches, faults, panicked, inCompaction,
                   merged, newSeg>>
    /\ UNCHANGED trackerVars

-----------------------------------------------------------------------------
(***************************************************************************)
(* The executor.                                                           *)
(***************************************************************************)
\* Execute's first loop: every input must still be live.
Validate(c) ==
    /\ IF Inputs(c) \cap obsolete = {}
       THEN Goto(c, "validate", "flag") /\ UNCHANGED plan
       ELSE Goto(c, "validate", "err") /\ plan' = [plan EXCEPT ![c] = NoPlan]
    /\ UNCHANGED <<clock, currentPolicy, switches, faults, panicked, inCompaction,
                   todo, merged, newSeg>>
    /\ UNCHANGED trackerVars

SetInCompaction(c) ==
    /\ Goto(c, "flag", "scan")
    /\ inCompaction' = inCompaction \cup Inputs(c)
    /\ todo' = [todo EXCEPT ![c] = plan[c].inputs]
    /\ UNCHANGED <<clock, currentPolicy, switches, faults, panicked, plan, merged, newSeg>>
    /\ UNCHANGED trackerVars

\* Mutant of MergeInto: a tombstone removes what an earlier input contributed.
MergeIntoMutant(m, data) ==
    [k \in Keys |-> IF data[k] > 0 THEN data[k]
                    ELSE IF data[k] < 0 THEN Absent ELSE m[k]]

\* What one scanned input does to the merge map: a tombstone scans as nil and
\* is skipped, a value replaces what an earlier input put there.
MergeInto(m, data) == [k \in Keys |-> IF data[k] > 0 THEN data[k] ELSE m[k]]

\* Mutant of ScanSkips: the negation of InCompaction.Load() is missing.
ScanSkipsMutant(seg) == seg \in obsolete \/ seg \in inCompaction

\* The check before each scan.
ScanSkips(seg) == seg \in obsolete \/ seg \notin inCompaction

\* One turn of the merge loop: skip the input, scan it, or fail to scan it.
ScanInput(c) ==
    /\ Goto(c, "scan", "scan")
    /\ todo[c] # <<>>
    /\ todo' = [todo EXCEPT ![c] = Tail(@)]
    /\ \/ /\ ScanSkips(Head(todo[c]))
          /\ UNCHANGED <<merged, faults>>
       \/ /\ ~ ScanSkips(Head(todo[c]))
          /\ merged' = [merged EXCEPT ![c] = MergeInto(@, segs[Head(todo[c])].data)]
          /\ UNCHANGED faults
       \/ /\ ~ ScanSkips(Head(todo[c]))
          /\ MayFail("mmap")
          /\ faults' = faults + 1
          /\ UNCHANGED merged
    /\ UNCHANGED <<clock, currentPolicy, switches, panicked, inCompaction, plan, newSeg>>
    /\ UNCHANGED trackerVars

\* Mutant of ClearFlags: only the flag of the first input is cleared.
ClearFirstFlagMutant(c) == inCompaction \ {plan[c].inputs[1]}

\* Mutant of ClearFlags: every flag is cleared, another compactor's too.
ClearAllFlagsMutant(c) == {}

\* The function Execute defers: the flags that stay set.
ClearFlags(c) == inCompaction \ Inputs(c)

\* Execute is over: the deferred function has run, its locals are gone.
ReturnFrom(c) ==
    /\ inCompaction' = ClearFlags(c)
    /\ plan' = [plan EXCEPT ![c] = NoPlan]
    /\ merged' = [merged EXCEPT ![c] = EmptyTable]
    /\ newSeg' = [newSeg EXCEPT ![c] = 0]

\* WriteSegment of the merged entries: nothing to write, written, or failed.
WriteMerged(c) ==
    /\ pc[c] = "scan"
    /\ todo[c] = <<>>
    /\ \/ /\ merged[c] = EmptyTable
          /\ Goto(c, "scan", "mark")
          /\ todo' = [todo EXCEPT ![c] = plan[c].inputs]
          /\ UNCHANGED <<inCompaction, plan, merged, newSeg, faults>>
          /\ UNCHANGED trackerVars
       \/ /\ merged[c] # EmptyTable
          /\ Goto(c, "scan", "register")
          /\ AppendSegment(NewSegment(merged[c], plan[c].strategy, plan[c].level,
                                      clock, "compaction"))
          /\ newSeg' = [newSeg EXCEPT ![c] = Len(segs) + 1]
          /\ UNCHANGED <<inCompaction, plan, merged, todo, faults>>
       \/ /\ merged[c] # EmptyTable
          /\ MayFail("append")
          /\ faults' = faults + 1
          /\ Goto(c, "scan", "err")
          /\ ReturnFrom(c)
          /\ UNCHANGED todo
          /\ UNCHANGED trackerVars
    /\ UNCHANGED <<clock, currentPolicy, switches, panicked>>

RegisterOutput(c) ==
    /\ Goto(c, "register", "mark")
    /\ RegisterSegment(newSeg[c])
    /\ todo' = [todo EXCEPT ![c] = plan[c].inputs]
    /\ UNCHANGED <<clock, currentPolicy, switches, faults, panicked, inCompaction,
                   plan, merged, newSeg>>

\* One turn of the loop that retires the inputs.
MarkInput(c) ==
    /\ Goto(c, "mark", "mark")
    /\ todo[c] # <<>>
    /\ MarkObsolete(Head(todo[c]))
    /\ todo' = [todo EXCEPT ![c] = Tail(@)]
    /\ UNCHANGED <<clock, currentPolicy, switches, faults, panicked, inCompaction,
                   plan, merged, newSeg>>

\* The final log line dereferences newSeg, so an empty merge panics here.
ReturnOutput(c) ==
    /\ todo[c] = <<>>
    /\ Goto(c, "mark", "ok")
    /\ panicked' = (newSeg[c] = 0)
    /\ ReturnFrom(c)
    /\ UNCHANGED <<clock, currentPolicy, switches, faults, todo>>
    /\ UNCHANGED trackerVars

Compact(c) ==
    \/ PlanSwitch(c) \/ planTieredCompaction(c) \/ TryLeveled(c)
    \/ planLeveledCompaction(c) \/ PlanLeveled(c)
    \/ Validate(c) \/ SetInCompaction(c) \/ ScanInput(c) \/ WriteMerged(c)
    \/ RegisterOutput(c) \/ MarkInput(c) \/ ReturnOutput(c)
=============================================================================
