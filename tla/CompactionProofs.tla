-------------------------- MODULE CompactionProofs --------------------------
(***************************************************************************)
(* More about the running program of Amethyst.tla, for all values of the   *)
(* constants: what the background goroutine may rely on while it is the    *)
(* only compactor, what a lookup that compaction overtakes has seen, in    *)
(* which order flushed segments are read, what OverlapCount bounds, and    *)
(* that the program implements the abstract store of VersionStore.tla.     *)
(***************************************************************************)
EXTENDS AmethystProofs, Induction

-----------------------------------------------------------------------------
(***************************************************************************)
(* A merge makes nothing up.                                               *)
(***************************************************************************)
\* Execute's loops work through the inputs of its plan.
TodoFromPlan ==
    \A c \in Compactors : pc[c] \in Executing => ToSet(todo[c]) \subseteq Inputs(c)

\* The merge map holds values only, each of them an input's.
MergeFrom ==
    \A c \in Compactors, k \in Keys : merged[c][k] # Absent =>
        /\ merged[c][k] > 0
        /\ pc[c] \in Executing
        /\ \E s \in Inputs(c) : segs[s].data[k] = merged[c][k]

MergeInv == TodoFromPlan /\ MergeFrom

\* A compactor that keeps its hands still keeps its merge.
LEMMA StillMergeInv ==
    ASSUME TypeInv, MergeInv, DataKept, NEW c \in Compactors, merged'[c] = merged[c],
           \/ pc'[c] = pc[c] /\ todo'[c] = todo[c] /\ plan'[c] = plan[c]
           \/ pc[c] \notin Executing /\ pc'[c] \notin Executing
    PROVE  /\ pc'[c] \in Executing => ToSet(todo'[c]) \subseteq Inputs(c)'
           /\ \A k \in Keys : merged'[c][k] # Absent =>
                  /\ merged'[c][k] > 0
                  /\ pc'[c] \in Executing
                  /\ \E s \in Inputs(c)' : segs'[s].data[k] = merged'[c][k]
<1>1. CASE pc'[c] = pc[c] /\ todo'[c] = todo[c] /\ plan'[c] = plan[c]
  <2>1. Inputs(c)' = Inputs(c) /\ Inputs(c) \subseteq SegmentID
    BY <1>1, RegisteredType DEF Inputs, TypeInv, TypeOK, InputsRegistered
  <2> QED
    BY <1>1, <2>1 DEF MergeInv, TodoFromPlan, MergeFrom, DataKept
<1>2. CASE pc[c] \notin Executing /\ pc'[c] \notin Executing
  BY <1>2 DEF MergeInv, MergeFrom
<1> QED
  BY <1>1, <1>2

\* Scanning puts the values of one of the inputs into the merge map.
LEMMA ScanMergeInv ==
    ASSUME TypeInv, MergeInv, NEW c \in Compactors, ScanInput(c)
    PROVE  /\ ToSet(todo'[c]) \subseteq Inputs(c)'
           /\ \A k \in Keys : merged'[c][k] # Absent =>
                  /\ merged'[c][k] > 0
                  /\ pc'[c] \in Executing
                  /\ \E s \in Inputs(c)' : segs'[s].data[k] = merged'[c][k]
<1> USE DEF TypeInv, TypeOK, CompactionTypeOK, Goto
<1>0. PICK h : h = Head(todo[c])
  OBVIOUS
<1>1. /\ pc[c] = "scan" /\ pc'[c] = "scan" /\ plan' = plan /\ segs' = segs
      /\ todo[c] # <<>> /\ todo' = [todo EXCEPT ![c] = Tail(@)]
      /\ \/ merged' = merged
         \/ merged' = [merged EXCEPT ![c] = MergeInto(@, segs[h].data)]
  BY <1>0 DEF ScanInput, trackerVars
<1>2. /\ ToSet(todo[c]) \subseteq Inputs(c) /\ h \in SegmentID
      /\ ToSet(todo[c]) = {h} \cup ToSet(todo'[c])
  BY <1>0, <1>1, TodoTail DEF MergeInv, TodoFromPlan, Executing
<1>3. Inputs(c)' = Inputs(c)
  BY <1>1 DEF Inputs
<1>4. ASSUME NEW k \in Keys
      PROVE  \/ merged'[c][k] = merged[c][k]
             \/ merged'[c][k] = segs[h].data[k] /\ segs[h].data[k] > 0
  BY <1>1 DEF MergeInto
<1>5. ASSUME NEW k \in Keys, merged'[c][k] # Absent
      PROVE  /\ merged'[c][k] > 0
             /\ \E s \in Inputs(c) : segs[s].data[k] = merged'[c][k]
  <2>1. CASE merged'[c][k] = merged[c][k]
    BY <1>5, <2>1 DEF MergeInv, MergeFrom
  <2>2. CASE merged'[c][k] = segs[h].data[k] /\ segs[h].data[k] > 0
    BY <1>2, <2>2
  <2> QED
    BY <1>4, <2>1, <2>2
<1> QED
  BY <1>1, <1>2, <1>3, <1>5 DEF Executing

\* Every step of Execute keeps the merge honest; on return it is forgotten.
LEMMA ExecuteMergeInv ==
    ASSUME TypeInv, MergeInv, NEW c \in Compactors, ExecuteStep(c)
    PROVE  MergeInv'
<1> USE DEF TypeInv, TypeOK, CompactionTypeOK, Goto
<1>1. DataKept
  BY ExecuteDataKept
<1> SUFFICES ASSUME NEW d \in Compactors
             PROVE  /\ pc'[d] \in Executing => ToSet(todo'[d]) \subseteq Inputs(d)'
                    /\ \A k \in Keys : merged'[d][k] # Absent =>
                           /\ merged'[d][k] > 0
                           /\ pc'[d] \in Executing
                           /\ \E s \in Inputs(d)' : segs'[s].data[k] = merged'[d][k]
  BY DEF MergeInv, TodoFromPlan, MergeFrom
<1>2. CASE d # c
  BY <1>1, <1>2, ExecuteKeeps, StillMergeInv DEF Keeps
<1>3. CASE d = c /\ ScanInput(c)
  BY <1>3, ScanMergeInv
<1>4. CASE d = c /\ (ReturnOutput(c) \/ (WriteMerged(c) /\ pc'[c] = "err"))
  <2>1. merged'[c] = EmptyTable /\ pc'[c] \notin Executing
    BY <1>4 DEF ReturnOutput, WriteMerged, ReturnFrom, Executing
  <2> QED
    BY <1>4, <2>1 DEF EmptyTable
<1>5. CASE d = c /\ (SetInCompaction(c) \/ RegisterOutput(c) \/ MarkInput(c)
                       \/ (WriteMerged(c) /\ pc'[c] # "err"))
  <2>1. plan' = plan /\ merged' = merged /\ pc'[c] \in Executing
    BY <1>5 DEF SetInCompaction, RegisterOutput, MarkInput, WriteMerged, Executing
  <2>2. Inputs(c)' = Inputs(c) /\ Inputs(c) \subseteq SegmentID
    BY <2>1, RegisteredType DEF Inputs, InputsRegistered
  <2>3. \/ todo'[c] = plan[c].inputs
        \/ pc[c] = "scan" /\ todo'[c] = todo[c]
        \/ pc[c] = "mark" /\ ToSet(todo'[c]) \subseteq ToSet(todo[c])
    <3>1. CASE MarkInput(c)
      BY <3>1, TodoTail DEF MarkInput
    <3>2. CASE SetInCompaction(c) \/ RegisterOutput(c) \/ WriteMerged(c)
      BY <1>5, <3>2 DEF SetInCompaction, RegisterOutput, WriteMerged
    <3> QED
      BY <1>5, <3>1, <3>2
  <2>4. ToSet(todo'[c]) \subseteq Inputs(c)
    BY <2>3 DEF Inputs, MergeInv, TodoFromPlan, Executing
  <2>5. \A k \in Keys : merged[c][k] # Absent =>
            merged[c][k] > 0 /\ \E s \in Inputs(c) : segs'[s].data[k] = merged[c][k]
    BY <1>1, <2>2 DEF MergeInv, MergeFrom, DataKept
  <2> QED
    BY <1>5, <2>1, <2>2, <2>4, <2>5
<1> QED
  BY <1>2, <1>3, <1>4, <1>5 DEF ExecuteStep

\* Whatever fails and whoever compacts, a merge holds only values of its inputs.
LEMMA MergeInvariance == Spec => []MergeInv
<1>1. Init => MergeInv
  BY DEF Init, CompactionInit, MergeInv, TodoFromPlan, MergeFrom, EmptyTable, Executing
<1>2. TypeInv /\ MergeInv /\ [Next]_vars => MergeInv'
  <2> SUFFICES ASSUME TypeInv, MergeInv, [Next]_vars
               PROVE  MergeInv'
    OBVIOUS
  <2>1. CASE \E c \in Compactors : ExecuteStep(c)
    BY <2>1, ExecuteMergeInv
  <2>2. CASE ~ \E c \in Compactors : ExecuteStep(c)
    <3>1. Quiet /\ DataKept
      BY <2>2, QuietDataKept
    <3> QED
      BY <3>1, StillMergeInv DEF Quiet, Keeps, MergeInv, TodoFromPlan, MergeFrom
  <2> QED
    BY <2>1, <2>2
<1> QED
  BY <1>1, <1>2, TypeInvariance, PTL DEF Spec

-----------------------------------------------------------------------------
(***************************************************************************)
(* A sole compactor's plans do not go stale.                               *)
(***************************************************************************)
\* What the background goroutine has picked is live until Execute retires it, and
\* nobody retires what Execute has just registered.
PlanKept ==
    /\ pc["bg"] \in {"decide", "leveled", "collect"} => ToSet(todo["bg"]) \cap obsolete = {}
    /\ pc["bg"] \in {"validate", "flag", "scan", "register"} => Inputs("bg") \cap obsolete = {}
    /\ pc["bg"] \in {"scan", "register"} => Inputs("bg") \subseteq inCompaction
    /\ pc["bg"] = "mark" => newSeg["bg"] \notin obsolete

\* A step of main's or of time that leaves the compactors and retirements alone.
LEMMA ElsewherePlanKept ==
    ASSUME PlanKept, UNCHANGED <<obsolete, inCompaction, pc, todo, plan, newSeg>>
    PROVE  PlanKept'
  BY DEF PlanKept, Inputs

\* The director picks live segments: from its snapshot, or by a query of its own.
LEMMA DirectorPlanKept ==
    ASSUME TypeInv, PlanKept, Compact("bg"), ~ ExecuteStep("bg")
    PROVE  PlanKept'
<1> USE DEF TypeInv, TypeOK, CompactionTypeOK, Goto, Compactors
<1>1. UNCHANGED <<obsolete, inCompaction, newSeg>>
  BY DirectorQuiet DEF Quiet
<1>2. CASE PlanSwitch("bg")
  <2>1. pc["bg"] = "decide" /\ ToSet(todo["bg"]) \cap obsolete = {}
    BY <1>2 DEF PlanSwitch, PlanKept
  <2>2. PICK seg \in ToSet(todo["bg"]) \ obsolete :
            \/ pc'["bg"] = "collect" /\ todo'["bg"] = <<seg>>
            \/ pc'["bg"] = "validate" /\ plan'["bg"].inputs = <<seg>>
    BY <1>2 DEF PlanSwitch
  <2>3. ToSet(<<seg>>) = {seg}
    BY DEF ToSet
  <2> QED
    BY <1>1, <2>2, <2>3 DEF PlanKept, Inputs
<1>3. CASE planTieredCompaction("bg")
  <2>1. PICK ij \in TieredPairs(todo["bg"]) :
            plan'["bg"].inputs = <<todo["bg"][ij[1]], todo["bg"][ij[2]]>>
    BY <1>3 DEF planTieredCompaction
  <2>2. todo["bg"][ij[1]] \notin obsolete /\ todo["bg"][ij[2]] \notin obsolete
    BY DEF TieredPairs
  <2>3. ToSet(plan'["bg"].inputs) = {todo["bg"][ij[1]], todo["bg"][ij[2]]}
    BY <2>1 DEF ToSet
  <2>4. pc'["bg"] = "validate"
    BY <1>3 DEF planTieredCompaction
  <2> QED
    BY <1>1, <2>2, <2>3, <2>4 DEF PlanKept, Inputs
<1>4. CASE TryLeveled("bg")
  BY <1>1, <1>4 DEF TryLeveled, PlanKept
<1>5. CASE planLeveledCompaction("bg")
  <2>1. pc["bg"] = "leveled" /\ ToSet(todo["bg"]) \cap obsolete = {}
    BY <1>5 DEF planLeveledCompaction, PlanKept
  <2>2. \/ pc'["bg"] = "nil"
        \/ todo["bg"] # <<>> /\ pc'["bg"] = "leveled" /\ todo'["bg"] = Tail(todo["bg"])
        \/ todo["bg"] # <<>> /\ pc'["bg"] = "collect" /\ todo'["bg"] = <<Head(todo["bg"])>>
    BY <1>5, <2>1 DEF planLeveledCompaction
  <2>3. todo["bg"] # <<>> =>
            ToSet(todo["bg"]) = {Head(todo["bg"])} \cup ToSet(Tail(todo["bg"]))
    BY HeadTail
  <2>4. ToSet(<<Head(todo["bg"])>>) = {Head(todo["bg"])}
    BY DEF ToSet
  <2> QED
    BY <1>1, <2>1, <2>2, <2>3, <2>4 DEF PlanKept
<1>6. CASE PlanLeveled("bg")
  <2>1. /\ pc["bg"] = "collect" /\ pc'["bg"] = "validate" /\ todo["bg"] # <<>>
        /\ ToSet(todo["bg"]) \cap obsolete = {}
    BY <1>6 DEF PlanLeveled, PlanKept
  <2>2. PICK h : h = Head(todo["bg"])
    OBVIOUS
  <2>3. h \in Live
    BY <2>1, <2>2, HeadTail DEF InputsRegistered, Live
  <2>4. PICK inputs \in collectLimitedOverlaps(h) : plan'["bg"].inputs = inputs
    BY <1>6, <2>2 DEF PlanLeveled
  <2>5. ToSet(inputs) \subseteq Live
    BY <2>3, CollectType DEF Live
  <2> QED
    BY <1>1, <2>1, <2>4, <2>5 DEF PlanKept, Inputs, Live
<1>7. CASE Validate("bg")
  BY <1>1, <1>7, NoPlanType DEF Validate, PlanKept, Inputs
<1> QED
  BY <1>2, <1>3, <1>4, <1>5, <1>6, <1>7 DEF Compact, ExecuteStep

\* Execute retires its inputs only after it has merged and registered.
LEMMA ExecutePlanKept ==
    ASSUME TypeInv, MergeInv, OutputInv, PlanKept, ExecuteStep("bg")
    PROVE  PlanKept'
<1> USE DEF TypeInv, TypeOK, CompactionTypeOK, Goto, Compactors
<1>1. CASE SetInCompaction("bg")
  BY <1>1 DEF SetInCompaction, PlanKept, Inputs, trackerVars
<1>2. CASE ScanInput("bg")
  BY <1>2 DEF ScanInput, PlanKept, Inputs, trackerVars
<1>3. CASE WriteMerged("bg")
  <2>1. pc["bg"] = "scan" /\ newSeg["bg"] = 0 /\ obsolete' = obsolete
    BY <1>3 DEF WriteMerged, OutputInv, OutputHolds, trackerVars, AppendSegment
  <2>2. 0 \notin obsolete
    BY RegisteredType DEF TrackerTypeOK, SegmentID
  <2>3. \/ /\ pc'["bg"] = "mark" /\ todo'["bg"] = plan["bg"].inputs
           /\ UNCHANGED <<plan, newSeg>>
        \/ pc'["bg"] = "register" /\ UNCHANGED <<plan, inCompaction>>
        \/ pc'["bg"] = "err"
    BY <1>3 DEF WriteMerged
  <2> QED
    BY <2>1, <2>2, <2>3 DEF PlanKept, Inputs
<1>4. CASE RegisterOutput("bg")
  <2>1. newSeg["bg"] \notin Registered
    BY <1>4 DEF RegisterOutput, OutputInv, OutputHolds
  <2>2. /\ obsolete' = obsolete /\ pc'["bg"] = "mark" /\ todo'["bg"] = plan["bg"].inputs
        /\ UNCHANGED <<plan, newSeg>>
    BY <1>4 DEF RegisterOutput, RegisterSegment
  <2> QED
    BY <2>1, <2>2 DEF PlanKept, Inputs, TrackerTypeOK
<1>5. CASE MarkInput("bg")
  <2>0. PICK h : h = Head(todo["bg"])
    OBVIOUS
  <2>1. /\ pc["bg"] = "mark" /\ pc'["bg"] = "mark" /\ obsolete' = obsolete \cup {h}
        /\ todo["bg"] # <<>> /\ todo' = [todo EXCEPT !["bg"] = Tail(@)]
        /\ UNCHANGED <<plan, newSeg>>
    BY <1>5, <2>0 DEF MarkInput, MarkObsolete
  <2>2. h \in SegmentID /\ ToSet(todo["bg"]) = {h} \cup ToSet(todo'["bg"])
    BY <2>0, <2>1, TodoTail
  <2>3. h # newSeg["bg"]
    <3>1. h \in Inputs("bg") /\ h \in Int /\ h # 0
      BY <2>1, <2>2 DEF MergeInv, TodoFromPlan, Executing, SegmentID, TrackerTypeOK
    <3>2. newSeg["bg"] # 0 => h < newSeg["bg"]
      BY <2>1, <3>1 DEF OutputInv, OutputHolds
    <3> QED
      BY <3>1, <3>2
  <2> QED
    BY <2>1, <2>2, <2>3 DEF PlanKept, Inputs
<1>6. CASE ReturnOutput("bg")
  BY <1>6 DEF ReturnOutput, PlanKept
<1> QED
  BY <1>1, <1>2, <1>3, <1>4, <1>5, <1>6 DEF ExecuteStep

\* Nothing else touches what the background goroutine has picked.
LEMMA NextPlanKept ==
    ASSUME TypeInv, MergeInv, OutputInv, MainNeverCompacts, PlanKept, [Next]_vars
    PROVE  PlanKept'
<1> USE DEF TypeInv, TypeOK, CompactionTypeOK, Goto, Compactors
<1>1. CASE Compact("bg")
  BY <1>1, DirectorPlanKept, ExecutePlanKept
<1>2. CASE BackgroundTick
  <2>1. PICK segments \in GetAllSegments :
            \/ pc'["bg"] = "nil"
            \/ pc'["bg"] = "decide" /\ todo'["bg"] = segments
    BY <1>2 DEF BackgroundTick, MaybePlan
  <2>2. ToSet(segments) \subseteq Live
    BY SortedOrdersType DEF GetAllSegments, Live
  <2> QED
    BY <1>2, <2>1, <2>2, CallsQuiet DEF PlanKept, Quiet, Live
<1>3. CASE BackgroundResult
  BY <1>3 DEF BackgroundResult, PlanKept
<1>4. CASE BackgroundStop
  BY <1>4 DEF BackgroundStop, PlanKept
<1>5. CASE Second \/ UNCHANGED vars
  BY <1>5, ElsewherePlanKept DEF Second, vars, compactionVars, trackerVars
<1>6. CASE LocalStep
  BY <1>6, ElsewherePlanKept
  DEF LocalStep, Populate, Put, Delete, WriteEntry, ReadStart, FlushTruncate, NextPhase,
      FinalFlush, ReadSegment, ReadReturn, MainDone, compactionVars, trackerVars
<1>7. CASE FlushWrite \/ FlushRegister
  BY <1>7, ElsewherePlanKept
  DEF FlushWrite, FlushRegister, AppendSegment, RegisterSegment, compactionVars, trackerVars
<1>8. ~ MainCompact /\ ~ MainResult /\ ~ Compact("main")
  BY MainIdle
<1> QED
  BY <1>1, <1>2, <1>3, <1>4, <1>5, <1>6, <1>7, <1>8
  DEF Next, BackgroundStep, MainStep, Ended, LocalStep

\* They hold throughout.
LEMMA PlanKeptInvariance ==
    ASSUME OnlyBackgroundCompacts
    PROVE  Spec => []PlanKept
<1>1. Init => PlanKept
  BY DEF Init, CompactionInit, PlanKept, Compactors
<1>2. /\ TypeInv /\ MergeInv /\ OutputInv /\ MainNeverCompacts /\ PlanKept /\ [Next]_vars
      => PlanKept'
  BY NextPlanKept
<1> QED
  BY <1>1, <1>2, TypeInvariance, MergeInvariance, OutputInvariance,
     MainNeverCompactsInvariance, PTL
  DEF Spec

\* While only the background goroutine compacts, no input of its plan is retired by
\* anyone but itself and no flag it raised is taken down, whatever fails: the
\* validation of Execute succeeds and no input is skipped (executor.go).
THEOREM SoleCompactorKeeps ==
    ASSUME OnlyBackgroundCompacts
    PROVE  Spec => []SoleCompactorKeepsInputs
<1>1. PlanKept => SoleCompactorKeepsInputs
  BY DEF PlanKept, SoleCompactorKeepsInputs
<1> QED
  BY <1>1, PlanKeptInvariance, PTL


-----------------------------------------------------------------------------
(***************************************************************************)
(* What a lookup that compaction overtakes has seen.                       *)
(***************************************************************************)
\* A finite nonempty set of natural numbers has a greatest element.
LEMMA FiniteMaximum ==
    ASSUME NEW S \in SUBSET Nat, IsFiniteSet(S), S # {}
    PROVE  \E x \in S : \A y \in S : y <= x
<1> DEFINE HasMax(T) == \E x \in T : \A y \in T : y <= x
           P == {n \in Nat : \A T \in SUBSET Nat :
                    IsFiniteSet(T) /\ Cardinality(T) = n /\ T # {} => HasMax(T)}
<1>1. 0 \in P
  BY FS_EmptySet
<1>2. ASSUME NEW n \in Nat, n \in P PROVE n + 1 \in P
  <2> SUFFICES ASSUME NEW T \in SUBSET Nat, IsFiniteSet(T), Cardinality(T) = n + 1, T # {}
               PROVE  HasMax(T)
    OBVIOUS
  <2>1. PICK x \in T : TRUE
    OBVIOUS
  <2>2. IsFiniteSet(T \ {x}) /\ Cardinality(T \ {x}) = n
    <3>1. IsFiniteSet(T \ {x}) /\ Cardinality(T \ {x}) = Cardinality(T) - 1
      BY <2>1, FS_RemoveElement
    <3> QED
      BY <1>2, <3>1
  <2>3. CASE T \ {x} = {}
    BY <2>3
  <2>4. CASE T \ {x} # {}
    <3>1. PICK m \in T \ {x} : \A y \in T \ {x} : y <= m
      BY <1>2, <2>2, <2>4
    <3>2. CASE x <= m
      BY <3>1, <3>2
    <3>3. CASE m <= x
      BY <3>1, <3>3
    <3> QED
      BY <3>2, <3>3
  <2> QED
    BY <2>3, <2>4
<1>3. Nat \subseteq P
  <2> HIDE DEF P
  <2> QED
    BY <1>1, <1>2, NatInd
<1>4. Cardinality(S) \in Nat
  BY FS_CardinalityType
<1> QED
  BY <1>3, <1>4

\* A key with an entry in a segment is in the range its metadata gives.
LEMMA HolderInRange ==
    ASSUME TrackerTypeOK, NEW s \in SegmentID, NEW k \in Keys, segs[s].data[k] # Absent
    PROVE  InRange(segs[s], k)
<1> DEFINE S == KeysOf(segs[s].data)
<1>1. k \in S /\ S \in SUBSET Keys /\ S \in SUBSET Nat
  BY KeysAssumption DEF KeysOf
<1>2. IsFiniteSet(S)
  BY <1>1, KeysAssumption, FS_Subset
<1>3. PICK lo \in S : \A y \in S : lo <= y
  BY <1>1, NatMinimum
<1>4. PICK hi \in S : \A y \in S : y <= hi
  BY <1>1, <1>2, FiniteMaximum
<1> HIDE DEF S
<1>5. Min(S) \in S /\ \A y \in S : Min(S) <= y
  BY <1>3 DEF Min
<1>6. \A y \in S : hi >= y
  BY <1>1, <1>4
<1>7. Max(S) \in S /\ \A y \in S : Max(S) >= y
  BY <1>6 DEF Max
<1> QED
  BY <1>1, <1>5, <1>7 DEF InRange, MinKey, MaxKey, S

\* The candidates of the lookup in progress that hold its key.
HeldAtStart == ToSet(rd.segs) \cap Holders(rd.key)

\* Until it hits, every holder among the candidates is retired or still to be asked;
\* without a holder among them, no segment that was ever registered holds the key.
ReadInv ==
    mpc = "reading" =>
        /\ rd.hit = Absent => HeldAtStart \subseteq obsolete \cup ToSet(rd.rest)
        /\ HeldAtStart = {} => Registered \cap Holders(rd.key) = {}

\* A lookup starts with every live segment that holds the key among its candidates.
LEMMA ReadStartInv ==
    ASSUME TypeInv, Succession, NEW k \in Keys, ReadStart(k)
    PROVE  ReadInv'
<1> USE DEF TypeInv, TypeOK
<1>1. PICK order \in GetSegmentsForKey(k) :
        rd' = [key |-> k, segs |-> order, rest |-> order, hit |-> Absent]
  BY DEF ReadStart
<1>2. /\ rd'.key = k /\ rd'.segs = order /\ rd'.rest = order
      /\ UNCHANGED <<segs, ordered, obsolete>>
  BY <1>1 DEF ReadStart, trackerVars
<1>3. Holders(k)' = Holders(k) /\ Registered' = Registered
  BY <1>2 DEF Holders, SegmentID, Registered
<1>4. ToSet(order) = {s \in Live : InRange(segs[s], k)}
  BY RegisteredType, SortedOrdersSet DEF GetSegmentsForKey, Live
<1>5. Live \cap Holders(k) \subseteq ToSet(order)
  BY <1>4, RegisteredType, HolderInRange DEF Holders, Absent
<1>6. ToSet(order) \cap Holders(k) = {} => Registered \cap Holders(k) = {}
  BY <1>5, RegisteredType DEF Succession, Holders
<1> QED
  BY <1>2, <1>3, <1>6 DEF ReadInv, HeldAtStart

\* The next candidate hits, or does not hold the key, or is obsolete.
LEMMA ReadSegmentInv ==
    ASSUME "mmap" \notin Faults, TypeInv, ReadInv, ReadSegment
    PROVE  ReadInv'
<1> USE DEF TypeInv, TypeOK, MainTypeOK
<1>1. PICK h : h = Head(rd.rest)
  OBVIOUS
<1>2. /\ mpc = "reading" /\ mpc' = mpc /\ rd.hit = Absent /\ rd.rest # <<>>
      /\ rd' = [rd EXCEPT !.rest = Tail(@), !.hit = Probe(h, rd.key)]
      /\ UNCHANGED <<segs, ordered, obsolete>>
  BY <1>1 DEF ReadSegment, ReadOver, MayFail, trackerVars
<1>3. h \in SegmentID /\ ToSet(rd.rest) = {h} \cup ToSet(Tail(rd.rest))
  BY <1>1, <1>2, HeadTail
<1>4. /\ rd'.key = rd.key /\ rd'.segs = rd.segs /\ rd'.rest = Tail(rd.rest)
      /\ rd'.hit = Probe(h, rd.key)
  BY <1>2
<1>5. HeldAtStart' = HeldAtStart /\ Holders(rd.key)' = Holders(rd.key)
      /\ Registered' = Registered
  BY <1>2, <1>4 DEF HeldAtStart, Holders, SegmentID, Registered
<1>6. rd'.hit = Absent => h \in obsolete \/ h \notin Holders(rd.key)
  BY <1>4 DEF Probe, Lookup, Holders, Absent
<1>7. HeldAtStart \subseteq obsolete \cup {h} \cup ToSet(Tail(rd.rest))
  BY <1>2, <1>3 DEF ReadInv
<1>8. rd'.hit = Absent => HeldAtStart \subseteq obsolete \cup ToSet(Tail(rd.rest))
  BY <1>6, <1>7 DEF HeldAtStart
<1> QED
  BY <1>2, <1>4, <1>5, <1>8 DEF ReadInv

\* A compaction that overtakes the lookup publishes only keys it has read.
LEMMA ExecuteReadInv ==
    ASSUME TypeInv, MergeInv, OutputInv, ReadInv, NEW c \in Compactors, ExecuteStep(c),
           UNCHANGED mainVars
    PROVE  ReadInv'
<1> USE DEF TypeInv, TypeOK
<1>1. SUFFICES ASSUME mpc = "reading"
               PROVE  /\ rd.hit = Absent =>
                             HeldAtStart' \subseteq obsolete' \cup ToSet(rd.rest)
                      /\ HeldAtStart' = {} => Registered' \cap Holders(rd.key)' = {}
  BY DEF ReadInv, mainVars
<1>2. rd' = rd /\ rd.key \in Keys /\ ToSet(rd.segs) \subseteq SegmentID
  BY <1>1 DEF mainVars, MainTypeOK, ToSet
<1>3. DataKept /\ Registered \subseteq SegmentID
  BY ExecuteDataKept, RegisteredType
<1>4. HeldAtStart' = HeldAtStart
  BY <1>2, <1>3 DEF DataKept, HeldAtStart, Holders
<1>5. obsolete \subseteq obsolete'
  BY DEF ExecuteStep, SetInCompaction, ScanInput, WriteMerged, RegisterOutput, MarkInput,
         ReturnOutput, AppendSegment, RegisterSegment, MarkObsolete, trackerVars
<1>6. ASSUME HeldAtStart = {}
      PROVE  Registered' \cap Holders(rd.key)' = {}
  <2>1. Registered \cap Holders(rd.key)' = {}
    BY <1>1, <1>2, <1>3, <1>6 DEF ReadInv, DataKept, Holders
  <2>2. CASE Registered' = Registered
    BY <2>1, <2>2
  <2>3. CASE RegisterOutput(c)
    <3>1. pc[c] = "register" /\ RegisterSegment(newSeg[c]) /\ newSeg[c] \in SegmentID
      BY <2>3 DEF RegisterOutput, Goto, OutputInv, OutputHolds
    <3>2. Registered' = Registered \cup {newSeg[c]}
          /\ segs'[newSeg[c]].data = segs[newSeg[c]].data
      BY <3>1, RegisterEffect
    <3>3. segs[newSeg[c]].data = merged[c]
      BY <3>1 DEF OutputInv, OutputHolds, SegmentID, TrackerTypeOK
    <3>4. ~ (merged[c][rd.key] > 0)
      <4>1. SUFFICES ASSUME merged[c][rd.key] > 0 PROVE FALSE
        OBVIOUS
      <4>2. PICK s \in Inputs(c) : segs[s].data[rd.key] = merged[c][rd.key]
        BY <1>2, <4>1 DEF MergeInv, MergeFrom, Absent
      <4>3. s \in Registered \cap Holders(rd.key)
        BY <1>3, <4>1, <4>2 DEF InputsRegistered, Holders
      <4> QED
        BY <1>1, <1>6, <4>3 DEF ReadInv
    <3> QED
      BY <1>2, <2>1, <3>2, <3>3, <3>4 DEF Holders
  <2>4. Registered' = Registered \/ RegisterOutput(c)
    BY DEF ExecuteStep, SetInCompaction, ScanInput, WriteMerged, MarkInput, ReturnOutput,
           AppendSegment, MarkObsolete, trackerVars, Registered
  <2> QED
    BY <2>2, <2>3, <2>4
<1> QED
  BY <1>1, <1>4, <1>5, <1>6 DEF ReadInv

\* Every step keeps track of what the lookup has seen.
LEMMA NextReadInv ==
    ASSUME "mmap" \notin Faults, TypeInv, MergeInv, OutputInv, Succession, ReadInv, [Next]_vars
    PROVE  ReadInv'
<1> USE DEF TypeInv, TypeOK
<1>1. ASSUME UNCHANGED <<segs, ordered, obsolete, rd>>, mpc' = mpc
      PROVE  ReadInv'
  BY <1>1 DEF ReadInv, HeldAtStart, Holders, SegmentID, Registered
<1>2. ASSUME mpc' # "reading"
      PROVE  ReadInv'
  BY <1>2 DEF ReadInv
<1>3. CASE \E c \in Compactors : ExecuteStep(c) /\ UNCHANGED mainVars
  BY <1>3, ExecuteReadInv
<1>4. CASE FlushWrite \/ FlushRegister
  BY <1>2, <1>4 DEF FlushWrite, FlushRegister
<1>5. CASE LocalStep
  <2>1. CASE \E k \in Keys : ReadStart(k)
    BY <2>1, ReadStartInv
  <2>2. CASE ReadSegment
    BY <2>2, ReadSegmentInv
  <2>3. CASE \/ Populate \/ (\E k \in Keys : Put(k) \/ Delete(k))
             \/ FlushTruncate \/ NextPhase \/ FinalFlush \/ ReadReturn \/ MainDone
    BY <1>2, <2>3
    DEF Populate, Put, Delete, WriteEntry, FlushTruncate, NextPhase, FinalFlush, ReadReturn,
        MainDone, InPhase
  <2> QED
    BY <1>5, <2>1, <2>2, <2>3 DEF LocalStep
<1>6. CASE \E c \in Compactors : Compact(c) /\ ~ ExecuteStep(c) /\ UNCHANGED mainVars
  BY <1>1, <1>6, DirectorQuiet DEF mainVars, trackerVars
<1>7. CASE BackgroundTick \/ BackgroundResult \/ BackgroundStop \/ Second \/ UNCHANGED vars
  BY <1>1, <1>7, CallsQuiet
  DEF BackgroundTick, BackgroundResult, BackgroundStop, Second, mainVars, trackerVars, vars
<1>8. CASE MainCompact \/ MainResult
  BY <1>2, <1>8 DEF MainCompact, MainResult
<1>9. Compactors = {"bg", "main"}
  BY DEF Compactors
<1> QED
  BY <1>3, <1>4, <1>5, <1>6, <1>7, <1>8, <1>9
  DEF Next, BackgroundStep, MainStep, Ended, LocalStep

\* A lookup that returns without a hit was overtaken by a compaction: each candidate
\* that held the key has been retired since, and there was one if the key is in a live
\* segment now; with both goroutines compacting at once (reader.go's obsolete check).
THEOREM MissIsOvertaken ==
    ASSUME MergesAreSafe
    PROVE  Spec => []MissMeansOvertaken
<1>1. Init => ReadInv
  BY DEF Init, ReadInv
<1>2. TypeInv /\ MergeInv /\ CompactionInv /\ ReadInv /\ [Next]_vars => ReadInv'
  BY NextReadInv DEF MergesAreSafe, CompactionInv
<1>3. TypeInv /\ ReadInv => MissMeansOvertaken
  BY EmptySeqSet DEF ReadInv, HeldAtStart, MissMeansOvertaken, Live
<1> QED
  BY <1>1, <1>2, <1>3, TypeInvariance, MergeInvariance, CompactionInvariance, PTL DEF Spec

-----------------------------------------------------------------------------
(***************************************************************************)
(* What OverlapCount bounds.                                               *)
(***************************************************************************)
\* What a step can do to the tracker: nothing, or one of its operations; a segment is
\* registered once.
LEMMA TrackerStep ==
    ASSUME TypeInv, OutputInv, [Next]_vars
    PROVE  \/ UNCHANGED trackerVars
           \/ \E seg \in SegmentMeta : AppendSegment(seg)
           \/ \E id \in SegmentID \ Registered : RegisterSegment(id)
           \/ \E id \in Registered : MarkObsolete(id)
<1> USE DEF TypeInv, TypeOK
<1>1. ASSUME NEW c \in Compactors, WriteMerged(c)
      PROVE  UNCHANGED trackerVars \/ \E seg \in SegmentMeta : AppendSegment(seg)
  <2>1. NewSegment(merged[c], plan[c].strategy, plan[c].level, clock, "compaction")
            \in SegmentMeta
    BY NewSegmentType DEF CompactionTypeOK, Plan
  <2> QED
    BY <1>1, <2>1 DEF WriteMerged
<1>2. ASSUME NEW c \in Compactors, RegisterOutput(c)
      PROVE  \E id \in SegmentID \ Registered : RegisterSegment(id)
  BY <1>2 DEF RegisterOutput, Goto, OutputInv, OutputHolds
<1>3. ASSUME NEW c \in Compactors, MarkInput(c)
      PROVE  \E id \in Registered : MarkObsolete(id)
  BY <1>3, TodoTail DEF MarkInput
<1>4. ASSUME NEW c \in Compactors, SetInCompaction(c) \/ ScanInput(c) \/ ReturnOutput(c)
      PROVE  UNCHANGED trackerVars
  BY <1>4 DEF SetInCompaction, ScanInput, ReturnOutput
<1>5. ASSUME FlushWrite
      PROVE  UNCHANGED trackerVars \/ \E seg \in SegmentMeta : AppendSegment(seg)
  <2>1. NewSegment(buf, TIERED, 0, clock, "flush") \in SegmentMeta
    BY NewSegmentType DEF MainTypeOK, CompactionTypeOK, CompactionType
  <2> QED
    BY <1>5, <2>1 DEF FlushWrite
<1>6. ASSUME FlushRegister
      PROVE  \E id \in SegmentID \ Registered : RegisterSegment(id)
  BY <1>6 DEF FlushRegister, OutputInv, PendingDistinct
<1> QED
  BY <1>1, <1>2, <1>3, <1>4, <1>5, <1>6, StepCases, LocalQuiet DEF ExecuteStep

\* RegisterSegment puts the segment in front and sets its overlap count, nothing else.
LEMMA RegisterFields ==
    ASSUME TrackerTypeOK, NEW id \in SegmentID, RegisterSegment(id)
    PROVE  /\ DOMAIN ordered' = 1 .. Len(ordered) + 1
           /\ ordered'[1] = id
           /\ \A i \in DOMAIN ordered : ordered'[i + 1] = ordered[i]
           /\ \A i \in DOMAIN ordered' : i # 1 => i - 1 \in DOMAIN ordered
           /\ \A s \in SegmentID : s # id => segs'[s] = segs[s]
           /\ segs'[id].overlapCount = CountOverlaps(id)
           /\ segs'[id].data = segs[id].data
           /\ segs'[id].level = segs[id].level
           /\ segs'[id].created = segs[id].created
           /\ segs'[id].origin = segs[id].origin
<1>1. /\ segs' = [segs EXCEPT ![id].overlapCount = CountOverlaps(id)]
      /\ ordered' = <<id>> \o ordered
  BY DEF RegisterSegment
<1>2. segs \in Seq(SegmentMeta) /\ ordered \in Seq(SegmentID) /\ segs[id] \in SegmentMeta
  BY DEF TrackerTypeOK, SegmentID
<1>3. Len(ordered) \in Nat /\ DOMAIN ordered = 1 .. Len(ordered)
  BY <1>2
<1>4. /\ DOMAIN ordered' = 1 .. Len(ordered) + 1 /\ ordered'[1] = id
      /\ \A i \in 1 .. Len(ordered) : ordered'[i + 1] = ordered[i]
  BY <1>1, <1>2
<1>5. segs' = [segs EXCEPT ![id] = [segs[id] EXCEPT !.overlapCount = CountOverlaps(id)]]
  BY <1>1
<1>6. \A s \in SegmentID : s # id => segs'[s] = segs[s]
  BY <1>5 DEF SegmentID
<1>7. segs'[id] = [segs[id] EXCEPT !.overlapCount = CountOverlaps(id)]
  BY <1>5 DEF SegmentID
<1> QED
  BY SMTT(30), <1>2, <1>3, <1>4, <1>6, <1>7 DEF SegmentMeta

\* The segments registered before the i-th of the list.
Before(i) == {s \in Registered : \E j \in DOMAIN ordered : j > i /\ ordered[j] = s}

OverlapsBefore(i) ==
    {s \in Live : s \in Before(i) /\ Overlap(segs[ordered[i]], segs[s])}

\* The list has no duplicates, and every count bounds what it was computed from.
CountInv ==
    /\ \A i, j \in DOMAIN ordered : ordered[i] = ordered[j] => i = j
    /\ \A i \in DOMAIN ordered :
           Cardinality(OverlapsBefore(i)) <= segs[ordered[i]].overlapCount

\* The listed segments.
LEMMA OrderedType ==
    ASSUME TrackerTypeOK
    PROVE  /\ DOMAIN ordered = 1 .. Len(ordered) /\ Len(ordered) \in Nat
           /\ \A i \in DOMAIN ordered : ordered[i] \in Registered /\ ordered[i] \in SegmentID
  BY DEF TrackerTypeOK, Registered, ToSet

\* Segments that are written or retired only leave less to count.
LEMMA FewerCountInv ==
    ASSUME TrackerTypeOK, CountInv, ordered' = ordered, Live' \subseteq Live,
           \A s \in SegmentID : segs'[s] = segs[s]
    PROVE  CountInv'
<1>1. ASSUME NEW i \in DOMAIN ordered
      PROVE  Cardinality(OverlapsBefore(i)') <= segs'[ordered[i]].overlapCount
  <2>1. Registered' = Registered /\ Live \subseteq SegmentID
    BY RegisteredType DEF Registered
  <2>2. segs'[ordered[i]] = segs[ordered[i]] /\ segs[ordered[i]] \in SegmentMeta
    BY OrderedType, SegmentType
  <2>3. OverlapsBefore(i)' \in SUBSET OverlapsBefore(i)
    BY <2>1, <2>2 DEF OverlapsBefore, Before
  <2>4. OverlapsBefore(i) \in SUBSET SegmentID
    BY <2>1 DEF OverlapsBefore
  <2>5. /\ IsFiniteSet(OverlapsBefore(i)) /\ Cardinality(OverlapsBefore(i)) \in Nat
        /\ Cardinality(OverlapsBefore(i)') \in Nat
        /\ Cardinality(OverlapsBefore(i)') <= Cardinality(OverlapsBefore(i))
    BY <2>3, <2>4, SegmentSetFinite, FS_Subset
  <2>6. Cardinality(OverlapsBefore(i)) <= segs[ordered[i]].overlapCount
        /\ segs[ordered[i]].overlapCount \in Nat
    BY <2>2 DEF CountInv, SegmentMeta
  <2> QED
    BY <2>2, <2>5, <2>6
<1> QED
  BY <1>1 DEF CountInv

\* A segment that is registered counts the live segments it overlaps.
LEMMA RegisterCountInv ==
    ASSUME TrackerTypeOK, CountInv, NEW id \in SegmentID \ Registered, RegisterSegment(id)
    PROVE  CountInv'
<1>1. /\ SegmentID' = SegmentID /\ Registered' = Registered \cup {id}
      /\ obsolete' = obsolete /\ Live' = Live \cup {id}
      /\ Live \subseteq Registered /\ Registered \subseteq SegmentID
  BY RegisterEffect, RegisteredType DEF Live, TrackerTypeOK
<1>2. /\ DOMAIN ordered' = 1 .. Len(ordered) + 1 /\ ordered'[1] = id
      /\ \A i \in DOMAIN ordered : ordered'[i + 1] = ordered[i]
      /\ \A i \in DOMAIN ordered' : i # 1 => i - 1 \in DOMAIN ordered
      /\ segs'[id].overlapCount = CountOverlaps(id)
  BY RegisterFields
<1>3. /\ DOMAIN ordered = 1 .. Len(ordered) /\ Len(ordered) \in Nat
      /\ \A i \in DOMAIN ordered : ordered[i] \in Registered /\ ordered[i] # id
  BY OrderedType
<1>4. \A s \in SegmentID : segs'[s].data = segs[s].data /\ (s # id => segs'[s] = segs[s])
  BY RegisterFields
<1>5. \A s, t \in SegmentID : Overlap(segs'[s], segs'[t]) <=> Overlap(segs[s], segs[t])
  BY <1>4 DEF Overlap, MinKey, MaxKey
<1>6. \A i \in DOMAIN ordered : Before(i + 1)' = Before(i)
  <2> SUFFICES ASSUME NEW i \in DOMAIN ordered, NEW s
               PROVE  s \in Before(i + 1)' <=> s \in Before(i)
    OBVIOUS
  <2>1. ASSUME s \in Before(i + 1)'
        PROVE  s \in Before(i)
    <3>1. PICK j \in DOMAIN ordered' : j > i + 1 /\ ordered'[j] = s
      BY <2>1 DEF Before
    <3>2. j - 1 \in DOMAIN ordered /\ j - 1 > i /\ ordered[j - 1] = s
      BY <1>2, <1>3, <3>1
    <3> QED
      BY <1>3, <3>2 DEF Before
  <2>2. ASSUME s \in Before(i)
        PROVE  s \in Before(i + 1)'
    <3>1. PICK j \in DOMAIN ordered : j > i /\ ordered[j] = s
      BY <2>2 DEF Before
    <3>2. j + 1 \in DOMAIN ordered' /\ j + 1 > i + 1 /\ ordered'[j + 1] = s
      BY <1>2, <1>3, <3>1
    <3> QED
      BY <1>1, <1>3, <3>1, <3>2 DEF Before
  <2> QED
    BY <2>1, <2>2
<1>7. Before(1)' \subseteq Registered
  <2> SUFFICES ASSUME NEW s \in Before(1)'
               PROVE  s \in Registered
    OBVIOUS
  <2>1. PICK j \in DOMAIN ordered' : j > 1 /\ ordered'[j] = s
    BY DEF Before
  <2>2. j - 1 \in DOMAIN ordered /\ ordered[j - 1] = s
    BY <1>2, <1>3, <2>1
  <2> QED
    BY <1>3, <2>2
<1>8. \A i, j \in DOMAIN ordered' : ordered'[i] = ordered'[j] => i = j
  <2> SUFFICES ASSUME NEW i \in DOMAIN ordered', NEW j \in DOMAIN ordered',
                      ordered'[i] = ordered'[j]
               PROVE  i = j
    OBVIOUS
  <2>1. \A x \in DOMAIN ordered' : \/ x = 1 /\ ordered'[x] = id
                                   \/ /\ x - 1 \in DOMAIN ordered
                                      /\ ordered'[x] = ordered[x - 1] /\ ordered'[x] # id
    BY <1>2, <1>3
  <2>2. i = 1 <=> j = 1
    <3>1. i = 1 <=> ordered'[i] = id
      BY <1>2, <2>1
    <3>2. j = 1 <=> ordered'[j] = id
      BY <1>2, <2>1
    <3> QED
      BY <3>1, <3>2
  <2>3. CASE i # 1 /\ j # 1
    <3>1. i - 1 = j - 1
      BY <2>1, <2>3 DEF CountInv
    <3> QED
      BY <1>2, <1>3, <3>1
  <2> QED
    BY <2>2, <2>3
<1>9. ASSUME NEW i \in DOMAIN ordered
      PROVE  Cardinality(OverlapsBefore(i + 1)') <= segs'[ordered'[i + 1]].overlapCount
  <2>1. ordered'[i + 1] = ordered[i] /\ segs'[ordered[i]] = segs[ordered[i]]
        /\ ordered[i] \in SegmentID
    BY <1>1, <1>2, <1>3, <1>4
  <2>2. Before(i) \subseteq Registered
    BY DEF Before
  <2>3. OverlapsBefore(i + 1)' = OverlapsBefore(i)
    BY <1>1, <1>5, <1>6, <2>1, <2>2 DEF OverlapsBefore
  <2> QED
    BY <2>1, <2>3 DEF CountInv
<1>10. Cardinality(OverlapsBefore(1)') <= segs'[ordered'[1]].overlapCount
  <2>1. PICK counted : counted = {s \in Live : Overlap(segs[id], segs[s])}
    OBVIOUS
  <2>2. OverlapsBefore(1)' \in SUBSET counted
    BY <1>1, <1>2, <1>5, <1>7, <2>1 DEF OverlapsBefore
  <2>3. counted \in SUBSET SegmentID
    BY <1>1, <2>1
  <2>4. Cardinality(OverlapsBefore(1)') <= Cardinality(counted)
    BY <2>2, <2>3, SegmentSetFinite, FS_Subset
  <2> QED
    BY <1>2, <2>1, <2>4 DEF CountOverlaps
<1> QED
  <2>1. \A i \in DOMAIN ordered' : i = 1 \/ \E j \in DOMAIN ordered : i = j + 1
    BY <1>2, <1>3
  <2> QED
    BY <1>8, <1>9, <1>10, <2>1 DEF CountInv

\* The counts hold throughout.
LEMMA CountInvariance == Spec => []CountInv
<1>1. Init => CountInv
  BY DEF Init, TrackerInit, CountInv
<1>2. TypeInv /\ OutputInv /\ CountInv /\ [Next]_vars => CountInv'
  <2> SUFFICES ASSUME TypeInv, OutputInv, CountInv, [Next]_vars
               PROVE  CountInv'
    OBVIOUS
  <2> USE DEF TypeInv, TypeOK
  <2>1. CASE UNCHANGED trackerVars
    BY <2>1, FewerCountInv, TrackerFrame DEF trackerVars
  <2>2. CASE \E seg \in SegmentMeta : AppendSegment(seg)
    BY <2>2, AppendEffect, FewerCountInv DEF AppendSegment
  <2>3. CASE \E id \in SegmentID \ Registered : RegisterSegment(id)
    BY <2>3, RegisterCountInv
  <2>4. CASE \E id \in Registered : MarkObsolete(id)
    BY <2>4, MarkEffect, FewerCountInv DEF MarkObsolete
  <2> QED
    BY <2>1, <2>2, <2>3, <2>4, TrackerStep
<1> QED
  BY <1>1, <1>2, TypeInvariance, OutputInvariance, PTL DEF Spec

\* OverlapCount, computed once when a segment is registered, bounds at every later
\* time the live segments registered before it that overlap it, whatever fails and
\* whoever compacts (metadata.go's RegisterSegment never updates it).
THEOREM OverlapCountIsBound == Spec => []OverlapCountBounds
<1>1. TypeInv /\ CountInv => OverlapCountBounds
  <2> SUFFICES ASSUME TypeInv, CountInv, NEW i \in DOMAIN ordered
               PROVE  Cardinality({j \in DOMAIN ordered :
                          /\ j > i
                          /\ ordered[j] \in Live
                          /\ Overlap(segs[ordered[i]], segs[ordered[j]])})
                      <= segs[ordered[i]].overlapCount
    BY DEF OverlapCountBounds
  <2> USE DEF TypeInv, TypeOK
  <2>1. PICK J : J = {j \in DOMAIN ordered :
                          /\ j > i
                          /\ ordered[j] \in Live
                          /\ Overlap(segs[ordered[i]], segs[ordered[j]])}
    OBVIOUS
  <2>2. PICK T : T = OverlapsBefore(i)
    OBVIOUS
  <2>3. [j \in J |-> ordered[j]] \in Injection(J, T)
    BY <2>1, <2>2, OrderedType DEF OverlapsBefore, Before, CountInv, Injection, IsInjective
  <2>4. T \in SUBSET SegmentID
    BY <2>2, RegisteredType DEF OverlapsBefore
  <2>5. Cardinality(J) <= Cardinality(T) /\ Cardinality(J) \in Nat /\ Cardinality(T) \in Nat
    BY <2>3, <2>4, SegmentSetFinite, FS_Injection, FS_CardinalityType
  <2>6. /\ Cardinality(T) <= segs[ordered[i]].overlapCount
        /\ segs[ordered[i]].overlapCount \in Nat
    BY <2>2, OrderedType, SegmentType DEF CountInv, SegmentMeta
  <2> QED
    BY <2>1, <2>5, <2>6
<1> QED
  BY <1>1, TypeInvariance, CountInvariance, PTL

-----------------------------------------------------------------------------
(***************************************************************************)
(* Nothing is newer than the last write.                                   *)
(***************************************************************************)
\* Versions come from writes; the memtable and the buffer of a flush hold last writes
\* only, and no segment holds a version beyond the last.
VersionInv ==
    /\ \A k \in Keys : Version(latest[k]) <= writes
    /\ \A k \in Keys : mem[k] \in {Absent, latest[k]} /\ buf[k] \in {Absent, latest[k]}
    /\ \A s \in SegmentID, k \in Keys : Version(segs[s].data[k]) <= Version(latest[k])

\* Entries are integers.
LEMMA EntryType ==
    ASSUME TypeInv, NEW k \in Keys
    PROVE  /\ mem[k] \in Int /\ buf[k] \in Int /\ latest[k] \in Int /\ writes \in Nat
           /\ \A s \in SegmentID : segs[s].data[k] \in Int
           /\ \A c \in Compactors : merged[c][k] \in Int
  BY SegmentType DEF TypeInv, TypeOK, MainTypeOK, CompactionTypeOK, Table

\* Versions are natural numbers; the one of no entry is below all others.
LEMMA VersionType ==
    ASSUME NEW e \in Int
    PROVE  Version(e) \in Nat /\ Version(Absent) = 0 /\ Version(-e) = Version(e)
           /\ (e > 0 => Version(e) = e)
  BY DEF Version, Absent

\* Steps that keep the segments and write nothing.
LEMMA SameVersionInv ==
    ASSUME TypeInv, VersionInv, UNCHANGED <<latest, writes, mem>>,
           SegmentID' = SegmentID, \A s \in SegmentID : segs'[s].data = segs[s].data,
           buf' = buf \/ buf' = EmptyTable
    PROVE  VersionInv'
  BY DEF VersionInv, EmptyTable

\* A new segment holds what the buffer or other segments hold.
LEMMA AppendVersionInv ==
    ASSUME TypeInv, VersionInv, UNCHANGED <<latest, writes, mem, buf>>,
           NEW seg \in SegmentMeta, AppendSegment(seg),
           \A k \in Keys : \/ seg.data[k] \in {Absent, buf[k]}
                           \/ \E s \in SegmentID : segs[s].data[k] = seg.data[k]
    PROVE  VersionInv'
<1> USE DEF TypeInv, TypeOK
<1>1. /\ SegmentID' = SegmentID \cup {Len(segs) + 1}
      /\ \A s \in SegmentID : segs'[s] = segs[s]
      /\ segs'[Len(segs) + 1] = seg
  BY AppendEffect
<1>2. ASSUME NEW k \in Keys
      PROVE  Version(seg.data[k]) <= Version(latest[k])
  <2>1. Version(latest[k]) \in Nat /\ Version(Absent) = 0
    BY EntryType, VersionType
  <2>2. seg.data[k] \in {Absent, latest[k]}
        \/ \E s \in SegmentID : segs[s].data[k] = seg.data[k]
    BY DEF VersionInv
  <2> QED
    BY <2>1, <2>2 DEF VersionInv
<1> QED
  BY <1>1, <1>2 DEF VersionInv

\* A write has a version beyond all others and goes where the older one of its key was.
LEMMA WriteVersionInv ==
    ASSUME TypeInv, MainInv, VersionInv, NEW k \in Keys, NEW e \in Int,
           Version(e) = writes + 1, WriteEntry(k, e), mpc = "run"
    PROVE  VersionInv'
<1> DEFINE table == [mem EXCEPT ![k] = e]
<1>1. /\ UNCHANGED <<segs, ordered, obsolete>> /\ writes' = writes + 1
      /\ latest' = [latest EXCEPT ![k] = e]
      /\ \/ mem' = EmptyTable /\ buf' = table
         \/ mem' = table /\ buf' = buf
  BY DEF WriteEntry, trackerVars
<1>2. mem \in [Keys -> Int] /\ latest \in [Keys -> Int] /\ buf = EmptyTable
  BY DEF TypeInv, TypeOK, MainTypeOK, Table, MainInv, BufferOwned
<1>3. \A j \in Keys : /\ table[j] = IF j = k THEN e ELSE mem[j]
                      /\ latest'[j] = IF j = k THEN e ELSE latest[j]
                      /\ EmptyTable[j] = Absent
  BY <1>1, <1>2 DEF EmptyTable
<1> HIDE DEF table
<1>4. \A j \in Keys : mem'[j] \in {Absent, latest'[j]} /\ buf'[j] \in {Absent, latest'[j]}
  BY <1>1, <1>2, <1>3 DEF VersionInv
<1>5. ASSUME NEW j \in Keys
      PROVE  Version(latest'[j]) <= writes' /\ Version(latest[j]) <= Version(latest'[j])
             /\ Version(latest[j]) \in Nat /\ Version(latest'[j]) \in Nat
  <2>1. Version(latest[j]) <= writes /\ Version(latest[j]) \in Nat /\ writes \in Nat
    BY EntryType, VersionType DEF VersionInv
  <2> QED
    BY <1>1, <1>3, <2>1
<1>6. ASSUME NEW s \in SegmentID', NEW j \in Keys
      PROVE  Version(segs'[s].data[j]) <= Version(latest'[j])
  <2>1. s \in SegmentID /\ segs' = segs
    BY <1>1 DEF SegmentID
  <2>2. Version(segs[s].data[j]) <= Version(latest[j]) /\ Version(segs[s].data[j]) \in Nat
    BY <2>1, EntryType, VersionType DEF VersionInv
  <2> QED
    BY <1>5, <2>1, <2>2
<1> QED
  BY <1>4, <1>5, <1>6 DEF VersionInv

\* Execute writes no version of its own.
LEMMA ExecuteVersionInv ==
    ASSUME TypeInv, MergeInv, OutputInv, VersionInv, NEW c \in Compactors, ExecuteStep(c),
           UNCHANGED mainVars
    PROVE  VersionInv'
<1> USE DEF TypeInv, TypeOK
<1>1. UNCHANGED <<latest, writes, mem, buf>>
  BY DEF mainVars
<1>2. CASE \/ SetInCompaction(c) \/ ScanInput(c) \/ MarkInput(c) \/ ReturnOutput(c)
           \/ (WriteMerged(c) /\ UNCHANGED trackerVars)
  <2>1. segs' = segs
    BY <1>2
    DEF SetInCompaction, ScanInput, MarkInput, MarkObsolete, ReturnOutput, trackerVars
  <2> QED
    BY <1>1, <2>1, SameVersionInv DEF SegmentID
<1>3. CASE RegisterOutput(c)
  <2>1. RegisterSegment(newSeg[c]) /\ newSeg[c] \in SegmentID
    BY <1>3 DEF RegisterOutput, Goto, OutputInv, OutputHolds
  <2> QED
    BY <1>1, <2>1, RegisterEffect, SameVersionInv
<1>4. CASE WriteMerged(c) /\ ~ UNCHANGED trackerVars
  <2> DEFINE seg == NewSegment(merged[c], plan[c].strategy, plan[c].level, clock, "compaction")
  <2>1. seg \in SegmentMeta /\ seg.data = merged[c]
    BY NewSegmentType DEF CompactionTypeOK, Plan
  <2>2. AppendSegment(seg)
    BY <1>4 DEF WriteMerged
  <2> HIDE DEF seg
  <2>3. \A k \in Keys : \/ seg.data[k] = Absent
                        \/ \E s \in SegmentID : segs[s].data[k] = seg.data[k]
    BY <2>1, RegisteredType DEF MergeInv, MergeFrom, InputsRegistered
  <2> QED
    BY <1>1, <2>1, <2>2, <2>3, AppendVersionInv
<1> QED
  BY <1>2, <1>3, <1>4 DEF ExecuteStep

\* A client write has the next version.
LEMMA NextWrite ==
    ASSUME TypeInv, Populate \/ \E k \in Keys : Put(k) \/ Delete(k)
    PROVE  /\ mpc = "run"
           /\ \E k \in Keys, e \in {writes + 1, - (writes + 1)} :
                  e \in Int /\ Version(e) = writes + 1 /\ WriteEntry(k, e)
<1>1. writes + 1 \in Int /\ - (writes + 1) \in Int
      /\ Version(writes + 1) = writes + 1 /\ Version(- (writes + 1)) = writes + 1
  BY DEF TypeInv, TypeOK, MainTypeOK, Version
<1> QED
  BY <1>1 DEF Populate, Put, Delete, InPhase

\* Every step keeps the versions in order.
LEMMA NextVersionInv ==
    ASSUME TypeInv, MergeInv, OutputInv, MainInv, VersionInv, [Next]_vars
    PROVE  VersionInv'
<1> USE DEF TypeInv, TypeOK
<1>1. ASSUME UNCHANGED trackerVars, UNCHANGED <<latest, writes, mem, buf>>
      PROVE  VersionInv'
  BY <1>1, SameVersionInv DEF trackerVars, SegmentID
<1>2. CASE \E c \in Compactors : ExecuteStep(c) /\ UNCHANGED mainVars
  BY <1>2, ExecuteVersionInv
<1>3. CASE FlushWrite
  <2> DEFINE seg == NewSegment(buf, TIERED, 0, clock, "flush")
  <2>1. seg \in SegmentMeta /\ seg.data = buf
    BY NewSegmentType DEF MainTypeOK, CompactionTypeOK, CompactionType
  <2> HIDE DEF seg
  <2>2. AppendSegment(seg) \/ UNCHANGED trackerVars
    BY <1>3 DEF FlushWrite, seg
  <2> QED
    BY <1>1, <1>3, <2>1, <2>2, AppendVersionInv DEF FlushWrite
<1>4. CASE FlushRegister
  <2>1. RegisterSegment(flushed) /\ flushed \in SegmentID
    BY <1>4 DEF FlushRegister, PendingWritten
  <2> QED
    BY <1>4, <2>1, RegisterEffect, SameVersionInv DEF FlushRegister
<1>5. CASE Populate \/ \E k \in Keys : Put(k) \/ Delete(k)
  BY <1>5, NextWrite, WriteVersionInv
<1>6. CASE \/ (\E k \in Keys : ReadStart(k)) \/ FlushTruncate \/ NextPhase \/ FinalFlush
           \/ ReadSegment \/ ReadReturn \/ MainDone
  BY <1>1, <1>6
  DEF ReadStart, FlushTruncate, NextPhase, FinalFlush, ReadSegment, ReadReturn, MainDone
<1>7. CASE \E c \in Compactors : Compact(c) /\ ~ ExecuteStep(c) /\ UNCHANGED mainVars
  BY <1>1, <1>7, DirectorQuiet DEF mainVars
<1>8. CASE \/ BackgroundTick \/ BackgroundResult \/ BackgroundStop
           \/ MainCompact \/ MainResult \/ Second \/ UNCHANGED vars
  <2>1. UNCHANGED trackerVars
    BY <1>8, CallsQuiet DEF vars
  <2> QED
    BY <1>1, <1>8, <2>1
    DEF BackgroundTick, BackgroundResult, BackgroundStop, MainCompact, MainResult, Second,
        mainVars, vars
<1>9. Compactors = {"bg", "main"}
  BY DEF Compactors
<1> QED
  BY <1>2, <1>3, <1>4, <1>5, <1>6, <1>7, <1>8, <1>9
  DEF Next, BackgroundStep, MainStep, Ended

\* Nothing is ever newer than the last write.
LEMMA VersionInvariance == Spec => []VersionInv
<1>1. Init => VersionInv
  BY DEF Init, TrackerInit, VersionInv, Version, EmptyTable, Absent, SegmentID
<1>2. TypeInv /\ MergeInv /\ OutputInv /\ MainInv /\ VersionInv /\ [Next]_vars => VersionInv'
  BY NextVersionInv
<1> QED
  BY <1>1, <1>2, TypeInvariance, MergeInvariance, OutputInvariance, MainInvariance, PTL
  DEF Spec

-----------------------------------------------------------------------------
(***************************************************************************)
(* The order in which flushed segments are read.                           *)
(***************************************************************************)
Flushes == {s \in SegmentID : segs[s].origin = "flush"}

\* Segments are written in the order of their creation times; flushes write level 0,
\* and a later one has a later entry of each of its keys.
WrittenInOrder ==
    /\ \A s \in SegmentID : segs[s].created <= clock
    /\ \A s, t \in SegmentID : s < t => segs[s].created <= segs[t].created
    /\ \A s \in Flushes : segs[s].level = 0
    /\ \A s, t \in Flushes, k \in Keys : s < t /\ segs[t].data[k] # Absent =>
           Version(segs[s].data[k]) <= Version(segs[t].data[k])

\* What a segment is made of, apart from its overlap count.
SameSegments ==
    /\ SegmentID' = SegmentID
    /\ \A s \in SegmentID :
           /\ segs'[s].data = segs[s].data /\ segs'[s].level = segs[s].level
           /\ segs'[s].created = segs[s].created /\ segs'[s].origin = segs[s].origin

\* Time does not go back.
LEMMA ClockGrows ==
    ASSUME TypeInv, [Next]_vars
    PROVE  clock \in Nat /\ clock' \in Nat /\ clock <= clock'
<1> SUFFICES clock' = clock \/ clock' = clock + 1
  BY DEF TypeInv, TypeOK, CompactionTypeOK
<1>1. CASE FlushWrite \/ FlushRegister
  BY <1>1 DEF FlushWrite, FlushRegister, compactionVars
<1>2. CASE LocalStep
  BY <1>2
  DEF LocalStep, Populate, Put, Delete, WriteEntry, ReadStart, FlushTruncate, NextPhase,
      FinalFlush, ReadSegment, ReadReturn, MainDone, compactionVars
<1>3. CASE \E c \in Compactors : Compact(c)
  BY <1>3
  DEF Compact, PlanSwitch, planTieredCompaction, TryLeveled, planLeveledCompaction,
      PlanLeveled, Validate, SetInCompaction, ScanInput, WriteMerged, RegisterOutput,
      MarkInput, ReturnOutput
<1>4. CASE \/ BackgroundTick \/ BackgroundResult \/ BackgroundStop
           \/ MainCompact \/ MainResult \/ Second \/ UNCHANGED vars
  BY <1>4
  DEF BackgroundTick, MaybePlan, BackgroundResult, BackgroundStop, MainCompact, MainResult,
      Second, vars, compactionVars
<1>5. Compactors = {"bg", "main"}
  BY DEF Compactors
<1> QED
  BY <1>1, <1>2, <1>3, <1>4, <1>5 DEF Next, BackgroundStep, MainStep, Ended, LocalStep

\* A step that writes no segment keeps the written ones in order.
LEMMA SameWrittenInOrder ==
    ASSUME TypeInv, WrittenInOrder, SameSegments, [Next]_vars
    PROVE  WrittenInOrder' /\ Flushes' = Flushes
<1>1. Flushes' = Flushes /\ Flushes \subseteq SegmentID
  BY DEF Flushes, SameSegments
<1>2. clock \in Nat /\ clock' \in Nat /\ clock <= clock'
  BY ClockGrows
<1>3. \A s \in SegmentID : segs[s].created \in Nat
  BY SegmentType DEF TypeInv, TypeOK, SegmentMeta
<1> QED
  BY <1>1, <1>2, <1>3 DEF WrittenInOrder, SameSegments

\* A new segment is the last, created now; if it is a flush it has level 0 and no entry
\* older than the last write.
LEMMA AppendWrittenInOrder ==
    ASSUME TypeInv, VersionInv, WrittenInOrder, [Next]_vars,
           NEW seg \in SegmentMeta, AppendSegment(seg), seg.created = clock,
           seg.origin = "flush" => seg.level = 0 /\ seg.data = buf
    PROVE  WrittenInOrder'
<1> USE DEF TypeInv, TypeOK
<1>0. PICK n : n = Len(segs) + 1
  OBVIOUS
<1>1. /\ SegmentID' = SegmentID \cup {n} /\ segs'[n] = seg
      /\ \A s \in SegmentID : segs'[s] = segs[s] /\ s < n /\ ~ (n < s)
  <2>1. /\ SegmentID' = SegmentID \cup {n} /\ segs'[n] = seg
        /\ \A s \in SegmentID : segs'[s] = segs[s] /\ s < n
    BY <1>0, AppendEffect
  <2>2. n \in Int /\ SegmentID \subseteq Int
    BY <1>0 DEF TrackerTypeOK, SegmentID
  <2> QED
    BY <2>1, <2>2
<1>2. Flushes' \subseteq Flushes \cup {n} /\ Flushes \subseteq SegmentID
      /\ (n \in Flushes' => seg.origin = "flush")
  BY <1>1 DEF Flushes
<1>3. clock \in Nat /\ clock' \in Nat /\ clock <= clock'
  BY ClockGrows
<1>4. \A s \in SegmentID : segs[s].created \in Nat
  BY SegmentType DEF SegmentMeta
<1>5. \A s \in SegmentID' : segs'[s].created <= clock'
  BY <1>1, <1>3, <1>4 DEF WrittenInOrder
<1>6. n < n <=> FALSE
  BY <1>0 DEF TrackerTypeOK
<1>7. \A s, t \in SegmentID' : s < t => segs'[s].created <= segs'[t].created
  BY <1>1, <1>6 DEF WrittenInOrder
<1>8. \A s \in Flushes' : segs'[s].level = 0
  BY <1>1, <1>2 DEF WrittenInOrder
<1>9. ASSUME NEW s \in Flushes', NEW t \in Flushes', NEW k \in Keys,
             s < t, segs'[t].data[k] # Absent
      PROVE  Version(segs'[s].data[k]) <= Version(segs'[t].data[k])
  <2>1. s \in Flushes /\ segs'[s] = segs[s] /\ s \in SegmentID
    BY <1>1, <1>2, <1>6, <1>9
  <2>2. CASE t \in Flushes
    BY <1>1, <1>2, <1>9, <2>1, <2>2 DEF WrittenInOrder
  <2>3. CASE t = n
    <3>1. segs'[t].data[k] = latest[k]
      BY <1>1, <1>2, <1>9, <2>3 DEF VersionInv
    <3> QED
      BY <2>1, <3>1 DEF VersionInv
  <2> QED
    BY <1>2, <2>2, <2>3
<1> QED
  BY <1>5, <1>7, <1>8, <1>9 DEF WrittenInOrder

\* Every step either leaves the written segments what they are or writes one more.
LEMMA NextWrittenInOrder ==
    ASSUME TypeInv, VersionInv, WrittenInOrder, [Next]_vars
    PROVE  WrittenInOrder'
<1> USE DEF TypeInv, TypeOK, CompactionTypeOK
<1>1. CASE segs' = segs
  <2>1. SameSegments
    BY <1>1 DEF SameSegments, SegmentID
  <2> QED
    BY <2>1, SameWrittenInOrder
<1>2. ASSUME NEW id \in SegmentID, RegisterSegment(id)
      PROVE  WrittenInOrder'
  <2>1. SameSegments
    BY <1>2, RegisterEffect, RegisterFields DEF SameSegments
  <2> QED
    BY <2>1, SameWrittenInOrder
<1>3. ASSUME NEW c \in Compactors, ExecuteStep(c)
      PROVE  WrittenInOrder'
  <2>1. CASE SetInCompaction(c) \/ ScanInput(c) \/ MarkInput(c) \/ ReturnOutput(c)
    BY <1>1, <2>1
    DEF SetInCompaction, ScanInput, MarkInput, MarkObsolete, ReturnOutput, trackerVars
  <2>2. CASE RegisterOutput(c)
    BY <1>2, <2>2 DEF RegisterOutput, Goto, PendingWritten
  <2>3. CASE WriteMerged(c) /\ UNCHANGED trackerVars
    BY <1>1, <2>3 DEF trackerVars
  <2>4. CASE WriteMerged(c) /\ ~ UNCHANGED trackerVars
    <3> DEFINE seg == NewSegment(merged[c], plan[c].strategy, plan[c].level, clock,
                                 "compaction")
    <3>1. seg \in SegmentMeta /\ seg.origin # "flush" /\ seg.created = clock
      BY NewSegmentType DEF Plan, NewSegment
    <3>2. AppendSegment(seg)
      BY <2>4 DEF WriteMerged
    <3> HIDE DEF seg
    <3> QED
      BY <3>1, <3>2, AppendWrittenInOrder
  <2> QED
    BY <1>3, <2>1, <2>2, <2>3, <2>4 DEF ExecuteStep
<1>4. CASE FlushWrite
  <2>1. CASE UNCHANGED trackerVars
    BY <1>1, <2>1 DEF trackerVars
  <2>2. CASE AppendSegment(NewSegment(buf, TIERED, 0, clock, "flush"))
    <3> DEFINE seg == NewSegment(buf, TIERED, 0, clock, "flush")
    <3>1. /\ seg \in SegmentMeta /\ seg.origin = "flush" /\ seg.created = clock
          /\ seg.level = 0 /\ seg.data = buf
      BY NewSegmentType DEF MainTypeOK, CompactionType, NewSegment
    <3>2. AppendSegment(seg)
      BY <2>2
    <3> HIDE DEF seg
    <3> QED
      BY <3>1, <3>2, AppendWrittenInOrder
  <2> QED
    BY <1>4, <2>1, <2>2 DEF FlushWrite
<1>5. CASE FlushRegister
  BY <1>2, <1>5 DEF FlushRegister, PendingWritten
<1>6. CASE UNCHANGED trackerVars
  BY <1>1, <1>6 DEF trackerVars
<1> QED
  BY <1>3, <1>4, <1>5, <1>6, StepCases, LocalQuiet

\* The orders hold throughout.
LEMMA OrderInvariance == Spec => []WrittenInOrder
<1>1. Init => WrittenInOrder
  BY DEF Init, TrackerInit, CompactionInit, WrittenInOrder, Flushes, SegmentID
<1>2. TypeInv /\ VersionInv /\ WrittenInOrder /\ [Next]_vars => WrittenInOrder'
  BY NextWrittenInOrder
<1> QED
  BY <1>1, <1>2, TypeInvariance, VersionInvariance, PTL DEF Spec

\* As long as no compaction output holds a key, the live segment a lookup of it asks
\* first is older than another one only if both were flushed in the same second,
\* whatever sort.Slice does with ties (the tracker's sort, and the seconds of
\* CreatedAt).
THEOREM FlushesWithinSecond == Spec => []FlushesReadWithinSecond
<1>1. TypeInv /\ WrittenInOrder => FlushesReadWithinSecond
  <2> SUFFICES ASSUME TypeInv, WrittenInOrder, NEW k \in Keys,
                      \A s \in Candidates(k) : segs[s].origin = "flush",
                      NEW p \in SortedOrders(Candidates(k)), NEW b \in Candidates(k),
                      Version(segs[b].data[k]) > Version(segs[p[1]].data[k])
               PROVE  segs[b].created = segs[p[1]].created
    BY DEF FlushesReadWithinSecond
  <2> USE DEF TypeInv, TypeOK
  <2>0. PICK S : S = Candidates(k)
    OBVIOUS
  <2>1. S \in SUBSET SegmentID /\ S \subseteq Flushes /\ b \in S
    BY <2>0, RegisteredType DEF Candidates, Live, Flushes
  <2>2. ToSet(p) = S /\ p \in Seq(SegmentID) /\ p \in SortedOrders(S)
    BY <2>0, <2>1, SortedOrdersSet, SetToSeqsType DEF SortedOrders
  <2>3. PICK j \in 1 .. Len(p) : p[j] = b
    BY <2>1, <2>2 DEF ToSet
  <2>4. PICK a : a = p[1]
    OBVIOUS
  <2>5. /\ Len(p) \in Nat /\ DOMAIN p = 1 .. Len(p) /\ 1 \in DOMAIN p /\ j \in DOMAIN p
        /\ a \in S
    BY <2>2, <2>3, <2>4 DEF ToSet
  <2>6. /\ segs[a].level = 0 /\ segs[b].level = 0
        /\ segs[a].created \in Nat /\ segs[b].created \in Nat
    BY <2>1, <2>5, SegmentType DEF WrittenInOrder, SegmentMeta
  <2>7. a \in Int /\ b \in Int
    BY <2>1, <2>5 DEF SegmentID, TrackerTypeOK
  <2>8. /\ Version(segs[a].data[k]) \in Nat /\ Version(segs[b].data[k]) \in Nat
        /\ Version(segs[b].data[k]) > Version(segs[a].data[k])
    BY <2>1, <2>4, <2>5, EntryType, VersionType
  <2>9. j # 1
    BY <2>3, <2>4, <2>8
  <2>10. ~ SortsBefore(b, a)
    BY <2>2, <2>3, <2>4, <2>5, <2>9 DEF SortedOrders
  <2>11. segs[b].created <= segs[a].created
    BY <2>6, <2>10 DEF SortsBefore
  <2>12. segs[a].data[k] # Absent
    BY <2>0, <2>5 DEF Candidates
  <2>13. ~ (b < a)
    BY <2>1, <2>5, <2>8, <2>12 DEF WrittenInOrder
  <2>14. a < b
    BY <2>3, <2>4, <2>7, <2>8, <2>13
  <2>15. segs[a].created <= segs[b].created
    BY <2>1, <2>5, <2>14 DEF WrittenInOrder
  <2> QED
    BY <2>4, <2>6, <2>11, <2>15
<1> QED
  BY <1>1, TypeInvariance, OrderInvariance, PTL

-----------------------------------------------------------------------------
(***************************************************************************)
(* The program implements the abstract store.                              *)
(***************************************************************************)
\* What it means for a version to be kept.
IsKept(k, x) ==
    x > 0 /\ (x = mem[k] \/ x = buf[k] \/ \E s \in Live : segs[s].data[k] = x)

LEMMA KeptMember ==
    ASSUME TypeInv, TrackerTypeOK', NEW k \in Keys
    PROVE  /\ \A x : x \in Kept(k) <=> IsKept(k, x)
           /\ \A x : x \in Kept(k)' <=> IsKept(k, x)'
<1>1. Live \subseteq SegmentID
  BY RegisteredType DEF TypeInv, TypeOK
<1>2. Live' \subseteq SegmentID'
  BY DEF TrackerTypeOK, Live, Registered, ToSet, SegmentID
<1>3. \A x : x \in Kept(k) <=> IsKept(k, x)
  BY <1>1 DEF Kept, Holders, IsKept
<1>4. \A x : x \in Kept(k)' <=> IsKept(k, x)'
  BY <1>2 DEF Kept, Holders, IsKept
<1> QED
  BY <1>3, <1>4

\* Only written versions are kept.
LEMMA KeptBounded ==
    ASSUME TypeInv, VersionInv, TrackerTypeOK', NEW k \in Keys
    PROVE  Kept(k) \subseteq 1 .. writes
<1> SUFFICES ASSUME NEW x \in Kept(k)
             PROVE  x \in 1 .. writes
  OBVIOUS
<1>1. IsKept(k, x)
  BY KeptMember
<1>2. x \in Int /\ x > 0 /\ Version(x) <= Version(latest[k])
  <2>1. CASE \E s \in Live : segs[s].data[k] = x
    BY <1>1, <2>1, RegisteredType, EntryType DEF IsKept, VersionInv, TypeInv, TypeOK
  <2>2. CASE x = mem[k] \/ x = buf[k]
    <3>1. x = latest[k] /\ x \in Int /\ x > 0
      BY <1>1, <2>2, EntryType DEF IsKept, VersionInv, Absent
    <3>2. Version(x) \in Nat
      BY <3>1, VersionType
    <3> QED
      BY <3>1, <3>2
  <2> QED
    BY <1>1, <2>1, <2>2 DEF IsKept
<1>3. Version(x) = x /\ Version(latest[k]) \in Nat /\ Version(latest[k]) <= writes
      /\ writes \in Nat
  BY <1>2, EntryType, VersionType DEF VersionInv
<1> QED
  BY <1>2, <1>3

\* A step that keeps the same versions stutters.
LEMMA SameKept ==
    ASSUME writes' = writes, \A k \in Keys : Kept(k)' = Kept(k)
    PROVE  UNCHANGED Store!storeVars
  BY DEF Store!storeVars

\* A step that drops some, but never the last version of a key, is a compaction.
LEMMA FewerKept ==
    ASSUME TypeInv, VersionInv, TrackerTypeOK', writes' = writes,
           \A k \in Keys : Kept(k)' \subseteq Kept(k) /\ (Kept(k) # {} => Kept(k)' # {})
    PROVE  Store!StoreCompact
<1>1. \A k \in Keys : Kept(k)' \subseteq 1 .. writes
  BY KeptBounded
<1> QED
  BY <1>1 DEF Store!StoreCompact

\* What was kept of the live segments stays if they do.
LEMMA SameLiveKept ==
    ASSUME TypeInv, TrackerTypeOK', UNCHANGED <<mem, buf>>, Live' = Live, DataKept
    PROVE  \A k \in Keys : Kept(k)' = Kept(k)
<1> SUFFICES ASSUME NEW k \in Keys, NEW x
             PROVE  x \in Kept(k)' <=> x \in Kept(k)
  OBVIOUS
<1>1. Live \subseteq SegmentID
  BY RegisteredType DEF TypeInv, TypeOK
<1>2. IsKept(k, x)' <=> IsKept(k, x)
  BY <1>1 DEF IsKept, DataKept
<1> QED
  BY <1>2, KeptMember

LEMMA InitKept ==
    ASSUME Init
    PROVE  Store!StoreInit
<1>1. Live = {} /\ SegmentID = {}
  BY EmptySeqSet DEF Init, TrackerInit, Live, Registered, SegmentID
<1>2. \A k \in Keys : Kept(k) = {}
  BY <1>1 DEF Init, Kept, Holders, EmptyTable, Absent
<1> QED
  BY <1>2 DEF Init, Store!StoreInit

\* A client write replaces at most the newest version of its key, the one in the
\* memtable.
LEMMA WriteKept ==
    ASSUME TypeInv, MainInv, VersionInv, NEW k \in Keys, NEW e \in {writes + 1, - (writes + 1)},
           WriteEntry(k, e), mpc = "run"
    PROVE  Store!StorePut(k) \/ Store!StoreDelete(k)
<1> DEFINE table == [mem EXCEPT ![k] = e]
           stored(j) == {x \in Int : x > 0 /\ \E s \in Live : segs[s].data[j] = x}
<1>1. /\ UNCHANGED trackerVars /\ writes' = writes + 1 /\ writes \in Nat /\ e \in Int
      /\ \/ mem' = EmptyTable /\ buf' = table
         \/ mem' = table /\ buf' = buf
  BY DEF WriteEntry, TypeInv, TypeOK, MainTypeOK
<1>2. mem \in [Keys -> Int] /\ buf = EmptyTable
  BY DEF TypeInv, TypeOK, MainTypeOK, Table, MainInv, BufferOwned
<1>3. \A j \in Keys : /\ table[j] = IF j = k THEN e ELSE mem[j]
                      /\ EmptyTable[j] = 0
  BY <1>2 DEF EmptyTable, Absent
<1>4. TrackerTypeOK' /\ Live' = Live /\ segs' = segs
  BY <1>1, TrackerFrame DEF TypeInv, TypeOK, trackerVars
<1> HIDE DEF table
<1>5. \A j \in Keys : \A x : x \in Kept(j) <=> (x > 0 /\ x = mem[j]) \/ x \in stored(j)
  <2> SUFFICES ASSUME NEW j \in Keys, NEW x
               PROVE  x \in Kept(j) <=> (x > 0 /\ x = mem[j]) \/ x \in stored(j)
    OBVIOUS
  <2>1. \A s \in Live : segs[s].data[j] \in Int
    BY RegisteredType, EntryType DEF TypeInv, TypeOK
  <2> QED
    BY <1>2, <1>3, <1>4, <2>1, KeptMember DEF IsKept
<1>6. \A j \in Keys : \A x : x \in Kept(j)' <=> (x > 0 /\ x = table[j]) \/ x \in stored(j)
  <2> SUFFICES ASSUME NEW j \in Keys, NEW x
               PROVE  x \in Kept(j)' <=> (x > 0 /\ x = table[j]) \/ x \in stored(j)
    OBVIOUS
  <2>1. \A s \in Live : segs[s].data[j] \in Int
    BY RegisteredType, EntryType DEF TypeInv, TypeOK
  <2>2. IsKept(j, x)' <=> x > 0 /\ (x = table[j] \/ \E s \in Live : segs[s].data[j] = x)
    BY <1>1, <1>2, <1>3, <1>4 DEF IsKept
  <2> QED
    BY <1>4, <2>1, <2>2, KeptMember
<1>7. \A j \in Keys : j # k => Kept(j)' = Kept(j)
  BY <1>3, <1>5, <1>6
<1>8. stored(k) \in Store!Remainders(k)
  <2>1. CASE mem[k] > 0 /\ mem[k] \notin stored(k)
    <3>1. mem[k] \in Kept(k) /\ stored(k) = Kept(k) \ {mem[k]}
      BY <1>5, <2>1
    <3>2. \A x \in Kept(k) \cup {0} : x \in Int /\ mem[k] >= x
      <4>1. ASSUME NEW x \in stored(k) PROVE x <= mem[k]
        <5>1. PICK s \in Live : segs[s].data[k] = x
          OBVIOUS
        <5>2. Version(x) <= Version(latest[k]) /\ latest[k] = mem[k]
          BY <2>1, <5>1, RegisteredType DEF VersionInv, TypeInv, TypeOK, Absent
        <5>3. Version(x) = x /\ Version(mem[k]) = mem[k]
          BY <1>2, <2>1, VersionType
        <5> QED
          BY <5>2, <5>3
      <4> QED
        BY <1>2, <1>5, <2>1, <4>1
    <3>3. Store!Max(Kept(k) \cup {0}) = mem[k]
      <4>1. PICK T : T = Kept(k) \cup {0}
        OBVIOUS
      <4>2. PICK m : m = mem[k]
        OBVIOUS
      <4>3. m \in T /\ \A y \in T : y \in Int /\ m >= y
        BY <3>1, <3>2, <4>1, <4>2
      <4>4. Store!Max(T) \in T /\ \A y \in T : Store!Max(T) >= y
        BY <4>3 DEF Store!Max
      <4>5. Store!Max(T) = m
        BY <4>3, <4>4
      <4> QED
        BY <4>1, <4>2, <4>5
    <3> QED
      BY <3>1, <3>3 DEF Store!Remainders
  <2>2. CASE ~ (mem[k] > 0 /\ mem[k] \notin stored(k))
    <3>1. Kept(k) = stored(k)
      BY <1>5, <2>2
    <3> QED
      BY <3>1 DEF Store!Remainders
  <2> QED
    BY <2>1, <2>2
<1> HIDE DEF stored
<1>9. CASE e = writes + 1
  <2>1. Kept(k)' = stored(k) \cup {writes + 1}
    BY <1>1, <1>3, <1>6, <1>9
  <2> QED
    BY <1>1, <1>7, <1>8, <2>1 DEF Store!StorePut
<1>10. CASE e = - (writes + 1)
  <2>1. Kept(k)' = stored(k)
    BY <1>1, <1>3, <1>6, <1>10
  <2> QED
    BY <1>1, <1>7, <1>8, <2>1 DEF Store!StoreDelete
<1> QED
  BY <1>9, <1>10

\* The output of a merge brings nothing back: what it holds, a live input holds.
LEMMA RegisterOutputKept ==
    ASSUME TypeInv, TrackerTypeOK', MergeInv, OutputInv, PlanKept, RegisterOutput("bg"),
           UNCHANGED <<mem, buf>>
    PROVE  \A k \in Keys : Kept(k)' = Kept(k)
<1> SUFFICES ASSUME NEW k \in Keys, NEW x
             PROVE  x \in Kept(k)' <=> x \in Kept(k)
  OBVIOUS
<1>0. "bg" \in Compactors
  BY DEF Compactors
<1>1. pc["bg"] = "register" /\ RegisterSegment(newSeg["bg"])
  BY DEF RegisterOutput, Goto
<1>2. PICK n : n = newSeg["bg"]
  OBVIOUS
<1>3. n \in SegmentID \ Registered /\ n # 0 /\ segs[n].data = merged["bg"]
  BY <1>0, <1>1, <1>2 DEF OutputInv, OutputHolds, TypeInv, TypeOK, TrackerTypeOK, SegmentID
<1>4. /\ \A s \in SegmentID : segs'[s].data = segs[s].data
      /\ Live' = Live \cup {n} /\ Live \subseteq SegmentID
  BY <1>1, <1>2, <1>3, RegisterEffect, RegisteredType DEF TypeInv, TypeOK, TrackerTypeOK
<1>5. ASSUME x > 0, x = merged["bg"][k]
      PROVE  \E s \in Live : segs[s].data[k] = x
  <2>1. PICK s \in Inputs("bg") : segs[s].data[k] = merged["bg"][k]
    BY <1>0, <1>5 DEF MergeInv, MergeFrom, Absent
  <2>2. s \in Live
    BY <1>0, <1>1, <2>1 DEF TypeInv, InputsRegistered, PlanKept, Live
  <2> QED
    BY <1>5, <2>1, <2>2
<1>6. IsKept(k, x)' <=> IsKept(k, x)
  BY <1>3, <1>4, <1>5 DEF IsKept
<1> QED
  BY <1>6, KeptMember

\* Retiring an input drops no key: the output holds a value for what it held.
LEMMA MarkInputKept ==
    ASSUME TypeInv, TrackerTypeOK', HandInv, OutputInv, PlanKept, MarkInput("bg"),
           UNCHANGED <<mem, buf>>, NEW k \in Keys
    PROVE  Kept(k)' \subseteq Kept(k) /\ (Kept(k) # {} => Kept(k)' # {})
<1>0. "bg" \in Compactors
  BY DEF Compactors
<1>1. PICK h : h = Head(todo["bg"])
  OBVIOUS
<1>2. pc["bg"] = "mark" /\ todo["bg"] # <<>> /\ MarkObsolete(h)
      /\ todo' = [todo EXCEPT !["bg"] = Tail(@)]
  BY <1>1 DEF MarkInput, Goto
<1>3. h \in Registered /\ h \in SegmentID /\ h \in Inputs("bg")
  <2>1. h \in Registered /\ h \in SegmentID
    BY <1>0, <1>1, <1>2, TodoTail
  <2>2. h \in ToSet(todo["bg"])
    BY <1>0, <1>1, <1>2, HeadTail DEF TypeInv, TypeOK, CompactionTypeOK
  <2> QED
    BY <1>0, <1>2, <2>1, <2>2 DEF HandInv, InputsRetired, Executing
<1>4. /\ segs' = segs /\ Live' = Live \ {h} /\ obsolete' = obsolete \cup {h}
      /\ Registered' = Registered /\ merged' = merged
  BY <1>2, <1>3, MarkEffect DEF TypeInv, TypeOK, MarkInput
<1>5. ASSUME NEW x, IsKept(k, x)'
      PROVE  IsKept(k, x)
  BY <1>4, <1>5 DEF IsKept
<1>6. ASSUME NEW x, IsKept(k, x), ~ IsKept(k, x)'
      PROVE  IsKept(k, merged["bg"][k])'
  <2>1. h \in Live /\ segs[h].data[k] > 0
    BY <1>4, <1>6 DEF IsKept
  <2>2. merged["bg"][k] > 0
    BY <1>0, <1>2, <1>3, <2>1 DEF HandInv, MergeCovers, Executing, Live, Covers
  <2>3. merged["bg"] # EmptyTable
    BY <2>2 DEF EmptyTable, Absent
  <2>4. PICK n : n = newSeg["bg"]
    OBVIOUS
  <2>5. n \in Registered /\ n # 0
    BY <1>0, <1>2, <2>3, <2>4, RegisteredType
    DEF OutputInv, OutputHolds, TypeInv, TypeOK, TrackerTypeOK, SegmentID
  <2>6. segs[n].data = merged["bg"] /\ h < n
    BY <1>0, <1>2, <1>3, <2>4, <2>5 DEF OutputInv, OutputHolds
  <2>7. h # n
    BY <1>3, <2>6 DEF TypeInv, TypeOK, TrackerTypeOK, SegmentID
  <2>8. n \in Live'
    BY <1>2, <1>4, <2>4, <2>5, <2>7 DEF PlanKept, Live
  <2> QED
    BY <1>4, <2>2, <2>6, <2>8 DEF IsKept
<1>7. Kept(k)' \subseteq Kept(k)
  BY <1>5, KeptMember
<1>8. ASSUME NEW x \in Kept(k)
      PROVE  Kept(k)' # {}
  BY <1>6, <1>8, KeptMember
<1> QED
  BY <1>7, <1>8

\* Execute, on the background goroutine, is a compaction of the store.
LEMMA ExecuteKept ==
    ASSUME TypeInv, TrackerTypeOK', MergeInv, HandInv, OutputInv, PlanKept, VersionInv,
           ExecuteStep("bg"), UNCHANGED mainVars
    PROVE  [Store!StoreNext]_(Store!storeVars)
<1>0. "bg" \in Compactors /\ UNCHANGED <<mem, buf>> /\ writes' = writes
  BY DEF Compactors, mainVars
<1>1. CASE RegisterOutput("bg")
  BY <1>0, <1>1, RegisterOutputKept, SameKept
<1>2. CASE MarkInput("bg")
  BY <1>0, <1>2, MarkInputKept, FewerKept DEF Store!StoreNext
<1>3. CASE Live' = Live
  BY <1>0, <1>3, ExecuteDataKept, SameLiveKept, SameKept
<1>4. Live' = Live \/ RegisterOutput("bg") \/ MarkInput("bg")
  BY DEF ExecuteStep, SetInCompaction, ScanInput, WriteMerged, ReturnOutput,
         AppendSegment, trackerVars, Live, Registered
<1> QED
  BY <1>1, <1>2, <1>3, <1>4

\* The versions of a flush are in the buffer until its segment is registered.
LEMMA FlushRegisterKept ==
    ASSUME TypeInv, TrackerTypeOK', OutputInv, MainInv, FlushRegister
    PROVE  \A k \in Keys : Kept(k)' = Kept(k)
<1> SUFFICES ASSUME NEW k \in Keys, NEW x
             PROVE  x \in Kept(k)' <=> x \in Kept(k)
  OBVIOUS
<1>1. mpc = "register" /\ RegisterSegment(flushed) /\ buf' = EmptyTable /\ mem' = mem
  BY DEF FlushRegister
<1>2. PICK n : n = flushed
  OBVIOUS
<1>3. n \in SegmentID \ Registered /\ segs[n].data = buf
  BY <1>1, <1>2 DEF OutputInv, PendingDistinct, MainInv, BufferOwned
<1>4. /\ \A s \in SegmentID : segs'[s].data = segs[s].data
      /\ Live' = Live \cup {n} /\ Live \subseteq SegmentID
  BY <1>1, <1>2, <1>3, RegisterEffect, RegisteredType DEF TypeInv, TypeOK, TrackerTypeOK
<1>5. EmptyTable[k] = 0
  BY DEF EmptyTable, Absent
<1>6. IsKept(k, x)' <=> IsKept(k, x)
  BY <1>1, <1>3, <1>4, <1>5 DEF IsKept
<1> QED
  BY <1>6, KeptMember

\* What the refinement mapping needs to know of a state.
StoreInv ==
    TypeInv /\ MergeInv /\ HandInv /\ OutputInv /\ MainInv /\ VersionInv
        /\ MainNeverCompacts /\ PlanKept

\* Every step of the program is a step of the store, or none.
LEMMA NextStore ==
    ASSUME StoreInv, TypeInv', [Next]_vars
    PROVE  [Store!StoreNext]_(Store!storeVars)
<1> USE DEF StoreInv
<1>0. TrackerTypeOK /\ TrackerTypeOK'
  BY DEF TypeInv, TypeOK
<1>1. ASSUME UNCHANGED trackerVars, UNCHANGED <<writes, mem, buf>>
      PROVE  [Store!StoreNext]_(Store!storeVars)
  <2>1. Live' = Live /\ DataKept
    BY <1>0, <1>1, TrackerFrame DEF trackerVars, DataKept
  <2> QED
    BY <1>0, <1>1, <2>1, SameLiveKept, SameKept
<1>2. CASE ExecuteStep("bg") /\ UNCHANGED mainVars
  BY <1>0, <1>2, ExecuteKept
<1>3. CASE FlushWrite
  <2>1. UNCHANGED <<writes, mem, buf>> /\ Live' = Live
    BY <1>3 DEF FlushWrite, AppendSegment, trackerVars, Live, Registered
  <2>2. NewSegment(buf, TIERED, 0, clock, "flush") \in SegmentMeta
    BY NewSegmentType DEF TypeInv, TypeOK, MainTypeOK, CompactionTypeOK, CompactionType
  <2>3. ASSUME NEW seg \in SegmentMeta, AppendSegment(seg)
        PROVE  DataKept
    BY <1>0, <2>3, AppendEffect DEF DataKept
  <2>4. ASSUME UNCHANGED trackerVars
        PROVE  DataKept
    BY <1>0, <2>4, TrackerFrame DEF DataKept, trackerVars
  <2>5. DataKept
    BY <1>3, <2>2, <2>3, <2>4 DEF FlushWrite
  <2> QED
    BY <1>0, <2>1, <2>5, SameLiveKept, SameKept
<1>4. CASE FlushRegister
  <2>1. writes' = writes
    BY <1>4 DEF FlushRegister
  <2> QED
    BY <1>0, <1>4, <2>1, FlushRegisterKept, SameKept
<1>5. CASE Populate \/ \E k \in Keys : Put(k) \/ Delete(k)
  <2>1. PICK k \in Keys, e \in {writes + 1, - (writes + 1)} :
            WriteEntry(k, e) /\ mpc = "run"
    BY <1>5, NextWrite
  <2>2. Store!StorePut(k) \/ Store!StoreDelete(k)
    BY <2>1, WriteKept
  <2> QED
    BY <2>2 DEF Store!StoreNext
<1>6. CASE \/ (\E k \in Keys : ReadStart(k)) \/ FlushTruncate \/ NextPhase \/ FinalFlush
           \/ ReadSegment \/ ReadReturn \/ MainDone
  BY <1>1, <1>6
  DEF ReadStart, FlushTruncate, NextPhase, FinalFlush, ReadSegment, ReadReturn, MainDone
<1>7. CASE Compact("bg") /\ ~ ExecuteStep("bg") /\ UNCHANGED mainVars
  BY <1>1, <1>7, DirectorQuiet DEF mainVars, Compactors
<1>8. CASE BackgroundTick \/ BackgroundResult \/ BackgroundStop \/ Second \/ UNCHANGED vars
  <2>1. UNCHANGED trackerVars
    BY <1>8, CallsQuiet DEF vars
  <2> QED
    BY <1>1, <1>8, <2>1
    DEF BackgroundTick, BackgroundResult, BackgroundStop, Second, mainVars, vars
<1>9. ~ MainCompact /\ ~ MainResult /\ ~ Compact("main")
  BY MainIdle
<1> QED
  BY <1>2, <1>3, <1>4, <1>5, <1>6, <1>7, <1>8, <1>9
  DEF Next, BackgroundStep, MainStep, Ended

\* While only the background goroutine compacts and no scan fails, the engine
\* implements the store of VersionStore: a client write replaces at most the newest
\* version of its key, compaction drops versions but never the last one of a key,
\* and a version that was dropped never comes back (executor.go).
THEOREM StoreImplemented ==
    ASSUME "mmap" \notin Faults, OnlyBackgroundCompacts
    PROVE  Spec => ImplementsVersionStore
<1>1. Init => Store!StoreInit
  BY InitKept
<1>2. StoreInv /\ TypeInv' /\ [Next]_vars => [Store!StoreNext]_(Store!storeVars)
  BY NextStore
<1>3. MergesAreSafe
  BY DEF MergesAreSafe
<1>4. Spec => []StoreInv
  BY <1>3, TypeInvariance, MergeInvariance, HandInvariance, OutputInvariance, MainInvariance,
     VersionInvariance, MainNeverCompactsInvariance, PlanKeptInvariance, PTL
  DEF StoreInv
<1> QED
  BY <1>1, <1>2, <1>4, TypeInvariance, PTL DEF Spec, ImplementsVersionStore, Store!StoreSpec
=============================================================================
