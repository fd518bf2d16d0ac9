--------------------------- MODULE AmethystProofs ---------------------------
(***************************************************************************)
(* Safety of the running program of Amethyst.tla, for all values of the    *)
(* constants: its types, what each operation of the tracker does, flags    *)
(* do not leak, the log protects what is not on disk, and compaction loses *)
(* no key as long as failures cannot make a merge miss a live input        *)
(* (MergesAreSafe).                                                        *)
(*                                                                         *)
(* TypeOK is not inductive: that only registered segments become obsolete  *)
(* rests on the inputs of a plan being registered, and that a segment      *)
(* about to be registered exists rests on where the goroutines are.        *)
(*                                                                         *)
(* The invariant behind the last theorem says of every registered segment  *)
(* that what it holds is also held by a live segment written no earlier.   *)
(* Two goroutines may compact the same inputs, and one may retire the      *)
(* other's output; the order in which segments are written keeps the       *)
(* argument from going round in circles.                                   *)
(***************************************************************************)
EXTENDS AmethystProps, FiniteSetTheorems, SequenceTheorems, TLAPS

\* Everything a compactor holds on to came out of the tracker.
InputsRegistered ==
    \A c \in Compactors : Inputs(c) \subseteq Registered /\ ToSet(todo[c]) \subseteq Registered

\* A segment that is about to be registered has been written.
PendingWritten ==
    /\ \A c \in Compactors : pc[c] = "register" => newSeg[c] \in SegmentID
    /\ mpc = "register" => flushed \in SegmentID

TypeInv == TypeOK /\ InputsRegistered /\ PendingWritten

\* Segment IDs are the places of a sequence, so a set of them is finite and can be counted.
LEMMA SegmentSetFinite ==
    ASSUME TrackerTypeOK, NEW S \in SUBSET SegmentID
    PROVE  IsFiniteSet(S) /\ Cardinality(S) \in Nat
<1>1. Len(segs) \in Nat /\ SegmentID = 1..Len(segs)
  BY DEF TrackerTypeOK, SegmentID
<1>2. S \in SUBSET Nat /\ \A s \in S : s <= Len(segs)
  BY <1>1
<1>3. IsFiniteSet(S)
  BY <1>1, <1>2, FS_BoundedSetOfNaturals
<1> QED
  BY <1>3, FS_CardinalityType

\* What the tracker lists are segments of the data file.
LEMMA RegisteredType ==
    ASSUME TrackerTypeOK
    PROVE  Registered \subseteq SegmentID /\ Live \subseteq SegmentID
  BY DEF TrackerTypeOK, Registered, Live, ToSet, SegmentID

\* The fields of a segment.
LEMMA SegmentType ==
    ASSUME TrackerTypeOK, NEW s \in SegmentID
    PROVE  segs[s] \in SegmentMeta /\ segs[s].level \in Nat /\ segs[s].data \in Table
<1>1. segs[s] \in SegmentMeta
  BY DEF TrackerTypeOK, SegmentID
<1> QED
  BY <1>1 DEF SegmentMeta

\* The orderings of a set of segments are sequences of exactly its size.
LEMMA SetToSeqsType ==
    ASSUME TrackerTypeOK, NEW S \in SUBSET SegmentID, NEW p \in SetToSeqs(S)
    PROVE  /\ p \in Seq(S)
           /\ p \in Seq(SegmentID)
           /\ Len(p) = Cardinality(S)
           /\ ToSet(p) \subseteq S
<1>1. Cardinality(S) \in Nat
  BY SegmentSetFinite
<1>2. p \in [1..Cardinality(S) -> S]
  BY DEF SetToSeqs
<1> QED
  BY <1>1, <1>2 DEF ToSet

\* A sequence over a set is a sequence over a larger one.
LEMMA SeqMonotone ==
    ASSUME NEW S, NEW T, S \subseteq T
    PROVE  Seq(S) \subseteq Seq(T)
  OBVIOUS

\* The elements of a sequence.
LEMMA ToSetMember ==
    ASSUME NEW S, NEW q \in Seq(S), NEW x
    PROVE  x \in ToSet(q) <=> \E i \in 1 .. Len(q) : q[i] = x
  BY DEF ToSet

\* Taking the head off a sequence takes one element out of hand.
LEMMA HeadTail ==
    ASSUME NEW S, NEW q \in Seq(S), q # <<>>
    PROVE  /\ Head(q) \in S
           /\ Tail(q) \in Seq(S)
           /\ ToSet(q) = {Head(q)} \cup ToSet(Tail(q))
<1>1. Head(q) \in S /\ Tail(q) \in Seq(S)
  OBVIOUS
<1>2. Len(q) \in Nat \ {0} /\ Len(Tail(q)) = Len(q) - 1
      /\ \A i \in 1 .. Len(q) - 1 : Tail(q)[i] = q[i + 1]
  OBVIOUS
<1>3. ASSUME NEW x \in ToSet(q)
      PROVE  x = Head(q) \/ x \in ToSet(Tail(q))
  <2>1. PICK i \in 1 .. Len(q) : x = q[i]
    BY <1>3 DEF ToSet
  <2>2. CASE i = 1
    BY <2>1, <2>2
  <2>3. CASE i # 1
    <3>1. i - 1 \in 1 .. Len(q) - 1 /\ Tail(q)[i - 1] = x
      BY <2>1, <2>3, <1>2
    <3> QED
      BY <3>1, <1>1, <1>2, ToSetMember
  <2> QED
    BY <2>2, <2>3
<1>4. ASSUME NEW x \in ToSet(Tail(q))
      PROVE  x \in ToSet(q)
  <2>1. PICK i \in 1 .. Len(q) - 1 : x = Tail(q)[i]
    BY <1>4, <1>1, <1>2 DEF ToSet
  <2>2. i + 1 \in 1 .. Len(q) /\ q[i + 1] = x
    BY <2>1, <1>2
  <2> QED
    BY <2>2 DEF ToSet
<1>5. Head(q) \in ToSet(q)
  BY <1>2 DEF ToSet
<1> QED
  BY <1>1, <1>3, <1>4, <1>5

\* Prepending adds one element.
LEMMA ConsSet ==
    ASSUME NEW S, NEW q \in Seq(S), NEW x \in S
    PROVE  /\ <<x>> \o q \in Seq(S)
           /\ ToSet(<<x>> \o q) = {x} \cup ToSet(q)
<1> DEFINE r == <<x>> \o q
<1>1. r \in Seq(S) /\ Len(r) = Len(q) + 1 /\ Len(q) \in Nat
  OBVIOUS
<1>2. r[1] = x /\ \A i \in 1 .. Len(q) : r[i + 1] = q[i]
  OBVIOUS
<1>3. ASSUME NEW y \in ToSet(r) PROVE y = x \/ y \in ToSet(q)
  <2>1. PICK i \in 1 .. Len(q) + 1 : y = r[i]
    BY <1>3, <1>1 DEF ToSet
  <2>2. CASE i = 1
    BY <2>1, <2>2, <1>2
  <2>3. CASE i # 1
    <3>1. i - 1 \in 1 .. Len(q) /\ q[i - 1] = y
      BY <2>1, <2>3, <1>1, <1>2
    <3> QED
      BY <3>1 DEF ToSet
  <2> QED
    BY <2>2, <2>3
<1>4. x \in ToSet(r)
  BY <1>1, <1>2 DEF ToSet
<1>5. ASSUME NEW y \in ToSet(q) PROVE y \in ToSet(r)
  <2>1. PICK i \in 1 .. Len(q) : y = q[i]
    BY <1>5 DEF ToSet
  <2>2. i + 1 \in 1 .. Len(r) /\ r[i + 1] = y
    BY <2>1, <1>1, <1>2
  <2> HIDE DEF r
  <2> QED
    BY <2>2, <1>1, ToSetMember
<1> QED
  BY <1>1, <1>3, <1>4, <1>5

\* The empty sequence has no element.
LEMMA EmptySeqSet == ToSet(<<>>) = {}
  BY DEF ToSet

\* The queries that sort answer with registered segments.
LEMMA SortedOrdersType ==
    ASSUME TrackerTypeOK, NEW S \in SUBSET Registered, NEW p \in SortedOrders(S)
    PROVE  p \in Seq(SegmentID) /\ ToSet(p) \subseteq S
  BY RegisteredType, SetToSeqsType DEF SortedOrders

\* They answer with all of them, each once.
LEMMA SortedOrdersSet ==
    ASSUME TrackerTypeOK, NEW S \in SUBSET SegmentID, NEW p \in SortedOrders(S)
    PROVE  /\ ToSet(p) = S
           /\ \A i, j \in DOMAIN p : p[i] = p[j] => i = j
<1>1. PICK n : n = Cardinality(S)
  OBVIOUS
<1>2. n \in Nat /\ IsFiniteSet(S)
  BY <1>1, SegmentSetFinite
<1>3. p \in [1..n -> S] /\ \A i, j \in 1..n : p[i] = p[j] => i = j
  BY <1>1 DEF SetToSeqs, SortedOrders
<1>4. p \in Injection(1..n, S)
  BY <1>3 DEF Injection, IsInjective
<1>5. Cardinality(1..n) = n
  BY <1>2, FS_Interval
<1>6. p \in Surjection(1..n, S)
  BY <1>1, <1>2, <1>4, <1>5, FS_Injection
<1> QED
  BY <1>2, <1>3, <1>6 DEF ToSet, Surjection

\* collectLimitedOverlaps answers with its target and live segments, within its limit.
LEMMA CollectType ==
    ASSUME TrackerTypeOK, NEW target \in Registered,
           NEW inputs \in collectLimitedOverlaps(target)
    PROVE  /\ inputs \in Seq(SegmentID)
           /\ ToSet(inputs) \subseteq Registered
           /\ ToSet(inputs) \subseteq {target} \cup Live
<1> DEFINE picked == {target} \cup Live
           overlaps == GetOverlappingSegments(target)
           count == IF Cardinality(overlaps) < MaxInputs THEN Cardinality(overlaps)
                                                         ELSE MaxInputs - 1
<1>1. overlaps \subseteq picked /\ picked \subseteq Registered /\ overlaps \subseteq SegmentID
  BY RegisteredType DEF GetOverlappingSegments, Live
<1>2. Cardinality(overlaps) \in Nat
  BY <1>1, SegmentSetFinite
<1>3. PICK p \in SetToSeqs(overlaps) : inputs = <<target>> \o SubSeq(p, 1, count)
  BY DEF collectLimitedOverlaps
<1>4. p \in Seq(overlaps) /\ Len(p) = Cardinality(overlaps)
  BY <1>1, SetToSeqsType
<1>5. count \in 0 .. Len(p)
  BY <1>2, <1>4, BoundAssumption
<1>6. SubSeq(p, 1, count) \in Seq(overlaps)
  BY <1>4, <1>5, SubSeqProperties
<1>7. SubSeq(p, 1, count) \in Seq(picked)
  BY <1>6, <1>1, SeqMonotone
<1>8. inputs \in Seq(picked) /\ ToSet(inputs) \subseteq picked
  BY <1>3, <1>7, ConsSet DEF ToSet
<1> QED
  BY <1>1, <1>8, RegisteredType, SeqMonotone

-----------------------------------------------------------------------------
(***************************************************************************)
(* The tracker's operations.                                               *)
(***************************************************************************)
LEMMA TrackerFrame ==
    ASSUME TrackerTypeOK, UNCHANGED trackerVars
    PROVE  /\ TrackerTypeOK'
           /\ SegmentID' = SegmentID
           /\ Registered' = Registered
           /\ Live' = Live
  BY DEF trackerVars, TrackerTypeOK, SegmentID, Registered, Live

\* WriteSegment builds a segment that holds what it was given.
LEMMA NewSegmentType ==
    ASSUME NEW data \in Table, NEW strategy \in CompactionType, NEW level \in Nat,
           NEW now \in Nat, NEW origin \in {"flush", "compaction"}
    PROVE  /\ NewSegment(data, strategy, level, now, origin) \in SegmentMeta
           /\ NewSegment(data, strategy, level, now, origin).data = data
  BY DEF NewSegment, SegmentMeta

\* An append adds one segment behind the others and changes none of them.
LEMMA AppendEffect ==
    ASSUME TrackerTypeOK, NEW seg \in SegmentMeta, AppendSegment(seg)
    PROVE  /\ TrackerTypeOK'
           /\ SegmentID' = SegmentID \cup {Len(segs) + 1}
           /\ Len(segs) + 1 \notin SegmentID
           /\ \A s \in SegmentID : segs'[s] = segs[s] /\ s < Len(segs) + 1
           /\ segs'[Len(segs) + 1] = seg
           /\ Registered' = Registered
           /\ Live' = Live
<1>1. /\ segs' = Append(segs, seg) /\ segs' \in Seq(SegmentMeta)
      /\ ordered' = ordered /\ obsolete' = obsolete
  BY DEF AppendSegment, TrackerTypeOK
<1>2. Len(segs') = Len(segs) + 1 /\ Len(segs) \in Nat
  BY <1>1 DEF TrackerTypeOK
<1>3. SegmentID = 1 .. Len(segs) /\ SegmentID' = 1 .. Len(segs) + 1
  BY <1>1, <1>2 DEF SegmentID, TrackerTypeOK
<1>4. \A s \in SegmentID : segs'[s] = segs[s] /\ s < Len(segs) + 1
  BY <1>1, <1>2, <1>3 DEF TrackerTypeOK
<1>5. segs'[Len(segs) + 1] = seg
  BY <1>1, <1>2 DEF TrackerTypeOK
<1>6. Registered' = Registered /\ Live' = Live
  BY <1>1 DEF Registered, Live
<1>7. ordered' \in Seq(SegmentID')
  BY <1>1, <1>2, <1>3, SeqMonotone DEF TrackerTypeOK
<1> QED
  BY <1>1, <1>2, <1>3, <1>4, <1>5, <1>6, <1>7 DEF TrackerTypeOK

\* RegisterSegment lists the segment, live unless it is obsolete, and keeps all data.
LEMMA RegisterEffect ==
    ASSUME TrackerTypeOK, NEW id \in SegmentID, RegisterSegment(id)
    PROVE  /\ TrackerTypeOK'
           /\ SegmentID' = SegmentID
           /\ \A s \in SegmentID : segs'[s].data = segs[s].data
           /\ Registered' = Registered \cup {id}
           /\ obsolete' = obsolete
           /\ Live' = Live \cup ({id} \ obsolete)
<1>1. CountOverlaps(id) \in Nat
  BY RegisteredType, SegmentSetFinite DEF CountOverlaps
<1>2. /\ segs' = [segs EXCEPT ![id].overlapCount = CountOverlaps(id)]
      /\ ordered' = <<id>> \o ordered
      /\ obsolete' = obsolete
  BY DEF RegisterSegment
<1>3. segs[id] \in SegmentMeta /\ segs \in Seq(SegmentMeta)
  BY DEF TrackerTypeOK, SegmentID
<1>4. [segs[id] EXCEPT !.overlapCount = CountOverlaps(id)] \in SegmentMeta
  BY <1>1, <1>3 DEF SegmentMeta
<1>5. segs' = [segs EXCEPT ![id] = [segs[id] EXCEPT !.overlapCount = CountOverlaps(id)]]
  BY <1>2
<1>6. segs' \in Seq(SegmentMeta) /\ SegmentID' = SegmentID
  BY <1>3, <1>4, <1>5 DEF SegmentID
<1>7. \A s \in SegmentID : segs'[s].data = segs[s].data
  BY <1>3, <1>5 DEF SegmentID, SegmentMeta
<1>8. ordered' \in Seq(SegmentID) /\ Registered' = Registered \cup {id}
  BY <1>2, ConsSet DEF TrackerTypeOK, Registered
<1> QED
  BY <1>2, <1>6, <1>7, <1>8 DEF TrackerTypeOK, Live

\* MarkObsolete takes one segment off the live ones.
LEMMA MarkEffect ==
    ASSUME TrackerTypeOK, NEW id \in Registered, MarkObsolete(id)
    PROVE  /\ TrackerTypeOK'
           /\ SegmentID' = SegmentID
           /\ segs' = segs
           /\ Registered' = Registered
           /\ obsolete' = obsolete \cup {id}
           /\ Live' = Live \ {id}
  BY DEF MarkObsolete, TrackerTypeOK, SegmentID, Registered, Live

-----------------------------------------------------------------------------
(***************************************************************************)
(* Type correctness.                                                       *)
(***************************************************************************)
\* The tracker only grows.
Grows == TrackerTypeOK' /\ SegmentID \subseteq SegmentID' /\ Registered \subseteq Registered'

\* Lists of segments stay lists of segments while the tracker grows.
LEMMA SeqGrows ==
    ASSUME Grows
    PROVE  Seq(SegmentID) \subseteq Seq(SegmentID') /\ Plan \subseteq Plan'
<1>1. Seq(SegmentID) \subseteq Seq(SegmentID')
  BY SeqMonotone DEF Grows
<1> QED
  BY <1>1 DEF Plan

\* A step that leaves the compactors alone keeps their types.
LEMMA CompactionTypeFrame ==
    ASSUME TypeInv, Grows, UNCHANGED compactionVars
    PROVE  CompactionTypeOK' /\ InputsRegistered'
<1>1. CompactionTypeOK'
  BY SeqGrows DEF TypeInv, TypeOK, CompactionTypeOK, compactionVars, Grows
<1>2. InputsRegistered'
  BY DEF TypeInv, InputsRegistered, Inputs, compactionVars, Grows
<1> QED
  BY <1>1, <1>2

\* A step that leaves main alone keeps the types of its variables.
LEMMA MainTypeFrame ==
    ASSUME TypeInv, Grows, UNCHANGED mainVars
    PROVE  MainTypeOK'
  BY SeqGrows DEF TypeInv, TypeOK, MainTypeOK, mainVars, Grows

\* A tracker that does not change grows, trivially.
LEMMA TrackerUnchangedGrows ==
    ASSUME TypeInv, UNCHANGED trackerVars
    PROVE  Grows /\ Seq(SegmentID') = Seq(SegmentID) /\ Plan' = Plan
           /\ SegmentID' = SegmentID /\ Registered' = Registered
  BY TrackerFrame DEF Grows, TypeInv, TypeOK, Plan

\* The plan of a compactor between two calls has no inputs.
LEMMA NoPlanType == NoPlan \in Plan /\ ToSet(NoPlan.inputs) = {}
  BY EmptySeqSet DEF NoPlan, Plan, CompactionType

\* The snapshot MaybePlan takes consists of registered segments.
LEMMA MaybePlanType ==
    ASSUME TypeInv, NEW c \in Compactors, MaybePlan(c)
    PROVE  Grows /\ CompactionTypeOK' /\ InputsRegistered'
<1> USE DEF TypeInv, TypeOK
<1>1. UNCHANGED trackerVars
  BY DEF MaybePlan
<1>2. PICK segments \in GetAllSegments :
          IF segments = <<>>
          THEN Goto(c, "idle", "nil") /\ UNCHANGED todo
          ELSE Goto(c, "idle", "decide") /\ todo' = [todo EXCEPT ![c] = segments]
  BY DEF MaybePlan
<1>3. segments \in Seq(SegmentID) /\ ToSet(segments) \subseteq Registered
  BY SortedOrdersType DEF GetAllSegments, Live
<1>4. pc' \in [Compactors -> PC]
  BY <1>2 DEF Goto, CompactionTypeOK, PC, Results, Executing
<1>5. todo' \in [Compactors -> Seq(SegmentID)]
  BY <1>2, <1>3 DEF CompactionTypeOK
<1>6. CompactionTypeOK'
  BY <1>1, <1>4, <1>5, TrackerUnchangedGrows DEF MaybePlan, CompactionTypeOK
<1>7. InputsRegistered'
  <2> SUFFICES ASSUME NEW d \in Compactors
               PROVE  Inputs(d)' \subseteq Registered /\ ToSet(todo'[d]) \subseteq Registered
    BY <1>1, TrackerUnchangedGrows DEF InputsRegistered
  <2>1. plan' = plan
    BY DEF MaybePlan
  <2>2. CASE todo' = todo
    BY <2>1, <2>2 DEF InputsRegistered, Inputs
  <2>3. CASE todo' = [todo EXCEPT ![c] = segments]
    <3>1. ToSet(todo'[d]) \subseteq Registered
      BY <2>3, <1>3 DEF InputsRegistered, CompactionTypeOK
    <3> QED
      BY <2>1, <3>1 DEF InputsRegistered, Inputs
  <2> QED
    BY <1>2, <2>2, <2>3
<1> QED
  BY <1>1, <1>6, <1>7, TrackerUnchangedGrows

\* A director step that ends with a plan of registered inputs keeps the types.
LEMMA PlanMadeType ==
    ASSUME TypeInv, NEW c \in Compactors, UNCHANGED trackerVars,
           NEW inputs \in Seq(SegmentID), ToSet(inputs) \subseteq Registered,
           NEW strategy \in CompactionType, NEW level \in Nat,
           plan' = [plan EXCEPT ![c] =
               [inputs |-> inputs, strategy |-> strategy, level |-> level]],
           todo' = [todo EXCEPT ![c] = <<>>],
           pc' = [pc EXCEPT ![c] = "validate"],
           switches' \in Nat, currentPolicy' \in CompactionType,
           UNCHANGED <<clock, faults, panicked, inCompaction, merged, newSeg>>
    PROVE  Grows /\ CompactionTypeOK' /\ InputsRegistered'
<1> USE DEF TypeInv, TypeOK
<1>1. plan' \in [Compactors -> Plan]
  BY DEF CompactionTypeOK, Plan
<1>2. todo' \in [Compactors -> Seq(SegmentID)]
  BY DEF CompactionTypeOK
<1>3. pc' \in [Compactors -> PC]
  BY DEF CompactionTypeOK, PC
<1>4. CompactionTypeOK'
  BY <1>1, <1>2, <1>3, TrackerUnchangedGrows DEF CompactionTypeOK
<1>5. InputsRegistered'
  <2> SUFFICES ASSUME NEW d \in Compactors
               PROVE  Inputs(d)' \subseteq Registered /\ ToSet(todo'[d]) \subseteq Registered
    BY TrackerUnchangedGrows DEF InputsRegistered
  <2>1. Inputs(d)' = IF d = c THEN ToSet(inputs) ELSE Inputs(d)
    BY DEF Inputs, CompactionTypeOK
  <2>2. todo'[d] = IF d = c THEN <<>> ELSE todo[d]
    BY DEF CompactionTypeOK
  <2> QED
    BY <2>1, <2>2, EmptySeqSet DEF InputsRegistered
<1> QED
  BY <1>4, <1>5, TrackerUnchangedGrows

\* A step of the director that leaves a segment of the snapshot as its target.
LEMMA TargetKeptType ==
    ASSUME TypeInv, UNCHANGED trackerVars, NEW c \in Compactors,
           NEW seg \in Registered,
           todo' = [todo EXCEPT ![c] = <<seg>>],
           pc' = [pc EXCEPT ![c] = "collect"],
           switches' \in Nat, currentPolicy' \in CompactionType,
           UNCHANGED <<clock, faults, panicked, inCompaction, plan, merged, newSeg>>
    PROVE  Grows /\ CompactionTypeOK' /\ InputsRegistered'
<1> USE DEF TypeInv, TypeOK
<1>1. <<seg>> \in Seq(SegmentID) /\ ToSet(<<seg>>) \subseteq Registered
  BY RegisteredType DEF ToSet
<1>2. todo' \in [Compactors -> Seq(SegmentID)]
  BY <1>1 DEF CompactionTypeOK
<1>3. pc' \in [Compactors -> PC]
  BY DEF CompactionTypeOK, PC
<1>4. CompactionTypeOK'
  BY <1>2, <1>3, TrackerUnchangedGrows DEF CompactionTypeOK
<1>5. \A d \in Compactors : todo'[d] = IF d = c THEN <<seg>> ELSE todo[d]
  BY DEF CompactionTypeOK
<1>6. InputsRegistered'
  BY <1>1, <1>5, TrackerUnchangedGrows DEF InputsRegistered, Inputs
<1> QED
  BY <1>4, <1>6, TrackerUnchangedGrows

\* A strategy switch plans with registered segments and a natural level.
LEMMA PlanSwitchType ==
    ASSUME TypeInv, NEW c \in Compactors, PlanSwitch(c)
    PROVE  Grows /\ CompactionTypeOK' /\ InputsRegistered'
<1> USE DEF TypeInv, TypeOK
<1>1. PICK seg \in ToSet(todo[c]) \ obsolete, newStrategy \in CompactionType :
        /\ currentPolicy' = newStrategy
        /\ \/ /\ Goto(c, "decide", "collect")
              /\ todo' = [todo EXCEPT ![c] = <<seg>>]
              /\ UNCHANGED plan
           \/ /\ Goto(c, "decide", "validate")
              /\ todo' = [todo EXCEPT ![c] = <<>>]
              /\ plan' = [plan EXCEPT ![c] =
                     [inputs |-> <<seg>>, strategy |-> TIERED,
                      level |-> TargetLevel(seg, TIERED)]]
  BY DEF PlanSwitch
<1>2. seg \in Registered /\ seg \in SegmentID
  BY RegisteredType DEF InputsRegistered
<1>3. /\ UNCHANGED trackerVars
      /\ switches' \in Nat
      /\ UNCHANGED <<clock, faults, panicked, inCompaction, merged, newSeg>>
  BY DEF PlanSwitch, CompactionTypeOK
<1>4. CASE /\ Goto(c, "decide", "collect")
           /\ todo' = [todo EXCEPT ![c] = <<seg>>]
           /\ UNCHANGED plan
  BY <1>1, <1>2, <1>3, <1>4, TargetKeptType DEF Goto
<1>5. CASE /\ Goto(c, "decide", "validate")
           /\ todo' = [todo EXCEPT ![c] = <<>>]
           /\ plan' = [plan EXCEPT ![c] =
                  [inputs |-> <<seg>>, strategy |-> TIERED,
                   level |-> TargetLevel(seg, TIERED)]]
  <2>1. <<seg>> \in Seq(SegmentID) /\ ToSet(<<seg>>) \subseteq Registered
    BY <1>2 DEF ToSet
  <2>2. TargetLevel(seg, TIERED) \in Nat
    BY <1>2, SegmentType DEF TargetLevel
  <2>3. TIERED \in CompactionType /\ pc' = [pc EXCEPT ![c] = "validate"]
    BY <1>5 DEF CompactionType, Goto
  <2> QED
    BY <1>1, <1>3, <1>5, <2>1, <2>2, <2>3, PlanMadeType
<1> QED
  BY <1>1, <1>4, <1>5

\* A tiered plan takes two registered segments out of the snapshot.
LEMMA PlanTieredType ==
    ASSUME TypeInv, NEW c \in Compactors, planTieredCompaction(c)
    PROVE  Grows /\ CompactionTypeOK' /\ InputsRegistered'
<1> USE DEF TypeInv, TypeOK
<1>1. PICK ij \in TieredPairs(todo[c]) :
        plan' = [plan EXCEPT ![c] =
               [inputs |-> <<todo[c][ij[1]], todo[c][ij[2]]>>, strategy |-> TIERED,
                level |-> segs[todo[c][ij[1]]].level]]
  BY DEF planTieredCompaction
<1> DEFINE a == todo[c][ij[1]]
           b == todo[c][ij[2]]
<1>2. a \in ToSet(todo[c]) /\ b \in ToSet(todo[c])
  BY DEF TieredPairs, ToSet
<1>3. a \in Registered /\ b \in Registered /\ a \in SegmentID /\ b \in SegmentID
  BY <1>2, RegisteredType DEF InputsRegistered
<1>4. segs[a].level \in Nat
  BY <1>3, SegmentType
<1> HIDE DEF a, b
<1>5. <<a, b>> \in Seq(SegmentID) /\ ToSet(<<a, b>>) \subseteq Registered
  BY <1>3 DEF ToSet
<1>6. /\ UNCHANGED trackerVars
      /\ todo' = [todo EXCEPT ![c] = <<>>]
      /\ pc' = [pc EXCEPT ![c] = "validate"]
      /\ switches' \in Nat /\ currentPolicy' \in CompactionType
      /\ UNCHANGED <<clock, faults, panicked, inCompaction, merged, newSeg>>
  BY DEF planTieredCompaction, Goto, CompactionTypeOK
<1>7. TIERED \in CompactionType
  BY DEF CompactionType
<1> QED
  BY <1>1, <1>4, <1>5, <1>6, <1>7, PlanMadeType DEF a, b

\* Going on to the leveled planner changes only the place in the code.
LEMMA TryLeveledType ==
    ASSUME TypeInv, NEW c \in Compactors, TryLeveled(c)
    PROVE  Grows /\ CompactionTypeOK' /\ InputsRegistered'
<1>1. UNCHANGED trackerVars
  BY DEF TryLeveled
<1>2. pc' \in [Compactors -> PC]
  BY DEF TryLeveled, Goto, TypeInv, TypeOK, CompactionTypeOK, PC
<1>3. CompactionTypeOK'
  BY <1>1, <1>2, TrackerUnchangedGrows DEF TryLeveled, TypeInv, TypeOK, CompactionTypeOK
<1>4. InputsRegistered'
  BY <1>1, TrackerUnchangedGrows DEF TryLeveled, TypeInv, InputsRegistered, Inputs
<1> QED
  BY <1>1, <1>3, <1>4, TrackerUnchangedGrows

\* Each turn of the leveled planner keeps the types.
LEMMA PlanLeveledType ==
    ASSUME TypeInv, NEW c \in Compactors, planLeveledCompaction(c)
    PROVE  Grows /\ CompactionTypeOK' /\ InputsRegistered'
<1> USE DEF TypeInv, TypeOK
<1>1. /\ UNCHANGED trackerVars
      /\ UNCHANGED <<clock, currentPolicy, switches, faults, panicked, inCompaction,
                     plan, merged, newSeg>>
  BY DEF planLeveledCompaction
<1>2. CASE Goto(c, "leveled", "nil") /\ UNCHANGED todo
  <2>1. pc' \in [Compactors -> PC]
    BY <1>2 DEF Goto, CompactionTypeOK, PC, Results
  <2>2. CompactionTypeOK'
    BY <1>1, <1>2, <2>1, TrackerUnchangedGrows DEF CompactionTypeOK
  <2> QED
    BY <1>1, <1>2, <2>2, TrackerUnchangedGrows DEF InputsRegistered, Inputs
<1>3. CASE todo[c] # <<>> /\ todo' = [todo EXCEPT ![c] = Tail(@)] /\ UNCHANGED pc
  <2>1. todo[c] \in Seq(SegmentID)
    BY DEF CompactionTypeOK
  <2>2. Tail(todo[c]) \in Seq(SegmentID) /\ ToSet(Tail(todo[c])) \subseteq ToSet(todo[c])
    BY <1>3, <2>1, HeadTail
  <2>3. todo' \in [Compactors -> Seq(SegmentID)]
    BY <1>3, <2>2 DEF CompactionTypeOK
  <2>4. CompactionTypeOK'
    BY <1>1, <1>3, <2>3, TrackerUnchangedGrows DEF CompactionTypeOK
  <2>5. \A d \in Compactors : ToSet(todo'[d]) \subseteq ToSet(todo[d])
    BY <1>3, <2>2 DEF CompactionTypeOK
  <2> QED
    BY <1>1, <1>3, <2>4, <2>5, TrackerUnchangedGrows DEF InputsRegistered, Inputs
<1>4. CASE /\ todo[c] # <<>>
           /\ Goto(c, "leveled", "collect")
           /\ todo' = [todo EXCEPT ![c] = <<Head(@)>>]
  <2>1. todo[c] \in Seq(SegmentID)
    BY DEF CompactionTypeOK
  <2>2. Head(todo[c]) \in Registered
    BY <1>4, <2>1, HeadTail DEF InputsRegistered
  <2>3. switches' \in Nat /\ currentPolicy' \in CompactionType
    BY <1>1 DEF CompactionTypeOK
  <2>4. /\ pc' = [pc EXCEPT ![c] = "collect"]
        /\ todo' = [todo EXCEPT ![c] = <<Head(todo[c])>>]
    BY <1>4 DEF Goto
  <2> QED
    BY <1>1, <2>2, <2>3, <2>4, TargetKeptType
<1> QED
  BY <1>2, <1>3, <1>4 DEF planLeveledCompaction

\* A leveled plan is made of registered segments.
LEMMA PlanLeveledInputsType ==
    ASSUME TypeInv, NEW c \in Compactors, PlanLeveled(c)
    PROVE  Grows /\ CompactionTypeOK' /\ InputsRegistered'
<1> USE DEF TypeInv, TypeOK
<1> DEFINE target == Head(todo[c])
<1>1. todo[c] \in Seq(SegmentID) /\ todo[c] # <<>>
  BY DEF PlanLeveled, CompactionTypeOK
<1>2. target \in Registered /\ target \in SegmentID
  BY <1>1, HeadTail, RegisteredType DEF InputsRegistered
<1>3. TargetLevel(target, LEVELED) \in Nat
  BY <1>2, SegmentType DEF TargetLevel
<1>4. PICK inputs \in collectLimitedOverlaps(target) :
        plan' = [plan EXCEPT ![c] =
            [inputs |-> inputs, strategy |-> LEVELED, level |-> TargetLevel(target, LEVELED)]]
  BY DEF PlanLeveled
<1>5. inputs \in Seq(SegmentID) /\ ToSet(inputs) \subseteq Registered
  BY <1>2, <1>4, CollectType
<1>6. /\ UNCHANGED trackerVars
      /\ todo' = [todo EXCEPT ![c] = <<>>]
      /\ pc' = [pc EXCEPT ![c] = "validate"]
      /\ switches' \in Nat /\ currentPolicy' \in CompactionType
      /\ UNCHANGED <<clock, faults, panicked, inCompaction, merged, newSeg>>
  BY DEF PlanLeveled, Goto, CompactionTypeOK
<1>7. LEVELED \in CompactionType
  BY DEF CompactionType
<1> HIDE DEF target
<1> QED
  BY <1>3, <1>4, <1>5, <1>6, <1>7, PlanMadeType

\* The empty table holds no key.
LEMMA EmptyTableType == EmptyTable \in Table /\ KeysOf(EmptyTable) = {}
  BY DEF EmptyTable, Table, Absent, KeysOf

\* Plans that are kept or dropped, and loops that start over, go on or are kept.
LEMMA StepType ==
    ASSUME TypeInv, Grows,
           clock' \in Nat, currentPolicy' \in CompactionType, switches' \in Nat,
           faults' \in Nat, panicked' \in BOOLEAN, inCompaction' \subseteq SegmentID',
           pc' \in [Compactors -> PC], merged' \in [Compactors -> Table],
           newSeg' \in [Compactors -> {0} \cup SegmentID'],
           plan' \in [Compactors -> Plan], todo' \in [Compactors -> Seq(SegmentID)],
           \A d \in Compactors : plan'[d] \in {plan[d], NoPlan},
           \A d \in Compactors : ToSet(todo'[d]) \subseteq ToSet(todo[d]) \cup Inputs(d)
    PROVE  CompactionTypeOK' /\ InputsRegistered'
<1>1. plan' \in [Compactors -> Plan'] /\ todo' \in [Compactors -> Seq(SegmentID')]
  BY SeqGrows
<1>2. CompactionTypeOK'
  BY <1>1 DEF CompactionTypeOK
<1>3. \A d \in Compactors : Inputs(d)' \subseteq Registered
  BY NoPlanType DEF Inputs, TypeInv, InputsRegistered
<1>4. InputsRegistered'
  BY <1>3 DEF InputsRegistered, TypeInv, Grows
<1> QED
  BY <1>2, <1>4

\* Execute's validation keeps or drops the plan.
LEMMA ValidateType ==
    ASSUME TypeInv, NEW c \in Compactors, Validate(c)
    PROVE  Grows /\ CompactionTypeOK' /\ InputsRegistered'
<1> USE DEF TypeInv, TypeOK, CompactionTypeOK
<1>1. Grows /\ SegmentID' = SegmentID
  BY TrackerUnchangedGrows DEF Validate
<1>2. pc' \in [Compactors -> PC]
  BY DEF Validate, Goto, PC, Results
<1>3. plan' \in [Compactors -> Plan] /\ \A d \in Compactors : plan'[d] \in {plan[d], NoPlan}
  BY NoPlanType DEF Validate
<1>4. UNCHANGED <<clock, currentPolicy, switches, faults, panicked, inCompaction,
                   todo, merged, newSeg>>
  BY DEF Validate
<1> QED
  BY <1>1, <1>2, <1>3, <1>4, StepType

\* Only segments are flagged.
LEMMA SetInCompactionType ==
    ASSUME TypeInv, NEW c \in Compactors, SetInCompaction(c)
    PROVE  Grows /\ CompactionTypeOK' /\ InputsRegistered'
<1> USE DEF TypeInv, TypeOK, CompactionTypeOK
<1>1. Grows /\ SegmentID' = SegmentID
  BY TrackerUnchangedGrows DEF SetInCompaction
<1>2. pc' \in [Compactors -> PC]
  BY DEF SetInCompaction, Goto, PC, Executing
<1>3. todo' \in [Compactors -> Seq(SegmentID)]
  BY DEF SetInCompaction, Plan
<1>4. \A d \in Compactors : ToSet(todo'[d]) \subseteq ToSet(todo[d]) \cup Inputs(d)
  BY DEF SetInCompaction, Inputs
<1>5. inCompaction' \subseteq SegmentID
  BY RegisteredType DEF SetInCompaction, InputsRegistered
<1>6. UNCHANGED <<clock, currentPolicy, switches, faults, panicked, plan, merged, newSeg>>
  BY DEF SetInCompaction
<1> QED
  BY <1>1, <1>2, <1>3, <1>4, <1>5, <1>6, StepType

\* One turn of a loop over the inputs takes a registered segment out of the loop's list.
LEMMA TodoTail ==
    ASSUME TypeInv, NEW c \in Compactors, todo[c] # <<>>,
           todo' = [todo EXCEPT ![c] = Tail(@)]
    PROVE  /\ Head(todo[c]) \in Registered
           /\ Head(todo[c]) \in SegmentID
           /\ todo' \in [Compactors -> Seq(SegmentID)]
           /\ \A d \in Compactors : ToSet(todo'[d]) \subseteq ToSet(todo[d])
           /\ ToSet(todo[c]) = {Head(todo[c])} \cup ToSet(todo'[c])
           /\ \A d \in Compactors : d # c => todo'[d] = todo[d]
<1> USE DEF TypeInv, TypeOK, CompactionTypeOK
<1>1. todo[c] \in Seq(SegmentID)
  OBVIOUS
<1>2. /\ Head(todo[c]) \in SegmentID
      /\ Tail(todo[c]) \in Seq(SegmentID)
      /\ ToSet(todo[c]) = {Head(todo[c])} \cup ToSet(Tail(todo[c]))
  BY <1>1, HeadTail
<1>3. Head(todo[c]) \in Registered
  BY <1>2 DEF InputsRegistered
<1>4. todo' \in [Compactors -> Seq(SegmentID)] /\ todo'[c] = Tail(todo[c])
      /\ \A d \in Compactors : d # c => todo'[d] = todo[d]
  BY <1>2
<1> QED
  BY <1>2, <1>3, <1>4

\* Merging an input into a table gives a table.
LEMMA MergeIntoType ==
    ASSUME NEW m \in Table, NEW data \in Table
    PROVE  MergeInto(m, data) \in Table
  BY DEF MergeInto, Table

\* One turn of the merge loop keeps the types.
LEMMA ScanInputType ==
    ASSUME TypeInv, NEW c \in Compactors, ScanInput(c)
    PROVE  Grows /\ CompactionTypeOK' /\ InputsRegistered'
<1> USE DEF TypeInv, TypeOK, CompactionTypeOK
<1>1. Grows /\ SegmentID' = SegmentID
  BY TrackerUnchangedGrows DEF ScanInput
<1>2. pc' \in [Compactors -> PC]
  BY DEF ScanInput, Goto, PC, Executing
<1>3. /\ Head(todo[c]) \in SegmentID
      /\ todo' \in [Compactors -> Seq(SegmentID)]
      /\ \A d \in Compactors : ToSet(todo'[d]) \subseteq ToSet(todo[d])
  BY TodoTail DEF ScanInput
<1>4. MergeInto(merged[c], segs[Head(todo[c])].data) \in Table
  BY <1>3, SegmentType, MergeIntoType
<1>5. merged' \in [Compactors -> Table]
  BY <1>4 DEF ScanInput
<1>6. faults' \in Nat
  BY DEF ScanInput
<1>7. UNCHANGED <<clock, currentPolicy, switches, panicked, inCompaction, plan, newSeg>>
  BY DEF ScanInput
<1> QED
  BY <1>1, <1>2, <1>3, <1>5, <1>6, <1>7, StepType

\* Returning from Execute drops the plan and takes flags down.
LEMMA ReturnFromType ==
    ASSUME TypeInv, NEW c \in Compactors, ReturnFrom(c)
    PROVE  /\ inCompaction' \subseteq inCompaction
           /\ plan' \in [Compactors -> Plan]
           /\ \A d \in Compactors : plan'[d] \in {plan[d], NoPlan}
           /\ merged' \in [Compactors -> Table]
           /\ newSeg' \in [Compactors -> {0} \cup SegmentID]
  BY NoPlanType, EmptyTableType DEF ReturnFrom, ClearFlags, TypeInv, TypeOK, CompactionTypeOK

\* Writing the merged entries keeps the types, however it ends.
LEMMA WriteMergedType ==
    ASSUME TypeInv, NEW c \in Compactors, WriteMerged(c)
    PROVE  Grows /\ CompactionTypeOK' /\ InputsRegistered'
<1> USE DEF TypeInv, TypeOK, CompactionTypeOK
<1>1. UNCHANGED <<clock, currentPolicy, switches, panicked>>
  BY DEF WriteMerged
<1>2. CASE /\ Goto(c, "scan", "mark")
           /\ todo' = [todo EXCEPT ![c] = plan[c].inputs]
           /\ UNCHANGED <<inCompaction, plan, merged, newSeg, faults>>
           /\ UNCHANGED trackerVars
  <2>1. Grows /\ SegmentID' = SegmentID
    BY <1>2, TrackerUnchangedGrows
  <2>2. pc' \in [Compactors -> PC]
    BY <1>2 DEF Goto, PC, Executing
  <2>3. todo' \in [Compactors -> Seq(SegmentID)]
    BY <1>2 DEF Plan
  <2>4. \A d \in Compactors : ToSet(todo'[d]) \subseteq ToSet(todo[d]) \cup Inputs(d)
    BY <1>2 DEF Inputs
  <2> QED
    BY <1>1, <1>2, <2>1, <2>2, <2>3, <2>4, StepType
<1>3. CASE /\ Goto(c, "scan", "register")
           /\ AppendSegment(NewSegment(merged[c], plan[c].strategy, plan[c].level,
                                      clock, "compaction"))
           /\ newSeg' = [newSeg EXCEPT ![c] = Len(segs) + 1]
           /\ UNCHANGED <<inCompaction, plan, merged, todo, faults>>
  <2>1. plan[c].strategy \in CompactionType /\ plan[c].level \in Nat /\ merged[c] \in Table
    BY DEF Plan
  <2>2. NewSegment(merged[c], plan[c].strategy, plan[c].level, clock, "compaction")
            \in SegmentMeta
    BY <2>1, NewSegmentType
  <2>3. Grows /\ Len(segs) + 1 \in SegmentID' /\ SegmentID \subseteq SegmentID'
    BY <1>3, <2>2, AppendEffect DEF Grows
  <2>4. pc' \in [Compactors -> PC]
    BY <1>3 DEF Goto, PC, Executing
  <2>5. newSeg' \in [Compactors -> {0} \cup SegmentID']
    BY <1>3, <2>3
  <2> QED
    BY <1>1, <1>3, <2>3, <2>4, <2>5, StepType
<1>4. CASE /\ faults' = faults + 1
           /\ Goto(c, "scan", "err")
           /\ ReturnFrom(c)
           /\ UNCHANGED todo
           /\ UNCHANGED trackerVars
  <2>1. Grows /\ SegmentID' = SegmentID
    BY <1>4, TrackerUnchangedGrows
  <2>2. pc' \in [Compactors -> PC]
    BY <1>4 DEF Goto, PC, Results
  <2> QED
    BY <1>1, <1>4, <2>1, <2>2, ReturnFromType, StepType
<1> QED
  BY <1>2, <1>3, <1>4 DEF WriteMerged

\* Registering the output keeps the types: it has been written.
LEMMA RegisterOutputType ==
    ASSUME TypeInv, NEW c \in Compactors, RegisterOutput(c)
    PROVE  Grows /\ CompactionTypeOK' /\ InputsRegistered'
<1> USE DEF TypeInv, TypeOK, CompactionTypeOK
<1>1. newSeg[c] \in SegmentID
  BY DEF RegisterOutput, Goto, PendingWritten
<1>2. Grows /\ SegmentID' = SegmentID
  BY <1>1, RegisterEffect DEF RegisterOutput, Grows
<1>3. pc' \in [Compactors -> PC]
  BY DEF RegisterOutput, Goto, PC, Executing
<1>4. todo' \in [Compactors -> Seq(SegmentID)]
  BY DEF RegisterOutput, Plan
<1>5. \A d \in Compactors : ToSet(todo'[d]) \subseteq ToSet(todo[d]) \cup Inputs(d)
  BY DEF RegisterOutput, Inputs
<1>6. UNCHANGED <<clock, currentPolicy, switches, faults, panicked, inCompaction,
                   plan, merged, newSeg>>
  BY DEF RegisterOutput
<1> QED
  BY <1>2, <1>3, <1>4, <1>5, <1>6, StepType

\* Retiring an input keeps the types: it is registered.
LEMMA MarkInputType ==
    ASSUME TypeInv, NEW c \in Compactors, MarkInput(c)
    PROVE  Grows /\ CompactionTypeOK' /\ InputsRegistered'
<1> USE DEF TypeInv, TypeOK, CompactionTypeOK
<1>1. /\ Head(todo[c]) \in Registered
      /\ todo' \in [Compactors -> Seq(SegmentID)]
      /\ \A d \in Compactors : ToSet(todo'[d]) \subseteq ToSet(todo[d])
  BY TodoTail DEF MarkInput
<1>2. Grows /\ SegmentID' = SegmentID
  BY <1>1, MarkEffect DEF MarkInput, Grows
<1>3. pc' \in [Compactors -> PC]
  BY DEF MarkInput, Goto, PC, Executing
<1>4. UNCHANGED <<clock, currentPolicy, switches, faults, panicked, inCompaction,
                   plan, merged, newSeg>>
  BY DEF MarkInput
<1> QED
  BY <1>1, <1>2, <1>3, <1>4, StepType

\* Execute's normal return keeps the types.
LEMMA ReturnOutputType ==
    ASSUME TypeInv, NEW c \in Compactors, ReturnOutput(c)
    PROVE  Grows /\ CompactionTypeOK' /\ InputsRegistered'
<1> USE DEF TypeInv, TypeOK, CompactionTypeOK
<1>1. Grows /\ SegmentID' = SegmentID
  BY TrackerUnchangedGrows DEF ReturnOutput
<1>2. pc' \in [Compactors -> PC]
  BY DEF ReturnOutput, Goto, PC, Results
<1>3. panicked' \in BOOLEAN
  BY DEF ReturnOutput
<1>4. ReturnFrom(c) /\ UNCHANGED <<clock, currentPolicy, switches, faults, todo>>
  BY DEF ReturnOutput
<1> QED
  BY <1>1, <1>2, <1>3, <1>4, ReturnFromType, StepType

\* Every step of a compactor keeps the types.
LEMMA CompactType ==
    ASSUME TypeInv, NEW c \in Compactors, Compact(c)
    PROVE  Grows /\ CompactionTypeOK' /\ InputsRegistered'
  BY PlanSwitchType, PlanTieredType, TryLeveledType, PlanLeveledType,
     PlanLeveledInputsType, ValidateType,
     SetInCompactionType, ScanInputType, WriteMergedType, RegisterOutputType,
     MarkInputType, ReturnOutputType
  DEF Compact

\* Only WriteMerged brings a compactor to the point where it registers.
LEMMA CompactPending ==
    ASSUME TypeInv, NEW c \in Compactors, Compact(c), NEW d \in Compactors,
           pc'[d] = "register"
    PROVE  newSeg'[d] \in SegmentID'
<1> USE DEF TypeInv, TypeOK, CompactionTypeOK
<1>1. CASE WriteMerged(c) /\ d = c
  <2>1. /\ AppendSegment(NewSegment(merged[c], plan[c].strategy, plan[c].level,
                                    clock, "compaction"))
        /\ newSeg' = [newSeg EXCEPT ![c] = Len(segs) + 1]
    BY <1>1 DEF WriteMerged, Goto
  <2>2. NewSegment(merged[c], plan[c].strategy, plan[c].level, clock, "compaction")
            \in SegmentMeta
    BY NewSegmentType DEF Plan
  <2> QED
    BY <1>1, <2>1, <2>2, AppendEffect
<1>2. CASE ~ (WriteMerged(c) /\ d = c)
  <2>1. pc[d] = "register" /\ newSeg'[d] = newSeg[d]
    <3> USE DEF Goto
    <3>1. CASE PlanSwitch(c) \/ planTieredCompaction(c) \/ TryLeveled(c)
      BY <3>1 DEF PlanSwitch, planTieredCompaction, TryLeveled
    <3>2. CASE planLeveledCompaction(c) \/ PlanLeveled(c)
      BY <3>2 DEF planLeveledCompaction, PlanLeveled
    <3>3. CASE Validate(c) \/ SetInCompaction(c) \/ ScanInput(c)
      BY <3>3 DEF Validate, SetInCompaction, ScanInput
    <3>4. CASE WriteMerged(c)
      BY <1>2, <3>4 DEF WriteMerged, ReturnFrom
    <3>5. CASE RegisterOutput(c) \/ MarkInput(c) \/ ReturnOutput(c)
      BY <3>5 DEF RegisterOutput, MarkInput, ReturnOutput, ReturnFrom
    <3> QED
      BY <3>1, <3>2, <3>3, <3>4, <3>5 DEF Compact
  <2> QED
    BY <2>1, CompactType DEF PendingWritten, Grows
<1> QED
  BY <1>1, <1>2

\* A step of main that leaves the compactors alone, and the tracker too.
LEMMA MainStepType ==
    ASSUME TypeInv, UNCHANGED trackerVars, UNCHANGED compactionVars,
           MainTypeOK', mpc' = "register" => mpc = "register" /\ flushed' = flushed
    PROVE  TypeInv'
<1>1. Grows /\ SegmentID' = SegmentID
  BY TrackerUnchangedGrows
<1>2. CompactionTypeOK' /\ InputsRegistered'
  BY <1>1, CompactionTypeFrame
<1>3. PendingWritten'
  BY <1>1 DEF PendingWritten, TypeInv, compactionVars
<1> QED
  BY <1>1, <1>2, <1>3 DEF TypeInv, TypeOK, Grows

\* The log is empty at first and after a truncation.
LEMMA EmptyLogType == EmptyLog \in Log
<1>1. {} \in SUBSET (Keys \X Int) /\ FALSE \in BOOLEAN
  OBVIOUS
<1> QED
  BY <1>1, Zenon DEF EmptyLog, Log

\* What a write does to the log: the entry is recorded or known to be missing, and
\* without failures nothing is ever missing.
LEMMA LoggedEffect ==
    ASSUME wal \in Log, NEW k \in Keys, NEW e \in Int, NEW w \in Logged(k, e)
    PROVE  /\ w \in Log
           /\ w.entries \cup w.unlogged = wal.entries \cup wal.unlogged \cup {<<k, e>>}
           /\ "log" \notin Faults /\ ~ wal.torn => w.unlogged = wal.unlogged /\ ~ w.torn
<1>1. w = Recorded(k, e) \/ \E torn \in BOOLEAN : w = NotRecorded(k, e, torn)
  BY DEF Logged, Log
<1>2. "log" \notin Faults /\ ~ wal.torn => w = Recorded(k, e)
  BY DEF Logged
<1>3. CASE w = Recorded(k, e)
  BY <1>3 DEF Recorded, Log
<1>4. ASSUME NEW torn \in BOOLEAN, w = NotRecorded(k, e, torn)
      PROVE  /\ w \in Log
             /\ w.entries \cup w.unlogged = wal.entries \cup wal.unlogged \cup {<<k, e>>}
  <2>1. /\ w.entries = wal.entries /\ w.unlogged = wal.unlogged \cup {<<k, e>>}
        /\ w = [entries |-> wal.entries, unlogged |-> wal.unlogged \cup {<<k, e>>},
                torn |-> torn]
    BY <1>4 DEF NotRecorded, Log
  <2>2. wal.entries \in SUBSET (Keys \X Int) /\ wal.unlogged \in SUBSET (Keys \X Int)
    BY DEF Log
  <2>3. wal.unlogged \cup {<<k, e>>} \in SUBSET (Keys \X Int)
    BY <2>2
  <2>4. w \in Log
    BY <2>1, <2>2, <2>3, Zenon DEF Log
  <2> QED
    BY <2>1, <2>4
<1> QED
  BY <1>1, <1>2, <1>3, <1>4

\* A client write keeps the types.
LEMMA WriteEntryType ==
    ASSUME TypeInv, NEW k \in Keys, NEW e \in Int, WriteEntry(k, e), mpc = "run"
    PROVE  TypeInv'
<1>1. UNCHANGED trackerVars /\ UNCHANGED compactionVars
      /\ SegmentID' = SegmentID
  BY TrackerUnchangedGrows DEF WriteEntry
<1>2. [mem EXCEPT ![k] = e] \in Table /\ [latest EXCEPT ![k] = e] \in Table
  BY DEF TypeInv, TypeOK, MainTypeOK, Table
<1>3. mem' \in Table /\ buf' \in Table /\ latest' \in Table
  BY <1>2, EmptyTableType DEF WriteEntry, TypeInv, TypeOK, MainTypeOK
<1>4. mpc' \in {"run", "write"}
  BY DEF WriteEntry
<1>5. writes' \in Nat /\ wal' \in Log
  BY LoggedEffect DEF WriteEntry, TypeInv, TypeOK, MainTypeOK
<1>6. UNCHANGED <<phases, flushed, rd, stop>>
  BY DEF WriteEntry
<1>7. MainTypeOK'
  BY <1>1, <1>3, <1>4, <1>5, <1>6 DEF TypeInv, TypeOK, MainTypeOK
<1> QED
  BY <1>1, <1>4, <1>7, MainStepType

\* All writes of the workloads are writes of an entry.
LEMMA WritesType ==
    ASSUME TypeInv, Populate \/ \E k \in Keys : Put(k) \/ Delete(k)
    PROVE  /\ TypeInv'
           /\ mpc = "run"
           /\ \E k \in Keys, e \in Int : WriteEntry(k, e)
<1>1. writes + 1 \in Int /\ - (writes + 1) \in Int
  BY DEF TypeInv, TypeOK, MainTypeOK
<1>2. PICK k \in Keys, e \in Int : WriteEntry(k, e)
  BY <1>1 DEF Populate, Put, Delete
<1>3. mpc = "run"
  BY DEF Populate, Put, Delete, InPhase
<1> QED
  BY <1>2, <1>3, WriteEntryType

\* The write of a flush keeps the types, whether it succeeds or not.
LEMMA FlushWriteType ==
    ASSUME TypeInv, FlushWrite
    PROVE  TypeInv'
<1> USE DEF TypeInv, TypeOK
<1>1. /\ UNCHANGED <<clock, currentPolicy, switches, inCompaction, pc, todo, plan,
                     merged, newSeg>>
      /\ UNCHANGED <<phases, mem, buf, wal, latest, writes, rd, stop>>
  BY DEF FlushWrite
<1>2. Grows /\ flushed' \in {0} \cup SegmentID' /\ mpc' \in {"write", "register"}
      /\ (mpc' = "register" => flushed' \in SegmentID')
  <2>1. CASE /\ AppendSegment(NewSegment(buf, TIERED, 0, clock, "flush"))
             /\ flushed' = Len(segs) + 1 /\ mpc' = "register"
    <3>1. NewSegment(buf, TIERED, 0, clock, "flush") \in SegmentMeta
      BY NewSegmentType DEF MainTypeOK, CompactionTypeOK, CompactionType
    <3> QED
      BY <2>1, <3>1, AppendEffect DEF Grows
  <2>2. CASE UNCHANGED trackerVars /\ UNCHANGED <<mpc, flushed>> /\ mpc = "write"
    BY <2>2, TrackerUnchangedGrows DEF MainTypeOK
  <2> QED
    BY <2>1, <2>2 DEF FlushWrite
<1>3. faults' \in Nat /\ panicked' \in BOOLEAN
  <2>1. faults \in Nat /\ panicked \in BOOLEAN
    BY DEF CompactionTypeOK
  <2>2. faults' \in {faults, faults + 1}
    BY DEF FlushWrite
  <2>3. panicked' = panicked \/ panicked' = TRUE
    BY DEF FlushWrite
  <2>4. panicked' \in BOOLEAN
    BY <2>1, <2>3, Zenon
  <2> QED
    BY <2>1, <2>2, <2>4
<1>4. CompactionTypeOK' /\ InputsRegistered'
  <2>1. inCompaction' \subseteq SegmentID' /\ newSeg' \in [Compactors -> {0} \cup SegmentID']
    BY <1>1, <1>2 DEF CompactionTypeOK, Grows
  <2> QED
    BY <1>1, <1>2, <1>3, <2>1, StepType DEF CompactionTypeOK
<1>5. MainTypeOK'
  BY <1>1, <1>2, SeqGrows DEF MainTypeOK
<1>6. PendingWritten'
  BY <1>1, <1>2 DEF PendingWritten, Grows
<1> QED
  BY <1>2, <1>4, <1>5, <1>6 DEF Grows

\* The registration of a flushed segment keeps the types.
LEMMA FlushRegisterType ==
    ASSUME TypeInv, FlushRegister
    PROVE  TypeInv'
<1> USE DEF TypeInv, TypeOK
<1>1. flushed \in SegmentID
  BY DEF FlushRegister, PendingWritten
<1>2. Grows /\ SegmentID' = SegmentID
  BY <1>1, RegisterEffect DEF FlushRegister, Grows
<1>3. UNCHANGED compactionVars
  BY DEF FlushRegister
<1>4. CompactionTypeOK' /\ InputsRegistered'
  BY <1>2, <1>3, CompactionTypeFrame
<1>5. MainTypeOK'
  BY <1>2, EmptyTableType DEF FlushRegister, MainTypeOK
<1>6. PendingWritten'
  BY <1>2, <1>3 DEF PendingWritten, FlushRegister, compactionVars
<1> QED
  BY <1>2, <1>4, <1>5, <1>6 DEF Grows

\* Truncating the log and going from phase to phase keep the types.
LEMMA PhasesType ==
    ASSUME TypeInv, FlushTruncate \/ NextPhase \/ FinalFlush \/ MainDone
    PROVE  TypeInv'
<1> USE DEF TypeInv, TypeOK
<1>1. UNCHANGED trackerVars /\ UNCHANGED compactionVars /\ UNCHANGED <<flushed, rd>>
  BY DEF FlushTruncate, NextPhase, FinalFlush, MainDone
<1>2. phases' \in Seq(Phase)
  <2>1. phases \in Seq(Phase)
    BY DEF MainTypeOK
  <2>2. phases # <<>> => Tail(phases) \in Seq(Phase)
    BY <2>1, HeadTail
  <2> QED
    BY <2>1, <2>2 DEF FlushTruncate, NextPhase, FinalFlush, MainDone, InPhase
<1>3. mpc' \in {"run", "done"}
  BY DEF FlushTruncate, NextPhase, FinalFlush, MainDone, InPhase
<1>4. wal' \in Log
  BY EmptyLogType DEF FlushTruncate, NextPhase, FinalFlush, MainDone, MainTypeOK
<1>5. MainTypeOK'
  BY <1>1, <1>2, <1>3, <1>4, TrackerUnchangedGrows
  DEF FlushTruncate, NextPhase, FinalFlush, MainDone, MainTypeOK
<1> QED
  BY <1>1, <1>3, <1>5, MainStepType

\* Starting and ending a lookup keep the types.
LEMMA ReadType ==
    ASSUME TypeInv, (\E k \in Keys : ReadStart(k)) \/ ReadReturn
    PROVE  TypeInv'
<1> USE DEF TypeInv, TypeOK
<1>1. /\ UNCHANGED trackerVars /\ UNCHANGED compactionVars
      /\ UNCHANGED <<phases, mem, buf, flushed, wal, latest, writes, stop>>
      /\ mpc' \in {"run", "reading"}
  BY DEF ReadStart, ReadReturn
<1>2. rd' \in [key : Keys \cup {0}, segs : Seq(SegmentID), rest : Seq(SegmentID), hit : Int]
  <2>1. CASE ReadReturn
    BY <2>1 DEF ReadReturn, NoRead, Absent
  <2>2. ASSUME NEW k \in Keys, ReadStart(k)
        PROVE  rd' \in [key : Keys \cup {0}, segs : Seq(SegmentID),
                        rest : Seq(SegmentID), hit : Int]
    <3>1. PICK order \in GetSegmentsForKey(k) :
            rd' = [key |-> k, segs |-> order, rest |-> order, hit |-> Absent]
      BY <2>2 DEF ReadStart
    <3>2. order \in Seq(SegmentID)
      BY SortedOrdersType DEF GetSegmentsForKey, Live
    <3> QED
      BY <3>1, <3>2 DEF Absent
  <2> QED
    BY <2>1, <2>2
<1>3. mpc' = "reading" => rd'.key \in Keys
  BY DEF ReadStart, ReadReturn
<1>4. MainTypeOK'
  BY <1>1, <1>2, <1>3, TrackerUnchangedGrows DEF MainTypeOK
<1> QED
  BY <1>1, <1>4, MainStepType

\* Probing a candidate segment keeps the types.
LEMMA ReadSegmentType ==
    ASSUME TypeInv, ReadSegment
    PROVE  TypeInv'
<1> USE DEF TypeInv, TypeOK
<1>1. /\ UNCHANGED trackerVars
      /\ UNCHANGED <<phases, mpc, mem, buf, flushed, wal, latest, writes, stop>>
      /\ UNCHANGED <<clock, currentPolicy, switches, panicked, inCompaction, pc, todo,
                     plan, merged, newSeg>>
  BY DEF ReadSegment
<1>2. Grows /\ SegmentID' = SegmentID
  BY <1>1, TrackerUnchangedGrows
<1>3. faults' \in Nat
  BY DEF ReadSegment, CompactionTypeOK
<1>4. CompactionTypeOK' /\ InputsRegistered'
  <2>1. inCompaction' \subseteq SegmentID' /\ newSeg' \in [Compactors -> {0} \cup SegmentID']
    BY <1>1, <1>2 DEF CompactionTypeOK
  <2> QED
    BY <1>1, <1>2, <1>3, <2>1, StepType DEF CompactionTypeOK
<1>5. rd.rest \in Seq(SegmentID) /\ rd.rest # <<>> /\ rd.key \in Keys
  BY DEF ReadSegment, ReadOver, MainTypeOK
<1>6. Head(rd.rest) \in SegmentID /\ Tail(rd.rest) \in Seq(SegmentID)
  BY <1>5, HeadTail
<1>7. Probe(Head(rd.rest), rd.key) \in Int
  BY <1>5, <1>6, SegmentType DEF Probe, Lookup, Absent, Table
<1>8. rd' \in [key : Keys \cup {0}, segs : Seq(SegmentID), rest : Seq(SegmentID), hit : Int]
  BY <1>6, <1>7 DEF ReadSegment, MainTypeOK
<1>9. MainTypeOK'
  <2>1. rd'.key = rd.key
    BY DEF ReadSegment, MainTypeOK
  <2> QED
    BY <1>1, <1>2, <1>8, <2>1 DEF MainTypeOK
<1>10. PendingWritten'
  BY <1>1, <1>2 DEF PendingWritten
<1> QED
  BY <1>2, <1>4, <1>9, <1>10 DEF Grows

\* A step of a compactor that is not a step of main.
LEMMA CompactStepType ==
    ASSUME TypeInv, NEW c \in Compactors, Compact(c), UNCHANGED mainVars
    PROVE  TypeInv'
<1>1. Grows /\ CompactionTypeOK' /\ InputsRegistered'
  BY CompactType
<1>2. MainTypeOK'
  BY <1>1, MainTypeFrame
<1>3. PendingWritten'
  BY <1>1, CompactPending DEF PendingWritten, TypeInv, Grows, mainVars
<1> QED
  BY <1>1, <1>2, <1>3 DEF TypeInv, TypeOK, Grows

\* Both calls of MaybePlan keep the types.
LEMMA CallsType ==
    ASSUME TypeInv, BackgroundTick \/ MainCompact
    PROVE  TypeInv'
<1> USE DEF TypeInv, TypeOK
<1>1. PICK c \in Compactors : MaybePlan(c)
  BY DEF BackgroundTick, MainCompact, Compactors
<1>2. Grows /\ CompactionTypeOK' /\ InputsRegistered'
  BY <1>1, MaybePlanType
<1>3. MainTypeOK'
  <2>1. CASE BackgroundTick
    BY <1>2, <2>1, MainTypeFrame DEF BackgroundTick
  <2>2. CASE MainCompact
    BY <1>2, <2>2, SeqGrows DEF MainCompact, InPhase, MainTypeOK, Grows
  <2> QED
    BY <2>1, <2>2
<1>4. \A d \in Compactors : pc'[d] = "register" => pc[d] = "register"
  BY <1>1 DEF MaybePlan, Goto, CompactionTypeOK
<1>5. UNCHANGED newSeg /\ UNCHANGED flushed /\ (mpc' = "register" => mpc = "register")
  BY <1>1 DEF MaybePlan, BackgroundTick, MainCompact, mainVars
<1>6. PendingWritten'
  BY <1>2, <1>4, <1>5 DEF PendingWritten, Grows
<1> QED
  BY <1>2, <1>3, <1>6 DEF Grows

\* Taking the result of a compaction, and time, keep the types.
LEMMA ResultsType ==
    ASSUME TypeInv, BackgroundResult \/ BackgroundStop \/ MainResult \/ Second
    PROVE  TypeInv'
<1> USE DEF TypeInv, TypeOK
<1>1. /\ UNCHANGED trackerVars
      /\ UNCHANGED <<currentPolicy, switches, faults, inCompaction, todo, plan, merged, newSeg>>
      /\ UNCHANGED <<mem, buf, flushed, wal, latest, writes, rd, stop>>
  BY DEF BackgroundResult, BackgroundStop, MainResult, Second, mainVars
<1>2. Grows /\ SegmentID' = SegmentID
  BY <1>1, TrackerUnchangedGrows
<1>3. /\ pc' \in [Compactors -> PC]
      /\ \A d \in Compactors : pc'[d] = "register" => pc[d] = "register"
  BY DEF BackgroundResult, BackgroundStop, MainResult, Second, Goto, CompactionTypeOK,
         Compactors, PC
<1>4. clock' \in Nat
  BY DEF BackgroundResult, BackgroundStop, MainResult, Second, CompactionTypeOK
<1>5. panicked' \in BOOLEAN
  <2>1. panicked \in BOOLEAN
    BY DEF CompactionTypeOK
  <2>2. panicked' = panicked \/ panicked' = (pc["main"] = "err")
    BY DEF BackgroundResult, BackgroundStop, MainResult, Second
  <2> QED
    BY <2>1, <2>2, Zenon
<1>6. CompactionTypeOK' /\ InputsRegistered'
  <2>1. inCompaction' \subseteq SegmentID' /\ newSeg' \in [Compactors -> {0} \cup SegmentID']
    BY <1>1, <1>2 DEF CompactionTypeOK
  <2> QED
    BY <1>1, <1>2, <1>3, <1>4, <1>5, <2>1, StepType DEF CompactionTypeOK
<1>7. \/ mpc' = mpc /\ phases' = phases
      \/ mpc' = "run" /\ phases # <<>> /\ phases' = Tail(phases)
  BY DEF BackgroundResult, BackgroundStop, MainResult, Second, mainVars, MainTypeOK
<1>8. phases' \in Seq(Phase)
  BY <1>7, HeadTail DEF MainTypeOK
<1>9. MainTypeOK'
  BY <1>1, <1>2, <1>7, <1>8 DEF MainTypeOK
<1>10. PendingWritten'
  BY <1>1, <1>2, <1>3, <1>7 DEF PendingWritten
<1> QED
  BY <1>2, <1>6, <1>9, <1>10 DEF Grows

\* The initial states have the types.
LEMMA InitType ==
    ASSUME Init
    PROVE  TypeInv
<1> USE DEF Init
<1>1. TrackerTypeOK
  <2>1. segs \in Seq(SegmentMeta) /\ ordered \in Seq(SegmentID) /\ obsolete = {}
    BY DEF TrackerInit
  <2> QED
    BY <2>1 DEF TrackerTypeOK
<1>2. CompactionTypeOK
  <2>1. NoPlan \in Plan /\ EmptyTable \in Table
    BY NoPlanType, EmptyTableType
  <2>2. <<>> \in Seq(SegmentID) /\ "idle" \in PC /\ TIERED \in CompactionType
    BY DEF PC, CompactionType
  <2> QED
    BY <2>1, <2>2 DEF CompactionInit, CompactionTypeOK
<1>3. phases \in Seq(Phase)
  <2>1. /\ runShift \in Seq(Phase) /\ runPureWrite \in Seq(Phase) /\ runPureRead \in Seq(Phase)
        /\ runMixed \in Seq(Phase) /\ runReadHeavy \in Seq(Phase)
        /\ runWriteHeavy \in Seq(Phase) /\ runZipfian \in Seq(Phase)
        /\ <<"client">> \in Seq(Phase)
    BY DEF runShift, runPureWrite, runPureRead, runMixed, runReadHeavy, runWriteHeavy,
           runZipfian, Phase
  <2>2. Workload \in {"shift", "pureWrite", "pureRead", "mixed", "readHeavy", "writeHeavy",
                      "zipfian", "client"}
    BY WorkloadAssumption DEF Workloads
  <2>3. /\ Workloads["shift"] = runShift /\ Workloads["pureWrite"] = runPureWrite
        /\ Workloads["pureRead"] = runPureRead /\ Workloads["mixed"] = runMixed
        /\ Workloads["readHeavy"] = runReadHeavy /\ Workloads["writeHeavy"] = runWriteHeavy
        /\ Workloads["zipfian"] = runZipfian /\ Workloads["client"] = <<"client">>
    BY DEF Workloads
  <2> QED
    BY <2>1, <2>2, <2>3
<1>4. MainTypeOK
  <2>1. <<>> \in Seq(SegmentID)
    OBVIOUS
  <2>2. rd \in [key : Keys \cup {0}, segs : Seq(SegmentID), rest : Seq(SegmentID), hit : Int]
    BY <2>1 DEF NoRead, Absent
  <2> QED
    BY <1>3, <2>2, EmptyTableType, EmptyLogType DEF MainTypeOK
<1>5. InputsRegistered /\ PendingWritten
  BY NoPlanType, EmptySeqSet DEF CompactionInit, InputsRegistered, PendingWritten, Inputs
<1> QED
  BY <1>1, <1>2, <1>4, <1>5 DEF TypeInv, TypeOK

\* So does a state after a step that changes nothing.
LEMMA StutterType ==
    ASSUME TypeInv, UNCHANGED vars
    PROVE  TypeInv'
<1>1. UNCHANGED trackerVars /\ UNCHANGED compactionVars /\ UNCHANGED mainVars
  BY DEF vars
<1>2. MainTypeOK'
  BY <1>1, TrackerUnchangedGrows, MainTypeFrame
<1> QED
  BY <1>1, <1>2, MainStepType DEF mainVars

\* Every step keeps the types.
LEMMA NextType ==
    ASSUME TypeInv, [Next]_vars
    PROVE  TypeInv'
<1>1. CASE BackgroundStep
  <2>1. "bg" \in Compactors
    BY DEF Compactors
  <2> QED
    BY <1>1, <2>1, CallsType, ResultsType, CompactStepType DEF BackgroundStep
<1>2. CASE MainStep
  <2>1. "main" \in Compactors
    BY DEF Compactors
  <2> QED
    BY <1>2, <2>1, WritesType, FlushWriteType, FlushRegisterType, PhasesType, ReadType,
       ReadSegmentType, CallsType, ResultsType, CompactStepType
    DEF MainStep
<1>3. CASE Second
  BY <1>3, ResultsType
<1>4. CASE UNCHANGED vars
  BY <1>4, StutterType
<1> QED
  BY <1>1, <1>2, <1>3, <1>4 DEF Next, Ended

\* The types hold, and everything a compactor has in hand is registered with the
\* tracker before it retires or registers it (executor.go).
THEOREM TypeInvariance == Spec => []TypeInv
<1>1. Init => TypeInv
  BY InitType
<1>2. TypeInv /\ [Next]_vars => TypeInv'
  BY NextType
<1> QED
  BY <1>1, <1>2, PTL DEF Spec

\* Every variable keeps its type: obsolete segments are registered ones, and the IDs
\* in plans, loops and lookups are IDs of segments that were written.
THEOREM TypeCorrectness == Spec => []TypeOK
<1>1. TypeInv => TypeOK
  BY DEF TypeInv
<1> QED
  BY <1>1, TypeInvariance, PTL

-----------------------------------------------------------------------------
(***************************************************************************)
(* What the compactors and main hold on to.                                *)
(***************************************************************************)
\* A flag is up only for a compactor that is executing.
FlagOwned ==
    \A s \in inCompaction : \E c \in Compactors : pc[c] \in Executing /\ s \in Inputs(c)

\* While a compactor executes, no one else takes the flag of a live input down.
InputsFlagged ==
    \A c \in Compactors : pc[c] \in Executing => Inputs(c) \subseteq inCompaction \cup obsolete

\* Execute's loops work through the inputs; the one that retires them has
\* retired those it is through with.
InputsRetired ==
    \A c \in Compactors :
        /\ pc[c] \in Executing => ToSet(todo[c]) \subseteq Inputs(c)
        /\ pc[c] = "mark" => Inputs(c) \subseteq obsolete \cup ToSet(todo[c])

Covers(c, s) == \A k \in Keys : segs[s].data[k] > 0 => merged[c][k] > 0

\* The merge map has a value for every key of every live input scanned so far.
MergeCovers ==
    \A c \in Compactors : pc[c] \in Executing =>
        \A s \in Inputs(c) :
            s \in obsolete \/ (pc[c] = "scan" /\ s \in ToSet(todo[c])) \/ Covers(c, s)

\* The output holds the merge map and was written after every input; it is
\* registered before the first input is retired.
OutputHolds ==
    \A c \in Compactors :
        /\ pc[c] \notin {"register", "mark"} => newSeg[c] = 0
        /\ pc[c] = "register" => newSeg[c] \in SegmentID \ Registered
        /\ pc[c] = "mark" =>
               newSeg[c] \in Registered \/ (newSeg[c] = 0 /\ merged[c] = EmptyTable)
        /\ pc[c] \in {"register", "mark"} /\ newSeg[c] # 0 =>
               segs[newSeg[c]].data = merged[c] /\ \A s \in Inputs(c) : s < newSeg[c]

\* No two goroutines are about to register the same segment.
PendingDistinct ==
    /\ mpc = "register" => flushed \in SegmentID \ Registered
    /\ \A c \in Compactors : pc[c] = "register" /\ mpc = "register" => flushed # newSeg[c]
    /\ \A c, d \in Compactors :
           c # d /\ pc[c] = "register" /\ pc[d] = "register" => newSeg[c] # newSeg[d]

\* What a registered segment holds, a live segment written no earlier holds.
Succession ==
    \A t \in Registered, k \in Keys : segs[t].data[k] > 0 =>
        \E u \in Live : u >= t /\ segs[u].data[k] > 0

\* Where main keeps the entries of a flush.
BufferOwned ==
    /\ mpc \notin {"write", "register"} => buf = EmptyTable
    /\ mpc \in {"write", "register", "truncate"} => mem = EmptyTable
    /\ mpc = "register" => flushed \in SegmentID /\ segs[flushed].data = buf

\* The last write of a key is in the memtable, in the buffer or was registered.
LatestStored ==
    \A k \in KeysOf(latest) :
        \/ mem[k] = latest[k] \/ buf[k] = latest[k]
        \/ \E s \in Registered : segs[s].data[k] = latest[k]

\* The log has what the memtable and the buffer hold, or could not be given it.
LogCovers ==
    \A k \in Keys : \A e \in {mem[k], buf[k]} :
        e # Absent => <<k, e>> \in wal.entries \cup wal.unlogged

\* A log that does not fail has everything.
LogIntact == "log" \notin Faults => wal.unlogged = {} /\ ~ wal.torn

MainInv == BufferOwned /\ LatestStored /\ LogCovers /\ LogIntact

\* What a compactor holds, what it is about to publish, and what is published.
HandInv == InputsFlagged /\ InputsRetired /\ MergeCovers

OutputInv == OutputHolds /\ PendingDistinct

CompactionInv == HandInv /\ OutputInv /\ Succession

-----------------------------------------------------------------------------
(***************************************************************************)
(* What a step leaves alone.                                               *)
(***************************************************************************)
Keeps(d) ==
    /\ pc'[d] = pc[d] /\ todo'[d] = todo[d] /\ plan'[d] = plan[d]
    /\ merged'[d] = merged[d] /\ newSeg'[d] = newSeg[d]

\* A step that is not a step of Execute behind its validation.
Quiet ==
    /\ UNCHANGED <<inCompaction, obsolete, merged, newSeg>>
    /\ \A d \in Compactors : Keeps(d) \/ (pc[d] \notin Executing /\ pc'[d] \notin Executing)

\* The steps of Execute behind its validation.
ExecuteStep(c) ==
    \/ SetInCompaction(c) \/ ScanInput(c) \/ WriteMerged(c)
    \/ RegisterOutput(c) \/ MarkInput(c) \/ ReturnOutput(c)

\* A step that leaves the compactors and the tracker alone is quiet.
LEMMA UnchangedCompactionQuiet ==
    ASSUME UNCHANGED compactionVars, UNCHANGED obsolete
    PROVE  Quiet
  BY DEF compactionVars, Quiet, Keeps

\* The director's steps, and Execute's validation, are quiet.
LEMMA DirectorQuiet ==
    ASSUME TypeInv, NEW c \in Compactors, Compact(c), ~ ExecuteStep(c)
    PROVE  Quiet /\ UNCHANGED trackerVars
<1> USE DEF TypeInv, TypeOK, CompactionTypeOK, Goto, Executing
<1>1. CASE PlanSwitch(c)
  BY <1>1 DEF PlanSwitch, Quiet, Keeps, trackerVars
<1>2. CASE planTieredCompaction(c)
  BY <1>2 DEF planTieredCompaction, Quiet, Keeps, trackerVars
<1>3. CASE TryLeveled(c)
  BY <1>3 DEF TryLeveled, Quiet, Keeps, trackerVars
<1>4. CASE planLeveledCompaction(c)
  BY <1>4 DEF planLeveledCompaction, Quiet, Keeps, trackerVars
<1>5. CASE PlanLeveled(c)
  BY <1>5 DEF PlanLeveled, Quiet, Keeps, trackerVars
<1>6. CASE Validate(c)
  BY <1>6 DEF Validate, Quiet, Keeps, trackerVars
<1> QED
  BY <1>1, <1>2, <1>3, <1>4, <1>5, <1>6 DEF Compact, ExecuteStep

\* So are the calls, what is done with their results, and time.
LEMMA CallsQuiet ==
    ASSUME TypeInv,
           \/ BackgroundTick \/ BackgroundResult \/ BackgroundStop
           \/ MainCompact \/ MainResult \/ Second
    PROVE  Quiet /\ UNCHANGED trackerVars
<1> USE DEF TypeInv, TypeOK, CompactionTypeOK, Goto, Executing, Compactors, Results
<1>1. CASE BackgroundTick
  BY <1>1 DEF BackgroundTick, MaybePlan, Quiet, Keeps, trackerVars
<1>2. CASE MainCompact
  BY <1>2 DEF MainCompact, MaybePlan, Quiet, Keeps, trackerVars
<1>3. CASE BackgroundResult
  BY <1>3 DEF BackgroundResult, Quiet, Keeps, trackerVars
<1>4. CASE BackgroundStop
  BY <1>4 DEF BackgroundStop, Quiet, Keeps, trackerVars
<1>5. CASE MainResult
  BY <1>5 DEF MainResult, Quiet, Keeps, trackerVars
<1>6. CASE Second
  BY <1>6 DEF Second, Quiet, Keeps, trackerVars
<1> QED
  BY <1>1, <1>2, <1>3, <1>4, <1>5, <1>6

\* main's steps on the log, the memtable and the lookup in progress.
LocalStep ==
    \/ Populate \/ (\E k \in Keys : Put(k) \/ Delete(k) \/ ReadStart(k))
    \/ FlushTruncate \/ NextPhase \/ FinalFlush \/ ReadSegment \/ ReadReturn \/ MainDone

\* So are main's steps on its own state.
LEMMA LocalQuiet ==
    ASSUME LocalStep
    PROVE  Quiet /\ UNCHANGED trackerVars /\ mpc' # "register" /\ mpc # "register"
<1>1. UNCHANGED trackerVars /\ UNCHANGED <<inCompaction, pc, todo, plan, merged, newSeg>>
  BY DEF LocalStep, Populate, Put, Delete, WriteEntry, ReadStart, FlushTruncate, NextPhase,
         FinalFlush, ReadSegment, ReadReturn, MainDone, compactionVars
<1>2. mpc' # "register" /\ mpc # "register"
  BY DEF LocalStep, Populate, Put, Delete, WriteEntry, ReadStart, FlushTruncate, NextPhase,
         FinalFlush, ReadSegment, ReadReturn, MainDone, InPhase
<1> QED
  BY <1>1, <1>2 DEF Quiet, Keeps, trackerVars

\* So are the two steps of a flush that change the tracker.
LEMMA FlushQuiet ==
    ASSUME FlushWrite \/ FlushRegister
    PROVE  Quiet
  BY DEF FlushWrite, FlushRegister, AppendSegment, RegisterSegment, Quiet, Keeps,
         compactionVars, trackerVars

\* Every step, sorted by what it may change.
LEMMA StepCases ==
    ASSUME TypeInv, [Next]_vars
    PROVE  \/ \E c \in Compactors : ExecuteStep(c) /\ UNCHANGED mainVars
           \/ FlushWrite
           \/ FlushRegister
           \/ LocalStep
           \/ /\ Quiet /\ UNCHANGED trackerVars
              /\ UNCHANGED <<mem, buf, flushed, wal, latest>>
              /\ \/ mpc' = mpc
                 \/ /\ mpc' \notin {"write", "register", "truncate"}
                    /\ mpc \notin {"write", "register", "truncate"}
<1>1. CASE \E c \in Compactors : Compact(c) /\ UNCHANGED mainVars
  BY <1>1, DirectorQuiet DEF mainVars
<1>2. CASE \/ BackgroundTick \/ BackgroundResult \/ BackgroundStop
           \/ MainCompact \/ MainResult \/ Second
  <2>1. /\ UNCHANGED <<mem, buf, flushed, wal, latest>>
        /\ \/ mpc' = mpc
           \/ /\ mpc' \notin {"write", "register", "truncate"}
              /\ mpc \notin {"write", "register", "truncate"}
    BY <1>2 DEF BackgroundTick, BackgroundResult, BackgroundStop, MainCompact, MainResult,
                Second, mainVars, InPhase
  <2> QED
    BY <1>2, <2>1, CallsQuiet
<1>3. CASE UNCHANGED vars
  BY <1>3, UnchangedCompactionQuiet DEF vars, mainVars, trackerVars
<1>4. Compactors = {"bg", "main"}
  BY DEF Compactors
<1> QED
  BY <1>1, <1>2, <1>3, <1>4 DEF Next, BackgroundStep, MainStep, Ended, LocalStep

\* A step of Execute is one of its compactor alone.
LEMMA ExecuteKeeps ==
    ASSUME TypeInv, NEW c \in Compactors, ExecuteStep(c), NEW d \in Compactors, d # c
    PROVE  Keeps(d) /\ Inputs(d)' = Inputs(d)
<1> USE DEF TypeInv, TypeOK, CompactionTypeOK, Goto
<1>1. Keeps(d)
  <2>1. CASE SetInCompaction(c) \/ ScanInput(c) \/ RegisterOutput(c) \/ MarkInput(c)
    BY <2>1 DEF SetInCompaction, ScanInput, RegisterOutput, MarkInput, Keeps
  <2>2. CASE WriteMerged(c)
    BY <2>2 DEF WriteMerged, ReturnFrom, Keeps
  <2>3. CASE ReturnOutput(c)
    BY <2>3 DEF ReturnOutput, ReturnFrom, Keeps
  <2> QED
    BY <2>1, <2>2, <2>3 DEF ExecuteStep
<1> QED
  BY <1>1 DEF Keeps, Inputs

\* Execute either goes on with its inputs, flagged or not as before except that it
\* flags them at the start, or it returns and takes their flags down.
LEMMA ExecuteFlags ==
    ASSUME TypeInv, NEW c \in Compactors, ExecuteStep(c)
    PROVE  \/ /\ pc'[c] \in Executing /\ Inputs(c)' = Inputs(c)
              /\ inCompaction' \subseteq inCompaction \cup Inputs(c)
           \/ /\ pc[c] \in Executing /\ pc'[c] \notin Executing
              /\ inCompaction' = inCompaction \ Inputs(c)
<1> USE DEF TypeInv, TypeOK, CompactionTypeOK, Goto, Executing
<1>1. CASE SetInCompaction(c) \/ ScanInput(c) \/ RegisterOutput(c) \/ MarkInput(c)
  BY <1>1 DEF SetInCompaction, ScanInput, RegisterOutput, MarkInput, Inputs
<1>2. CASE WriteMerged(c)
  BY <1>2 DEF WriteMerged, ReturnFrom, ClearFlags, Inputs
<1>3. CASE ReturnOutput(c)
  BY <1>3 DEF ReturnOutput, ReturnFrom, ClearFlags
<1> QED
  BY <1>1, <1>2, <1>3 DEF ExecuteStep

-----------------------------------------------------------------------------
(***************************************************************************)
(* InCompaction flags do not leak.                                         *)
(***************************************************************************)
LEMMA QuietFlagOwned ==
    ASSUME FlagOwned, Quiet
    PROVE  FlagOwned'
<1>1. \A d \in Compactors : pc[d] \in Executing => pc'[d] \in Executing /\ Inputs(d)' = Inputs(d)
  BY DEF Quiet, Keeps, Inputs
<1> QED
  BY <1>1 DEF FlagOwned, Quiet

\* Execute raises flags of its own inputs and takes them down when it returns.
LEMMA ExecuteFlagOwned ==
    ASSUME TypeInv, FlagOwned, NEW c \in Compactors, ExecuteStep(c)
    PROVE  FlagOwned'
<1>1. SUFFICES ASSUME NEW s \in inCompaction'
               PROVE  \E d \in Compactors : pc'[d] \in Executing /\ s \in Inputs(d)'
  BY DEF FlagOwned
<1>2. CASE /\ pc'[c] \in Executing /\ Inputs(c)' = Inputs(c)
           /\ inCompaction' \subseteq inCompaction \cup Inputs(c)
  <2>1. CASE s \in Inputs(c)
    BY <1>2, <2>1
  <2>2. CASE s \notin Inputs(c)
    <3>1. PICK d \in Compactors : pc[d] \in Executing /\ s \in Inputs(d)
      BY <1>1, <1>2, <2>2 DEF FlagOwned
    <3> QED
      BY <2>2, <3>1, ExecuteKeeps DEF Keeps
  <2> QED
    BY <2>1, <2>2
<1>3. CASE /\ pc[c] \in Executing /\ pc'[c] \notin Executing
           /\ inCompaction' = inCompaction \ Inputs(c)
  <2>1. PICK d \in Compactors : pc[d] \in Executing /\ s \in Inputs(d)
    BY <1>1, <1>3 DEF FlagOwned
  <2>2. d # c
    BY <1>1, <1>3, <2>1
  <2> QED
    BY <2>1, <2>2, ExecuteKeeps DEF Keeps
<1> QED
  BY <1>2, <1>3, ExecuteFlags

\* No InCompaction flag leaks: whichever way Execute ends, an error included, outside
\* of it every flag is down (executor.go's deferred function).
THEOREM FlagsCleared == Spec => []FlagsAlwaysCleared
<1>1. Init => FlagOwned
  BY DEF Init, CompactionInit, FlagOwned
<1>2. TypeInv /\ FlagOwned /\ [Next]_vars => FlagOwned'
  <2> SUFFICES ASSUME TypeInv, FlagOwned, [Next]_vars
               PROVE  FlagOwned'
    OBVIOUS
  <2>1. CASE \E c \in Compactors : ExecuteStep(c)
    BY <2>1, ExecuteFlagOwned
  <2>2. CASE Quiet
    BY <2>2, QuietFlagOwned
  <2> QED
    BY <2>1, <2>2, StepCases, FlushQuiet, LocalQuiet
<1>3. FlagOwned => FlagsAlwaysCleared
  BY DEF FlagOwned, FlagsAlwaysCleared
<1> QED
  BY <1>1, <1>2, <1>3, TypeInvariance, PTL DEF Spec

-----------------------------------------------------------------------------
(***************************************************************************)
(* The memtable and the log.                                               *)
(***************************************************************************)
\* Segments and registrations are kept, and so is the data of a segment.
DataKept ==
    /\ SegmentID \subseteq SegmentID' /\ Registered \subseteq Registered'
    /\ \A s \in SegmentID : segs'[s].data = segs[s].data

\* Execute never changes the data of a segment.
LEMMA ExecuteDataKept ==
    ASSUME TypeInv, NEW c \in Compactors, ExecuteStep(c)
    PROVE  DataKept
<1> USE DEF TypeInv, TypeOK, CompactionTypeOK
<1>1. CASE UNCHANGED trackerVars
  BY <1>1, TrackerFrame DEF DataKept, trackerVars
<1>2. ASSUME NEW seg \in SegmentMeta, AppendSegment(seg)
      PROVE  DataKept
  BY <1>2, AppendEffect DEF DataKept
<1>3. CASE RegisterOutput(c)
  <2>1. newSeg[c] \in SegmentID /\ RegisterSegment(newSeg[c])
    BY <1>3 DEF RegisterOutput, Goto, PendingWritten
  <2> QED
    BY <2>1, RegisterEffect DEF DataKept
<1>4. CASE MarkInput(c)
  <2>1. Head(todo[c]) \in Registered /\ MarkObsolete(Head(todo[c]))
    BY <1>4, TodoTail DEF MarkInput
  <2> QED
    BY <2>1, MarkEffect DEF DataKept
<1>5. CASE WriteMerged(c)
  <2>1. NewSegment(merged[c], plan[c].strategy, plan[c].level, clock, "compaction")
            \in SegmentMeta
    BY NewSegmentType DEF Plan
  <2> QED
    BY <1>1, <1>2, <1>5, <2>1 DEF WriteMerged
<1> QED
  BY <1>1, <1>3, <1>4, <1>5 DEF ExecuteStep, SetInCompaction, ScanInput, ReturnOutput

\* Steps that leave the memtable, the buffer and the log alone, and keep the data.
LEMMA DataKeptMainInv ==
    ASSUME TypeInv, MainInv, DataKept, UNCHANGED <<mem, buf, flushed, wal, latest>>,
           \/ mpc' = mpc
           \/ /\ mpc' \notin {"write", "register", "truncate"}
              /\ mpc \notin {"write", "register", "truncate"}
    PROVE  MainInv'
<1> USE DEF MainInv
<1>1. BufferOwned'
  BY DEF BufferOwned, DataKept
<1>2. LatestStored'
  <2> SUFFICES ASSUME NEW k \in KeysOf(latest)
               PROVE  \/ mem[k] = latest[k] \/ buf[k] = latest[k]
                      \/ \E s \in Registered' : segs'[s].data[k] = latest[k]
    BY DEF LatestStored, KeysOf
  <2>1. ASSUME NEW s \in Registered, segs[s].data[k] = latest[k]
        PROVE  s \in Registered' /\ segs'[s].data[k] = latest[k]
    BY <2>1, RegisteredType DEF DataKept, TypeInv, TypeOK
  <2> QED
    BY <2>1 DEF LatestStored
<1>3. LogCovers' /\ LogIntact'
  BY DEF LogCovers, LogIntact
<1> QED
  BY <1>1, <1>2, <1>3

\* A client write logs the entry and stores it in the memtable or in the buffer.
LEMMA WriteEntryMainInv ==
    ASSUME TypeInv, MainInv, NEW k \in Keys, NEW e \in Int, WriteEntry(k, e), mpc = "run"
    PROVE  MainInv'
<1> DEFINE table == [mem EXCEPT ![k] = e]
<1>1. /\ UNCHANGED trackerVars
      /\ wal' \in Logged(k, e)
      /\ latest' = [latest EXCEPT ![k] = e]
      /\ \/ mem' = EmptyTable /\ buf' = table /\ mpc' = "write"
         \/ mem' = table /\ UNCHANGED <<buf, mpc>>
      /\ flushed' = flushed
  BY DEF WriteEntry
<1>2. mem \in [Keys -> Int] /\ latest \in [Keys -> Int]
  BY DEF TypeInv, TypeOK, MainTypeOK, Table
<1>3. buf = EmptyTable
  BY DEF MainInv, BufferOwned
<1>4. \A j \in Keys : EmptyTable[j] = Absent
  BY DEF EmptyTable
<1>5. table[k] = e /\ \A j \in Keys : j # k => table[j] = mem[j]
  BY <1>2
<1>6. latest'[k] = e /\ \A j \in Keys : j # k => latest'[j] = latest[j]
  BY <1>1, <1>2
<1> HIDE DEF table
<1>7. BufferOwned'
  BY <1>1, <1>3 DEF BufferOwned
<1>8. \A j \in Keys : mem'[j] = table[j] \/ buf'[j] = table[j]
  BY <1>1
<1>9. LatestStored'
  <2> SUFFICES ASSUME NEW j \in Keys, latest'[j] # Absent
               PROVE  \/ mem'[j] = latest'[j] \/ buf'[j] = latest'[j]
                      \/ \E s \in Registered : segs[s].data[j] = latest'[j]
    BY <1>1, TrackerFrame DEF LatestStored, KeysOf, trackerVars, TypeInv, TypeOK
  <2>1. CASE j = k
    BY <2>1, <1>5, <1>6, <1>8
  <2>2. CASE j # k
    <3>1. j \in KeysOf(latest) /\ latest'[j] = latest[j]
      BY <2>2, <1>6 DEF KeysOf
    <3>2. buf[j] # latest[j]
      BY <1>3, <1>4, <3>1 DEF KeysOf
    <3> QED
      BY <2>2, <3>1, <3>2, <1>5, <1>8 DEF MainInv, LatestStored
  <2> QED
    BY <2>1, <2>2
<1>10. /\ wal'.entries \cup wal'.unlogged = wal.entries \cup wal.unlogged \cup {<<k, e>>}
       /\ "log" \notin Faults /\ ~ wal.torn => wal'.unlogged = wal.unlogged /\ ~ wal'.torn
  BY <1>1, LoggedEffect DEF TypeInv, TypeOK, MainTypeOK
<1>11. LogIntact'
  BY <1>10 DEF MainInv, LogIntact
<1>12. LogCovers'
  <2> SUFFICES ASSUME NEW j \in Keys, NEW x \in {mem'[j], buf'[j]}, x # Absent
               PROVE  <<j, x>> \in wal'.entries \cup wal'.unlogged
    BY DEF LogCovers
  <2>1. x = table[j]
    BY <1>1, <1>3, <1>4
  <2>2. CASE j = k
    BY <2>1, <2>2, <1>5, <1>10
  <2>3. CASE j # k
    BY <2>1, <2>3, <1>5, <1>10 DEF MainInv, LogCovers
  <2> QED
    BY <2>2, <2>3
<1> QED
  BY <1>7, <1>9, <1>11, <1>12 DEF MainInv

\* The write of a flush leaves the buffer in place.
LEMMA FlushWriteMainInv ==
    ASSUME TypeInv, MainInv, FlushWrite
    PROVE  MainInv'
<1> USE DEF TypeInv, TypeOK
<1>1. mpc = "write" /\ UNCHANGED <<mem, buf, wal, latest>>
  BY DEF FlushWrite
<1>2. /\ DataKept
      /\ \/ mpc' = "write"
         \/ mpc' = "register" /\ flushed' \in SegmentID' /\ segs'[flushed'].data = buf
  <2>1. CASE /\ AppendSegment(NewSegment(buf, TIERED, 0, clock, "flush"))
             /\ flushed' = Len(segs) + 1 /\ mpc' = "register"
    <3>1. /\ NewSegment(buf, TIERED, 0, clock, "flush") \in SegmentMeta
          /\ NewSegment(buf, TIERED, 0, clock, "flush").data = buf
      BY NewSegmentType DEF MainTypeOK, CompactionTypeOK, CompactionType
    <3> QED
      BY <2>1, <3>1, AppendEffect DEF DataKept
  <2>2. CASE UNCHANGED trackerVars /\ UNCHANGED mpc
    BY <1>1, <2>2, TrackerFrame DEF DataKept, trackerVars
  <2> QED
    BY <2>1, <2>2 DEF FlushWrite
<1>3. BufferOwned'
  BY <1>1, <1>2 DEF MainInv, BufferOwned
<1>4. LatestStored'
  <2> SUFFICES ASSUME NEW k \in KeysOf(latest)
               PROVE  \/ mem[k] = latest[k] \/ buf[k] = latest[k]
                      \/ \E s \in Registered' : segs'[s].data[k] = latest[k]
    BY <1>1 DEF LatestStored, KeysOf
  <2> QED
    BY <1>2, RegisteredType DEF MainInv, LatestStored, DataKept
<1>5. LogCovers' /\ LogIntact'
  BY <1>1 DEF MainInv, LogCovers, LogIntact
<1> QED
  BY <1>3, <1>4, <1>5 DEF MainInv

\* The buffer is given up once the segment that holds it is registered.
LEMMA FlushRegisterMainInv ==
    ASSUME TypeInv, MainInv, FlushRegister
    PROVE  MainInv'
<1> USE DEF TypeInv, TypeOK
<1>1. /\ mpc = "register" /\ mpc' = "truncate" /\ buf' = EmptyTable
      /\ UNCHANGED <<mem, wal, latest>>
  BY DEF FlushRegister
<1>2. flushed \in SegmentID /\ segs[flushed].data = buf /\ mem = EmptyTable
  BY <1>1 DEF MainInv, BufferOwned
<1>3. DataKept /\ flushed \in Registered'
  BY <1>2, RegisterEffect DEF FlushRegister, DataKept
<1>4. BufferOwned'
  BY <1>1, <1>2 DEF BufferOwned
<1>5. LatestStored'
  <2> SUFFICES ASSUME NEW k \in KeysOf(latest)
               PROVE  \/ mem[k] = latest[k]
                      \/ \E s \in Registered' : segs'[s].data[k] = latest[k]
    BY <1>1 DEF LatestStored, KeysOf
  <2>1. CASE buf[k] = latest[k]
    BY <2>1, <1>2, <1>3 DEF DataKept
  <2>2. ASSUME NEW s \in Registered, segs[s].data[k] = latest[k]
        PROVE  s \in Registered' /\ segs'[s].data[k] = latest[k]
    BY <2>2, <1>3, RegisteredType DEF DataKept
  <2> QED
    BY <2>1, <2>2 DEF MainInv, LatestStored
<1>6. LogCovers' /\ LogIntact'
  BY <1>1 DEF MainInv, LogCovers, LogIntact, EmptyTable
<1> QED
  BY <1>4, <1>5, <1>6 DEF MainInv

\* The log is truncated when nothing is left that only it protects.
LEMMA FlushTruncateMainInv ==
    ASSUME TypeInv, MainInv, FlushTruncate
    PROVE  MainInv'
<1>1. /\ mpc = "truncate" /\ mpc' = "run" /\ UNCHANGED trackerVars
      /\ UNCHANGED <<mem, buf, flushed, latest>>
  BY DEF FlushTruncate
<1>2. mem = EmptyTable /\ buf = EmptyTable
  BY <1>1 DEF MainInv, BufferOwned
<1>3. LatestStored'
  BY <1>1, TrackerFrame DEF MainInv, LatestStored, KeysOf, trackerVars, TypeInv, TypeOK
<1>4. BufferOwned' /\ LogCovers'
  BY <1>1, <1>2 DEF BufferOwned, LogCovers, EmptyTable
<1>5. LogIntact'
  BY DEF FlushTruncate, EmptyLog, MainInv, LogIntact
<1> QED
  BY <1>3, <1>4, <1>5 DEF MainInv

\* Every step keeps the invariant of the memtable and the log.
LEMMA NextMainInv ==
    ASSUME TypeInv, MainInv, [Next]_vars
    PROVE  MainInv'
<1>1. CASE \E c \in Compactors : ExecuteStep(c) /\ UNCHANGED mainVars
  BY <1>1, ExecuteDataKept, DataKeptMainInv DEF mainVars
<1>2. CASE /\ UNCHANGED trackerVars /\ UNCHANGED <<mem, buf, flushed, wal, latest>>
           /\ \/ mpc' = mpc
              \/ /\ mpc' \notin {"write", "register", "truncate"}
                 /\ mpc \notin {"write", "register", "truncate"}
  <2>1. DataKept
    BY <1>2, TrackerFrame DEF DataKept, trackerVars, TypeInv, TypeOK
  <2> QED
    BY <1>2, <2>1, DataKeptMainInv
<1>3. CASE LocalStep
  <2>1. CASE Populate \/ \E k \in Keys : Put(k) \/ Delete(k)
    BY <2>1, WritesType, WriteEntryMainInv
  <2>2. CASE FlushTruncate
    BY <2>2, FlushTruncateMainInv
  <2>3. CASE \/ (\E k \in Keys : ReadStart(k)) \/ NextPhase \/ FinalFlush
             \/ ReadSegment \/ ReadReturn \/ MainDone
    BY <1>2, <2>3
    DEF ReadStart, NextPhase, FinalFlush, ReadSegment, ReadReturn, MainDone, InPhase
  <2> QED
    BY <1>3, <2>1, <2>2, <2>3 DEF LocalStep
<1> QED
  BY <1>1, <1>2, <1>3, StepCases, FlushWriteMainInv, FlushRegisterMainInv

\* It holds initially.
LEMMA InitMainInv ==
    ASSUME Init
    PROVE  MainInv
  BY EmptyTableType
  DEF Init, MainInv, BufferOwned, LatestStored, LogCovers, LogIntact, EmptyTable, EmptyLog

\* It holds throughout.
LEMMA MainInvariance == Spec => []MainInv
<1>1. Init => MainInv
  BY InitMainInv
<1>2. TypeInv /\ MainInv /\ [Next]_vars => MainInv'
  BY NextMainInv
<1> QED
  BY <1>1, <1>2, TypeInvariance, PTL DEF Spec

\* The last write of a key is in the log, in a segment on disk, or one that could not
\* be logged.
LEMMA WhereTheLastWriteIs ==
    ASSUME TypeInv, MainInv, NEW k \in KeysOf(latest)
    PROVE  \/ Stored(k, latest[k])
           \/ /\ latest[k] \in {mem[k], buf[k]}
              /\ <<k, latest[k]>> \in wal.entries \cup wal.unlogged
<1>1. k \in Keys /\ latest[k] # Absent
  BY DEF KeysOf
<1>2. \/ mem[k] = latest[k] \/ buf[k] = latest[k]
      \/ \E s \in Registered : segs[s].data[k] = latest[k]
  BY DEF MainInv, LatestStored
<1>3. CASE mem[k] = latest[k] \/ buf[k] = latest[k]
  BY <1>1, <1>3 DEF MainInv, LogCovers
<1> QED
  BY <1>2, <1>3, RegisteredType DEF Stored, TypeInv, TypeOK

\* As long as the log does not fail, the last write of every key is in it or in a
\* segment on disk, whatever appends and mmaps fail (the order of WriteSegment,
\* RegisterSegment and Truncate in main.go).
THEOREM Durability ==
    ASSUME "log" \notin Faults
    PROVE  Spec => []LastWriteDurable
<1>1. TypeInv /\ MainInv => LastWriteDurable
  BY WhereTheLastWriteIs DEF LastWriteDurable, MainInv, LogIntact
<1> QED
  BY <1>1, TypeInvariance, MainInvariance, PTL

\* Whatever fails, the log included, the last write of every key is in the log or in a
\* segment on disk, or it was never logged and the program still has it in memory (the
\* error of LogPut that main.go drops).
THEOREM LastWriteIsKept == Spec => []LastWriteKept
<1>1. TypeInv /\ MainInv => LastWriteKept
  BY WhereTheLastWriteIs DEF LastWriteKept
<1> QED
  BY <1>1, TypeInvariance, MainInvariance, PTL

-----------------------------------------------------------------------------
(***************************************************************************)
(* Workloads whose main goroutine never compacts.                          *)
(***************************************************************************)
\* Only the background goroutine plans and executes compactions.
OnlyBackgroundCompacts == "compact" \notin ToSet(Workloads[Workload])

\* main is never in a compaction, nor has one ahead of it.
MainNeverCompacts ==
    "compact" \notin ToSet(phases) /\ pc["main"] = "idle" /\ mpc # "compacting"

\* The phases ahead of main get fewer.
LEMMA PhasesShrink ==
    ASSUME TypeInv, MainNeverCompacts, [Next]_vars
    PROVE  "compact" \notin ToSet(phases') /\ ~ InPhase({"compact"})
<1>1. phases # <<>> => /\ Head(phases) \in ToSet(phases)
                       /\ ToSet(Tail(phases)) \subseteq ToSet(phases)
  BY HeadTail DEF TypeInv, TypeOK, MainTypeOK
<1>2. phases' = phases \/ (phases # <<>> /\ phases' = Tail(phases))
  <2>1. CASE LocalStep
    BY <2>1
    DEF LocalStep, Populate, Put, Delete, WriteEntry, ReadStart, FlushTruncate, NextPhase,
        FinalFlush, ReadSegment, ReadReturn, MainDone, InPhase
  <2>2. CASE \/ BackgroundTick \/ BackgroundResult \/ BackgroundStop \/ Second
             \/ FlushWrite \/ FlushRegister \/ MainCompact \/ UNCHANGED vars
             \/ \E c \in Compactors : Compact(c) /\ UNCHANGED mainVars
    BY <2>2
    DEF BackgroundTick, BackgroundResult, BackgroundStop, Second, FlushWrite, FlushRegister,
        MainCompact, vars, mainVars
  <2>3. CASE MainResult
    BY <2>3 DEF MainNeverCompacts, MainResult
  <2>4. Compactors = {"bg", "main"}
    BY DEF Compactors
  <2> QED
    BY <2>1, <2>2, <2>3, <2>4 DEF Next, BackgroundStep, MainStep, Ended, LocalStep
<1> QED
  BY <1>1, <1>2 DEF MainNeverCompacts, InPhase

\* main's part in a compaction cannot come up.
LEMMA MainIdle ==
    ASSUME TypeInv, MainNeverCompacts, [Next]_vars
    PROVE  ~ MainCompact /\ ~ MainResult /\ ~ Compact("main")
<1>1. pc["main"] = "idle" /\ mpc # "compacting" /\ ~ InPhase({"compact"})
  BY PhasesShrink DEF MainNeverCompacts
<1> QED
  BY <1>1
  DEF MainCompact, MainResult, Compact, PlanSwitch, planTieredCompaction, TryLeveled,
      planLeveledCompaction, PlanLeveled, Validate, SetInCompaction, ScanInput, WriteMerged,
      RegisterOutput, MarkInput, ReturnOutput, Goto

\* A workload without a compaction of main's stays without one.
LEMMA NextMainNeverCompacts ==
    ASSUME TypeInv, MainNeverCompacts, [Next]_vars
    PROVE  MainNeverCompacts'
<1> USE DEF TypeInv, TypeOK, CompactionTypeOK, Goto
<1>1. pc["main"] = "idle" /\ mpc # "compacting" /\ ~ InPhase({"compact"})
  BY PhasesShrink DEF MainNeverCompacts
<1>2. ~ MainCompact /\ ~ MainResult
  BY MainIdle
<1>3. ~ Compact("main")
  BY MainIdle
<1>4. mpc' # "compacting"
  <2>1. CASE LocalStep
    BY <1>1, <2>1
    DEF LocalStep, Populate, Put, Delete, WriteEntry, ReadStart, FlushTruncate, NextPhase,
        FinalFlush, ReadSegment, ReadReturn, MainDone
  <2> QED
    BY <1>1, <1>2, <1>3, <2>1
    DEF Next, BackgroundStep, MainStep, Ended, LocalStep, BackgroundTick, BackgroundResult,
        BackgroundStop, Second, FlushWrite, FlushRegister, vars, mainVars
<1>5. pc'["main"] = "idle"
  <2>1. CASE Compact("bg") /\ ExecuteStep("bg")
    BY <1>1, <2>1, ExecuteKeeps DEF Keeps, Compactors
  <2>2. CASE Compact("bg") /\ ~ ExecuteStep("bg")
    BY <1>1, <2>2
    DEF Compact, ExecuteStep, PlanSwitch, planTieredCompaction, TryLeveled,
        planLeveledCompaction, PlanLeveled, Validate, Compactors
  <2>3. CASE \/ BackgroundTick \/ BackgroundResult \/ BackgroundStop \/ Second
    BY <1>1, <2>3
    DEF BackgroundTick, MaybePlan, BackgroundResult, BackgroundStop, Second, Compactors
  <2>4. CASE LocalStep \/ FlushWrite \/ FlushRegister \/ UNCHANGED vars
    BY <1>1, <2>4
    DEF LocalStep, Populate, Put, Delete, WriteEntry, ReadStart, FlushTruncate, NextPhase,
        FinalFlush, ReadSegment, ReadReturn, MainDone, FlushWrite, FlushRegister, vars,
        compactionVars
  <2> QED
    BY <1>2, <1>3, <2>1, <2>2, <2>3, <2>4
    DEF Next, BackgroundStep, MainStep, Ended, LocalStep
<1> QED
  BY <1>4, <1>5, PhasesShrink DEF MainNeverCompacts

\* So main never compacts in such a workload.
LEMMA MainNeverCompactsInvariance ==
    ASSUME OnlyBackgroundCompacts
    PROVE  Spec => []MainNeverCompacts
<1>1. Init => MainNeverCompacts
  BY DEF Init, CompactionInit, MainNeverCompacts, OnlyBackgroundCompacts, Compactors
<1>2. TypeInv /\ MainNeverCompacts /\ [Next]_vars => MainNeverCompacts'
  BY NextMainNeverCompacts
<1> QED
  BY <1>1, <1>2, TypeInvariance, PTL DEF Spec

-----------------------------------------------------------------------------
(***************************************************************************)
(* No key is lost, as long as no mmap fails, and no append of a compaction *)
(* that another goroutine's may share inputs with.                         *)
(***************************************************************************)
\* Failures that cannot make a merge miss a live input: a failed mmap drops the
\* input, and the return from a failed append takes down the flags another
\* compactor's merge needs.
MergesAreSafe == "mmap" \notin Faults /\ ("append" \in Faults => OnlyBackgroundCompacts)

NoStrayErrors == "mmap" \notin Faults /\ ("append" \in Faults => pc["main"] = "idle")

LEMMA NoStrayErrorsInvariance ==
    ASSUME MergesAreSafe
    PROVE  Spec => []NoStrayErrors
<1>1. CASE "append" \notin Faults
  <2>1. NoStrayErrors
    BY <1>1 DEF NoStrayErrors, MergesAreSafe
  <2> QED
    BY <2>1, PTL
<1>2. CASE OnlyBackgroundCompacts
  <2>1. MainNeverCompacts => NoStrayErrors
    BY DEF MainNeverCompacts, NoStrayErrors, MergesAreSafe
  <2> QED
    BY <1>2, <2>1, MainNeverCompactsInvariance, PTL
<1> QED
  BY <1>1, <1>2 DEF MergesAreSafe

LEMMA QuietHandInv ==
    ASSUME TypeInv, HandInv, Quiet, DataKept
    PROVE  HandInv'
<1> USE DEF HandInv
<1>1. SUFFICES ASSUME NEW d \in Compactors, pc'[d] \in Executing
               PROVE  /\ Inputs(d)' \subseteq inCompaction' \cup obsolete'
                      /\ ToSet(todo'[d]) \subseteq Inputs(d)'
                      /\ pc'[d] = "mark" => Inputs(d)' \subseteq obsolete' \cup ToSet(todo'[d])
                      /\ \A s \in Inputs(d)' :
                            \/ s \in obsolete'
                            \/ pc'[d] = "scan" /\ s \in ToSet(todo'[d])
                            \/ Covers(d, s)'
  BY DEF InputsFlagged, InputsRetired, MergeCovers, Executing
<1>2. Keeps(d) /\ Inputs(d)' = Inputs(d) /\ pc[d] \in Executing
  BY <1>1 DEF Quiet, Keeps, Inputs
<1>3. UNCHANGED <<inCompaction, obsolete>>
  BY DEF Quiet
<1>4. \A s \in Inputs(d) : Covers(d, s) => Covers(d, s)'
  BY <1>2, RegisteredType
  DEF Covers, Keeps, DataKept, TypeInv, TypeOK, InputsRegistered
<1> QED
  BY <1>2, <1>3, <1>4 DEF Keeps, InputsFlagged, InputsRetired, MergeCovers

\* What a step of Execute has to keep for the other compactors' sake.
LEMMA OthersHandInv ==
    ASSUME TypeInv, HandInv, NEW c \in Compactors, ExecuteStep(c),
           obsolete \subseteq obsolete', inCompaction \subseteq inCompaction' \cup obsolete',
           NEW d \in Compactors, d # c, pc'[d] \in Executing
    PROVE  /\ Inputs(d)' \subseteq inCompaction' \cup obsolete'
           /\ ToSet(todo'[d]) \subseteq Inputs(d)'
           /\ pc'[d] = "mark" => Inputs(d)' \subseteq obsolete' \cup ToSet(todo'[d])
           /\ \A s \in Inputs(d)' :
                 \/ s \in obsolete'
                 \/ pc'[d] = "scan" /\ s \in ToSet(todo'[d])
                 \/ Covers(d, s)'
<1>1. Keeps(d) /\ Inputs(d)' = Inputs(d)
  BY ExecuteKeeps
<1>2. DataKept
  BY ExecuteDataKept
<1>3. \A s \in Inputs(d) : Covers(d, s) => Covers(d, s)'
  BY <1>1, <1>2, RegisteredType
  DEF Covers, Keeps, DataKept, TypeInv, TypeOK, InputsRegistered
<1> QED
  BY <1>1, <1>3 DEF Keeps, HandInv, InputsFlagged, InputsRetired, MergeCovers

\* It is enough to look at the compactor that moves.
LEMMA OwnHandInv ==
    ASSUME TypeInv, HandInv, NEW c \in Compactors, ExecuteStep(c),
           obsolete \subseteq obsolete', inCompaction \subseteq inCompaction' \cup obsolete',
           pc'[c] \in Executing =>
               /\ Inputs(c)' \subseteq inCompaction' \cup obsolete'
               /\ ToSet(todo'[c]) \subseteq Inputs(c)'
               /\ pc'[c] = "mark" => Inputs(c)' \subseteq obsolete' \cup ToSet(todo'[c])
               /\ \A s \in Inputs(c)' :
                     \/ s \in obsolete'
                     \/ pc'[c] = "scan" /\ s \in ToSet(todo'[c])
                     \/ Covers(c, s)'
    PROVE  HandInv'
  BY OthersHandInv DEF HandInv, InputsFlagged, InputsRetired, MergeCovers, Executing

\* All inputs are flagged, and all are still to be scanned.
LEMMA SetInCompactionHandInv ==
    ASSUME TypeInv, HandInv, NEW c \in Compactors, SetInCompaction(c)
    PROVE  HandInv'
<1> USE DEF TypeInv, TypeOK, CompactionTypeOK
<1>1. /\ obsolete' = obsolete /\ inCompaction' = inCompaction \cup Inputs(c)
      /\ plan' = plan /\ todo'[c] = plan[c].inputs /\ pc'[c] = "scan"
  BY DEF SetInCompaction, Goto, trackerVars
<1>2. Inputs(c)' = Inputs(c) /\ ToSet(todo'[c]) = Inputs(c)
  BY <1>1 DEF Inputs
<1> QED
  BY <1>1, <1>2, OwnHandInv DEF ExecuteStep

\* An input is skipped only if it is obsolete; else the merge map covers it.
LEMMA ScanInputHandInv ==
    ASSUME "mmap" \notin Faults, TypeInv, HandInv, NEW c \in Compactors, ScanInput(c)
    PROVE  HandInv'
<1>0. PICK h : h = Head(todo[c])
  OBVIOUS
<1>1. /\ UNCHANGED trackerVars /\ UNCHANGED <<inCompaction, plan>>
      /\ pc[c] = "scan" /\ pc'[c] = "scan"
      /\ todo[c] # <<>> /\ todo' = [todo EXCEPT ![c] = Tail(@)]
  BY DEF ScanInput, Goto, TypeInv, TypeOK, CompactionTypeOK
<1>2. h \in SegmentID /\ ToSet(todo[c]) = {h} \cup ToSet(todo'[c])
  BY <1>0, <1>1, TodoTail
<1>3. Inputs(c)' = Inputs(c) /\ segs' = segs /\ obsolete' = obsolete
  BY <1>1 DEF Inputs, trackerVars
<1>4. h \in Inputs(c)
  BY <1>1, <1>2 DEF HandInv, InputsRetired, Executing
<1>5. \/ h \in obsolete /\ merged' = merged
      \/ merged' = [merged EXCEPT ![c] = MergeInto(@, segs[h].data)]
  <2>1. h \in inCompaction \/ h \in obsolete
    BY <1>1, <1>4 DEF HandInv, InputsFlagged, Executing
  <2> QED
    BY <1>0, <2>1 DEF ScanInput, ScanSkips, MayFail
<1>6. merged[c] \in [Keys -> Int] /\ segs[h].data \in [Keys -> Int]
  BY <1>2, SegmentType DEF TypeInv, TypeOK, CompactionTypeOK, Table
<1>7. ASSUME merged' = [merged EXCEPT ![c] = MergeInto(@, segs[h].data)]
      PROVE  \A k \in Keys : /\ segs[h].data[k] > 0 => merged'[c][k] > 0
                             /\ merged[c][k] > 0 => merged'[c][k] > 0
  <2>1. merged'[c] = MergeInto(merged[c], segs[h].data)
    BY <1>7 DEF TypeInv, TypeOK, CompactionTypeOK
  <2> QED
    BY <2>1, <1>6 DEF MergeInto
<1>8. \A s \in Inputs(c) : Covers(c, s) => Covers(c, s)'
  BY <1>3, <1>5, <1>7 DEF Covers
<1>9. h \in obsolete \/ Covers(c, h)'
  BY <1>3, <1>5, <1>7 DEF Covers
<1>10. \A s \in Inputs(c) : s \in obsolete \/ s \in ToSet(todo[c]) \/ Covers(c, s)
  BY <1>1 DEF HandInv, MergeCovers, Executing
<1>11. \A s \in Inputs(c) : s \in obsolete \/ s \in ToSet(todo'[c]) \/ Covers(c, s)'
  BY <1>2, <1>8, <1>9, <1>10
<1>12. Inputs(c) \subseteq inCompaction \cup obsolete /\ ToSet(todo[c]) \subseteq Inputs(c)
  BY <1>1 DEF HandInv, InputsFlagged, InputsRetired, Executing
<1> QED
  BY <1>1, <1>2, <1>3, <1>11, <1>12, OwnHandInv DEF ExecuteStep

\* When the scan is over the merge map covers every live input.
LEMMA WriteMergedHandInv ==
    ASSUME TypeInv, HandInv, NEW c \in Compactors, WriteMerged(c), pc'[c] \in Executing
    PROVE  HandInv'
<1>1. /\ UNCHANGED <<inCompaction, plan, merged, obsolete>>
      /\ pc[c] = "scan" /\ todo[c] = <<>>
      /\ \/ pc'[c] = "mark" /\ todo'[c] = plan[c].inputs
         \/ pc'[c] = "register" /\ todo' = todo
  BY DEF WriteMerged, Goto, AppendSegment, trackerVars, TypeInv, TypeOK, CompactionTypeOK,
         Executing
<1>2. Inputs(c)' = Inputs(c) /\ ToSet(todo[c]) = {}
  BY <1>1, EmptySeqSet DEF Inputs
<1>3. \A s \in Inputs(c) : s \in obsolete \/ Covers(c, s)
  BY <1>1, <1>2 DEF HandInv, MergeCovers, Executing
<1>4. DataKept
  BY ExecuteDataKept DEF ExecuteStep
<1>5. \A s \in Inputs(c) : Covers(c, s) => Covers(c, s)'
  BY <1>1, <1>4, RegisteredType DEF Covers, DataKept, TypeInv, TypeOK, InputsRegistered
<1>6. Inputs(c) \subseteq inCompaction \cup obsolete
  BY <1>1 DEF HandInv, InputsFlagged, Executing
<1>7. /\ ToSet(todo'[c]) \subseteq Inputs(c)
      /\ pc'[c] = "mark" => Inputs(c) \subseteq ToSet(todo'[c])
  BY <1>1, <1>2 DEF Inputs
<1> QED
  BY <1>1, <1>2, <1>3, <1>5, <1>6, <1>7, OwnHandInv DEF ExecuteStep

\* A failed append takes the flags of live inputs down, so no one else may rely on
\* them.
LEMMA WriteFailedHandInv ==
    ASSUME TypeInv, HandInv, NEW c \in Compactors, WriteMerged(c), pc'[c] \notin Executing,
           "append" \in Faults => pc["main"] = "idle"
    PROVE  HandInv'
<1>1. pc[c] = "scan" /\ pc["main"] = "idle"
  BY DEF WriteMerged, MayFail, Goto, TypeInv, TypeOK, CompactionTypeOK, Executing
<1>2. c = "bg" /\ "main" \in Compactors
  BY <1>1 DEF Compactors
<1>3. pc'["main"] = "idle"
  BY <1>1, <1>2, ExecuteKeeps DEF ExecuteStep, Keeps
<1>4. \A d \in Compactors : pc'[d] \notin Executing
  BY <1>2, <1>3 DEF Compactors, Executing
<1> QED
  BY <1>4 DEF HandInv, InputsFlagged, InputsRetired, MergeCovers, Executing

\* All inputs are still to be retired.
LEMMA RegisterOutputHandInv ==
    ASSUME TypeInv, HandInv, NEW c \in Compactors, RegisterOutput(c)
    PROVE  HandInv'
<1>1. /\ UNCHANGED <<inCompaction, plan, merged, obsolete>>
      /\ pc[c] = "register" /\ pc'[c] = "mark" /\ todo'[c] = plan[c].inputs
  BY DEF RegisterOutput, Goto, RegisterSegment, TypeInv, TypeOK, CompactionTypeOK
<1>2. Inputs(c)' = Inputs(c) /\ ToSet(todo'[c]) = Inputs(c)
  BY <1>1 DEF Inputs
<1>3. \A s \in Inputs(c) : s \in obsolete \/ Covers(c, s)
  BY <1>1 DEF HandInv, MergeCovers, Executing
<1>4. DataKept
  BY ExecuteDataKept DEF ExecuteStep
<1>5. \A s \in Inputs(c) : Covers(c, s) => Covers(c, s)'
  BY <1>1, <1>4, RegisteredType DEF Covers, DataKept, TypeInv, TypeOK, InputsRegistered
<1>6. Inputs(c) \subseteq inCompaction \cup obsolete
  BY <1>1 DEF HandInv, InputsFlagged, Executing
<1> QED
  BY <1>1, <1>2, <1>3, <1>5, <1>6, OwnHandInv DEF ExecuteStep

\* One input less is to be retired.
LEMMA MarkInputHandInv ==
    ASSUME TypeInv, HandInv, NEW c \in Compactors, MarkInput(c)
    PROVE  HandInv'
<1>0. PICK h : h = Head(todo[c])
  OBVIOUS
<1>1. /\ UNCHANGED <<inCompaction, plan, merged, segs>> /\ obsolete' = obsolete \cup {h}
      /\ pc[c] = "mark" /\ pc'[c] = "mark"
      /\ todo[c] # <<>> /\ todo' = [todo EXCEPT ![c] = Tail(@)]
  BY <1>0 DEF MarkInput, MarkObsolete, Goto, TypeInv, TypeOK, CompactionTypeOK
<1>2. ToSet(todo[c]) = {h} \cup ToSet(todo'[c])
  BY <1>0, <1>1, TodoTail
<1>3. Inputs(c)' = Inputs(c)
  BY <1>1 DEF Inputs
<1>4. \A s \in Inputs(c) : s \in obsolete \/ Covers(c, s)
  BY <1>1 DEF HandInv, MergeCovers, Executing
<1>5. \A s \in Inputs(c) : Covers(c, s) => Covers(c, s)'
  BY <1>1 DEF Covers
<1>6. /\ Inputs(c) \subseteq inCompaction \cup obsolete
      /\ ToSet(todo[c]) \subseteq Inputs(c)
      /\ Inputs(c) \subseteq obsolete \cup ToSet(todo[c])
  BY <1>1 DEF HandInv, InputsFlagged, InputsRetired, Executing
<1> QED
  BY <1>1, <1>2, <1>3, <1>4, <1>5, <1>6, OwnHandInv DEF ExecuteStep

\* Where the retired inputs matter: the flags Execute takes down when it returns
\* are those of obsolete segments.
LEMMA ReturnOutputHandInv ==
    ASSUME TypeInv, HandInv, NEW c \in Compactors, ReturnOutput(c)
    PROVE  HandInv'
<1>1. /\ obsolete' = obsolete /\ inCompaction' = inCompaction \ Inputs(c)
      /\ pc[c] = "mark" /\ pc'[c] = "ok" /\ todo[c] = <<>>
  BY DEF ReturnOutput, ReturnFrom, ClearFlags, Goto, trackerVars, TypeInv, TypeOK,
         CompactionTypeOK
<1>2. Inputs(c) \subseteq obsolete
  BY <1>1, EmptySeqSet DEF HandInv, InputsRetired
<1> QED
  BY <1>1, <1>2, OwnHandInv DEF ExecuteStep, Executing

\* Every step of Execute keeps what the compactors have in hand in order.
LEMMA ExecuteHandInv ==
    ASSUME NoStrayErrors, TypeInv, HandInv, NEW c \in Compactors, ExecuteStep(c)
    PROVE  HandInv'
  BY SetInCompactionHandInv, ScanInputHandInv, WriteMergedHandInv, WriteFailedHandInv,
     RegisterOutputHandInv, MarkInputHandInv, ReturnOutputHandInv
  DEF ExecuteStep, NoStrayErrors

\* The steps that are not Execute's keep the segments and their data.
LEMMA QuietDataKept ==
    ASSUME TypeInv, [Next]_vars, ~ \E c \in Compactors : ExecuteStep(c)
    PROVE  Quiet /\ DataKept
<1> USE DEF TypeInv, TypeOK
<1>1. Quiet
  BY StepCases, FlushQuiet, LocalQuiet
<1>2. ASSUME UNCHANGED trackerVars
      PROVE  DataKept
  BY <1>2, TrackerFrame DEF DataKept, trackerVars
<1>3. ASSUME FlushWrite
      PROVE  DataKept
  <2>1. NewSegment(buf, TIERED, 0, clock, "flush") \in SegmentMeta
    BY NewSegmentType DEF MainTypeOK, CompactionTypeOK, CompactionType
  <2>2. CASE AppendSegment(NewSegment(buf, TIERED, 0, clock, "flush"))
    BY <2>1, <2>2, AppendEffect DEF DataKept
  <2> QED
    BY <1>2, <1>3, <2>2 DEF FlushWrite
<1>4. ASSUME FlushRegister
      PROVE  DataKept
  BY <1>4, RegisterEffect DEF FlushRegister, PendingWritten, DataKept
<1>5. DataKept
  BY <1>2, <1>3, <1>4, StepCases, LocalQuiet
<1> QED
  BY <1>1, <1>5

\* And so does every step.
LEMMA NextHandInv ==
    ASSUME NoStrayErrors, TypeInv, HandInv, [Next]_vars
    PROVE  HandInv'
<1>1. CASE \E c \in Compactors : ExecuteStep(c)
  BY <1>1, ExecuteHandInv
<1>2. CASE ~ \E c \in Compactors : ExecuteStep(c)
  BY <1>2, QuietDataKept, QuietHandInv
<1> QED
  BY <1>1, <1>2

\* It is in order initially.
LEMMA InitHandInv ==
    ASSUME Init
    PROVE  HandInv
  BY DEF Init, CompactionInit, HandInv, InputsFlagged, InputsRetired, MergeCovers, Executing

\* It holds throughout.
LEMMA HandInvariance ==
    ASSUME MergesAreSafe
    PROVE  Spec => []HandInv
<1>1. Init => HandInv
  BY InitHandInv
<1>2. TypeInv /\ NoStrayErrors /\ HandInv /\ [Next]_vars => HandInv'
  BY NextHandInv
<1> QED
  BY <1>1, <1>2, TypeInvariance, NoStrayErrorsInvariance, PTL DEF Spec

\* The check before a scan skips only obsolete segments, also with two goroutines
\* compacting at once (executor.go, "skip if it was obsoleted"): without failures, and
\* when appends fail as long as only the background goroutine compacts.
THEOREM SkippedAreObsolete ==
    ASSUME MergesAreSafe
    PROVE  Spec => []SkippedInputsAreObsolete
<1>1. HandInv => SkippedInputsAreObsolete
  BY DEF HandInv, InputsFlagged, InputsRetired, SkippedInputsAreObsolete, Executing
<1> QED
  BY <1>1, HandInvariance, PTL

\* A step that neither writes nor registers a segment, nor retires one.
LEMMA UnpublishedOutputInv ==
    ASSUME TypeInv, OutputInv, UNCHANGED trackerVars, Quiet,
           mpc' = "register" => mpc = "register" /\ flushed' = flushed
    PROVE  OutputInv'
<1>1. SegmentID' = SegmentID /\ Registered' = Registered /\ segs' = segs
  BY TrackerFrame DEF trackerVars, TypeInv, TypeOK
<1>2. newSeg' = newSeg /\ merged' = merged
  BY DEF Quiet
<1>3. \A d \in Compactors :
         \/ pc'[d] = pc[d] /\ Inputs(d)' = Inputs(d)
         \/ pc'[d] \notin {"register", "mark"} /\ pc[d] \notin {"register", "mark"}
  BY DEF Quiet, Keeps, Inputs, Executing
<1>4. OutputHolds'
  BY <1>1, <1>2, <1>3 DEF OutputInv, OutputHolds
<1>5. PendingDistinct'
  BY <1>1, <1>2, <1>3 DEF OutputInv, PendingDistinct
<1> QED
  BY <1>4, <1>5 DEF OutputInv

\* A flush writes a segment no compactor is about to register.
LEMMA FlushWriteOutputInv ==
    ASSUME TypeInv, OutputInv, FlushWrite, segs' # segs
    PROVE  OutputInv' /\ (Succession => Succession')
<1> USE DEF TypeInv, TypeOK
<1>1. /\ AppendSegment(NewSegment(buf, TIERED, 0, clock, "flush"))
      /\ flushed' = Len(segs) + 1
      /\ UNCHANGED <<pc, plan, merged, newSeg>>
  BY DEF FlushWrite, trackerVars
<1>2. NewSegment(buf, TIERED, 0, clock, "flush") \in SegmentMeta
  BY NewSegmentType DEF MainTypeOK, CompactionTypeOK, CompactionType
<1>3. /\ SegmentID' = SegmentID \cup {flushed'} /\ flushed' \notin SegmentID
      /\ \A s \in SegmentID : segs'[s] = segs[s]
      /\ Registered' = Registered /\ Live' = Live
      /\ Registered \subseteq SegmentID /\ Live \subseteq SegmentID
  BY <1>1, <1>2, AppendEffect, RegisteredType
<1>4. \A d \in Compactors : Inputs(d)' = Inputs(d)
  BY <1>1 DEF Inputs
<1>5. OutputHolds'
  BY <1>1, <1>3, <1>4 DEF OutputInv, OutputHolds
<1>6. PendingDistinct'
  BY <1>1, <1>3 DEF OutputInv, PendingDistinct, OutputHolds
<1>7. Succession => Succession'
  BY <1>3 DEF Succession
<1> QED
  BY <1>5, <1>6, <1>7 DEF OutputInv

\* A segment that was not registered before is its own live successor.
LEMMA RegisterSuccession ==
    ASSUME TypeInv, Succession, NEW id \in SegmentID \ Registered, RegisterSegment(id)
    PROVE  Succession'
<1> USE DEF TypeInv, TypeOK
<1>1. /\ \A s \in SegmentID : segs'[s].data = segs[s].data
      /\ Registered' = Registered \cup {id}
      /\ Live' = Live \cup ({id} \ obsolete)
      /\ Registered \subseteq SegmentID /\ Live \subseteq SegmentID
  BY RegisterEffect, RegisteredType
<1>2. id \in Live' /\ id \in Int
  BY <1>1 DEF TrackerTypeOK, SegmentID
<1> SUFFICES ASSUME NEW t \in Registered', NEW k \in Keys, segs'[t].data[k] > 0
             PROVE  \E u \in Live' : u >= t /\ segs'[u].data[k] > 0
  BY DEF Succession
<1>3. CASE t = id
  BY <1>2, <1>3
<1>4. CASE t \in Registered
  <2>1. PICK u \in Live : u >= t /\ segs[u].data[k] > 0
    BY <1>1, <1>4 DEF Succession
  <2> QED
    BY <1>1, <2>1
<1> QED
  BY <1>1, <1>3, <1>4

\* A flush registers a segment no compactor is about to register.
LEMMA FlushRegisterOutputInv ==
    ASSUME TypeInv, OutputInv, FlushRegister
    PROVE  OutputInv' /\ (Succession => Succession')
<1> USE DEF TypeInv, TypeOK
<1>1. /\ RegisterSegment(flushed) /\ mpc = "register" /\ mpc' = "truncate"
      /\ UNCHANGED <<pc, plan, merged, newSeg>>
  BY DEF FlushRegister, compactionVars
<1>2. flushed \in SegmentID \ Registered
  BY <1>1 DEF OutputInv, PendingDistinct
<1>3. /\ SegmentID' = SegmentID
      /\ \A s \in SegmentID : segs'[s].data = segs[s].data
      /\ Registered' = Registered \cup {flushed}
      /\ Registered \subseteq SegmentID
  BY <1>1, <1>2, RegisterEffect, RegisteredType
<1>4. \A d \in Compactors : Inputs(d)' = Inputs(d)
  BY <1>1 DEF Inputs
<1>5. \A d \in Compactors : pc[d] = "register" => newSeg[d] # flushed
  BY <1>1 DEF OutputInv, PendingDistinct
<1>6. OutputHolds'
  BY <1>1, <1>3, <1>4, <1>5 DEF OutputInv, OutputHolds
<1>7. PendingDistinct'
  BY <1>1 DEF OutputInv, PendingDistinct
<1>8. Succession => Succession'
  BY <1>1, <1>2, RegisterSuccession
<1> QED
  BY <1>6, <1>7, <1>8 DEF OutputInv

\* Before the output is written there is none.
LEMMA BeforeOutputInv ==
    ASSUME TypeInv, OutputInv, NEW c \in Compactors, SetInCompaction(c) \/ ScanInput(c),
           UNCHANGED mainVars
    PROVE  OutputInv' /\ (Succession => Succession')
<1> USE DEF TypeInv, TypeOK
<1>1. /\ UNCHANGED trackerVars /\ UNCHANGED <<plan, newSeg>>
      /\ pc'[c] = "scan" /\ pc[c] \in {"flag", "scan"}
  BY DEF SetInCompaction, ScanInput, Goto, CompactionTypeOK
<1>2. /\ SegmentID' = SegmentID /\ Registered' = Registered /\ Live' = Live /\ segs' = segs
      /\ mpc' = mpc /\ flushed' = flushed
  BY <1>1, TrackerFrame DEF trackerVars, mainVars
<1>3. \A d \in Compactors : d # c => Keeps(d) /\ Inputs(d)' = Inputs(d)
  BY ExecuteKeeps DEF ExecuteStep
<1>4. OutputHolds'
  BY <1>1, <1>2, <1>3 DEF OutputInv, OutputHolds, Keeps
<1>5. PendingDistinct'
  BY <1>1, <1>2, <1>3 DEF OutputInv, PendingDistinct, Keeps
<1>6. Succession => Succession'
  BY <1>2 DEF Succession
<1> QED
  BY <1>4, <1>5, <1>6 DEF OutputInv

\* The output is written behind all inputs and holds the merge map.
LEMMA WriteMergedOutputInv ==
    ASSUME TypeInv, OutputInv, NEW c \in Compactors, WriteMerged(c), UNCHANGED mainVars
    PROVE  OutputInv' /\ (Succession => Succession')
<1> USE DEF TypeInv, TypeOK
<1>1. \A d \in Compactors : d # c => Keeps(d) /\ Inputs(d)' = Inputs(d)
  BY ExecuteKeeps DEF ExecuteStep
<1>2. pc[c] = "scan" /\ newSeg[c] = 0 /\ mpc' = mpc /\ flushed' = flushed
  BY DEF WriteMerged, OutputInv, OutputHolds, mainVars
<1>3. CASE /\ UNCHANGED trackerVars
           /\ \/ /\ merged[c] = EmptyTable /\ pc'[c] = "mark"
                 /\ UNCHANGED <<plan, merged, newSeg>>
              \/ pc'[c] = "err" /\ newSeg'[c] = 0
  <2>1. SegmentID' = SegmentID /\ Registered' = Registered /\ Live' = Live /\ segs' = segs
    BY <1>3, TrackerFrame DEF trackerVars
  <2>2. OutputHolds'
    BY <1>1, <1>2, <1>3, <2>1 DEF OutputInv, OutputHolds, Keeps
  <2>3. PendingDistinct'
    BY <1>1, <1>2, <1>3, <2>1 DEF OutputInv, PendingDistinct, Keeps
  <2>4. Succession => Succession'
    BY <2>1 DEF Succession
  <2> QED
    BY <2>2, <2>3, <2>4 DEF OutputInv
<1>4. CASE /\ AppendSegment(NewSegment(merged[c], plan[c].strategy, plan[c].level,
                                       clock, "compaction"))
           /\ newSeg' = [newSeg EXCEPT ![c] = Len(segs) + 1]
           /\ pc'[c] = "register" /\ UNCHANGED <<plan, merged>>
  <2> DEFINE seg == NewSegment(merged[c], plan[c].strategy, plan[c].level, clock, "compaction")
  <2>1. seg \in SegmentMeta /\ seg.data = merged[c]
    BY NewSegmentType DEF CompactionTypeOK, Plan
  <2> HIDE DEF seg
  <2>2. /\ SegmentID' = SegmentID \cup {Len(segs) + 1} /\ Len(segs) + 1 \notin SegmentID
        /\ \A s \in SegmentID : segs'[s] = segs[s] /\ s < Len(segs) + 1
        /\ segs'[Len(segs) + 1] = seg
        /\ Registered' = Registered /\ Live' = Live
        /\ Registered \subseteq SegmentID /\ Live \subseteq SegmentID
    BY <1>4, <2>1, AppendEffect, RegisteredType DEF seg
  <2>3. newSeg'[c] = Len(segs) + 1 /\ Inputs(c)' = Inputs(c) /\ Inputs(c) \subseteq SegmentID
    BY <1>4, <2>2 DEF CompactionTypeOK, Inputs, InputsRegistered
  <2>4. segs'[newSeg'[c]].data = merged'[c] /\ \A s \in Inputs(c)' : s < newSeg'[c]
    BY <1>4, <2>1, <2>2, <2>3
  <2>5. OutputHolds'
    <3> SUFFICES ASSUME NEW d \in Compactors
                 PROVE  /\ pc'[d] \notin {"register", "mark"} => newSeg'[d] = 0
                        /\ pc'[d] = "register" => newSeg'[d] \in SegmentID' \ Registered'
                        /\ pc'[d] = "mark" => \/ newSeg'[d] \in Registered'
                                              \/ newSeg'[d] = 0 /\ merged'[d] = EmptyTable
                        /\ pc'[d] \in {"register", "mark"} /\ newSeg'[d] # 0 =>
                              /\ segs'[newSeg'[d]].data = merged'[d]
                              /\ \A s \in Inputs(d)' : s < newSeg'[d]
      BY DEF OutputHolds
    <3>1. CASE d = c
      BY <3>1, <1>4, <2>2, <2>3, <2>4
    <3>2. CASE d # c
      BY <3>2, <1>1, <2>2 DEF OutputInv, OutputHolds, Keeps
    <3> QED
      BY <3>1, <3>2
  <2>6. PendingDistinct'
    <3>1. mpc = "register" => flushed \in SegmentID \ Registered
      BY DEF OutputInv, PendingDistinct
    <3>2. \A d \in Compactors : d # c /\ pc[d] = "register" => newSeg[d] \in SegmentID
      BY DEF OutputInv, OutputHolds
    <3> QED
      BY <1>1, <1>2, <1>4, <2>2, <2>3, <3>1, <3>2 DEF OutputInv, PendingDistinct, Keeps
  <2>7. Succession => Succession'
    BY <2>2 DEF Succession
  <2> QED
    BY <2>5, <2>6, <2>7 DEF OutputInv
<1> QED
  BY <1>3, <1>4 DEF WriteMerged, ReturnFrom, Goto, CompactionTypeOK

\* The output is registered before an input is retired.
LEMMA RegisterOutputOutputInv ==
    ASSUME TypeInv, OutputInv, NEW c \in Compactors, RegisterOutput(c), UNCHANGED mainVars
    PROVE  OutputInv' /\ (Succession => Succession')
<1> USE DEF TypeInv, TypeOK
<1>1. \A d \in Compactors : d # c => Keeps(d) /\ Inputs(d)' = Inputs(d)
  BY ExecuteKeeps DEF ExecuteStep
<1>2. /\ RegisterSegment(newSeg[c]) /\ pc[c] = "register" /\ pc'[c] = "mark"
      /\ UNCHANGED <<plan, merged, newSeg>> /\ mpc' = mpc /\ flushed' = flushed
  BY DEF RegisterOutput, Goto, CompactionTypeOK, mainVars
<1>3. newSeg[c] \in SegmentID \ Registered
  BY <1>2 DEF OutputInv, OutputHolds
<1>4. /\ SegmentID' = SegmentID
      /\ \A s \in SegmentID : segs'[s].data = segs[s].data
      /\ Registered' = Registered \cup {newSeg[c]}
      /\ Registered \subseteq SegmentID
  BY <1>2, <1>3, RegisterEffect, RegisteredType
<1>5. Inputs(c)' = Inputs(c)
  BY <1>2 DEF Inputs
<1>6. \A d \in Compactors : d # c /\ pc[d] = "register" => newSeg[d] # newSeg[c]
  BY <1>2 DEF OutputInv, PendingDistinct
<1>7. OutputHolds'
  BY <1>1, <1>2, <1>3, <1>4, <1>5, <1>6 DEF OutputInv, OutputHolds, Keeps
<1>8. PendingDistinct'
  BY <1>1, <1>2, <1>4 DEF OutputInv, PendingDistinct, Keeps
<1>9. Succession => Succession'
  BY <1>2, <1>3, RegisterSuccession
<1> QED
  BY <1>7, <1>8, <1>9 DEF OutputInv

\* The heart of the argument: an input is retired when a live segment written after
\* it holds each of its keys.
LEMMA MarkInputOutputInv ==
    ASSUME TypeInv, OutputInv, NEW c \in Compactors, MarkInput(c), UNCHANGED mainVars
    PROVE  OutputInv' /\ (HandInv /\ Succession => Succession')
<1> USE DEF TypeInv, TypeOK
<1>0. PICK h : h = Head(todo[c])
  OBVIOUS
<1>1. \A d \in Compactors : d # c => Keeps(d) /\ Inputs(d)' = Inputs(d)
  BY ExecuteKeeps DEF ExecuteStep
<1>2. /\ MarkObsolete(h) /\ pc[c] = "mark" /\ pc'[c] = "mark" /\ todo[c] # <<>>
      /\ todo' = [todo EXCEPT ![c] = Tail(@)]
      /\ UNCHANGED <<plan, merged, newSeg>> /\ mpc' = mpc /\ flushed' = flushed
  BY <1>0 DEF MarkInput, Goto, CompactionTypeOK, mainVars
<1>3. h \in Registered /\ h \in SegmentID /\ h \in ToSet(todo[c])
  BY <1>0, <1>2, TodoTail
<1>4. /\ SegmentID' = SegmentID /\ segs' = segs /\ Registered' = Registered
      /\ Live' = Live \ {h} /\ Live = Registered \ obsolete
      /\ Registered \subseteq SegmentID /\ SegmentID \subseteq Int
  BY <1>2, <1>3, MarkEffect, RegisteredType DEF Live, SegmentID, TrackerTypeOK
<1>5. Inputs(c)' = Inputs(c)
  BY <1>2 DEF Inputs
<1>6. OutputHolds'
  BY <1>1, <1>2, <1>4, <1>5 DEF OutputInv, OutputHolds, Keeps
<1>7. PendingDistinct'
  BY <1>1, <1>2, <1>4 DEF OutputInv, PendingDistinct, Keeps
<1>8. ASSUME HandInv, Succession PROVE Succession'
  <2> SUFFICES ASSUME NEW t \in Registered, NEW k \in Keys, segs[t].data[k] > 0
               PROVE  \E u \in Live \ {h} : u >= t /\ segs[u].data[k] > 0
    BY <1>4 DEF Succession
  <2>1. PICK u \in Live : u >= t /\ segs[u].data[k] > 0
    BY <1>8 DEF Succession
  <2>2. CASE u # h
    BY <2>1, <2>2
  <2>3. CASE u = h
    \* The output of this compaction holds k and was written after h.
    <3>1. h \in Inputs(c) /\ Covers(c, h)
      BY <1>2, <1>3, <1>4, <1>8, <2>3 DEF HandInv, InputsRetired, MergeCovers, Executing
    <3>2. merged[c][k] > 0
      BY <2>1, <2>3, <3>1 DEF Covers
    <3>3. merged[c] # EmptyTable
      BY <3>2 DEF EmptyTable, Absent
    <3>4. newSeg[c] \in Registered /\ newSeg[c] \in SegmentID /\ newSeg[c] # 0
      BY <1>2, <1>4, <3>3 DEF OutputInv, OutputHolds, SegmentID, TrackerTypeOK
    <3>5. segs[newSeg[c]].data = merged[c] /\ h < newSeg[c]
      BY <1>2, <3>1, <3>4 DEF OutputInv, OutputHolds
    \* It may have been retired by now, but then it has a live successor itself.
    <3>6. PICK w \in Live : w >= newSeg[c] /\ segs[w].data[k] > 0
      BY <1>8, <3>2, <3>4, <3>5 DEF Succession
    <3>7. w # h /\ w >= t
      BY <1>3, <1>4, <2>1, <2>3, <3>4, <3>5, <3>6
    <3> QED
      BY <3>6, <3>7
  <2> QED
    BY <2>2, <2>3
<1> QED
  BY <1>6, <1>7, <1>8 DEF OutputInv

\* Nothing is published on return.
LEMMA ReturnOutputOutputInv ==
    ASSUME TypeInv, OutputInv, NEW c \in Compactors, ReturnOutput(c), UNCHANGED mainVars
    PROVE  OutputInv' /\ (Succession => Succession')
<1> USE DEF TypeInv, TypeOK
<1>1. \A d \in Compactors : d # c => Keeps(d) /\ Inputs(d)' = Inputs(d)
  BY ExecuteKeeps DEF ExecuteStep
<1>2. /\ UNCHANGED trackerVars /\ pc'[c] = "ok" /\ newSeg'[c] = 0
      /\ mpc' = mpc /\ flushed' = flushed
  BY DEF ReturnOutput, ReturnFrom, Goto, CompactionTypeOK, mainVars
<1>3. SegmentID' = SegmentID /\ Registered' = Registered /\ Live' = Live /\ segs' = segs
  BY <1>2, TrackerFrame DEF trackerVars
<1>4. OutputHolds'
  BY <1>1, <1>2, <1>3 DEF OutputInv, OutputHolds, Keeps
<1>5. PendingDistinct'
  BY <1>1, <1>2, <1>3 DEF OutputInv, PendingDistinct, Keeps
<1>6. Succession => Succession'
  BY <1>3 DEF Succession
<1> QED
  BY <1>4, <1>5, <1>6 DEF OutputInv

\* Every step keeps the outputs in order and every key with a live successor.
LEMMA NextOutputInv ==
    ASSUME TypeInv, OutputInv, [Next]_vars
    PROVE  OutputInv' /\ (HandInv /\ Succession => Succession')
<1>1. CASE \E c \in Compactors : ExecuteStep(c) /\ UNCHANGED mainVars
  BY <1>1, BeforeOutputInv, WriteMergedOutputInv, RegisterOutputOutputInv,
     MarkInputOutputInv, ReturnOutputOutputInv
  DEF ExecuteStep
<1>2. CASE /\ Quiet /\ UNCHANGED trackerVars
           /\ mpc' = "register" => mpc = "register" /\ flushed' = flushed
  <2>1. Succession => Succession'
    BY <1>2, TrackerFrame DEF Succession, trackerVars, TypeInv, TypeOK
  <2> QED
    BY <1>2, <2>1, UnpublishedOutputInv
<1>3. CASE FlushWrite
  <2>1. CASE segs' # segs
    BY <1>3, <2>1, FlushWriteOutputInv
  <2>2. CASE segs' = segs
    <3>1. NewSegment(buf, TIERED, 0, clock, "flush") \in SegmentMeta
      BY NewSegmentType DEF TypeInv, TypeOK, MainTypeOK, CompactionTypeOK, CompactionType
    <3>2. ~ AppendSegment(NewSegment(buf, TIERED, 0, clock, "flush"))
      BY <2>2, <3>1, AppendEffect DEF SegmentID, TypeInv, TypeOK
    <3>3. UNCHANGED trackerVars /\ mpc' = "write"
      BY <1>3, <3>2 DEF FlushWrite
    <3> QED
      BY <1>2, <1>3, <3>3, FlushQuiet
  <2> QED
    BY <2>1, <2>2
<1> QED
  BY <1>1, <1>2, <1>3, StepCases, LocalQuiet, FlushRegisterOutputInv

\* Whatever fails, no two goroutines register the same segment, and what they
\* register holds their merge map.
LEMMA OutputInvariance == Spec => []OutputInv
<1>1. Init => OutputInv
  BY DEF Init, CompactionInit, OutputInv, OutputHolds, PendingDistinct
<1>2. TypeInv /\ OutputInv /\ [Next]_vars => OutputInv'
  BY NextOutputInv
<1> QED
  BY <1>1, <1>2, TypeInvariance, PTL DEF Spec

\* Every registered entry keeps a live successor.
LEMMA CompactionInvariance ==
    ASSUME MergesAreSafe
    PROVE  Spec => []CompactionInv
<1>1. Init => Succession
  BY EmptySeqSet DEF Init, TrackerInit, Succession, Registered
<1>2. TypeInv /\ HandInv /\ OutputInv /\ Succession /\ [Next]_vars => Succession'
  BY NextOutputInv
<1>3. HandInv /\ OutputInv /\ Succession => CompactionInv
  BY DEF CompactionInv
<1> QED
  BY <1>1, <1>2, <1>3, TypeInvariance, HandInvariance, OutputInvariance, PTL DEF Spec

\* Without failures of append and mmap no key is lost, for any keys, memtable size,
\* workload, plan limit and sort order, and with both goroutines compacting at once:
\* the last Put of a key leaves a value in the memtable, in a flush under way or in
\* a live segment.  While main does not compact, appends may fail too.
THEOREM NoKeyIsLost ==
    ASSUME MergesAreSafe
    PROVE  Spec => []NoKeyLost
<1>1. TypeInv /\ MainInv /\ CompactionInv => NoKeyLost
  <2> SUFFICES ASSUME TypeInv, MainInv, CompactionInv, NEW k \in liveKeys
               PROVE  mem[k] > 0 \/ buf[k] > 0 \/ Holders(k) \cap Live # {}
    BY DEF NoKeyLost
  <2>1. k \in Keys /\ latest[k] > 0 /\ k \in KeysOf(latest)
    BY DEF liveKeys, ValueKeys, KeysOf, Absent, TypeInv, TypeOK, MainTypeOK, Table
  <2>2. ASSUME NEW s \in Registered, segs[s].data[k] = latest[k]
        PROVE  Holders(k) \cap Live # {}
    <3>1. PICK u \in Live : segs[u].data[k] > 0
      BY <2>1, <2>2 DEF CompactionInv, Succession
    <3> QED
      BY <3>1, RegisteredType DEF Holders, TypeInv, TypeOK
  <2> QED
    BY <2>1, <2>2 DEF MainInv, LatestStored
<1> QED
  BY <1>1, TypeInvariance, MainInvariance, CompactionInvariance, PTL
=============================================================================
