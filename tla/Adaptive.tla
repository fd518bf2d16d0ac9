------------------------------ MODULE Adaptive ------------------------------
(***************************************************************************)
(* The FSM controller: when it switches the strategy of a segment, from    *)
(* the segment's read and write counters and its own history of them.      *)
(*                                                                         *)
(* Source: internal/adaptive/controller.go, with the counters and the      *)
(* cooldown of internal/common/types.go and Tracker.UpdateStats.  The      *)
(* controller's lock is taken and released several times in one call of    *)
(* ShouldRewrite; each locked section is a step.  The inputs of a plan are *)
(* the director's (compaction/director.go): which segments overlap is left *)
(* open, and Execute is one step; Compaction.tla has both in detail.       *)
(*                                                                         *)
(* The strategy of a segment never changes, and the controller looks at    *)
(* the reads of a tiered segment and at the writes of a leveled one only:  *)
(* of the two counters, and of the two counts of a snapshot, the model     *)
(* keeps that one.                                                         *)
(***************************************************************************)
EXTENDS Integers, Sequences, FiniteSets, SequencesExt

CONSTANTS
    Compactors,           \* the goroutines that plan compactions
    MinRewriteInterval,   \* seconds
    MinSwitchInterval,    \* seconds
    WindowSize,
    ReadThreshold,        \* reads above which a tiered segment may switch
    WriteThreshold,       \* writes above which a leveled segment may switch
    MaxInputs,            \* the most inputs of a plan (the code's 50)
    MaxSegments,          \* bound: segments written
    MaxClock,             \* bound: seconds
    MaxCount              \* bound: the counter of a segment

ASSUME AdaptiveAssumption ==
    /\ MinRewriteInterval \in Nat /\ MinSwitchInterval \in Nat
    /\ WindowSize \in Nat \ {0}
    /\ ReadThreshold \in Nat /\ WriteThreshold \in Nat
    /\ MaxInputs \in Nat \ {0}
    /\ MaxSegments \in Nat /\ MaxClock \in Nat /\ MaxCount \in Nat

VARIABLES
    clock,
    segs,         \* every segment ever written; its ID is its place
    obsolete,     \* IDs of the segments that are obsolete
    history,      \* per segment: segmentHistory
    lastSwitch,
    pc,           \* per compactor: where it is in MaybePlan and Execute
    asked,        \* per compactor: ID of the segment it asks about, 0 for none
    window,       \* per compactor: the snapshot it took, then the history it read
    plan,         \* per compactor: the inputs of its plan
    switchedAt,   \* ghost, per compactor: when it last decided to switch
    quiet         \* ghost, per segment: snapshots recorded since its counter changed,
                  \* counted up to WindowSize + 1

callVars == <<pc, asked, window, plan>>
vars == <<clock, segs, obsolete, history, lastSwitch, callVars, switchedAt, quiet>>

TIERED == "tiered"
LEVELED == "leveled"

\* The part of SegmentMeta the controller looks at.
SegmentMeta ==
    [strategy : {TIERED, LEVELED}, count : 0 .. MaxCount, lastRewriteAt : 0 .. MaxClock]

Init ==
    /\ clock = 0
    /\ segs = <<>>
    /\ obsolete = {}
    /\ history = <<>>
    /\ lastSwitch = 0
    /\ pc = [c \in Compactors |-> "idle"]
    /\ asked = [c \in Compactors |-> 0]
    /\ window = [c \in Compactors |-> <<>>]
    /\ plan = [c \in Compactors |-> {}]
    /\ switchedAt = [c \in Compactors |-> 0]
    /\ quiet = <<>>

\* Compactor c goes on at the label, with the window w.
Goto(c, label, w) ==
    /\ pc' = [pc EXCEPT ![c] = label]
    /\ window' = [window EXCEPT ![c] = w]
    /\ UNCHANGED <<asked, plan>>

\* Its call returns.
Return(c) ==
    /\ pc' = [pc EXCEPT ![c] = "idle"]
    /\ window' = [window EXCEPT ![c] = <<>>]
    /\ asked' = [asked EXCEPT ![c] = 0]
    /\ plan' = [plan EXCEPT ![c] = {}]

Live == DOMAIN segs \ obsolete

-----------------------------------------------------------------------------
(***************************************************************************)
(* Trends.                                                                 *)
(***************************************************************************)
\* 5 ^ n.
Power5[n \in Nat] == IF n = 0 THEN 1 ELSE 5 * Power5[n - 1]

\* The exponential moving average with alpha = 1/5 of a sequence of counts, times
\* 5 ^ (Len - 1): ema := value / 5 + 4 * ema / 5.
ScaledEMA(counts) ==
    LET ema[i \in DOMAIN counts] ==
            IF i = 1 THEN counts[1] ELSE Power5[i - 2] * counts[i] + 4 * ema[i - 1]
    IN  ema[Len(counts)]

\* Mutant of TrendAbove: the trend is taken from zero, not from the average.
TrendAboveMutant(counts) == Last(counts) > 0

\* calculateTrend(...) > 0.3: the last count is above the average by more than three
\* tenths of itself.
TrendAbove(counts) ==
    LET scale == Power5[Len(counts) - 1]
    IN  10 * (Last(counts) * scale - ScaledEMA(counts)) > 3 * (Last(counts) * scale)

-----------------------------------------------------------------------------
(***************************************************************************)
(* ShouldRewrite, for compactor c.                                         *)
(***************************************************************************)
CooldownExpired(s) == clock - segs[s].lastRewriteAt >= MinRewriteInterval

\* Asked about live segment s, which is not in its cooldown and not small: take a
\* snapshot of its counter.
Ask(c, s) ==
    /\ pc[c] = "idle"
    /\ CooldownExpired(s)
    /\ pc' = [pc EXCEPT ![c] = "record"]
    /\ asked' = [asked EXCEPT ![c] = s]
    /\ window' = [window EXCEPT ![c] = <<segs[s].count>>]
    /\ UNCHANGED <<clock, segs, obsolete, history, lastSwitch, plan, switchedAt, quiet>>

\* Mutant of Slide: the window is never cut.
SlideMutant(h) == h

\* The last WindowSize snapshots.
Slide(h) == SubSeq(h, Max({1, Len(h) - WindowSize + 1}), Len(h))

\* updateSegmentHistory.
Record(c) ==
    /\ pc[c] = "record"
    /\ history' = [history EXCEPT ![asked[c]] = Slide(@ \o window[c])]
    /\ quiet' = [quiet EXCEPT ![asked[c]] = Min({@ + 1, WindowSize + 1})]
    /\ Goto(c, "history", <<>>)
    /\ UNCHANGED <<clock, segs, obsolete, lastSwitch, switchedAt>>

\* Read the history; fewer than three snapshots are not enough.
ReadHistory(c) ==
    /\ pc[c] = "history"
    /\ IF Len(history[asked[c]]) < 3 THEN Return(c) ELSE Goto(c, "check", history[asked[c]])
    /\ UNCHANGED <<clock, segs, obsolete, history, lastSwitch, switchedAt, quiet>>

\* Mutant of SwitchAllowed: the interval between switches is not looked at.
SwitchAllowedMutant == TRUE

SwitchAllowed == clock - lastSwitch >= MinSwitchInterval

\* Check the time of the last switch, under the read lock.
CheckSwitch(c) ==
    /\ pc[c] = "check"
    /\ IF SwitchAllowed THEN Goto(c, "decide", window[c]) ELSE Return(c)
    /\ UNCHANGED <<clock, segs, obsolete, history, lastSwitch, switchedAt, quiet>>

Threshold(strategy) == IF strategy = TIERED THEN ReadThreshold ELSE WriteThreshold

\* The trend of the window and the counter, read again, call for a switch.
Switches(c) ==
    LET seg == segs[asked[c]]
    IN  TrendAbove(window[c]) /\ seg.count > Threshold(seg.strategy)

\* Decide, and note the time of the switch under the write lock.  A switch to tiered
\* rewrites the segment alone, a switch to leveled still has to collect its inputs.
Decide(c) ==
    /\ pc[c] = "decide"
    /\ \/ /\ Switches(c)
          /\ lastSwitch' = clock
          /\ switchedAt' = [switchedAt EXCEPT ![c] = clock]
          /\ plan' = [plan EXCEPT ![c] = {asked[c]}]
          /\ pc' = [pc EXCEPT ![c] =
                       IF segs[asked[c]].strategy = TIERED THEN "collect" ELSE "execute"]
          /\ window' = [window EXCEPT ![c] = <<>>]
          /\ UNCHANGED asked
       \/ /\ ~ Switches(c)
          /\ Return(c)
          /\ UNCHANGED <<lastSwitch, switchedAt>>
    /\ UNCHANGED <<clock, segs, obsolete, history, quiet>>

\* collectLimitedOverlaps: the live segments that overlap the one asked about, their
\* cooldowns are not looked at.
Collect(c) ==
    /\ pc[c] = "collect"
    /\ \E overlaps \in SUBSET (Live \ {asked[c]}) :
        /\ Cardinality(overlaps) < MaxInputs
        /\ plan' = [plan EXCEPT ![c] = @ \cup overlaps]
    /\ pc' = [pc EXCEPT ![c] = "execute"]
    /\ UNCHANGED <<clock, segs, obsolete, history, lastSwitch, asked, window, switchedAt,
                   quiet>>

-----------------------------------------------------------------------------
(***************************************************************************)
(* The segments: lookups, flushes, and what compactions do to them.        *)
(***************************************************************************)
\* WriteSegment: a segment with counters at zero.
NewSegment(strategy) ==
    [strategy |-> strategy, count |-> 0, lastRewriteAt |-> clock]

\* The segments S after an access that their counters count.
Counted(S) ==
    [s \in DOMAIN segs |->
        IF s \in S THEN [segs[s] EXCEPT !.count = @ + 1] ELSE segs[s]]

Rested(S) == [s \in DOMAIN segs |-> IF s \in S THEN 0 ELSE quiet[s]]

\* The scans of those of the segments S that are not skipped or fail to be scanned:
\* they count as writes of leveled segments.
Scans(S) ==
    {T \in SUBSET S : \A s \in T : segs[s].strategy = LEVELED /\ segs[s].count < MaxCount}

\* The scanned segments T among S, and a segment with the given strategy written in
\* place of S.
Replace(S, T, strategy) ==
    /\ Len(segs) < MaxSegments
    /\ segs' = Append(Counted(T), NewSegment(strategy))
    /\ quiet' = Append(Rested(T), 0)
    /\ history' = Append(history, <<>>)
    /\ obsolete' = obsolete \cup S

\* The write of the output fails after the scans.
FailAfterScans(T) ==
    /\ segs' = Counted(T)
    /\ quiet' = Rested(T)
    /\ UNCHANGED <<history, obsolete>>

Other(strategy) == IF strategy = TIERED THEN LEVELED ELSE TIERED

\* Execute the plan of a switch: rewrite its inputs, fail to, or turn the plan down
\* because one of them is obsolete.
Execute(c) ==
    LET S == plan[c]
    IN  /\ pc[c] = "execute"
        /\ \/ /\ S \subseteq Live
              /\ \E T \in Scans(S) :
                  Replace(S, T, Other(segs[asked[c]].strategy)) \/ FailAfterScans(T)
           \/ /\ ~ (S \subseteq Live)
              /\ UNCHANGED <<segs, history, obsolete, quiet>>
        /\ Return(c)
        /\ UNCHANGED <<clock, lastSwitch, switchedAt>>

\* A compaction without a switch takes the segments S.
Merge(c, S) ==
    /\ pc[c] = "idle"
    /\ S # {} /\ Cardinality(S) <= MaxInputs
    /\ \E T \in Scans(S) :
        (\E strategy \in {TIERED, LEVELED} : Replace(S, T, strategy)) \/ FailAfterScans(T)
    /\ UNCHANGED <<clock, lastSwitch, callVars, switchedAt>>

\* A flush writes a tiered segment.
Flush ==
    /\ Replace({}, {}, TIERED)
    /\ UNCHANGED <<clock, lastSwitch, callVars, switchedAt>>

\* A lookup asks segment s: UpdateStats(id, 1, 0).
UpdateStats(s) ==
    /\ segs[s].strategy = TIERED /\ segs[s].count < MaxCount
    /\ segs' = Counted({s})
    /\ quiet' = Rested({s})
    /\ UNCHANGED <<clock, obsolete, history, lastSwitch, callVars, switchedAt>>

Second ==
    /\ clock < MaxClock
    /\ clock' = clock + 1
    /\ UNCHANGED <<segs, obsolete, history, lastSwitch, callVars, switchedAt, quiet>>

Next ==
    \/ \E c \in Compactors :
        \/ \E s \in Live : Ask(c, s)
        \/ \E S \in SUBSET Live : Merge(c, S)
        \/ Record(c) \/ ReadHistory(c) \/ CheckSwitch(c) \/ Decide(c)
        \/ Collect(c) \/ Execute(c)
    \/ Flush
    \/ \E s \in Live : UpdateStats(s)
    \/ Second

Spec == Init /\ [][Next]_vars

-----------------------------------------------------------------------------
(***************************************************************************)
(* Properties.                                                             *)
(***************************************************************************)
\* Every segment has a history of at most WindowSize snapshots, and compactors ask
\* about, and plan with, segments that exist.
AdaptiveTypeOK ==
    /\ clock \in 0 .. MaxClock
    /\ \A s \in DOMAIN segs : segs[s] \in SegmentMeta
    /\ obsolete \subseteq DOMAIN segs
    /\ DOMAIN history = DOMAIN segs /\ DOMAIN quiet = DOMAIN segs
    /\ lastSwitch \in 0 .. clock
    /\ pc \in [Compactors -> {"idle", "record", "history", "check", "decide", "collect",
                             "execute"}]
    /\ asked \in [Compactors -> {0} \cup DOMAIN segs]
    /\ plan \in [Compactors -> SUBSET DOMAIN segs]
    /\ switchedAt \in [Compactors -> 0 .. lastSwitch]
    /\ \A s \in DOMAIN quiet : quiet[s] \in 0 .. WindowSize + 1
    /\ \A h \in ToSet(history) \cup {window[c] : c \in Compactors} :
        Len(h) <= WindowSize /\ ToSet(h) \subseteq 0 .. MaxCount

\* Compactor c takes the decision to switch.
SwitchStep(c) == pc[c] = "decide" /\ pc'[c] \in {"collect", "execute"}

\* One compactor's switches are MinSwitchInterval apart, whatever the others do: so
\* there are never more switches in such an interval than there are compactors.
OwnSwitchesSpaced ==
    [][\A c \in Compactors : SwitchStep(c) =>
        clock - switchedAt[c] >= MinSwitchInterval]_vars

\* "Sustained read pressure" (README.md): a switch that rests on the segment's present
\* history is taken only if its counter has changed among the last WindowSize snapshots,
\* one that was taken before and recorded after the change included.  So a segment with
\* many accesses and none lately is left alone.
SwitchNeedsAccess ==
    [][\A c \in Compactors :
        SwitchStep(c) /\ window[c] = history[asked[c]] => quiet[asked[c]] <= WindowSize]_vars

-----------------------------------------------------------------------------
(***************************************************************************)
(* What the repository says and the code does not do.                      *)
(***************************************************************************)
\* "A minimum interval between strategy switches" (README.md): of any two of them,
\* whichever compactors take them.
SwitchesSpaced ==
    [][\A c \in Compactors : SwitchStep(c) => clock - lastSwitch >= MinSwitchInterval]_vars

\* "A cooldown period prevents thrashing" (README.md): a segment that a switch rewrites
\* is at least MinRewriteInterval old.
NoThrashing ==
    [][\A c \in Compactors : pc[c] = "execute" =>
        \A s \in obsolete' \ obsolete :
            clock - segs[s].lastRewriteAt >= MinRewriteInterval]_vars
=============================================================================
