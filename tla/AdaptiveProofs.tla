---------------------------- MODULE AdaptiveProofs --------------------------
(***************************************************************************)
(* The properties of Adaptive.tla, for any window, thresholds and bounds:  *)
(* the types and the spacing of one compactor's switches, for any number   *)
(* of compactors, and that a lone compactor's switch needs a recent access.*)
(***************************************************************************)
EXTENDS Adaptive, Induction, SequenceTheorems

-----------------------------------------------------------------------------
(***************************************************************************)
(* The moving average.                                                     *)
(***************************************************************************)
\* The equation that defines Power5, which has a solution by RecurrenceExists.
LEMMA Power5Def ==
    Power5 = [n \in Nat |-> IF n = 0 THEN 1 ELSE 5 * Power5[n - 1]]
<1> DEFINE zero == [n \in Nat |-> 0]
<1>1. PICK f \in [Nat -> Int] :
          f[0] = 1 /\ \A i \in Nat : f[i + 1] = zero[i] + 5 * f[i]
  <2>1. zero \in [Nat -> Int] /\ 1 \in Int /\ 5 \in Int
    OBVIOUS
  <2> HIDE DEF zero
  <2> QED
    BY <2>1, RecurrenceExists
<1>2. ASSUME NEW i \in Nat PROVE f[i + 1] = 5 * f[i]
  <2>1. f[i + 1] = zero[i] + 5 * f[i] /\ f[i] \in Int
    BY <1>1
  <2> QED
    BY <2>1
<1>3. ASSUME NEW n \in Nat PROVE f[n] = IF n = 0 THEN 1 ELSE 5 * f[n - 1]
  <2>1. CASE n = 0
    BY <1>1, <2>1
  <2>2. CASE n # 0
    <3>1. n - 1 \in Nat /\ (n - 1) + 1 = n
      BY <2>2
    <3>2. f[n] = 5 * f[n - 1]
      BY <1>2, <3>1
    <3> QED
      BY <2>2, <3>2
  <2> QED
    BY <2>1, <2>2
<1>4. f = [n \in Nat |-> IF n = 0 THEN 1 ELSE 5 * f[n - 1]]
  BY <1>3
<1> QED
  BY <1>4, Zenon DEF Power5

\* Powers of 5 are natural numbers.
LEMMA Power5Nat ==
    /\ Power5[0] = 1
    /\ \A n \in Nat : Power5[n] \in Nat /\ Power5[n + 1] = 5 * Power5[n]
<1>1. Power5[0] = 1
  BY Power5Def
<1>2. ASSUME NEW n \in Nat PROVE Power5[n + 1] = 5 * Power5[n]
  <2>1. n + 1 \in Nat /\ n + 1 # 0 /\ (n + 1) - 1 = n
    OBVIOUS
  <2> QED
    BY <2>1, Power5Def
<1> DEFINE S == {n \in Nat : Power5[n] \in Nat}
<1>3. Nat \subseteq S
  <2>1. 0 \in S
    BY <1>1
  <2>2. ASSUME NEW n \in Nat, n \in S PROVE n + 1 \in S
    BY <1>2, <2>2
  <2> QED
    BY <2>1, <2>2, NatInd
<1> QED
  BY <1>1, <1>2, <1>3

\* The averages of the beginnings of a sequence of counts.
EMA(counts) ==
    CHOOSE ema : ema = [i \in DOMAIN counts |->
        IF i = 1 THEN counts[1] ELSE Power5[i - 2] * counts[i] + 4 * ema[i - 1]]

\* The equation that defines them has a solution.
LEMMA EMADef ==
    ASSUME NEW counts \in Seq(Nat), Len(counts) >= 1
    PROVE  /\ ScaledEMA(counts) = EMA(counts)[Len(counts)]
           /\ EMA(counts)[1] = counts[1]
           /\ \A i \in 2 .. Len(counts) :
                 EMA(counts)[i] = Power5[i - 2] * counts[i] + 4 * EMA(counts)[i - 1]
<1> DEFINE b == [j \in Nat |-> IF j + 2 <= Len(counts) THEN Power5[j] * counts[j + 2] ELSE 0]
<1>0. /\ Len(counts) \in Nat /\ DOMAIN counts = 1 .. Len(counts)
      /\ \A i \in DOMAIN counts : counts[i] \in Nat
  BY LenProperties, ElementOfSeq
<1>1. b \in [Nat -> Int]
  <2>1. ASSUME NEW j \in Nat, j + 2 <= Len(counts) PROVE Power5[j] * counts[j + 2] \in Int
    <3>1. j + 2 \in DOMAIN counts
      BY <1>0, <2>1
    <3>2. counts[j + 2] \in Nat
      BY <1>0, <3>1
    <3>3. Power5[j] \in Nat
      BY Power5Nat
    <3> QED
      BY <3>2, <3>3
  <2> QED
    BY <2>1
<1>2. counts[1] \in Int
  OBVIOUS
<1>3. PICK f \in [Nat -> Int] :
          f[0] = counts[1] /\ \A i \in Nat : f[i + 1] = b[i] + 4 * f[i]
  <2>1. 4 \in Int
    OBVIOUS
  <2> HIDE DEF b
  <2> QED
    BY <1>1, <1>2, <2>1, RecurrenceExists
<1> DEFINE ema == [i \in DOMAIN counts |-> f[i - 1]]
<1>4. ASSUME NEW i \in DOMAIN counts
      PROVE  ema[i] = IF i = 1 THEN counts[1]
                      ELSE Power5[i - 2] * counts[i] + 4 * ema[i - 1]
  <2>1. CASE i = 1
    BY <1>3, <2>1
  <2>2. CASE i # 1
    <3>0. i \in 1 .. Len(counts)
      BY <1>0
    <3>1. /\ i - 2 \in Nat /\ (i - 2) + 1 = i - 1 /\ (i - 2) + 2 = i
          /\ i <= Len(counts) /\ i - 1 \in 1 .. Len(counts) /\ (i - 1) - 1 = i - 2
      <4>1. Len(counts) \in Nat
        BY <1>0
      <4>2. \A n \in Nat : \A k \in 1 .. n : k # 1 =>
                /\ k - 2 \in Nat /\ (k - 2) + 1 = k - 1 /\ (k - 2) + 2 = k
                /\ k <= n /\ k - 1 \in 1 .. n /\ (k - 1) - 1 = k - 2
        OBVIOUS
      <4> QED
        BY <2>2, <3>0, <4>1, <4>2
    <3>2. f[i - 1] = b[i - 2] + 4 * f[i - 2]
      BY <1>3, <3>1
    <3>3. b[i - 2] = Power5[i - 2] * counts[i]
      BY <3>1
    <3>4. ema[i] = f[i - 1] /\ ema[i - 1] = f[i - 2]
      BY <1>0, <3>1
    <3> QED
      BY <2>2, <3>2, <3>3, <3>4
  <2> QED
    BY <2>1, <2>2
<1>5. ema = [i \in DOMAIN counts |->
                IF i = 1 THEN counts[1] ELSE Power5[i - 2] * counts[i] + 4 * ema[i - 1]]
  BY <1>4
<1>6. EMA(counts) = [i \in DOMAIN counts |->
         IF i = 1 THEN counts[1] ELSE Power5[i - 2] * counts[i] + 4 * EMA(counts)[i - 1]]
  <2> HIDE DEF ema
  <2> QED
    BY <1>5, Zenon DEF EMA
<1>7. ScaledEMA(counts) = EMA(counts)[Len(counts)]
  BY Zenon DEF ScaledEMA, EMA
<1>8. EMA(counts)[1] = counts[1]
  BY <1>6
<1>9. ASSUME NEW i \in 2 .. Len(counts)
      PROVE  EMA(counts)[i] = Power5[i - 2] * counts[i] + 4 * EMA(counts)[i - 1]
  <2>1. i \in DOMAIN counts /\ i # 1
    OBVIOUS
  <2> QED
    BY <1>6, <2>1
<1> QED
  BY <1>7, <1>8, <1>9

\* The average of counts that are all at least seven tenths of L is at least that.
LEMMA EMALowerBound ==
    ASSUME NEW counts \in Seq(Nat), Len(counts) >= 1, NEW L \in Nat,
           \A i \in DOMAIN counts : 10 * counts[i] >= 7 * L
    PROVE  /\ ScaledEMA(counts) \in Nat
           /\ 10 * ScaledEMA(counts) >= 7 * (L * Power5[Len(counts) - 1])
<1> DEFINE S == {n \in Nat : n + 1 <= Len(counts) =>
                    /\ EMA(counts)[n + 1] \in Nat
                    /\ 10 * EMA(counts)[n + 1] >= 7 * (L * Power5[n])}
<1>1. 0 \in S
  <2>1. EMA(counts)[1] = counts[1] /\ counts[1] \in Nat /\ 10 * counts[1] >= 7 * L
    BY EMADef
  <2>2. 0 + 1 = 1 /\ L * Power5[0] = L
    BY Power5Nat
  <2> QED
    BY <2>1, <2>2
<1>2. ASSUME NEW n \in Nat, n \in S PROVE n + 1 \in S
  <2>1. SUFFICES ASSUME (n + 1) + 1 <= Len(counts)
                 PROVE  /\ EMA(counts)[(n + 1) + 1] \in Nat
                        /\ 10 * EMA(counts)[(n + 1) + 1] >= 7 * (L * Power5[n + 1])
    OBVIOUS
  <2>2. n + 2 \in 2 .. Len(counts) /\ (n + 2) - 2 = n /\ (n + 2) - 1 = n + 1
        /\ (n + 1) + 1 = n + 2 /\ n + 1 <= Len(counts)
    BY <2>1
  <2>3. EMA(counts)[n + 2] = Power5[n] * counts[n + 2] + 4 * EMA(counts)[n + 1]
    BY <2>2, EMADef
  <2>4. EMA(counts)[n + 1] \in Nat /\ 10 * EMA(counts)[n + 1] >= 7 * (L * Power5[n])
    BY <1>2, <2>2
  <2>5. counts[n + 2] \in Nat /\ 10 * counts[n + 2] >= 7 * L
    BY <2>2
  <2>6. Power5[n] \in Nat /\ Power5[n + 1] = 5 * Power5[n]
    BY Power5Nat
  <2>7. \A P, c, e \in Nat : 10 * c >= 7 * L /\ 10 * e >= 7 * (L * P)
            => P * c + 4 * e \in Nat /\ 10 * (P * c + 4 * e) >= 7 * (L * (5 * P))
    OBVIOUS
  <2> QED
    BY <2>2, <2>3, <2>4, <2>5, <2>6, <2>7
<1>3. Nat \subseteq S
  BY <1>1, <1>2, NatInd
<1>4. Len(counts) - 1 \in Nat /\ (Len(counts) - 1) + 1 = Len(counts)
  OBVIOUS
<1> QED
  BY <1>3, <1>4, EMADef

\* A trend above three tenths needs a count below seven tenths of the last one.
LEMMA TrendNeedsGrowth ==
    ASSUME NEW counts \in Seq(Nat), Len(counts) >= 1, TrendAbove(counts)
    PROVE  \E i \in DOMAIN counts : 10 * counts[i] < 7 * Last(counts)
<1> DEFINE L == Last(counts)
           P == Power5[Len(counts) - 1]
           E == ScaledEMA(counts)
<1>1. L \in Nat
  BY DEF Last
<1>2. P \in Nat
  BY Power5Nat
<1>3. 10 * (L * P - E) > 3 * (L * P)
  BY DEF TrendAbove
<1>4. SUFFICES ASSUME \A i \in DOMAIN counts : 10 * counts[i] >= 7 * L
               PROVE  FALSE
  BY <1>1
<1>5. E \in Nat /\ 10 * E >= 7 * (L * P)
  BY <1>1, <1>4, EMALowerBound
<1> HIDE DEF L, P, E
<1>6. L * P \in Int
  BY <1>1, <1>2
<1> QED
  BY <1>3, <1>5, <1>6

-----------------------------------------------------------------------------
(***************************************************************************)
(* The inductive invariant.                                                *)
(***************************************************************************)
\* What a window of snapshots may be.
Windows == {h \in Seq(0 .. MaxCount) : Len(h) <= WindowSize}

Labels == {"idle", "record", "history", "check", "decide", "collect", "execute"}

TypeInv ==
    /\ clock \in 0 .. MaxClock
    /\ segs \in Seq(SegmentMeta)
    /\ obsolete \subseteq DOMAIN segs
    /\ history \in Seq(Windows) /\ Len(history) = Len(segs)
    /\ quiet \in Seq(0 .. WindowSize + 1) /\ Len(quiet) = Len(segs)
    /\ lastSwitch \in 0 .. clock
    /\ pc \in [Compactors -> Labels]
    /\ asked \in [Compactors -> {0} \cup DOMAIN segs]
    /\ window \in [Compactors -> Windows]
    /\ plan \in [Compactors -> SUBSET DOMAIN segs]
    /\ switchedAt \in [Compactors -> 0 .. lastSwitch]

\* A compactor inside ShouldRewrite or Execute asks about a segment, and has one snapshot
\* to record or at least three to decide by.
AskInv ==
    \A c \in Compactors : pc[c] # "idle" =>
        /\ asked[c] \in DOMAIN segs
        /\ pc[c] = "record" => Len(window[c]) = 1
        /\ pc[c] \in {"check", "decide"} => Len(window[c]) >= 3

\* When a compactor decides, its own last switch is long ago: it has checked a later one.
SpacedInv ==
    \A c \in Compactors : pc[c] = "decide" => clock - switchedAt[c] >= MinSwitchInterval

AdaptiveInv == TypeInv /\ AskInv /\ SpacedInv

-----------------------------------------------------------------------------
(***************************************************************************)
(* What the operators of the model return.                                 *)
(***************************************************************************)
\* Segments, histories and ghosts are numbered alike.
LEMMA AdaptiveNumbers ==
    ASSUME TypeInv
    PROVE  /\ Len(segs) \in Nat /\ DOMAIN segs = 1 .. Len(segs)
           /\ DOMAIN history = 1 .. Len(segs) /\ DOMAIN quiet = 1 .. Len(segs)
           /\ \A s \in DOMAIN segs : segs[s] \in SegmentMeta
           /\ \A s \in DOMAIN history : history[s] \in Windows
           /\ \A s \in DOMAIN quiet : quiet[s] \in 0 .. WindowSize + 1
           /\ clock \in Nat /\ lastSwitch \in Nat /\ 0 \notin DOMAIN segs
  BY AdaptiveAssumption, LenProperties, ElementOfSeq DEF TypeInv

\* The larger of two numbers.
LEMMA MaxOfTwo ==
    ASSUME NEW a \in Int, NEW b \in Int
    PROVE  Max({a, b}) = IF a >= b THEN a ELSE b
<1> DEFINE m == IF a >= b THEN a ELSE b
<1>1. m \in {a, b} /\ \A y \in {a, b} : m >= y
  OBVIOUS
<1>2. Max({a, b}) \in {a, b} /\ \A y \in {a, b} : Max({a, b}) >= y
  BY <1>1 DEF Max
<1> QED
  BY <1>2

\* The smaller of two numbers.
LEMMA MinOfTwo ==
    ASSUME NEW a \in Int, NEW b \in Int
    PROVE  Min({a, b}) = IF a <= b THEN a ELSE b
<1> DEFINE m == IF a <= b THEN a ELSE b
<1>1. m \in {a, b} /\ \A y \in {a, b} : m <= y
  OBVIOUS
<1>2. Min({a, b}) \in {a, b} /\ \A y \in {a, b} : Min({a, b}) <= y
  BY <1>1 DEF Min
<1> QED
  BY <1>2

\* Slide keeps the end of a history: the whole, or WindowSize snapshots of it.
LEMMA SlideWindow ==
    ASSUME NEW h \in Seq(0 .. MaxCount), Len(h) >= 1
    PROVE  /\ Slide(h) \in Windows
           /\ Len(Slide(h)) \in 1 .. Len(h)
           /\ \A j \in 1 .. Len(Slide(h)) : Slide(h)[j] = h[j + (Len(h) - Len(Slide(h)))]
<1> DEFINE m == Max({1, Len(h) - WindowSize + 1})
<1>1. Len(h) \in Nat /\ \A i \in 1 .. Len(h) : h[i] \in 0 .. MaxCount
  BY LenProperties, ElementOfSeq
<1>2. WindowSize \in Nat \ {0}
  BY AdaptiveAssumption
<1>3. m = IF 1 >= Len(h) - WindowSize + 1 THEN 1 ELSE Len(h) - WindowSize + 1
  BY <1>1, <1>2, MaxOfTwo
<1>4. m \in 1 .. Len(h) /\ Len(h) - m + 1 <= WindowSize
  BY <1>1, <1>2, <1>3
<1> HIDE DEF m
<1>5. /\ SubSeq(h, m, Len(h)) \in Seq(0 .. MaxCount)
      /\ Len(SubSeq(h, m, Len(h))) = IF m <= Len(h) THEN Len(h) - m + 1 ELSE 0
      /\ \A i \in 1 .. Len(h) - m + 1 : SubSeq(h, m, Len(h))[i] = h[m + i - 1]
  <2>1. \A i \in m .. Len(h) : h[i] \in 0 .. MaxCount
    BY <1>1, <1>4
  <2>2. m \in Int /\ Len(h) \in Int
    BY <1>1, <1>4
  <2> QED
    BY <2>1, <2>2, SubSeqProperties
<1>6. Slide(h) = SubSeq(h, m, Len(h))
  BY DEF Slide, m
<1>7. Len(Slide(h)) = Len(h) - m + 1
  BY <1>1, <1>4, <1>5, <1>6
<1>8. ASSUME NEW j \in 1 .. Len(Slide(h))
      PROVE  Slide(h)[j] = h[j + (Len(h) - Len(Slide(h)))]
  <2>1. j \in 1 .. Len(h) - m + 1
    BY <1>7
  <2>2. m + j - 1 = j + (Len(h) - Len(Slide(h)))
    BY <1>1, <1>4, <1>7, <2>1
  <2> QED
    BY <1>5, <1>6, <2>1, <2>2
<1>9. Len(Slide(h)) \in 1 .. Len(h) /\ Len(Slide(h)) <= WindowSize
  BY <1>1, <1>4, <1>7
<1> QED
  BY <1>5, <1>6, <1>8, <1>9 DEF Windows

\* What the steps of the segments keep: segments are added at the end with an empty
\* history, no history changes, and a segment whose counter changes is not quiet.
StoreKept ==
    /\ segs' \in Seq(SegmentMeta) /\ history' \in Seq(Windows)
    /\ quiet' \in Seq(0 .. WindowSize + 1)
    /\ Len(history') = Len(segs') /\ Len(quiet') = Len(segs')
    /\ obsolete' \subseteq DOMAIN segs' /\ DOMAIN segs \subseteq DOMAIN segs'
    /\ \A s \in DOMAIN segs' \ DOMAIN segs : history'[s] = <<>>
    /\ \A s \in DOMAIN segs :
          /\ history'[s] = history[s]
          /\ quiet'[s] = 0 \/ (quiet'[s] = quiet[s] /\ segs'[s].count = segs[s].count)

\* Scans and reads change the counters of some segments, which are not quiet any more.
LEMMA CountedKeeps ==
    ASSUME TypeInv, NEW T \in SUBSET DOMAIN segs, \A s \in T : segs[s].count < MaxCount
    PROVE  /\ Counted(T) \in Seq(SegmentMeta) /\ Len(Counted(T)) = Len(segs)
           /\ Rested(T) \in Seq(0 .. WindowSize + 1) /\ Len(Rested(T)) = Len(segs)
           /\ \A s \in DOMAIN segs :
                 \/ Rested(T)[s] = 0
                 \/ Rested(T)[s] = quiet[s] /\ Counted(T)[s].count = segs[s].count
<1> USE AdaptiveNumbers, AdaptiveAssumption
<1>1. ASSUME NEW s \in DOMAIN segs
      PROVE  (IF s \in T THEN [segs[s] EXCEPT !.count = @ + 1] ELSE segs[s]) \in SegmentMeta
  <2>1. CASE s \in T
    <3>1. segs[s] \in SegmentMeta /\ segs[s].count < MaxCount
      BY <2>1
    <3>2. segs[s].count + 1 \in 0 .. MaxCount
      BY <3>1 DEF SegmentMeta
    <3> QED
      BY <2>1, <3>1, <3>2 DEF SegmentMeta
  <2>2. CASE s \notin T
    BY <2>2
  <2> QED
    BY <2>1, <2>2
<1>2. Counted(T) \in [1 .. Len(segs) -> SegmentMeta]
  BY <1>1 DEF Counted
<1>3. Rested(T) \in [1 .. Len(segs) -> 0 .. WindowSize + 1]
  BY DEF Rested
<1>4. \A n \in Nat : \A S : \A f \in [1 .. n -> S] : f \in Seq(S) /\ Len(f) = n
  <2> TAKE n \in Nat
  <2> TAKE S
  <2> TAKE f \in [1 .. n -> S]
  <2>1. f \in Seq(S)
    BY SeqDef
  <2>2. Len(f) \in Nat /\ DOMAIN f = 1 .. Len(f) /\ DOMAIN f = 1 .. n
    BY <2>1, LenProperties
  <2> QED
    BY <2>1, <2>2
<1>5. /\ Counted(T) \in Seq(SegmentMeta) /\ Rested(T) \in Seq(0 .. WindowSize + 1)
      /\ Len(Counted(T)) = Len(segs) /\ Len(Rested(T)) = Len(segs)
  <2>1. Len(segs) \in Nat
    OBVIOUS
  <2> QED
    BY <1>2, <1>3, <1>4, <2>1
<1>6. ASSUME NEW s \in DOMAIN segs
      PROVE  \/ Rested(T)[s] = 0
             \/ Rested(T)[s] = quiet[s] /\ Counted(T)[s].count = segs[s].count
  BY DEF Rested, Counted
<1> QED
  BY <1>5, <1>6

\* The output of a compaction or a flush begins with an empty history.
LEMMA ReplaceKeeps ==
    ASSUME TypeInv, NEW S \in SUBSET DOMAIN segs, NEW T \in Scans(S),
           NEW strategy \in {TIERED, LEVELED}, Replace(S, T, strategy)
    PROVE  StoreKept
<1> USE AdaptiveNumbers, AdaptiveAssumption
<1>1. NewSegment(strategy) \in SegmentMeta
  BY DEF NewSegment, SegmentMeta, TypeInv
<1>2. <<>> \in Windows /\ 0 \in 0 .. WindowSize + 1
  BY DEF Windows
<1>3. T \in SUBSET DOMAIN segs /\ \A s \in T : segs[s].count < MaxCount
  BY DEF Scans
<1>4. PICK C, R :
          /\ C = Counted(T) /\ R = Rested(T)
          /\ C \in Seq(SegmentMeta) /\ Len(C) = Len(segs)
          /\ R \in Seq(0 .. WindowSize + 1) /\ Len(R) = Len(segs)
          /\ \A s \in DOMAIN segs :
                R[s] = 0 \/ (R[s] = quiet[s] /\ C[s].count = segs[s].count)
  <2>1. /\ Counted(T) \in Seq(SegmentMeta) /\ Len(Counted(T)) = Len(segs)
        /\ Rested(T) \in Seq(0 .. WindowSize + 1) /\ Len(Rested(T)) = Len(segs)
        /\ \A s \in DOMAIN segs :
              \/ Rested(T)[s] = 0
              \/ Rested(T)[s] = quiet[s] /\ Counted(T)[s].count = segs[s].count
    BY <1>3, CountedKeeps
  <2> WITNESS Counted(T), Rested(T)
  <2> QED
    BY <2>1
<1>5. /\ C \in Seq(SegmentMeta) /\ Len(C) = Len(segs)
      /\ R \in Seq(0 .. WindowSize + 1) /\ Len(R) = Len(segs)
      /\ \A s \in DOMAIN segs :
            R[s] = 0 \/ (R[s] = quiet[s] /\ C[s].count = segs[s].count)
  BY <1>4
<1>6. /\ segs' = Append(C, NewSegment(strategy)) /\ quiet' = Append(R, 0)
      /\ history' = Append(history, <<>>) /\ obsolete' = obsolete \cup S
  BY <1>4 DEF Replace
<1>7. history \in Seq(Windows) /\ Len(history) = Len(segs) /\ obsolete \subseteq DOMAIN segs
  BY DEF TypeInv
<1>8. /\ segs' \in Seq(SegmentMeta) /\ Len(segs') = Len(segs) + 1
      /\ \A s \in 1 .. Len(segs) : segs'[s] = C[s]
  BY <1>1, <1>5, <1>6, AppendProperties
<1>9. /\ quiet' \in Seq(0 .. WindowSize + 1) /\ Len(quiet') = Len(segs) + 1
      /\ \A s \in 1 .. Len(segs) : quiet'[s] = R[s]
  <2>1. R \in Seq(0 .. WindowSize + 1) /\ quiet' = Append(R, 0)
    BY <1>5, <1>6
  <2>2. /\ quiet' \in Seq(0 .. WindowSize + 1) /\ Len(quiet') = Len(R) + 1
        /\ \A s \in 1 .. Len(R) : quiet'[s] = R[s]
    BY <1>2, <2>1, AppendProperties
  <2> QED
    BY <1>5, <2>2
<1>10. /\ history' \in Seq(Windows) /\ Len(history') = Len(segs) + 1
       /\ \A s \in 1 .. Len(segs) : history'[s] = history[s]
       /\ history'[Len(segs) + 1] = <<>>
  <2>1. /\ Append(history, <<>>) \in Seq(Windows)
        /\ Len(Append(history, <<>>)) = Len(history) + 1
        /\ \A s \in 1 .. Len(history) : Append(history, <<>>)[s] = history[s]
        /\ Append(history, <<>>)[Len(history) + 1] = <<>>
    BY <1>2, <1>7, AppendProperties
  <2> QED
    BY <1>6, <1>7, <2>1
<1>11. DOMAIN segs' = 1 .. Len(segs) + 1 /\ DOMAIN segs = 1 .. Len(segs)
  BY <1>8
<1>12. DOMAIN segs \subseteq DOMAIN segs' /\ obsolete' \subseteq DOMAIN segs'
  BY <1>6, <1>7, <1>11
<1>13. \A s \in DOMAIN segs' \ DOMAIN segs : s = Len(segs) + 1
  BY <1>11
<1> QED
  BY <1>5, <1>8, <1>9, <1>10, <1>11, <1>12, <1>13 DEF StoreKept

\* Scans alone add no segment.
LEMMA CountsKeep ==
    ASSUME TypeInv, NEW T \in SUBSET DOMAIN segs, \A s \in T : segs[s].count < MaxCount,
           segs' = Counted(T), quiet' = Rested(T), UNCHANGED <<history, obsolete>>
    PROVE  StoreKept
<1> USE AdaptiveNumbers
<1>1. /\ segs' \in Seq(SegmentMeta) /\ Len(segs') = Len(segs)
      /\ quiet' \in Seq(0 .. WindowSize + 1) /\ Len(quiet') = Len(segs)
      /\ \A s \in DOMAIN segs :
            quiet'[s] = 0 \/ (quiet'[s] = quiet[s] /\ segs'[s].count = segs[s].count)
  <2>1. PICK C, R :
            /\ C = Counted(T) /\ R = Rested(T)
            /\ C \in Seq(SegmentMeta) /\ Len(C) = Len(segs)
            /\ R \in Seq(0 .. WindowSize + 1) /\ Len(R) = Len(segs)
            /\ \A s \in DOMAIN segs :
                  R[s] = 0 \/ (R[s] = quiet[s] /\ C[s].count = segs[s].count)
    <3>1. /\ Counted(T) \in Seq(SegmentMeta) /\ Len(Counted(T)) = Len(segs)
          /\ Rested(T) \in Seq(0 .. WindowSize + 1) /\ Len(Rested(T)) = Len(segs)
          /\ \A s \in DOMAIN segs :
                \/ Rested(T)[s] = 0
                \/ Rested(T)[s] = quiet[s] /\ Counted(T)[s].count = segs[s].count
      BY CountedKeeps
    <3> WITNESS Counted(T), Rested(T)
    <3> QED
      BY <3>1
  <2> QED
    BY <2>1
<1>2. DOMAIN segs' = DOMAIN segs
  BY <1>1
<1> QED
  BY <1>1, <1>2 DEF StoreKept, TypeInv

\* A compaction whose output cannot be written has scanned its inputs.
LEMMA FailKeeps ==
    ASSUME TypeInv, NEW S \in SUBSET DOMAIN segs, NEW T \in Scans(S), FailAfterScans(T)
    PROVE  StoreKept
<1>1. T \in SUBSET DOMAIN segs /\ \A s \in T : segs[s].count < MaxCount
  BY DEF Scans
<1> QED
  BY <1>1, CountsKeep DEF FailAfterScans

-----------------------------------------------------------------------------
(***************************************************************************)
(* One lemma per group of steps.                                           *)
(***************************************************************************)
\* A compactor that goes on keeps the types, and the others stay where they are.
PlacesKept(c) ==
    /\ pc' \in [Compactors -> Labels]
    /\ asked' \in [Compactors -> {0} \cup DOMAIN segs]
    /\ window' \in [Compactors -> Windows]
    /\ plan' \in [Compactors -> SUBSET DOMAIN segs]
    /\ \A d \in Compactors \ {c} :
          pc'[d] = pc[d] /\ asked'[d] = asked[d] /\ window'[d] = window[d]

\* Going on inside ShouldRewrite.
LEMMA GotoPlaces ==
    ASSUME TypeInv, NEW c \in Compactors, NEW w \in Windows, NEW label \in Labels,
           Goto(c, label, w)
    PROVE  PlacesKept(c) /\ pc'[c] = label /\ window'[c] = w /\ asked'[c] = asked[c]
  BY DEF Goto, TypeInv, PlacesKept

\* A call that returns leaves its compactor idle.
LEMMA ReturnPlaces ==
    ASSUME TypeInv, NEW c \in Compactors, Return(c)
    PROVE  PlacesKept(c) /\ pc'[c] = "idle"
<1>1. <<>> \in Windows /\ "idle" \in Labels
  BY AdaptiveAssumption DEF Windows, Labels
<1> QED
  BY <1>1 DEF Return, TypeInv, PlacesKept

\* What a compactor that goes on owes the invariant.
PlaceGood(c) ==
    pc'[c] # "idle" =>
        /\ asked'[c] \in DOMAIN segs
        /\ pc'[c] = "record" => Len(window'[c]) = 1
        /\ pc'[c] \in {"check", "decide"} => Len(window'[c]) >= 3

\* A step of one compactor inside its call changes nothing the others rely on.
LEMMA PlaceInv ==
    ASSUME AdaptiveInv, NEW c \in Compactors, PlacesKept(c), PlaceGood(c),
           UNCHANGED <<clock, segs, obsolete>>,
           history' \in Seq(Windows), Len(history') = Len(segs),
           quiet' \in Seq(0 .. WindowSize + 1), Len(quiet') = Len(segs),
           lastSwitch' \in lastSwitch .. clock,
           switchedAt' \in [Compactors -> 0 .. lastSwitch'],
           \A d \in Compactors \ {c} : switchedAt'[d] = switchedAt[d],
           pc'[c] = "decide" => clock - switchedAt'[c] >= MinSwitchInterval
    PROVE  AdaptiveInv'
<1> USE AdaptiveNumbers, AdaptiveAssumption DEF AdaptiveInv
<1>1. lastSwitch' \in 0 .. clock
  OBVIOUS
<1>2. TypeInv'
  BY <1>1 DEF TypeInv, PlacesKept
<1>3. AskInv'
  <2>1. ASSUME NEW d \in Compactors, pc'[d] # "idle"
        PROVE  /\ asked'[d] \in DOMAIN segs'
               /\ pc'[d] = "record" => Len(window'[d]) = 1
               /\ pc'[d] \in {"check", "decide"} => Len(window'[d]) >= 3
    <3>1. CASE d = c
      BY <2>1, <3>1 DEF PlaceGood
    <3>2. CASE d # c
      BY <2>1, <3>2 DEF PlacesKept, AskInv
    <3> QED
      BY <3>1, <3>2
  <2> QED
    BY <2>1 DEF AskInv
<1>4. SpacedInv'
  BY DEF SpacedInv, PlacesKept
<1> QED
  BY <1>2, <1>3, <1>4

\* Flush, Merge, UpdateStats, and Execute, whose compactor then is idle.
LEMMA StoreStepInv ==
    ASSUME AdaptiveInv, StoreKept, UNCHANGED <<clock, lastSwitch, switchedAt>>,
           UNCHANGED callVars \/ \E c \in Compactors : Return(c)
    PROVE  AdaptiveInv'
<1> USE AdaptiveNumbers DEF AdaptiveInv
<1>1. /\ pc' \in [Compactors -> Labels]
      /\ asked' \in [Compactors -> {0} \cup DOMAIN segs]
      /\ window' \in [Compactors -> Windows]
      /\ plan' \in [Compactors -> SUBSET DOMAIN segs]
      /\ \A c \in Compactors : pc'[c] # "idle" =>
            pc'[c] = pc[c] /\ asked'[c] = asked[c] /\ window'[c] = window[c]
  <2>1. CASE UNCHANGED callVars
    BY <2>1 DEF callVars, TypeInv
  <2>2. ASSUME NEW c \in Compactors, Return(c)
        PROVE  <1>1!:
    BY <2>2, ReturnPlaces DEF PlacesKept
  <2> QED
    BY <2>1, <2>2
<1>2. TypeInv'
  <2>1. /\ asked' \in [Compactors -> {0} \cup DOMAIN segs']
        /\ plan' \in [Compactors -> SUBSET DOMAIN segs']
    BY <1>1 DEF StoreKept
  <2> QED
    BY <1>1, <2>1 DEF TypeInv, StoreKept
<1>3. AskInv'
  BY <1>1 DEF AskInv, StoreKept
<1>4. SpacedInv'
  BY <1>1 DEF SpacedInv
<1> QED
  BY <1>2, <1>3, <1>4

\* A compactor begins to ask about a segment.
LEMMA AskAdaptiveInv ==
    ASSUME AdaptiveInv, NEW c \in Compactors, NEW s \in Live, Ask(c, s)
    PROVE  AdaptiveInv'
<1> USE AdaptiveNumbers, AdaptiveAssumption DEF AdaptiveInv
<1>1. s \in DOMAIN segs /\ segs[s].count \in 0 .. MaxCount
  BY DEF Live, SegmentMeta
<1>2. <<segs[s].count>> \in Windows /\ Len(<<segs[s].count>>) = 1
  BY <1>1 DEF Windows
<1>3. PlacesKept(c) /\ PlaceGood(c) /\ pc'[c] = "record"
  BY <1>1, <1>2 DEF Ask, TypeInv, PlacesKept, PlaceGood, Labels
<1>4. UNCHANGED <<clock, segs, obsolete, history, quiet, lastSwitch, switchedAt>>
  BY DEF Ask
<1>5. /\ pc'[c] # "decide" /\ lastSwitch' \in lastSwitch .. clock
      /\ switchedAt' \in [Compactors -> 0 .. lastSwitch']
      /\ \A d \in Compactors \ {c} : switchedAt'[d] = switchedAt[d]
      /\ history' \in Seq(Windows) /\ Len(history') = Len(segs)
      /\ quiet' \in Seq(0 .. WindowSize + 1) /\ Len(quiet') = Len(segs)
  BY <1>3, <1>4 DEF TypeInv
<1> QED
  BY <1>3, <1>4, <1>5, PlaceInv

\* What Record does to the histories and to the ghost of the segment asked about.
LEMMA RecordHistory ==
    ASSUME AdaptiveInv, NEW c \in Compactors, Record(c)
    PROVE  /\ asked[c] \in DOMAIN segs
           /\ history[asked[c]] \o window[c] \in Seq(0 .. MaxCount)
           /\ Len(history[asked[c]] \o window[c]) >= 1
           /\ history' \in Seq(Windows) /\ Len(history') = Len(segs)
           /\ quiet' \in Seq(0 .. WindowSize + 1) /\ Len(quiet') = Len(segs)
           /\ history'[asked[c]] = Slide(history[asked[c]] \o window[c])
           /\ quiet'[asked[c]] <= quiet[asked[c]] + 1
           /\ \A s \in DOMAIN segs \ {asked[c]} :
                 history'[s] = history[s] /\ quiet'[s] = quiet[s]
<1> USE AdaptiveNumbers, AdaptiveAssumption DEF AdaptiveInv
<1>0. PICK a, w : a = asked[c] /\ w = window[c]
  OBVIOUS
<1>1. pc[c] = "record" /\ a \in DOMAIN segs /\ Len(w) = 1
      /\ history[a] \in Windows /\ w \in Windows
  BY <1>0 DEF Record, AskInv, TypeInv
<1>2. PICK h : h = history[a] \o w
  OBVIOUS
<1>3. h \in Seq(0 .. MaxCount) /\ Len(h) >= 1
  <2>1. history[a] \in Seq(0 .. MaxCount) /\ w \in Seq(0 .. MaxCount)
    BY <1>1 DEF Windows
  <2>2. Len(history[a]) \in Nat
    BY <2>1
  <2>3. h \in Seq(0 .. MaxCount) /\ Len(h) = Len(history[a]) + Len(w)
    BY <1>2, <2>1, ConcatProperties
  <2> QED
    BY <1>1, <2>2, <2>3
<1>4. Slide(h) \in Windows
  BY <1>3, SlideWindow
<1>5. PICK q : q = Min({quiet[a] + 1, WindowSize + 1})
  OBVIOUS
<1>6. q \in 0 .. WindowSize + 1 /\ q <= quiet[a] + 1
  <2>1. quiet[a] \in 0 .. WindowSize + 1
    BY <1>1
  <2>2. q = IF quiet[a] + 1 <= WindowSize + 1 THEN quiet[a] + 1 ELSE WindowSize + 1
    BY <1>5, <2>1, MinOfTwo
  <2> QED
    BY <2>1, <2>2
<1>7. history' = [history EXCEPT ![a] = Slide(h)] /\ quiet' = [quiet EXCEPT ![a] = q]
  BY <1>0, <1>2, <1>5 DEF Record
<1>8. a \in 1 .. Len(history) /\ a \in 1 .. Len(quiet)
  BY <1>1 DEF TypeInv
<1>9. /\ history' \in Seq(Windows) /\ Len(history') = Len(history)
      /\ \A s \in 1 .. Len(history) :
            history'[s] = IF s = a THEN Slide(h) ELSE history[s]
  <2>1. PICK e : e = Slide(h)
    OBVIOUS
  <2>2. e \in Windows /\ history \in Seq(Windows) /\ history' = [history EXCEPT ![a] = e]
    BY <1>4, <1>7, <2>1 DEF TypeInv
  <2>3. /\ history' \in Seq(Windows) /\ Len(history') = Len(history)
        /\ \A s \in 1 .. Len(history) : history'[s] = IF s = a THEN e ELSE history[s]
    BY <1>8, <2>2, ExceptSeq
  <2> QED
    BY <2>1, <2>3
<1>10. /\ quiet' \in Seq(0 .. WindowSize + 1) /\ Len(quiet') = Len(quiet)
       /\ \A s \in 1 .. Len(quiet) : quiet'[s] = IF s = a THEN q ELSE quiet[s]
  BY <1>6, <1>7, <1>8, ExceptSeq DEF TypeInv
<1> QED
  BY <1>0, <1>1, <1>2, <1>3, <1>6, <1>8, <1>9, <1>10 DEF TypeInv

\* The snapshot goes to the end of the segment's history.
LEMMA RecordAdaptiveInv ==
    ASSUME AdaptiveInv, NEW c \in Compactors, Record(c)
    PROVE  AdaptiveInv'
<1> USE AdaptiveNumbers, AdaptiveAssumption DEF AdaptiveInv
<1>1. <<>> \in Windows /\ "history" \in Labels
  BY DEF Windows, Labels
<1>2. PlacesKept(c) /\ pc'[c] = "history" /\ asked'[c] = asked[c]
  BY <1>1, GotoPlaces DEF Record
<1>3. asked[c] \in DOMAIN segs
  BY RecordHistory
<1>4. PlaceGood(c)
  BY <1>2, <1>3 DEF PlaceGood
<1>5. /\ history' \in Seq(Windows) /\ Len(history') = Len(segs)
      /\ quiet' \in Seq(0 .. WindowSize + 1) /\ Len(quiet') = Len(segs)
  BY RecordHistory
<1>6. UNCHANGED <<clock, segs, obsolete, lastSwitch, switchedAt>>
  BY DEF Record
<1>7. /\ pc'[c] # "decide" /\ lastSwitch' \in lastSwitch .. clock
      /\ switchedAt' \in [Compactors -> 0 .. lastSwitch']
      /\ \A d \in Compactors \ {c} : switchedAt'[d] = switchedAt[d]
  BY <1>2, <1>6 DEF TypeInv
<1> QED
  BY <1>2, <1>4, <1>5, <1>6, <1>7, PlaceInv

\* Reading the history.
LEMMA ReadAdaptiveInv ==
    ASSUME AdaptiveInv, NEW c \in Compactors, ReadHistory(c)
    PROVE  AdaptiveInv'
<1> USE AdaptiveNumbers, AdaptiveAssumption DEF AdaptiveInv
<1>1. asked[c] \in DOMAIN segs /\ history[asked[c]] \in Windows /\ "check" \in Labels
  BY DEF ReadHistory, AskInv, Labels
<1>2. Len(history[asked[c]]) \in Nat
  BY <1>1 DEF Windows
<1>3. UNCHANGED <<clock, segs, obsolete, history, quiet, lastSwitch, switchedAt>>
  BY DEF ReadHistory
<1>4. PlacesKept(c) /\ PlaceGood(c) /\ pc'[c] # "decide"
  <2>1. CASE Return(c)
    BY <2>1, ReturnPlaces DEF PlaceGood
  <2>2. CASE Len(history[asked[c]]) >= 3 /\ Goto(c, "check", history[asked[c]])
    BY <1>1, <2>2, GotoPlaces DEF PlaceGood
  <2> QED
    BY <1>2, <2>1, <2>2 DEF ReadHistory
<1> QED
  BY <1>3, <1>4, PlaceInv DEF TypeInv

\* The last switch that a compactor checks is its own or a later one.
LEMMA CheckAdaptiveInv ==
    ASSUME AdaptiveInv, NEW c \in Compactors, CheckSwitch(c)
    PROVE  AdaptiveInv'
<1> USE AdaptiveNumbers, AdaptiveAssumption DEF AdaptiveInv
<1>1. asked[c] \in DOMAIN segs /\ window[c] \in Windows /\ Len(window[c]) >= 3
      /\ "decide" \in Labels /\ switchedAt[c] \in 0 .. lastSwitch
  BY DEF CheckSwitch, AskInv, Labels, TypeInv
<1>2. UNCHANGED <<clock, segs, obsolete, history, quiet, lastSwitch, switchedAt>>
  BY DEF CheckSwitch
<1>3. /\ PlacesKept(c) /\ PlaceGood(c)
      /\ pc'[c] = "decide" => clock - switchedAt[c] >= MinSwitchInterval
  <2>1. CASE Return(c)
    BY <2>1, ReturnPlaces DEF PlaceGood
  <2>2. CASE SwitchAllowed /\ Goto(c, "decide", window[c])
    <3>1. PlacesKept(c) /\ PlaceGood(c)
      BY <1>1, <2>2, GotoPlaces DEF PlaceGood
    <3>2. clock - switchedAt[c] >= MinSwitchInterval
      BY <1>1, <2>2 DEF SwitchAllowed
    <3> QED
      BY <3>1, <3>2
  <2> QED
    BY <2>1, <2>2 DEF CheckSwitch
<1> QED
  BY <1>2, <1>3, PlaceInv DEF TypeInv

\* The decision.
LEMMA DecideAdaptiveInv ==
    ASSUME AdaptiveInv, NEW c \in Compactors, Decide(c)
    PROVE  AdaptiveInv'
<1> USE AdaptiveNumbers, AdaptiveAssumption DEF AdaptiveInv
<1>1. asked[c] \in DOMAIN segs /\ <<>> \in Windows
  BY DEF Decide, AskInv, Windows
<1>2. UNCHANGED <<clock, segs, obsolete, history, quiet>>
  BY DEF Decide
<1>3. CASE Switches(c)
  <2>1. /\ lastSwitch' = clock /\ switchedAt' = [switchedAt EXCEPT ![c] = clock]
        /\ plan' = [plan EXCEPT ![c] = {asked[c]}]
        /\ window' = [window EXCEPT ![c] = <<>>] /\ UNCHANGED asked
    BY <1>3 DEF Decide
  <2>2. PICK label \in {"collect", "execute"} : pc' = [pc EXCEPT ![c] = label]
    BY <1>3 DEF Decide
  <2>3. PlacesKept(c) /\ PlaceGood(c) /\ pc'[c] # "decide"
    BY <1>1, <2>1, <2>2 DEF PlacesKept, PlaceGood, Labels, TypeInv
  <2>4. switchedAt' \in [Compactors -> 0 .. lastSwitch']
    <3>1. ASSUME NEW d \in Compactors PROVE switchedAt[d] \in 0 .. clock
      BY DEF TypeInv
    <3> QED
      BY <2>1, <3>1 DEF TypeInv
  <2>5. \A d \in Compactors \ {c} : switchedAt'[d] = switchedAt[d]
    BY <2>1 DEF TypeInv
  <2>6. lastSwitch' \in lastSwitch .. clock
    BY <2>1 DEF TypeInv
  <2> QED
    BY <1>2, <2>3, <2>4, <2>5, <2>6, PlaceInv DEF TypeInv
<1>4. CASE ~ Switches(c)
  <2>1. Return(c) /\ UNCHANGED <<lastSwitch, switchedAt>>
    BY <1>4 DEF Decide
  <2>2. PlacesKept(c) /\ PlaceGood(c) /\ pc'[c] # "decide"
    BY <2>1, ReturnPlaces DEF PlaceGood
  <2> QED
    BY <1>2, <2>1, <2>2, PlaceInv DEF TypeInv
<1> QED
  BY <1>3, <1>4

\* The inputs of a plan are segments.
LEMMA CollectAdaptiveInv ==
    ASSUME AdaptiveInv, NEW c \in Compactors, Collect(c)
    PROVE  AdaptiveInv'
<1> USE AdaptiveNumbers, AdaptiveAssumption DEF AdaptiveInv
<1>1. asked[c] \in DOMAIN segs
  BY DEF Collect, AskInv
<1>2. PICK overlaps \in SUBSET (Live \ {asked[c]}) :
          plan' = [plan EXCEPT ![c] = @ \cup overlaps]
  BY DEF Collect
<1>3. overlaps \in SUBSET DOMAIN segs
  BY DEF Live
<1>4. PlacesKept(c) /\ PlaceGood(c) /\ pc'[c] # "decide"
  BY <1>1, <1>2, <1>3 DEF Collect, PlacesKept, PlaceGood, Labels, TypeInv
<1>5. UNCHANGED <<clock, segs, obsolete, history, quiet, lastSwitch, switchedAt>>
  BY DEF Collect
<1> QED
  BY <1>4, <1>5, PlaceInv DEF TypeInv

\* Execute rewrites its inputs, fails to, or turns the plan down.
LEMMA ExecuteKeeps ==
    ASSUME AdaptiveInv, NEW c \in Compactors, Execute(c)
    PROVE  StoreKept
<1> USE AdaptiveNumbers DEF AdaptiveInv
<1>1. PICK S : S = plan[c]
  OBVIOUS
<1>2. S \in SUBSET DOMAIN segs
  BY <1>1 DEF TypeInv
<1>3. Other(segs[asked[c]].strategy) \in {TIERED, LEVELED}
  BY DEF Other
<1>4. ASSUME NEW T \in Scans(S),
             Replace(S, T, Other(segs[asked[c]].strategy)) \/ FailAfterScans(T)
      PROVE  StoreKept
  BY <1>2, <1>3, <1>4, ReplaceKeeps, FailKeeps
<1>5. CASE UNCHANGED <<segs, history, obsolete, quiet>>
  BY <1>5 DEF StoreKept, TypeInv
<1> QED
  BY <1>1, <1>4, <1>5 DEF Execute

\* So does a compaction without a switch.
LEMMA MergeKeeps ==
    ASSUME AdaptiveInv, NEW c \in Compactors, NEW S \in SUBSET Live, Merge(c, S)
    PROVE  StoreKept
<1> USE DEF AdaptiveInv
<1>1. S \in SUBSET DOMAIN segs
  BY DEF Live
<1>2. ASSUME NEW T \in Scans(S),
             (\E strategy \in {TIERED, LEVELED} : Replace(S, T, strategy)) \/ FailAfterScans(T)
      PROVE  StoreKept
  BY <1>1, <1>2, ReplaceKeeps, FailKeeps
<1> QED
  BY <1>2 DEF Merge

\* A flush adds a segment.
LEMMA FlushKeeps ==
    ASSUME AdaptiveInv, Flush
    PROVE  StoreKept
<1>1. {} \in Scans({}) /\ {} \in SUBSET DOMAIN segs
  BY DEF Scans
<1> QED
  BY <1>1, ReplaceKeeps DEF Flush, AdaptiveInv

\* A lookup counts.
LEMMA UpdateStatsKeeps ==
    ASSUME AdaptiveInv, NEW s \in Live, UpdateStats(s)
    PROVE  StoreKept
<1>1. {s} \in SUBSET DOMAIN segs /\ \A t \in {s} : segs[t].count < MaxCount
  BY DEF Live, UpdateStats
<1> QED
  BY <1>1, CountsKeep DEF UpdateStats, AdaptiveInv

\* At first there is nothing, and nobody asks.
LEMMA InitAdaptiveInv == Init => AdaptiveInv
<1> SUFFICES ASSUME Init PROVE AdaptiveInv
  OBVIOUS
<1>1. segs \in Seq(SegmentMeta) /\ history \in Seq(Windows) /\ <<>> \in Windows
      /\ quiet \in Seq(0 .. WindowSize + 1)
  BY AdaptiveAssumption DEF Init, Windows
<1>2. TypeInv
  BY <1>1, AdaptiveAssumption DEF Init, TypeInv, Labels
<1>3. AskInv /\ SpacedInv
  BY DEF Init, AskInv, SpacedInv
<1> QED
  BY <1>2, <1>3 DEF AdaptiveInv

\* Every step keeps the invariant.
LEMMA NextAdaptiveInv == AdaptiveInv /\ [Next]_vars => AdaptiveInv'
<1> SUFFICES ASSUME AdaptiveInv, [Next]_vars PROVE AdaptiveInv'
  OBVIOUS
<1>1. ASSUME NEW c \in Compactors, NEW s \in Live, Ask(c, s) PROVE AdaptiveInv'
  BY <1>1, AskAdaptiveInv
<1>2. ASSUME NEW c \in Compactors, NEW S \in SUBSET Live, Merge(c, S) PROVE AdaptiveInv'
  BY <1>2, MergeKeeps, StoreStepInv DEF Merge
<1>3. ASSUME NEW c \in Compactors, Record(c) PROVE AdaptiveInv'
  BY <1>3, RecordAdaptiveInv
<1>4. ASSUME NEW c \in Compactors, ReadHistory(c) \/ CheckSwitch(c) PROVE AdaptiveInv'
  BY <1>4, ReadAdaptiveInv, CheckAdaptiveInv
<1>5. ASSUME NEW c \in Compactors, Decide(c) \/ Collect(c) PROVE AdaptiveInv'
  BY <1>5, DecideAdaptiveInv, CollectAdaptiveInv
<1>6. ASSUME NEW c \in Compactors, Execute(c) PROVE AdaptiveInv'
  BY <1>6, ExecuteKeeps, StoreStepInv DEF Execute
<1>7. CASE Flush
  BY <1>7, FlushKeeps, StoreStepInv DEF Flush
<1>8. ASSUME NEW s \in Live, UpdateStats(s) PROVE AdaptiveInv'
  BY <1>8, UpdateStatsKeeps, StoreStepInv DEF UpdateStats
<1>9. CASE Second
  <2> USE DEF AdaptiveInv
  <2>1. clock' \in 0 .. MaxClock /\ clock' = clock + 1 /\ clock \in Nat
        /\ UNCHANGED <<segs, obsolete, history, lastSwitch, callVars, switchedAt, quiet>>
    BY <1>9, AdaptiveAssumption DEF Second, TypeInv
  <2>2. TypeInv' /\ AskInv'
    BY <2>1 DEF TypeInv, AskInv, callVars
  <2>3. \A c \in Compactors : switchedAt[c] \in Nat
    BY AdaptiveNumbers DEF TypeInv
  <2>4. SpacedInv'
    BY <2>1, <2>3, AdaptiveAssumption DEF SpacedInv, callVars
  <2> QED
    BY <2>2, <2>4
<1>10. CASE UNCHANGED vars
  BY <1>10 DEF vars, callVars, AdaptiveInv, TypeInv, AskInv, SpacedInv
<1> QED
  BY <1>1, <1>2, <1>3, <1>4, <1>5, <1>6, <1>7, <1>8, <1>9, <1>10 DEF Next

\* The inductive invariant of the specification.
LEMMA SpecAdaptiveInv == Spec => []AdaptiveInv
<1>1. Init => AdaptiveInv
  BY InitAdaptiveInv
<1>2. AdaptiveInv /\ [Next]_vars => AdaptiveInv'
  BY NextAdaptiveInv
<1> QED
  BY <1>1, <1>2, PTL DEF Spec

-----------------------------------------------------------------------------
(***************************************************************************)
(* The properties of any number of compactors.                             *)
(***************************************************************************)
\* Every history and every snapshot of one stays inside the window, and every question
\* and plan is about segments that exist, however the compactors overtake each other.
THEOREM AdaptiveTypes == Spec => []AdaptiveTypeOK
<1>1. ASSUME AdaptiveInv PROVE AdaptiveTypeOK
  <2> USE <1>1, AdaptiveNumbers DEF AdaptiveInv
  <2>1. \A h \in ToSet(history) \cup {window[c] : c \in Compactors} : h \in Windows
    BY DEF ToSet, TypeInv
  <2>2. ASSUME NEW h \in Windows
        PROVE  Len(h) <= WindowSize /\ ToSet(h) \subseteq 0 .. MaxCount
    <3>1. h \in Seq(0 .. MaxCount) /\ Len(h) <= WindowSize
      BY DEF Windows
    <3>2. DOMAIN h = 1 .. Len(h) /\ \A i \in 1 .. Len(h) : h[i] \in 0 .. MaxCount
      BY <3>1, LenProperties, ElementOfSeq
    <3> QED
      BY <3>1, <3>2 DEF ToSet
  <2> QED
    BY <2>1, <2>2 DEF AdaptiveTypeOK, TypeInv, Labels
<1> QED
  BY <1>1, SpecAdaptiveInv, PTL

\* One compactor's switches are MinSwitchInterval apart: between its check and its
\* decision nobody else moves the time of its own last switch.
THEOREM OwnSpaced == Spec => OwnSwitchesSpaced
<1>1. AdaptiveInv /\ [Next]_vars =>
        [\A c \in Compactors : SwitchStep(c) =>
            clock - switchedAt[c] >= MinSwitchInterval]_vars
  BY DEF AdaptiveInv, SpacedInv, SwitchStep
<1> QED
  BY <1>1, SpecAdaptiveInv, PTL DEF Spec, OwnSwitchesSpaced

-----------------------------------------------------------------------------
(***************************************************************************)
(* A lone compactor switches after an access only.                         *)
(***************************************************************************)
\* The last snapshots of a segment that has been quiet are its counter, but for the
\* first of them, which may have been taken before the counter changed; a snapshot not
\* recorded yet is the counter unless that changed since the last record.
QuietInv ==
    /\ \A s \in DOMAIN segs : \A i \in 1 .. Len(history[s]) :
          i + quiet[s] > Len(history[s]) + 1 => history[s][i] = segs[s].count
    /\ \A c \in Compactors : pc[c] = "record" /\ quiet[asked[c]] > 0 =>
          window[c][1] = segs[asked[c]].count

\* The steps of the segments.
LEMMA StoreQuiet ==
    ASSUME AdaptiveInv, QuietInv, StoreKept,
           UNCHANGED callVars \/ \E c \in Compactors : Return(c)
    PROVE  QuietInv'
<1> USE AdaptiveNumbers DEF AdaptiveInv
<1>1. ASSUME NEW s \in DOMAIN segs', NEW i \in 1 .. Len(history'[s]),
             i + quiet'[s] > Len(history'[s]) + 1
      PROVE  history'[s][i] = segs'[s].count
  <2>1. CASE s \notin DOMAIN segs
    <3>1. Len(history'[s]) = 0
      BY <2>1 DEF StoreKept
    <3> QED
      BY <3>1
  <2>2. CASE s \in DOMAIN segs
    <3>1. history'[s] = history[s] /\ Len(history[s]) \in Nat
      BY <2>2 DEF StoreKept, Windows
    <3>2. quiet'[s] # 0
      BY <1>1, <3>1
    <3>3. quiet'[s] = quiet[s] /\ segs'[s].count = segs[s].count
      BY <2>2, <3>2 DEF StoreKept
    <3> QED
      BY <1>1, <2>2, <3>1, <3>3 DEF QuietInv
  <2> QED
    BY <2>1, <2>2
<1>2. ASSUME NEW c \in Compactors, pc'[c] = "record", quiet'[asked'[c]] > 0
      PROVE  window'[c][1] = segs'[asked'[c]].count
  <2>1. pc[c] = "record" /\ asked'[c] = asked[c] /\ window'[c] = window[c]
    <3>1. CASE UNCHANGED callVars
      BY <1>2, <3>1 DEF callVars
    <3>2. ASSUME NEW d \in Compactors, Return(d)
          PROVE  <2>1!:
      BY <1>2, <3>2, ReturnPlaces DEF PlacesKept
    <3> QED
      BY <3>1, <3>2
  <2>2. asked[c] \in DOMAIN segs
    BY <2>1 DEF AskInv
  <2>3. quiet'[asked[c]] # 0
    BY <1>2, <2>1
  <2>4. quiet'[asked[c]] = quiet[asked[c]] /\ segs'[asked[c]].count = segs[asked[c]].count
    BY <2>2, <2>3 DEF StoreKept
  <2> QED
    BY <1>2, <2>1, <2>4 DEF QuietInv
<1> QED
  BY <1>1, <1>2 DEF QuietInv

\* Recording adds the counter, or a snapshot of what it was, to the end of the history.
LEMMA RecordQuiet ==
    ASSUME AdaptiveInv, QuietInv, NEW c \in Compactors, Record(c),
           \A d \in Compactors : d = c
    PROVE  QuietInv'
<1> USE AdaptiveNumbers, AdaptiveAssumption DEF AdaptiveInv
<1>1. PICK a, w, h : a = asked[c] /\ w = window[c] /\ h = history[a] \o w
  OBVIOUS
<1>2. PICK n, q : n = Len(history[a]) /\ q = quiet[a]
  OBVIOUS
<1>3. /\ a \in DOMAIN segs /\ h \in Seq(0 .. MaxCount) /\ Len(h) >= 1
      /\ history'[a] = Slide(h) /\ quiet'[a] <= q + 1
      /\ quiet' \in Seq(0 .. WindowSize + 1) /\ Len(quiet') = Len(segs)
      /\ \A s \in DOMAIN segs \ {a} : history'[s] = history[s] /\ quiet'[s] = quiet[s]
  BY <1>1, <1>2, RecordHistory
<1>4. pc[c] = "record" /\ Len(w) = 1 /\ UNCHANGED segs /\ n \in Nat /\ q \in Nat
  BY <1>1, <1>2, <1>3 DEF Record, AskInv, Windows
<1>5. Len(h) = n + 1 /\ \A i \in 1 .. n + 1 : h[i] = IF i <= n THEN history[a][i] ELSE w[1]
  <2>0. PICK u : u = history[a]
    OBVIOUS
  <2>1. u \in Seq(0 .. MaxCount) /\ w \in Seq(0 .. MaxCount) /\ h = u \o w
    BY <1>1, <1>3, <2>0 DEF Windows, TypeInv
  <2>2. /\ Len(h) = Len(u) + Len(w)
        /\ \A i \in 1 .. Len(u) + Len(w) :
              h[i] = IF i <= Len(u) THEN u[i] ELSE w[i - Len(u)]
    BY <2>1, ConcatProperties
  <2>3. \A i \in 1 .. n + 1 : ~ (i <= n) => i - n = 1
    BY <1>4
  <2> QED
    BY <1>2, <1>4, <2>0, <2>2, <2>3
<1>6. PICK k, g : g = Slide(h) /\ k = Len(g)
  OBVIOUS
<1>7. k \in 1 .. n + 1 /\ \A j \in 1 .. k : g[j] = h[j + (n + 1 - k)]
  <2>1. /\ Len(Slide(h)) \in 1 .. Len(h)
        /\ \A j \in 1 .. Len(Slide(h)) : Slide(h)[j] = h[j + (Len(h) - Len(Slide(h)))]
    BY <1>3, SlideWindow
  <2>2. Len(h) = n + 1
    BY <1>5
  <2>3. k \in 1 .. n + 1 /\ \A j \in 1 .. k : g[j] = h[j + (Len(h) - k)]
    BY <1>6, <2>1, <2>2, Zenon
  <2> QED
    BY <1>4, <2>2, <2>3
<1>8. quiet'[a] \in Nat
  BY <1>3, ElementOfSeq
<1>9. ASSUME NEW j \in 1 .. k, j + quiet'[a] > k + 1
      PROVE  g[j] = segs[a].count
  <2>1. PICK i : i = j + (n + 1 - k)
    OBVIOUS
  <2>2. i \in 1 .. n + 1 /\ i + q > n + 1 /\ q > 0
    <3>1. PICK p \in Nat : p = quiet'[a]
      BY <1>8
    <3>2. p <= q + 1 /\ j + p > k + 1 /\ n \in Nat /\ q \in Nat /\ k \in 1 .. n + 1
      BY <1>3, <1>4, <1>7, <1>9, <3>1
    <3> QED
      BY <2>1, <3>2
  <2>3. g[j] = IF i <= n THEN history[a][i] ELSE w[1]
    BY <1>5, <1>7, <2>1, <2>2
  <2>4. CASE i <= n
    <3>1. i \in 1 .. n
      BY <1>4, <2>2, <2>4
    <3> QED
      BY <1>2, <1>3, <2>2, <2>3, <2>4, <3>1 DEF QuietInv
  <2>5. CASE ~ (i <= n)
    BY <1>1, <1>2, <1>4, <2>2, <2>3, <2>5 DEF QuietInv
  <2> QED
    BY <2>4, <2>5
<1>10. ASSUME NEW s \in DOMAIN segs', NEW i \in 1 .. Len(history'[s]),
              i + quiet'[s] > Len(history'[s]) + 1
       PROVE  history'[s][i] = segs'[s].count
  <2>1. CASE s = a
    BY <1>3, <1>4, <1>6, <1>9, <1>10, <2>1
  <2>2. CASE s # a
    <3>1. s \in DOMAIN segs /\ history'[s] = history[s] /\ quiet'[s] = quiet[s]
      BY <1>3, <1>4, <2>2
    <3> QED
      BY <1>4, <1>10, <3>1 DEF QuietInv
  <2> QED
    BY <2>1, <2>2
<1>11. \A d \in Compactors : pc'[d] # "record"
  BY DEF Record, Goto, TypeInv
<1> QED
  BY <1>10, <1>11 DEF QuietInv

\* A new snapshot is the counter; the steps after it record nothing.
LEMMA CallQuiet ==
    ASSUME AdaptiveInv, QuietInv, NEW c \in Compactors, UNCHANGED <<segs, history, quiet>>,
           \/ \E s \in Live : Ask(c, s)
           \/ ReadHistory(c) \/ CheckSwitch(c) \/ Decide(c) \/ Collect(c)
    PROVE  QuietInv'
<1> USE DEF AdaptiveInv
<1>1. ASSUME NEW d \in Compactors, pc'[d] = "record", quiet'[asked'[d]] > 0
      PROVE  window'[d][1] = segs'[asked'[d]].count
  <2>1. ASSUME NEW s \in Live, Ask(c, s) PROVE window'[d][1] = segs'[asked'[d]].count
    <3>1. CASE d = c
      BY <2>1, <3>1 DEF Ask, TypeInv
    <3>2. CASE d # c
      BY <1>1, <2>1, <3>2 DEF Ask, TypeInv, QuietInv
    <3> QED
      BY <3>1, <3>2
  <2>2. ASSUME ReadHistory(c) \/ CheckSwitch(c) \/ Decide(c) \/ Collect(c)
        PROVE  window'[d][1] = segs'[asked'[d]].count
    <3>1. pc[d] = "record" /\ asked'[d] = asked[d] /\ window'[d] = window[d]
      BY <1>1, <2>2 DEF ReadHistory, CheckSwitch, Decide, Collect, Goto, Return, TypeInv
    <3> QED
      BY <1>1, <3>1 DEF QuietInv
  <2> QED
    BY <2>1, <2>2
<1> QED
  BY <1>1 DEF QuietInv

\* Every step of a system with one compactor keeps QuietInv.
LEMMA NextQuiet ==
    ASSUME AdaptiveInv, QuietInv, [Next]_vars, \A c, d \in Compactors : c = d
    PROVE  QuietInv'
<1>1. ASSUME NEW c \in Compactors, NEW s \in Live, Ask(c, s) PROVE QuietInv'
  BY <1>1, CallQuiet DEF Ask
<1>2. ASSUME NEW c \in Compactors, NEW S \in SUBSET Live, Merge(c, S) PROVE QuietInv'
  BY <1>2, MergeKeeps, StoreQuiet DEF Merge
<1>3. ASSUME NEW c \in Compactors, Record(c) PROVE QuietInv'
  BY <1>3, RecordQuiet
<1>4. ASSUME NEW c \in Compactors,
             ReadHistory(c) \/ CheckSwitch(c) \/ Decide(c) \/ Collect(c)
      PROVE  QuietInv'
  <2>1. UNCHANGED <<segs, history, quiet>>
    BY <1>4 DEF ReadHistory, CheckSwitch, Decide, Collect
  <2> QED
    BY <1>4, <2>1, CallQuiet
<1>5. ASSUME NEW c \in Compactors, Execute(c) PROVE QuietInv'
  BY <1>5, ExecuteKeeps, StoreQuiet DEF Execute
<1>6. CASE Flush
  BY <1>6, FlushKeeps, StoreQuiet DEF Flush
<1>7. ASSUME NEW s \in Live, UpdateStats(s) PROVE QuietInv'
  BY <1>7, UpdateStatsKeeps, StoreQuiet DEF UpdateStats
<1>8. CASE Second \/ UNCHANGED vars
  BY <1>8 DEF Second, vars, callVars, QuietInv
<1> QED
  BY <1>1, <1>2, <1>3, <1>4, <1>5, <1>6, <1>7, <1>8 DEF Next

\* A compactor takes the decision to switch only in Decide.
LEMMA SwitchStepDecides ==
    ASSUME TypeInv, [Next]_vars, NEW c \in Compactors, SwitchStep(c)
    PROVE  Switches(c)
<1>1. pc[c] = "decide" /\ pc'[c] \in {"collect", "execute"}
  BY DEF SwitchStep
<1>2. ASSUME NEW d \in Compactors,
             \/ \E s \in Live : Ask(d, s)
             \/ \E S \in SUBSET Live : Merge(d, S)
             \/ Record(d) \/ ReadHistory(d) \/ CheckSwitch(d) \/ Collect(d) \/ Execute(d)
      PROVE  FALSE
  BY <1>1, <1>2
  DEF Ask, Merge, Record, ReadHistory, CheckSwitch, Collect, Execute, Goto, Return,
      callVars, TypeInv
<1>3. ASSUME NEW d \in Compactors, Decide(d) PROVE Switches(c)
  BY <1>1, <1>3 DEF Decide, Return, TypeInv
<1>4. ~ Flush /\ ~ Second /\ ~ UNCHANGED vars /\ ~ \E s \in Live : UpdateStats(s)
  BY <1>1 DEF Flush, Second, vars, callVars, UpdateStats
<1> QED
  BY <1>2, <1>3, <1>4 DEF Next

\* A history of a segment that has been quiet for more than a window has no trend.
LEMMA QuietHasNoTrend ==
    ASSUME AdaptiveInv, QuietInv, NEW s \in DOMAIN segs, Len(history[s]) >= 1,
           TrendAbove(history[s])
    PROVE  quiet[s] <= WindowSize
<1> USE AdaptiveNumbers, AdaptiveAssumption DEF AdaptiveInv
<1>1. history[s] \in Windows /\ quiet[s] \in 0 .. WindowSize + 1
      /\ segs[s].count \in 0 .. MaxCount
  BY DEF SegmentMeta
<1>2. PICK h, n, v : h = history[s] /\ n = Len(h) /\ v = segs[s].count
  OBVIOUS
<1>3. h \in Seq(Nat) /\ n \in Nat /\ n >= 1 /\ n <= WindowSize /\ DOMAIN h = 1 .. n
      /\ v \in Nat
  <2>1. h \in Seq(0 .. MaxCount) /\ 0 .. MaxCount \subseteq Nat
    BY <1>1, <1>2 DEF Windows
  <2>2. h \in Seq(Nat)
    BY <2>1, SeqMonotonic
  <2>3. n \in Nat /\ DOMAIN h = 1 .. n
    BY <1>2, <2>2, LenProperties
  <2> QED
    BY <1>1, <1>2, <2>2, <2>3 DEF Windows
<1>4. SUFFICES ASSUME quiet[s] > WindowSize PROVE FALSE
  BY <1>1
<1>5. ASSUME NEW i \in 1 .. n PROVE h[i] = v
  <2>1. i + quiet[s] > n + 1
    BY <1>1, <1>3, <1>4
  <2> QED
    BY <1>2, <2>1 DEF QuietInv
<1>6. n \in 1 .. n /\ Last(h) = h[n]
  BY <1>2, <1>3 DEF Last
<1>7. Last(h) = v
  BY <1>5, <1>6
<1>8. \E i \in DOMAIN h : 10 * h[i] < 7 * Last(h)
  BY <1>2, <1>3, TrendNeedsGrowth
<1> QED
  BY <1>3, <1>5, <1>7, <1>8

\* With one compactor a switch needs an access among the last WindowSize snapshots, for
\* windows of any length, counts of any size and any thresholds.
THEOREM NeedsAccess ==
    ASSUME \A c, d \in Compactors : c = d
    PROVE  Spec => SwitchNeedsAccess
<1>1. Init => QuietInv
  BY DEF Init, QuietInv
<1>2. AdaptiveInv /\ QuietInv /\ [Next]_vars => QuietInv'
  BY NextQuiet
<1>3. AdaptiveInv /\ QuietInv /\ [Next]_vars =>
        [\A c \in Compactors :
            SwitchStep(c) /\ window[c] = history[asked[c]] =>
                quiet[asked[c]] <= WindowSize]_vars
  <2> SUFFICES ASSUME AdaptiveInv, QuietInv, [Next]_vars, NEW c \in Compactors,
                      SwitchStep(c), window[c] = history[asked[c]]
               PROVE  quiet[asked[c]] <= WindowSize
    OBVIOUS
  <2>1. TrendAbove(window[c])
    BY SwitchStepDecides DEF AdaptiveInv, Switches
  <2>2. asked[c] \in DOMAIN segs /\ Len(window[c]) >= 3 /\ window[c] \in Windows
    BY DEF AdaptiveInv, TypeInv, AskInv, SwitchStep
  <2>3. Len(window[c]) >= 1
    BY <2>2 DEF Windows
  <2> QED
    BY <2>1, <2>2, <2>3, QuietHasNoTrend
<1> QED
  BY <1>1, <1>2, <1>3, SpecAdaptiveInv, PTL DEF Spec, SwitchNeedsAccess
=============================================================================
