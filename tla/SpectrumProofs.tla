--------------------------- MODULE SpectrumProofs ---------------------------
(***************************************************************************)
(* Two parts of the work on a frame of the spectrum, and the research      *)
(* engine that counts its frames.                                          *)
(*                                                                         *)
(* Phase locking is proved for every number of bins and every course of    *)
(* spectra.                                                                *)
(*                                                                         *)
(* The work on a frame is finished when the next one is due, for every     *)
(* window, hop, number of channels, formant policy and phase mode. The     *)
(* numbers of interruptions cancel against the allowances pool by pool;    *)
(* only the phases that are predicted for all channels at once are paid    *)
(* for by an allowance of another pool, that of each channel.              *)
(*                                                                         *)
(* The research phase vocoder is exact to the frame.  While the ratio      *)
(* stays, what the input and its padding are worth past what is            *)
(* synthesised, the surplus, does not change; a change of the ratio        *)
(* shifts it by the change times the frames to the next window.  That      *)
(* bounds the reach of the overlap-add ring and the frames of zeros a      *)
(* flush needs, as long as the ratio has not moved too far in all.         *)
(***************************************************************************)
EXTENDS Peaks, FrameSteps, ResearchPv, TLAPS

PeaksTypeOK ==
  /\ stage \in {"frame", "own", "predict", "phase"}
  /\ peaks \subseteq Bin /\ peak \in Bin /\ begin \in Int
  /\ owners \in [Bin -> Bin] /\ fresh \subseteq Bin

(* While bins are given: those before begin lie with a nearest peak, and   *)
(* the peaks already served are not nearer to any later bin than the peak  *)
(* that comes next.                                                        *)
Halfway ==
  stage = "own" =>
    /\ peak \in peaks
    /\ \A k \in Bin : k < begin => owners[k] \in peaks /\ Nearest(k, owners[k])
    /\ \A r \in peaks : r < peak => r + peak <= 2 * begin

PeaksInv == PeaksTypeOK /\ Halfway /\ OwnersNearest /\ OwnersFresh

-----------------------------------------------------------------------------
LEMMA BinsAreInts == \A k \in Bin : k \in Int /\ 0 <= k /\ k < Bins
  BY PeaksAssumption DEF Bin

(* What is found are bins. *)
LEMMA FoundBins == ASSUME NEW m PROVE Found(m) \subseteq Bin
  BY DEF Found, Loudest

(* A peak lies nearest to itself. *)
LEMMA OwnPeak ==
  ASSUME NEW p \in Bin, NEW o \in Bin, peaks \subseteq Bin,
         p \in peaks, o \in peaks, Nearest(p, o)
  PROVE  o = p
  <1>1. p \in Int /\ o \in Int BY BinsAreInts
  <1>2. (p < o => p + o <= 2 * p) /\ (p > o => 2 * p <= o + p)
    BY DEF Nearest
  <1> QED BY <1>1, <1>2

LEMMA InitInv == PeaksInit => PeaksInv
  BY PeaksAssumption
     DEF PeaksInit, PeaksInv, PeaksTypeOK, Halfway, OwnersNearest,
         OwnersFresh, Bin

LEMMA FindStep ==
  ASSUME PeaksInv, NEW m, FindPeaks(m) PROVE PeaksInv'
  <1>1. PeaksTypeOK'
    BY FoundBins DEF PeaksInv, PeaksTypeOK, FindPeaks
  <1>2. Halfway'
    <2>1. \A k \in Bin : ~(k < begin')
      BY BinsAreInts DEF FindPeaks
    <2>2. peak' \in peaks' /\ \A r \in peaks' : ~(r < peak')
      <3>1. \A r \in peaks' : r \in Int /\ peak' \in Int /\ peak' <= r
        BY FoundBins, BinsAreInts DEF FindPeaks, IsFirst
      <3> QED BY <3>1 DEF FindPeaks, IsFirst
    <2> QED BY <2>1, <2>2 DEF Halfway
  <1>3. OwnersNearest' /\ OwnersFresh'
    BY DEF FindPeaks, OwnersNearest, OwnersFresh
  <1> QED BY <1>1, <1>2, <1>3 DEF PeaksInv

(* The bins given to a peak lie nearest to it when the next peak is not    *)
(* nearer to any of them.                                                  *)
LEMMA GivenNearest ==
  ASSUME PeaksInv, stage = "own", NEW end \in Int,
         \A r \in peaks : r > peak =>
           \A k \in Bin : k < end => 2 * k <= peak + r,
         Given(peak, end), peaks' = peaks
  PROVE  /\ owners' \in [Bin -> Bin]
         /\ \A k \in Bin : k < end =>
              owners'[k] \in peaks /\ Nearest(k, owners'[k])
  <1>1. owners' \in [Bin -> Bin]
    BY DEF Given, PeaksInv, PeaksTypeOK
  <1>2. ASSUME NEW k \in Bin, k < end
        PROVE  owners'[k] \in peaks /\ Nearest(k, owners'[k])
    <2>0. begin \in Int /\ k \in Int /\ peak \in Int /\ peak \in peaks
      BY BinsAreInts DEF PeaksInv, PeaksTypeOK, Halfway
    <2>1. CASE k < begin
      <3>1. owners'[k] = owners[k] BY <2>0, <2>1 DEF Given
      <3> QED BY <2>1, <3>1 DEF PeaksInv, Halfway
    <2>2. CASE begin <= k
      <3>1. owners'[k] = peak BY <1>2, <2>2 DEF Given
      <3>2. \A r \in peaks : r \in Int
        BY BinsAreInts DEF PeaksInv, PeaksTypeOK
      <3>3. ASSUME NEW r \in peaks, r < peak PROVE r + peak <= 2 * k
        <4>1. r + peak <= 2 * begin BY <3>3 DEF PeaksInv, Halfway
        <4> QED BY <2>0, <2>2, <3>2, <4>1
      <3>4. ASSUME NEW r \in peaks, r > peak PROVE 2 * k <= peak + r
        BY <1>2, <3>4
      <3> QED BY <2>0, <3>1, <3>3, <3>4 DEF Nearest
    <2> QED BY <2>0, <2>1, <2>2
  <1> QED BY <1>1, <1>2

LEMMA OwnNextStep ==
  ASSUME PeaksInv, OwnNext PROVE PeaksInv'
  <1>1. PICK q \in Bin : /\ IsFirst(q, Later(peak))
                         /\ Given(peak, End(peak, q)) /\ peak' = q
    BY DEF OwnNext
  <1>2. /\ q \in peaks /\ q \in Int /\ peak \in Int /\ peak < q
        /\ \A r \in peaks : r \in Int /\ (r > peak => q <= r)
    BY <1>1, BinsAreInts DEF PeaksInv, PeaksTypeOK, IsFirst, Later
  <1>3. /\ End(peak, q) \in Int /\ peak + q <= 2 * End(peak, q)
        /\ \A k \in Int : k < End(peak, q) => 2 * k <= peak + q
    BY <1>2 DEF End
  <1>4. \A r \in peaks : r > peak =>
          \A k \in Bin : k < End(peak, q) => 2 * k <= peak + r
    <2> TAKE r \in peaks
    <2> HAVE r > peak
    <2> TAKE k \in Bin
    <2> HAVE k < End(peak, q)
    <2>1. k \in Int /\ r \in Int /\ q <= r BY <1>2, BinsAreInts
    <2>2. 2 * k <= peak + q BY <1>3, <2>1
    <2> QED BY <1>2, <2>1, <2>2
  <1>5. stage = "own" /\ stage' = "own" /\ peaks' = peaks /\ fresh' = fresh
    BY DEF OwnNext
  <1>6. /\ owners' \in [Bin -> Bin]
        /\ \A k \in Bin : k < End(peak, q) =>
             owners'[k] \in peaks /\ Nearest(k, owners'[k])
    BY <1>1, <1>3, <1>4, <1>5, GivenNearest
  <1>7. begin' = End(peak, q) BY <1>1 DEF Given
  <1>8. PeaksTypeOK'
    BY <1>1, <1>3, <1>5, <1>6, <1>7 DEF PeaksInv, PeaksTypeOK
  <1>9. Halfway'
    <2>1. \A r \in peaks : r < q => r + q <= 2 * End(peak, q)
      <3> TAKE r \in peaks
      <3> HAVE r < q
      <3>1. r <= peak BY <1>2
      <3> QED BY <1>2, <1>3, <3>1
    <2>2. (\A k \in Bin : k < begin =>
             owners[k] \in peaks /\ Nearest(k, owners[k]))'
      BY <1>5, <1>6, <1>7 DEF Nearest
    <2> QED BY <1>1, <1>2, <1>5, <1>7, <2>1, <2>2 DEF Halfway
  <1> QED BY <1>5, <1>8, <1>9 DEF PeaksInv, OwnersNearest, OwnersFresh

LEMMA OwnLastStep ==
  ASSUME PeaksInv, OwnLast PROVE PeaksInv'
  <1>1. /\ stage = "own" /\ stage' = "predict" /\ peaks' = peaks
        /\ peak' = peak /\ fresh' = fresh /\ Given(peak, Bins)
        /\ \A r \in peaks : ~(r > peak)
    BY DEF OwnLast, Later
  <1>2. Bins \in Int BY PeaksAssumption
  <1>3. /\ owners' \in [Bin -> Bin]
        /\ \A k \in Bin : k < Bins =>
             owners'[k] \in peaks /\ Nearest(k, owners'[k])
    BY <1>1, <1>2, GivenNearest
  <1>4. PeaksTypeOK'
    BY <1>1, <1>2, <1>3 DEF PeaksInv, PeaksTypeOK, Given
  <1>5. OwnersNearest'
    BY <1>1, <1>3, BinsAreInts DEF OwnersNearest, Nearest
  <1> QED BY <1>1, <1>4, <1>5 DEF PeaksInv, Halfway, OwnersFresh

LEMMA PredictStep ==
  ASSUME PeaksInv, Predict PROVE PeaksInv'
  <1>1. PeaksTypeOK' BY DEF PeaksInv, PeaksTypeOK, Predict
  <1>2. OwnersNearest' BY DEF PeaksInv, OwnersNearest, Nearest, Predict
  <1>3. OwnersFresh'
    <2>1. ASSUME NEW k \in Bin PROVE owners[k] \in fresh'
      <3>1. /\ owners[k] \in Bin /\ owners[owners[k]] \in Bin
            /\ peaks \subseteq Bin /\ owners[k] \in peaks
        BY DEF PeaksInv, PeaksTypeOK, OwnersNearest, Predict
      <3>2. /\ owners[owners[k]] \in peaks
            /\ Nearest(owners[k], owners[owners[k]])
        BY <3>1 DEF PeaksInv, OwnersNearest, Predict
      <3>3. owners[owners[k]] = owners[k] BY <3>1, <3>2, OwnPeak
      <3> QED BY <3>1, <3>3 DEF Predict
    <2> QED BY <2>1 DEF OwnersFresh, Predict
  <1> QED BY <1>1, <1>2, <1>3 DEF PeaksInv, Halfway, Predict

LEMMA PhaseStep ==
  ASSUME PeaksInv, Phase PROVE PeaksInv'
  BY DEF PeaksInv, PeaksTypeOK, Halfway, OwnersNearest, OwnersFresh, Phase

LEMMA StutterStep ==
  ASSUME PeaksInv, UNCHANGED peaksVars PROVE PeaksInv'
  BY DEF PeaksInv, PeaksTypeOK, Halfway, OwnersNearest, OwnersFresh,
         Nearest, peaksVars

-----------------------------------------------------------------------------
(* For every number of bins and any spectra: the bins of a frame are those *)
(* of the nearest peaks and no phase comes from an earlier frame           *)
(* (find_peaks, linked_static_predict and linked_static_phase).            *)
THEOREM PeaksOwned == PeaksSpec => []PeaksOwn
  <1>1. PeaksInit => PeaksInv BY InitInv
  <1>2. PeaksInv /\ [PeaksNext]_peaksVars => PeaksInv'
    BY FindStep, OwnNextStep, OwnLastStep, PredictStep, PhaseStep,
       StutterStep DEF PeaksNext
  <1>3. PeaksInv => PeaksOwn BY DEF PeaksInv, PeaksOwn
  <1> QED BY <1>1, <1>2, <1>3, PTL DEF PeaksSpec

-----------------------------------------------------------------------------
(* The engines that can be asked for: even windows of at least 16 frames   *)
(* whose levels can be counted.                                            *)
AnyEngine(e) ==
  /\ e.n \in Nat /\ e.n >= 16 /\ e.n % 2 = 0
  /\ \E b \in 0..31 : 2^b <= e.n /\ e.n < 2^(b + 1)
  /\ e.channels \in Nat \ {0} /\ e.hop \in Nat \ {0}
  /\ e.formant \in 0..2 /\ e.mode \in Nat
  /\ e.timeline \in BOOLEAN /\ e.first \in BOOLEAN

-----------------------------------------------------------------------------
(* Rounding up. *)
LEMMA CeilInt ==
  ASSUME NEW a \in Int, NEW d \in {32, 64, 128} PROVE CeilDiv(a, d) \in Int
  BY DEF CeilDiv

LEMMA CeilParts ==
  ASSUME NEW a \in Nat, NEW b \in Nat, b <= a
  PROVE  CeilDiv(a, 32) <= CeilDiv(b, 32) + CeilDiv(a - b, 32)
  BY DEF CeilDiv

LEMMA CeilMonotone ==
  ASSUME NEW a \in Int, NEW b \in Int, a <= b
  PROVE  CeilDiv(a, 32) <= CeilDiv(b, 32)
  BY DEF CeilDiv

LEMMA CeilOne == CeilDiv(0, 32) = 0 /\ CeilDiv(1, 32) = 1 /\ CeilDiv(2, 32) = 1 /\ CeilDiv(0, 64) = 0
  BY DEF CeilDiv

LEMMA CeilCovers ==
  ASSUME NEW a \in Int, NEW d \in Nat \ {0}
  PROVE  /\ CeilDiv(a, d) \in Int /\ a <= d * CeilDiv(a, d)
         /\ a \in Nat => CeilDiv(a, d) \in Nat
  <1> DEFINE q == (a + d - 1) \div d
             r == (a + d - 1) % d
  <1>1. q \in Int /\ (a \in Nat => q \in Nat) /\ r \in 0..(d - 1) /\ a + d - 1 = d * q + r
    OBVIOUS
  <1> QED BY <1>1 DEF CeilDiv

(* A surplus of every channel is at least that of one. *)
LEMMA EveryChannel ==
  ASSUME NEW c \in Nat \ {0}, NEW x \in Int, NEW y \in Int, NEW w \in Nat, y >= x + w
  PROVE  c * x \in Int /\ c * y \in Int /\ c * y >= c * x + w
  OBVIOUS

-----------------------------------------------------------------------------
(* The half of a transform that is kept, and its transforms. *)
LEMMA Halves ==
  ASSUME NEW n \in Nat, n >= 16, n % 2 = 0
  PROVE  /\ BinCount(n) \in Nat /\ 9 <= BinCount(n) /\ BinCount(n) < n
         /\ n \div 2 \in Nat /\ 8 <= n \div 2 /\ n \div 2 < BinCount(n)
  BY DEF BinCount

LEMMA LevelCounted ==
  ASSUME NEW n, \E b \in 0..31 : 2^b <= n /\ n < 2^(b + 1)
  PROVE  LevelCount(n) \in 0..31
  BY DEF LevelCount

LEMMA TransformInt ==
  ASSUME NEW n \in Nat, NEW inverse \in BOOLEAN,
         \E b \in 0..31 : 2^b <= n /\ n < 2^(b + 1)
  PROVE  Transform(n, inverse) \in Int
  <1>1. LevelCount(n) \in 0..31
    BY LevelCounted
  <1>2. n * LevelCount(n) \in Int
    BY <1>1
  <1>3. Work(n, inverse) \in Int
    BY <1>2 DEF Work
  <1> QED BY <1>3, CeilInt DEF Transform

(* The loops of an engine in terms of two counts of steps. *)
LEMMA Loops ==
  ASSUME NEW e, AnyEngine(e)
  PROVE  /\ EveryBin(e) = CeilDiv(BinCount(e.n), 32)
         /\ Sample(e) = CeilDiv(e.n, 32)
         /\ Mirror(e) = CeilDiv(e.n, 32) - CeilDiv(BinCount(e.n), 32)
         /\ Every(32, 1, e.n) = CeilDiv(e.n, 32) - 1
         /\ Every(32, 2, e.n \div 2) = CeilDiv(e.n \div 2, 32) - 1
         /\ Every(32, 1, BinCount(e.n) - 1) = CeilDiv(BinCount(e.n) - 1, 32) - 1
         /\ Every(64, 0, BinCount(e.n)) = CeilDiv(BinCount(e.n), 64)
         /\ Every(64, 0, e.channels * BinCount(e.n)) = CeilDiv(e.channels * BinCount(e.n), 64)
  <1>1. /\ BinCount(e.n) \in Nat /\ 9 <= BinCount(e.n) /\ BinCount(e.n) < e.n /\ e.n \in Nat
        /\ e.n \div 2 \in Nat /\ 8 <= e.n \div 2
    BY Halves DEF AnyEngine
  <1>2. e.channels * BinCount(e.n) \in Nat /\ 0 < e.channels * BinCount(e.n)
    <2> DEFINE c == e.channels
               b == BinCount(e.n)
    <2>1. c \in Nat \ {0} /\ b \in Nat /\ b > 0
      BY <1>1 DEF AnyEngine
    <2> HIDE DEF c, b
    <2>2. c * b \in Nat /\ 0 < c * b
      BY <2>1
    <2> QED BY <2>2 DEF c, b
  <1>3. \A a \in Int : CeilDiv(a, 32) \in Int /\ CeilDiv(a, 64) \in Int
    BY CeilInt
  <1> QED BY <1>1, <1>2, <1>3, CeilOne DEF EveryBin, Sample, Mirror, Every

(* What a channel is allowed and does not need, which is enough for the    *)
(* phases that are predicted for all channels at once.                     *)
LEMMA ChannelSurplus ==
  ASSUME NEW e, AnyEngine(e)
  PROVE  /\ Analysis(e) + Synthesis(e) \in Int /\ ChannelBound(e.n) \in Int
         /\ LinkedPhases(e) \in Nat
         /\ ChannelBound(e.n) >= Analysis(e) + Synthesis(e) + LinkedPhases(e)
  <1> DEFINE b == CeilDiv(BinCount(e.n), 32)
             w == CeilDiv(e.n, 32)
             m == CeilDiv(e.n - BinCount(e.n), 32)
             f == Transform(e.n, FALSE)
             i == Transform(e.n, TRUE)
  <1>1. /\ BinCount(e.n) \in Nat /\ BinCount(e.n) < e.n /\ e.n \in Nat
    BY Halves DEF AnyEngine
  <1>2. b \in Nat /\ w \in Int /\ m \in Int /\ w <= b + m
    <2>1. w <= b + m
      BY <1>1, CeilParts
    <2>2. b \in Nat
      BY <1>1, CeilCovers
    <2>3. w \in Int /\ m \in Int
      BY <1>1, CeilInt
    <2> QED BY <2>1, <2>2, <2>3
  <1>3. f \in Int /\ i \in Int
    BY TransformInt DEF AnyEngine
  <1>4. EveryBin(e) = b /\ Sample(e) = w /\ Mirror(e) = w - b
    BY Loops
  <1>5. e.timeline \in BOOLEAN /\ e.first \in BOOLEAN
    BY DEF AnyEngine
  <1>6. ChannelBound(e.n) = 2 * w + m + 4 * b + f + 1 + i + 1
    BY DEF ChannelBound
  <1> HIDE DEF b, w, m, f, i
  <1>7. /\ OwnPhases(e) \in Nat /\ LinkedPhases(e) \in Nat
        /\ OwnPhases(e) + LinkedPhases(e) <= 2 * b
    BY <1>2, <1>4, <1>5 DEF OwnPhases, LinkedPhases
  <1>8. Analysis(e) = w + f + b /\ Synthesis(e) = OwnPhases(e) + b + (w - b) + i + w
    BY <1>4 DEF Analysis, Synthesis, f, i
  <1> QED BY <1>2, <1>3, <1>6, <1>7, <1>8

(* The envelope, and the steps that all channels share. *)
LEMMA FormantCovered ==
  ASSUME NEW e, AnyEngine(e)
  PROVE  /\ FormantSteps(e) \in Int /\ FormantBound(e.n, e.formant) \in Int
         /\ FormantSteps(e) <= FormantBound(e.n, e.formant)
  <1> DEFINE b == CeilDiv(BinCount(e.n), 32)
             h == CeilDiv(e.n \div 2, 32)
             w == CeilDiv(e.n, 32)
             f == Transform(e.n, FALSE)
             i == Transform(e.n, TRUE)
  <1>1. /\ BinCount(e.n) \in Nat /\ e.n \in Nat /\ e.n \div 2 \in Nat
        /\ e.n \div 2 < BinCount(e.n)
    BY Halves DEF AnyEngine
  <1>2. b \in Int /\ w \in Int /\ h \in Int /\ h <= b
    <2>1. h <= b
      BY <1>1, CeilMonotone
    <2>2. b \in Int /\ w \in Int /\ h \in Int
      BY <1>1, CeilInt
    <2> QED BY <2>1, <2>2
  <1>3. f \in Int /\ i \in Int
    BY TransformInt DEF AnyEngine
  <1>4. /\ EveryBin(e) = b /\ Mirror(e) = w - b /\ Every(32, 1, e.n) = w - 1
        /\ Every(32, 2, e.n \div 2) = h - 1
    BY Loops
  <1>5. e.formant \in 0..2
    BY DEF AnyEngine
  <1>6. FormantSteps(e) =
          IF e.formant = 0 THEN 0
          ELSE 5 * b + (w - b) + (w - 1) + i + f + (IF e.formant = 2 THEN h - 1 ELSE 0)
    BY <1>4 DEF FormantSteps, f, i
  <1>7. FormantBound(e.n, e.formant) =
          IF e.formant = 0 THEN 0
          ELSE 2 * w + (IF e.formant = 2 THEN 5 ELSE 4) * b + f + 1 + i + 1
    BY DEF FormantBound
  <1> HIDE DEF b, h, w, f, i
  <1> QED BY <1>2, <1>3, <1>5, <1>6, <1>7

LEMMA SharedCovered ==
  ASSUME NEW e, AnyEngine(e)
  PROVE  /\ SharedSteps(e) \in Int /\ SharedBound(e.n, e.channels, e.mode) \in Int
         /\ SharedSteps(e) <= SharedBound(e.n, e.channels, e.mode)
  <1> DEFINE b == CeilDiv(BinCount(e.n), 32)
             p == CeilDiv(BinCount(e.n) - 1, 32)
             w == CeilDiv(e.n, 32)
             z == CeilDiv(BinCount(e.n), 64)
             y == CeilDiv(e.channels * BinCount(e.n), 64)
  <1>1. BinCount(e.n) \in Nat /\ e.n \in Nat /\ e.channels * BinCount(e.n) \in Int
    BY Halves DEF AnyEngine
  <1>2. b \in Nat /\ w \in Int /\ p \in Int /\ p <= b /\ z \in Int /\ y \in Int
    <2>1. p <= b
      BY <1>1, CeilMonotone
    <2>2. b \in Nat
      BY <1>1, CeilCovers
    <2>3. w \in Int /\ p \in Int /\ z \in Int /\ y \in Int
      BY <1>1, CeilInt
    <2> QED BY <2>1, <2>2, <2>3
  <1>3. /\ EveryBin(e) = b /\ Sample(e) = w /\ Every(32, 1, BinCount(e.n) - 1) = p - 1
        /\ Every(64, 0, BinCount(e.n)) = z /\ Every(64, 0, e.channels * BinCount(e.n)) = y
    BY Loops
  <1>4. e.mode \in Nat /\ e.first \in BOOLEAN
    BY DEF AnyEngine
  <1>5. PeakSteps(e) = IF e.mode = 0 THEN 0 ELSE (p - 1) + b
    BY <1>3 DEF PeakSteps
  <1>6. FuzzySteps(e) = IF e.mode >= 3 THEN (IF e.first THEN 5 ELSE 3) * b ELSE 0
    BY <1>3, <1>4 DEF FuzzySteps, Fuzzy
  <1>7. SharedBound(e.n, e.channels, e.mode) =
          (IF e.mode >= 3 THEN 9 ELSE 4) * b + w + 2 * y + z + 32
    BY DEF SharedBound
  <1>8. SharedSteps(e) = 2 * b + PeakSteps(e) + FuzzySteps(e) + w + 2 * y + z + 1
    BY <1>3 DEF SharedSteps
  <1> HIDE DEF b, p, w, z, y
  <1> QED BY <1>2, <1>4, <1>5, <1>6, <1>7, <1>8

-----------------------------------------------------------------------------
LEMMA OperationsCounted ==
  ASSUME NEW e, AnyEngine(e)
  PROVE  2 + CeilDiv(e.n * (e.channels + 1) * (LevelCount(e.n) + 20), 128 * e.hop) \in Int
  <1> DEFINE w == e.n * (e.channels + 1) * (LevelCount(e.n) + 20)
             d == 128 * e.hop
  <1>1. LevelCount(e.n) \in Nat
    <2> DEFINE n == e.n
    <2>1. \E b \in 0..31 : 2^b <= n /\ n < 2^(b + 1)
      BY DEF AnyEngine
    <2> HIDE DEF n
    <2>2. LevelCount(n) \in 0..31
      BY <2>1, LevelCounted
    <2> QED BY <2>2 DEF n
  <1>2. w \in Nat
    BY <1>1 DEF AnyEngine
  <1>3. d \in Nat \ {0}
    BY DEF AnyEngine
  <1> HIDE DEF w, d
  <1>4. CeilDiv(w, d) \in Nat
    BY <1>2, <1>3, CeilCovers
  <1> QED BY <1>4 DEF w, d

(* No frame takes more steps than frame_step_bound() allows it             *)
(* (execution_helpers.hpp:13-25), whatever work a frame has.               *)
THEOREM StepsBounded ==
  ASSUME NEW e, AnyEngine(e)
  PROVE  /\ Steps(e) \in Int
         /\ frame_step_bound(e.n, e.channels, e.formant, e.mode) \in Int
         /\ Steps(e) <= frame_step_bound(e.n, e.channels, e.formant, e.mode)
  <1> DEFINE x == Analysis(e) + Synthesis(e)
             y == ChannelBound(e.n)
             l == LinkedPhases(e)
             c == e.channels
             u == SharedSteps(e)
             f == FormantSteps(e)
             v == SharedBound(e.n, e.channels, e.mode)
             g == FormantBound(e.n, e.formant)
  <1>1. c * x \in Int /\ c * y \in Int /\ l \in Nat /\ c * y >= c * x + l
    BY ChannelSurplus, EveryChannel DEF AnyEngine
  <1>2. f \in Int /\ g \in Int /\ f <= g
    BY FormantCovered
  <1>3. u \in Int /\ v \in Int /\ u <= v
    BY SharedCovered
  <1>4. Steps(e) = c * x + f + u + l
    BY DEF Steps
  <1>5. frame_step_bound(e.n, e.channels, e.formant, e.mode) = c * y + g + v
    BY DEF frame_step_bound
  <1> HIDE DEF x, y, l, c, u, f, v, g
  <1> QED BY <1>1, <1>2, <1>3, <1>4, <1>5

(* The inputs of one hop bring at least the steps a frame is allowed, so   *)
(* every engine has finished a frame when the next one is due.             *)
THEOREM FramesInTime ==
  ASSUME \A e \in Engines : AnyEngine(e)
  PROVE  StepsInit => FrameInTime
  <1> SUFFICES ASSUME StepsInit PROVE FrameInTime
    OBVIOUS
  <1> DEFINE e == engine
             b == frame_step_bound(e.n, e.channels, e.formant, e.mode)
  <1>1. AnyEngine(e) /\ steps = Steps(e)
    BY DEF StepsInit
  <1>2. Steps(e) \in Int /\ b \in Int /\ Steps(e) <= b
    BY <1>1, StepsBounded
  <1>3. e.hop \in Nat \ {0}
    BY <1>1 DEF AnyEngine
  <1>4. CeilDiv(b, e.hop) \in Int /\ b <= e.hop * CeilDiv(b, e.hop)
    BY <1>2, <1>3, CeilCovers
  <1>5. StepsPerInput(e) \in Int /\ CeilDiv(b, e.hop) <= StepsPerInput(e)
    <2> DEFINE a == 2 + CeilDiv(e.n * (e.channels + 1) * (LevelCount(e.n) + 20), 128 * e.hop)
    <2>1. StepsPerInput(e) = Greater(a, CeilDiv(b, e.hop))
      BY DEF StepsPerInput
    <2>2. a \in Int
      BY <1>1, OperationsCounted
    <2> HIDE DEF a
    <2> QED BY <2>1, <2>2, <1>4 DEF Greater
  <1> HIDE DEF e, b
  <1>6. e.hop * CeilDiv(b, e.hop) <= e.hop * StepsPerInput(e)
    BY <1>3, <1>4, <1>5
  <1>7. e.hop * CeilDiv(b, e.hop) \in Int /\ e.hop * StepsPerInput(e) \in Int
    BY <1>3, <1>4, <1>5
  <1>8. Steps(e) <= e.hop * StepsPerInput(e)
    BY <1>2, <1>4, <1>6, <1>7
  <1> QED BY <1>1, <1>2, <1>8 DEF FrameInTime, e, b

-----------------------------------------------------------------------------
(* The state of the research engine.                                      *)
States ==
  [in : Int, start : Int, synth : Int, safe : Int, cleanup : Int, crop : Int,
   real : Int, expected : Int, emitted : Int, count : Int, ratio : Int,
   initialized : BOOLEAN, flushed : BOOLEAN]

LEMMA Rounded ==
  ASSUME NEW x \in Int
  PROVE  Round(x) \in Int /\ 4 * Round(x) <= x + 2 /\ x - 1 <= 4 * Round(x)
  BY DEF Round

LEMMA Floored ==
  ASSUME NEW x \in Int
  PROVE  x \div 4 \in Int /\ 4 * (x \div 4) <= x /\ x - 3 <= 4 * (x \div 4)
  OBVIOUS

(* What may be handed on, and what is still to be.                         *)
Worth(e, final) == IF final THEN Wanted(e) ELSE e.expected \div 4

LEMMA DueIs ==
  ASSUME NEW e \in States, NEW final \in BOOLEAN
  PROVE  /\ Worth(e, final) \in Int /\ Silent(e) \in Int /\ Due(e, final) \in Int
         /\ Silent(e) = Larger(0, e.crop - e.cleanup)
         /\ Due(e, final) = Larger(0, Smaller(e.safe, e.crop + Worth(e, final)) - e.cleanup)
         /\ 4 * Worth(e, final) <= e.expected + 2
         /\ e.expected - 3 <= 4 * Worth(e, final)
<1>1. /\ e.safe \in Int /\ e.crop \in Int /\ e.cleanup \in Int /\ e.expected \in Int
  BY DEF States
<1>2. /\ Worth(e, final) \in Int
      /\ 4 * Worth(e, final) <= e.expected + 2 /\ e.expected - 3 <= 4 * Worth(e, final)
  <2>1. CASE final
    <3>1. Worth(e, final) = Round(e.expected)
      BY <2>1, Zenon DEF Worth, Wanted
    <3>2. Round(e.expected) \in Int /\ 4 * Round(e.expected) <= e.expected + 2
          /\ e.expected - 1 <= 4 * Round(e.expected)
      BY <1>1, Rounded, Zenon
    <3>3. QED
      BY <1>1, <3>1, <3>2
  <2>2. CASE ~final
    <3>1. Worth(e, final) = e.expected \div 4
      BY <2>2, Zenon DEF Worth
    <3>2. QED
      BY <1>1, <3>1, Floored
  <2>3. QED
    BY <2>1, <2>2
<1>3. Silent(e) = Larger(0, e.crop - e.cleanup)
  BY DEF Silent
<1>4. Due(e, final) = Larger(0, Smaller(e.safe, e.crop + Worth(e, final)) - e.cleanup)
  BY DEF Due, Worth, Wanted
<1>5. QED
  BY <1>1, <1>2, <1>3, <1>4 DEF Larger, Smaller

(* What draining leaves, if the answer of it is b.                         *)
SameInput(a, b) ==
  /\ b.in = a.in /\ b.start = a.start /\ b.synth = a.synth /\ b.safe = a.safe
  /\ b.crop = a.crop /\ b.real = a.real /\ b.expected = a.expected
  /\ b.ratio = a.ratio /\ b.initialized = a.initialized /\ b.flushed = a.flushed
Drained(a, b, final) ==
  /\ b \in States /\ SameInput(a, b)
  /\ a.cleanup <= b.cleanup
  /\ b.cleanup + Due(b, final) = a.cleanup + Due(a, final)
  /\ a.count <= b.count /\ b.count <= FifoCap
  /\ b.count <= a.count + b.cleanup - a.cleanup
  /\ b.emitted = Larger(0, b.cleanup - b.crop)
  /\ Due(b, final) = 0 \/ (b.count = FifoCap /\ b.crop <= b.cleanup)

Drainable(e) ==
  /\ e \in States /\ 0 <= e.count /\ e.count <= FifoCap /\ FifoCap \in Int
  /\ e.emitted = Larger(0, e.cleanup - e.crop)

LEMMA DrainDrains ==
  ASSUME NEW a, Drainable(a), NEW final \in BOOLEAN
  PROVE  Drained(a, Drain(a, final), final)
<1> DEFINE n == Smaller(Due(a, final), Silent(a) + FifoCap - a.count)
<1> DEFINE out == Larger(0, n - Silent(a))
<1> DEFINE b == Drain(a, final)
<1>1. /\ a \in States /\ a.cleanup \in Int /\ a.count \in Int /\ a.emitted \in Int
      /\ a.safe \in Int /\ a.crop \in Int
  BY DEF Drainable, States
<1>2. /\ b \in States /\ SameInput(a, b)
      /\ b.cleanup = a.cleanup + n /\ b.count = a.count + out
      /\ b.emitted = a.emitted + out
  <2>1. b = MovedOut(a, n, out)
    BY Zenon DEF Drain, DrainBy
  <2>2. n \in Int /\ out \in Int
    BY <1>1, DueIs DEF Smaller, Larger, Drainable
  <2> HIDE DEF b, n, out
  <2>3. QED
    <3>1. b = [[[a EXCEPT !.cleanup = @ + n] EXCEPT !.count = @ + out]
                EXCEPT !.emitted = @ + out]
      BY <2>1, Zenon DEF MovedOut
    <3>2. b \in States
      <4> DEFINE b1 == [a EXCEPT !.cleanup = @ + n]
      <4> DEFINE b2 == [b1 EXCEPT !.count = @ + out]
      <4> DEFINE b3 == [b2 EXCEPT !.emitted = @ + out]
      <4>1. b1 \in States /\ b1.count = a.count /\ b1.emitted = a.emitted
        BY <1>1, <2>2 DEF States
      <4> HIDE DEF b1
      <4>2. b2 \in States /\ b2.emitted = a.emitted
        BY <1>1, <2>2, <4>1 DEF States
      <4> HIDE DEF b2
      <4>3. b3 \in States
        BY <1>1, <2>2, <4>2 DEF States
      <4>4. QED
        BY <3>1, <4>3 DEF b1, b2
    <3>3. /\ b.cleanup = a.cleanup + n /\ b.count = a.count + out
          /\ b.emitted = a.emitted + out
      BY <1>1, <2>2, <3>1 DEF States
    <3>4. SameInput(a, b)
      BY <1>1, <3>1 DEF States, SameInput
    <3>5. QED
      BY <3>2, <3>3, <3>4
<1> HIDE DEF b
<1>3. Worth(b, final) = Worth(a, final)
  BY <1>2 DEF Worth, Wanted, SameInput
<1> DEFINE t == Smaller(a.safe, a.crop + Worth(a, final))
<1>4. t \in Int /\ Due(a, final) = Larger(0, t - a.cleanup)
      /\ Due(b, final) = Larger(0, t - b.cleanup)
      /\ Silent(a) = Larger(0, a.crop - a.cleanup)
  BY <1>1, <1>2, <1>3, DueIs DEF SameInput, Smaller
<1> HIDE DEF t
<1>5. b.crop = a.crop
  BY <1>2 DEF SameInput
<1>6. /\ a.cleanup <= b.cleanup
      /\ b.cleanup + Due(b, final) = a.cleanup + Due(a, final)
      /\ a.count <= b.count /\ b.count <= FifoCap
      /\ b.count <= a.count + b.cleanup - a.cleanup
  BY <1>1, <1>2, <1>4 DEF Drainable, Larger, Smaller
<1>7. b.emitted = Larger(0, b.cleanup - b.crop)
  BY <1>1, <1>2, <1>4, <1>5 DEF Drainable, Larger, Smaller
<1>8. Due(b, final) = 0 \/ (b.count = FifoCap /\ b.crop <= b.cleanup)
  <2>1. FifoCap \in Int /\ 0 <= FifoCap - a.count
    BY <1>1 DEF Drainable
  <2>2. CASE n = Due(a, final)
    BY <1>1, <1>2, <1>4, <2>2 DEF Larger
  <2>3. CASE n = Silent(a) + FifoCap - a.count
    <3>1. Silent(a) \in Int /\ a.crop - a.cleanup <= Silent(a)
      BY <1>1, <1>4 DEF Larger
    <3>2. out = FifoCap - a.count
      BY <1>1, <2>1, <2>3, <3>1 DEF Larger
    <3>3. b.count = FifoCap /\ b.crop <= b.cleanup
      BY <1>1, <1>2, <1>5, <2>1, <2>3, <3>1, <3>2
    <3>4. QED
      BY <3>3
  <2>4. QED
    BY <2>2, <2>3 DEF Smaller
<1>9. QED
  BY <1>2, <1>6, <1>7, <1>8 DEF Drained, b

LEMMA SameDue ==
  ASSUME NEW a \in States, NEW b \in States, NEW final \in BOOLEAN,
         a.safe = b.safe, a.crop = b.crop, a.expected = b.expected
  PROVE  /\ a.cleanup = b.cleanup => Due(a, final) = Due(b, final)
         /\ Worth(a, final) = Worth(b, final)
  BY Zenon DEF Due, Worth, Wanted

(* A window is synthesised.                                                *)
Framed(i) == Advanced([i EXCEPT !.safe = Round(i.synth)])

LEMMA AdvancedFields ==
  ASSUME NEW e \in States, Hop \in Int
  PROVE  /\ Advanced(e) \in States
         /\ Advanced(e).start = e.start + Hop
         /\ Advanced(e).synth = e.synth + Hop * e.ratio
         /\ Advanced(e).initialized = TRUE
         /\ Advanced(e).in = e.in /\ Advanced(e).safe = e.safe
         /\ Advanced(e).cleanup = e.cleanup /\ Advanced(e).crop = e.crop
         /\ Advanced(e).real = e.real /\ Advanced(e).expected = e.expected
         /\ Advanced(e).emitted = e.emitted /\ Advanced(e).count = e.count
         /\ Advanced(e).ratio = e.ratio /\ Advanced(e).flushed = e.flushed
<1> DEFINE x == e.synth + Hop * e.ratio
<1> DEFINE y == e.start + Hop
<1>1. x \in Int /\ y \in Int
  BY DEF States
<1> DEFINE a == [e EXCEPT !.initialized = TRUE, !.synth = x, !.start = y]
<1>2. Advanced(e) = a
  BY Zenon DEF Advanced
<1> HIDE DEF x, y
<1> DEFINE e1 == [e EXCEPT !.initialized = TRUE]
<1> DEFINE e2 == [e1 EXCEPT !.synth = x]
<1> DEFINE e3 == [e2 EXCEPT !.start = y]
<1>3. e1 \in States
  <2> SUFFICES ASSUME NEW yes \in BOOLEAN
               PROVE  [e EXCEPT !.initialized = yes] \in States
    OBVIOUS
  <2>1. QED
    BY DEF States
<1>4. a = e3
  BY Zenon DEF e1, e2, e3
<1>5. e3 \in States
  <2>1. e2 \in States
    BY <1>1, <1>3 DEF States
  <2> HIDE DEF e2
  <2>2. QED
    BY <1>1, <2>1 DEF States
<1> HIDE DEF e1, e2, e3
<1>6. /\ a.start = y /\ a.synth = x /\ a.initialized = TRUE
      /\ a.in = e.in /\ a.safe = e.safe
      /\ a.cleanup = e.cleanup /\ a.crop = e.crop
      /\ a.real = e.real /\ a.expected = e.expected
      /\ a.emitted = e.emitted /\ a.count = e.count
      /\ a.ratio = e.ratio /\ a.flushed = e.flushed
  BY DEF States
<1>7. QED
  BY <1>2, <1>4, <1>5, <1>6 DEF x, y

LEMMA FrameMoves ==
  ASSUME NEW i, Drainable(i), Hop \in Int, N \in Int,
         NEW final \in BOOLEAN, final = i.flushed
  PROVE  Drained(IF i.in >= i.start + N THEN Framed(i) ELSE i,
                 Drain(ProcessAvailable(i), final), final)
<1>1. CASE ~(i.in >= i.start + N)
  <2>1. ProcessAvailable(i) = i
    BY <1>1, Zenon DEF ProcessAvailable
  <2>2. QED
    BY <1>1, <2>1, DrainDrains, Zenon
<1>2. CASE i.in >= i.start + N
  <2> DEFINE j == [i EXCEPT !.safe = Round(i.synth)]
  <2> DEFINE b == Drain(j, final)
  <2> DEFINE p == Advanced(b)
  <2> DEFINE q == Drain(p, final)
  <2> DEFINE k == Advanced(j)
  <2>1. ProcessAvailable(i) = p
    BY <1>2, Zenon DEF ProcessAvailable, ProcessFrame
  <2>2. Drainable(j)
    <3>1. i \in States /\ Round(i.synth) \in Int
      BY Rounded DEF Drainable, States
    <3>2. /\ j \in States /\ j.count = i.count /\ j.emitted = i.emitted
          /\ j.cleanup = i.cleanup /\ j.crop = i.crop
      BY <3>1 DEF States
    <3>3. QED
      BY <3>2 DEF Drainable
  <2> HIDE DEF j
  <2>3. Drained(j, b, final)
    BY <2>2, DrainDrains
  <2> HIDE DEF b
  <2>4. b \in States /\ j \in States /\ SameInput(j, b)
    BY <2>2, <2>3 DEF Drained, Drainable
  <2>5. /\ p \in States /\ p.start = b.start + Hop
        /\ p.synth = b.synth + Hop * b.ratio /\ p.initialized = TRUE
        /\ p.in = b.in /\ p.safe = b.safe /\ p.cleanup = b.cleanup
        /\ p.crop = b.crop /\ p.real = b.real /\ p.expected = b.expected
        /\ p.emitted = b.emitted /\ p.count = b.count
        /\ p.ratio = b.ratio /\ p.flushed = b.flushed
    BY <2>4, AdvancedFields
  <2>6. /\ k \in States /\ k.start = j.start + Hop
        /\ k.synth = j.synth + Hop * j.ratio /\ k.initialized = TRUE
        /\ k.in = j.in /\ k.safe = j.safe /\ k.cleanup = j.cleanup
        /\ k.crop = j.crop /\ k.real = j.real /\ k.expected = j.expected
        /\ k.emitted = j.emitted /\ k.count = j.count
        /\ k.ratio = j.ratio /\ k.flushed = j.flushed
    BY <2>4, AdvancedFields
  <2> HIDE DEF p, k
  <2>7. Drainable(p)
    <3>1. /\ 0 <= b.count /\ b.count <= FifoCap /\ FifoCap \in Int
          /\ b.emitted = Larger(0, b.cleanup - b.crop)
      BY <2>2, <2>3, <2>4 DEF Drainable, Drained, States
    <3>2. QED
      BY <2>5, <3>1 DEF Drainable
  <2>8. Drained(p, q, final)
    BY <2>7, DrainDrains
  <2> HIDE DEF q
  <2>9. Due(p, final) = Due(b, final) /\ Due(k, final) = Due(j, final)
    BY <2>4, <2>5, <2>6, SameDue
  <2>10. SameInput(k, q)
    <3>1. SameInput(p, q)
      BY <2>8 DEF Drained
    <3>2. QED
      BY <2>4, <2>5, <2>6, <3>1, Zenon DEF SameInput
  <2>11. /\ k.cleanup <= q.cleanup
         /\ q.cleanup + Due(q, final) = k.cleanup + Due(k, final)
         /\ k.count <= q.count /\ q.count <= FifoCap
         /\ q.count <= k.count + q.cleanup - k.cleanup
    <3>1. /\ j.cleanup \in Int /\ b.cleanup \in Int /\ q.cleanup \in Int
          /\ j.count \in Int /\ b.count \in Int /\ q.count \in Int
          /\ q \in States
      BY <2>4, <2>8 DEF States, Drained
    <3>2. /\ Due(j, final) \in Int /\ Due(b, final) \in Int
          /\ Due(q, final) \in Int
      BY <2>4, <3>1, DueIs
    <3>3. /\ j.cleanup <= b.cleanup
          /\ b.cleanup + Due(b, final) = j.cleanup + Due(j, final)
          /\ j.count <= b.count
          /\ b.count <= j.count + b.cleanup - j.cleanup
      BY <2>3 DEF Drained
    <3>4. /\ b.cleanup <= q.cleanup
          /\ q.cleanup + Due(q, final) = b.cleanup + Due(b, final)
          /\ b.count <= q.count /\ q.count <= FifoCap
          /\ q.count <= b.count + q.cleanup - b.cleanup
      BY <2>5, <2>8, <2>9 DEF Drained
    <3>5. FifoCap \in Int
      BY <2>2 DEF Drainable
    <3>6. QED
      BY <2>6, <2>9, <3>1, <3>2, <3>3, <3>4, <3>5
  <2>12. Drained(k, q, final)
    BY <2>8, <2>10, <2>11 DEF Drained
  <2>13. QED
    BY <1>2, <2>1, <2>12, Zenon DEF Framed, j, k, q
<1>3. QED
  BY <1>1, <1>2

Half == N \div 2
Ahead(e) == e.start + N - e.in

(* What holds of the engine between two turns of a loop.                   *)
Fits(e) ==
  /\ e \in States
  /\ 1 <= e.ratio /\ e.ratio <= 16
  /\ 1 <= Ahead(e) /\ Ahead(e) <= Half /\ (e.initialized => Ahead(e) <= Hop)
  /\ ~e.initialized => e.synth = 0 /\ e.safe = 0 /\ e.cleanup = 0
  /\ NothingIn(e) /\ ~e.flushed =>
       Ahead(e) = Half /\ e.expected = 0 /\ e.crop = Cropped(e.ratio)
  /\ 0 <= e.real /\ 0 <= e.crop /\ 0 <= e.expected
  /\ 0 <= e.count /\ e.count <= FifoCap
  /\ e.emitted = Larger(0, e.cleanup - e.crop)
  /\ 0 <= e.cleanup /\ e.cleanup <= e.crop + Worth(e, e.flushed)
  /\ Round(e.synth) - e.safe <= 4 * Hop

LEMMA SizesAre ==
  ASSUME ResearchSizes
  PROVE  /\ N \in Int /\ Hop \in Int /\ FifoCap \in Int /\ Half \in Int
         /\ 2 * Half = N /\ 1 <= Hop /\ Hop <= Half /\ 8 * Hop <= FifoCap
  BY DEF ResearchSizes, Half

(* A frame that came in, of the input or of zeros.                         *)
Longer(e, i) ==
  /\ i \in States /\ i.in = e.in + 1
  /\ i.start = e.start /\ i.synth = e.synth /\ i.safe = e.safe
  /\ i.cleanup = e.cleanup /\ i.crop = e.crop /\ i.emitted = e.emitted
  /\ i.count = e.count /\ i.ratio = e.ratio /\ i.initialized = e.initialized
  /\ i.flushed = e.flushed
  /\ \/ e.flushed /\ i.real = e.real /\ i.expected = e.expected
     \/ ~e.flushed /\ i.real = e.real + 1 /\ i.expected = e.expected + e.ratio

(* What synthesising does to it before anything is handed on.              *)
Turned(e, k) ==
  /\ k \in States /\ k.in = e.in + 1
  /\ k.cleanup = e.cleanup /\ k.crop = e.crop /\ k.emitted = e.emitted
  /\ k.count = e.count /\ k.ratio = e.ratio /\ k.flushed = e.flushed
  /\ \/ e.flushed /\ k.real = e.real /\ k.expected = e.expected
     \/ ~e.flushed /\ k.real = e.real + 1 /\ k.expected = e.expected + e.ratio
  /\ \/ /\ Ahead(e) > 1 /\ k.start = e.start /\ k.synth = e.synth
        /\ k.safe = e.safe /\ k.initialized = e.initialized
     \/ /\ Ahead(e) = 1 /\ k.start = e.start + Hop /\ k.initialized = TRUE
        /\ k.synth = e.synth + Hop * e.ratio /\ k.safe = Round(e.synth)

LEMMA LongerTurns ==
  ASSUME ResearchSizes, NEW e, Fits(e), NEW i, Longer(e, i)
  PROVE  \E k : /\ Turned(e, k)
                /\ Drained(k, Drain(ProcessAvailable(i), e.flushed), e.flushed)
<1> DEFINE k == IF i.in >= i.start + N THEN Framed(i) ELSE i
<1>1. /\ N \in Int /\ Hop \in Int /\ FifoCap \in Int
  BY SizesAre
<1>2. /\ e \in States /\ 0 <= e.count /\ e.count <= FifoCap
      /\ e.emitted = Larger(0, e.cleanup - e.crop) /\ 1 <= Ahead(e)
      /\ e.start \in Int /\ e.in \in Int /\ e.flushed \in BOOLEAN
  BY DEF Fits, States
<1>3. Drainable(i) /\ i.flushed = e.flushed
  BY <1>1, <1>2 DEF Longer, Drainable
<1>4. Drained(k, Drain(ProcessAvailable(i), e.flushed), e.flushed)
  BY <1>1, <1>2, <1>3, FrameMoves, Zenon
<1>5. Turned(e, k)
  <2>1. CASE i.in >= i.start + N
    <3>1. Ahead(e) = 1
      BY <1>1, <1>2, <2>1 DEF Ahead, Longer
    <3> DEFINE j == [i EXCEPT !.safe = Round(i.synth)]
    <3>2. /\ j \in States /\ j.safe = Round(i.synth)
          /\ j.in = i.in /\ j.start = i.start /\ j.synth = i.synth
          /\ j.cleanup = i.cleanup /\ j.crop = i.crop /\ j.emitted = i.emitted
          /\ j.count = i.count /\ j.ratio = i.ratio
          /\ j.real = i.real /\ j.expected = i.expected
      <4>1. i \in States /\ Round(i.synth) \in Int
        BY Rounded DEF Longer, States
      <4>2. QED
        BY <4>1 DEF States
    <3>3. j.flushed = i.flushed
      <4>1. i \in States
        BY DEF Longer
      <4>2. QED
        BY <4>1, Zenon DEF States
    <3>4. k = Advanced(j)
      BY <2>1, Zenon DEF Framed
    <3> HIDE DEF j, k
    <3>5. /\ Advanced(j) \in States
          /\ Advanced(j).start = j.start + Hop
          /\ Advanced(j).synth = j.synth + Hop * j.ratio
          /\ Advanced(j).initialized = TRUE
          /\ Advanced(j).in = j.in /\ Advanced(j).safe = j.safe
          /\ Advanced(j).cleanup = j.cleanup /\ Advanced(j).crop = j.crop
          /\ Advanced(j).real = j.real /\ Advanced(j).expected = j.expected
          /\ Advanced(j).emitted = j.emitted /\ Advanced(j).count = j.count
          /\ Advanced(j).ratio = j.ratio /\ Advanced(j).flushed = j.flushed
      BY <1>1, <3>2, AdvancedFields, Zenon
    <3>6. QED
      BY <3>1, <3>2, <3>3, <3>4, <3>5, Zenon DEF Turned, Longer
  <2>2. CASE ~(i.in >= i.start + N)
    <3>1. Ahead(e) > 1
      BY <1>1, <1>2, <2>2 DEF Ahead, Longer
    <3>2. k = i
      BY <2>2, Zenon
    <3>3. QED
      BY <3>1, <3>2, Zenon DEF Turned, Longer
  <2>3. QED
    BY <2>1, <2>2
<1>6. QED
  BY <1>4, <1>5, Zenon

(* What one turn of a loop leaves.                                         *)
Flows(e, q) ==
  /\ q.ratio = e.ratio /\ q.flushed = e.flushed /\ q.crop = e.crop
  /\ e.cleanup <= q.cleanup /\ e.expected <= q.expected
  /\ IF e.flushed THEN q.real = e.real /\ q.expected = e.expected
     ELSE q.real = e.real + 1 /\ q.expected = e.expected + e.ratio
  /\ q.ratio * Ahead(q) - q.synth = e.ratio * Ahead(e) - e.synth - e.ratio
  /\ q.count + Due(q, e.flushed) <= e.count + Due(e, e.flushed) + 4 * Hop
  /\ Due(q, e.flushed) <= Due(e, e.flushed) + 4 * Hop
  /\ Due(q, e.flushed) = 0 \/ (q.count = FifoCap /\ q.crop <= q.cleanup)
  /\ Round(q.synth) <= Round(e.synth) + 4 * Hop

LEMMA TurnFlows ==
  ASSUME ResearchSizes, NEW e, Fits(e), NEW k, Turned(e, k),
         NEW q, Drained(k, q, e.flushed)
  PROVE  Fits(q) /\ Flows(e, q)
<1> DEFINE f == e.flushed
<1> DEFINE p == Hop * e.ratio
<1>1. /\ N \in Int /\ Hop \in Int /\ FifoCap \in Int /\ Half \in Int
      /\ 1 <= Hop /\ Hop <= Half
  BY SizesAre
<1>2. /\ e.in \in Int /\ e.start \in Int /\ e.synth \in Int /\ e.safe \in Int
      /\ e.cleanup \in Int /\ e.crop \in Int /\ e.real \in Int
      /\ e.expected \in Int /\ e.emitted \in Int /\ e.count \in Int
      /\ e.ratio \in Int /\ f \in BOOLEAN
  BY DEF Fits, States
<1>3. /\ q.in \in Int /\ q.start \in Int /\ q.synth \in Int /\ q.safe \in Int
      /\ q.cleanup \in Int /\ q.crop \in Int /\ q.real \in Int
      /\ q.expected \in Int /\ q.emitted \in Int /\ q.count \in Int
      /\ q.ratio \in Int /\ q \in States
  BY DEF Drained, States
<1>4. p \in Int /\ Hop <= p /\ p <= 16 * Hop
  <2>1. 1 <= e.ratio /\ e.ratio <= 16
    BY DEF Fits
  <2>2. QED
    BY <1>1, <1>2, <2>1
<1> HIDE DEF p
<1>5. /\ q.in = e.in + 1 /\ q.crop = e.crop /\ q.ratio = e.ratio
      /\ q.flushed = f
      /\ \/ f /\ q.real = e.real /\ q.expected = e.expected
         \/ ~f /\ q.real = e.real + 1 /\ q.expected = e.expected + e.ratio
      /\ \/ /\ Ahead(e) > 1 /\ q.start = e.start /\ q.synth = e.synth
            /\ q.safe = e.safe /\ q.initialized = e.initialized
         \/ /\ Ahead(e) = 1 /\ q.start = e.start + Hop /\ q.initialized = TRUE
            /\ q.synth = e.synth + p /\ q.safe = Round(e.synth)
  BY Zenon DEF Turned, Drained, SameInput, p
<1>6. /\ k \in States /\ k.cleanup = e.cleanup /\ k.count = e.count
      /\ k.safe = q.safe /\ k.crop = e.crop /\ k.expected = q.expected
  BY Zenon DEF Turned, Drained, SameInput
<1>7. /\ e.cleanup <= q.cleanup
      /\ q.cleanup + Due(q, f) = e.cleanup + Due(k, f)
      /\ e.count <= q.count /\ q.count <= FifoCap
      /\ q.count <= e.count + q.cleanup - e.cleanup
      /\ q.emitted = Larger(0, q.cleanup - q.crop)
      /\ Due(q, f) = 0 \/ (q.count = FifoCap /\ q.crop <= q.cleanup)
  BY <1>6 DEF Drained
<1>8. /\ Round(e.synth) \in Int /\ Round(q.synth) \in Int
      /\ 4 * Round(e.synth) <= e.synth + 2 /\ e.synth - 1 <= 4 * Round(e.synth)
      /\ 4 * Round(q.synth) <= q.synth + 2 /\ q.synth - 1 <= 4 * Round(q.synth)
  BY <1>2, <1>3, Rounded
<1>9. Round(q.synth) <= Round(e.synth) + 4 * Hop
  BY <1>1, <1>2, <1>3, <1>4, <1>5, <1>8
<1>10. Round(q.synth) - q.safe <= 4 * Hop
  <2>1. Round(e.synth) - e.safe <= 4 * Hop
    BY DEF Fits
  <2>2. CASE q.safe = Round(e.synth)
    BY <1>1, <1>3, <1>8, <1>9, <2>2
  <2>3. CASE q.synth = e.synth /\ q.safe = e.safe
    BY <2>1, <2>3
  <2>4. QED
    BY <1>5, <2>2, <2>3
<1>11. q.safe <= e.safe + 4 * Hop
  <2>1. Round(e.synth) - e.safe <= 4 * Hop
    BY DEF Fits
  <2>2. QED
    BY <1>1, <1>2, <1>3, <1>5, <1>8, <2>1
<1>12. /\ Worth(e, f) \in Int /\ Worth(k, f) \in Int /\ Worth(q, f) = Worth(k, f)
       /\ Due(e, f) \in Int /\ Due(k, f) \in Int /\ Due(q, f) \in Int
       /\ Due(e, f) = Larger(0, Smaller(e.safe, e.crop + Worth(e, f)) - e.cleanup)
       /\ Due(k, f) = Larger(0, Smaller(q.safe, e.crop + Worth(k, f)) - e.cleanup)
       /\ 0 <= Due(e, f) /\ 0 <= Due(q, f)
  <2>1. e \in States /\ f \in BOOLEAN
    BY <1>2 DEF Fits
  <2>2. /\ Worth(e, f) \in Int /\ Due(e, f) \in Int
        /\ Due(e, f) = Larger(0, Smaller(e.safe, e.crop + Worth(e, f)) - e.cleanup)
    BY <2>1, DueIs
  <2>3. /\ Worth(k, f) \in Int /\ Due(k, f) \in Int
        /\ Due(k, f) = Larger(0, Smaller(q.safe, e.crop + Worth(k, f)) - e.cleanup)
    BY <1>6, <2>1, DueIs
  <2>4. /\ Due(q, f) \in Int
        /\ Due(q, f) = Larger(0, Smaller(q.safe, q.crop + Worth(q, f)) - q.cleanup)
    BY <1>3, <2>1, DueIs
  <2>5. Worth(q, f) = Worth(k, f)
    BY <1>6, Zenon DEF Worth, Wanted
  <2>6. 0 <= Due(e, f) /\ 0 <= Due(q, f)
    BY <2>2, <2>4 DEF Larger
  <2>7. QED
    BY <2>2, <2>3, <2>4, <2>5, <2>6
<1>13. Worth(e, f) <= Worth(k, f) /\ Worth(k, f) <= Worth(e, f) + 4
  <2>1. 1 <= e.ratio /\ e.ratio <= 16
    BY DEF Fits
  <2>2. CASE f
    <3>1. Worth(e, f) = Worth(k, f)
      BY <1>5, <1>6, <2>2, Zenon DEF Worth, Wanted
    <3>2. QED
      BY <1>12, <3>1
  <2>3. CASE ~f
    <3>1. Worth(e, f) = e.expected \div 4 /\ Worth(k, f) = q.expected \div 4
      BY <1>6, <2>3, Zenon DEF Worth
    <3>2. q.expected = e.expected + e.ratio
      BY <1>5, <2>3
    <3>3. QED
      BY <1>2, <2>1, <3>1, <3>2
  <2>4. QED
    BY <2>2, <2>3
<1>14. Due(k, f) <= Due(e, f) + 4 * Hop
  BY <1>1, <1>2, <1>3, <1>11, <1>12, <1>13 DEF Larger, Smaller
<1>15. q.cleanup <= q.crop + Worth(q, f)
  <2>1. e.cleanup <= e.crop + Worth(e, f)
    BY DEF Fits
  <2>2. QED
    BY <1>2, <1>3, <1>5, <1>7, <1>12, <1>13, <2>1 DEF Larger, Smaller
<1>16. /\ 1 <= Ahead(q) /\ Ahead(q) <= Half /\ (q.initialized => Ahead(q) <= Hop)
       /\ q.ratio * Ahead(q) - q.synth = e.ratio * Ahead(e) - e.synth - e.ratio
  <2>1. /\ 1 <= Ahead(e) /\ Ahead(e) <= Half /\ (e.initialized => Ahead(e) <= Hop)
    BY DEF Fits
  <2>2. Ahead(e) \in Int /\ Ahead(q) \in Int
    BY <1>1, <1>2, <1>3 DEF Ahead
  <2>3. CASE Ahead(e) > 1 /\ q.start = e.start /\ q.synth = e.synth
             /\ q.initialized = e.initialized
    <3>1. Ahead(q) = Ahead(e) - 1
      BY <1>1, <1>2, <1>5, <2>3 DEF Ahead
    <3>2. e.ratio * (Ahead(e) - 1) = e.ratio * Ahead(e) - e.ratio
      BY <1>2, <2>2
    <3>3. e.ratio * Ahead(e) \in Int
      BY <1>2, <2>2
    <3>4. QED
      BY <1>1, <1>2, <1>5, <2>1, <2>2, <2>3, <3>1, <3>2, <3>3
  <2>4. CASE Ahead(e) = 1 /\ q.start = e.start + Hop /\ q.synth = e.synth + p
    <3>1. Ahead(q) = Hop
      BY <1>1, <1>2, <1>5, <2>4 DEF Ahead
    <3>2. e.ratio * Ahead(e) = e.ratio /\ e.ratio * Hop = p
      BY <1>1, <1>2, <2>4 DEF p
    <3>3. QED
      BY <1>1, <1>2, <1>4, <1>5, <2>4, <3>1, <3>2
  <2>5. QED
    BY <1>5, <2>3, <2>4
<1>17. ~q.initialized => q.synth = 0 /\ q.safe = 0 /\ q.cleanup = 0
  <2> SUFFICES ASSUME ~q.initialized PROVE q.synth = 0 /\ q.safe = 0 /\ q.cleanup = 0
    OBVIOUS
  <2>1. q.synth = e.synth /\ q.safe = e.safe /\ ~e.initialized
    BY <1>5, Zenon
  <2>2. e.synth = 0 /\ e.safe = 0 /\ e.cleanup = 0
    BY <2>1 DEF Fits
  <2>3. Due(k, f) = 0
    BY <1>12, <1>2, <2>1, <2>2 DEF Larger, Smaller
  <2>4. QED
    BY <1>3, <1>7, <1>12, <2>1, <2>2, <2>3
<1>18. 0 <= q.real /\ 0 <= q.crop /\ 0 <= q.expected /\ 0 <= q.cleanup
       /\ 0 <= q.count /\ e.expected <= q.expected
  <2>1. /\ 0 <= e.real /\ 0 <= e.crop /\ 0 <= e.expected /\ 0 <= e.cleanup
        /\ 0 <= e.count /\ 1 <= e.ratio
    BY DEF Fits
  <2>2. QED
    BY <1>2, <1>3, <1>5, <1>7, <2>1
<1>19. ~f => q.real # 0
  <2>1. 0 <= e.real
    BY DEF Fits
  <2>2. QED
    BY <1>2, <1>5, <2>1
<1>20. 1 <= q.ratio /\ q.ratio <= 16
  BY <1>5 DEF Fits
<1>21. Fits(q)
  BY <1>3, <1>5, <1>7, <1>10, <1>15, <1>16, <1>17, <1>18, <1>19, <1>20
     DEF Fits, NothingIn
<1>22. Flows(e, q)
  <2>1. /\ q.count + Due(q, f) <= e.count + Due(e, f) + 4 * Hop
        /\ Due(q, f) <= Due(e, f) + 4 * Hop
    BY <1>1, <1>2, <1>3, <1>7, <1>12, <1>14
  <2>2. IF f THEN q.real = e.real /\ q.expected = e.expected
        ELSE q.real = e.real + 1 /\ q.expected = e.expected + e.ratio
    BY <1>5, Zenon
  <2>3. QED
    BY <1>5, <1>7, <1>9, <1>16, <1>18, <2>1, <2>2, Zenon DEF Flows
<1>23. QED
  BY <1>21, <1>22

(* What the input so far and the padding are worth at the next window, in  *)
(* quarters, past what is synthesised: a constant while the ratio is.      *)
Surplus(e) == e.expected + 4 * e.crop - e.synth + e.ratio * Ahead(e)
Near(e, v) ==
  /\ N - 2 - v * Half <= Surplus(e)
  /\ Surplus(e) <= 16 * N + 2 + v * Half

Lag(e) == Round(e.synth) - e.cleanup
LagLimit == 64 * Hop + 14 * N + N * MoveLimit + 14

(* A ratio chosen before the first frame.                                  *)
LEMMA FreshNear ==
  ASSUME ResearchSizes, NEW e \in States, 1 <= e.ratio, e.ratio <= 16,
         e.crop = Cropped(e.ratio), Ahead(e) = Half, e.expected = 0,
         e.synth = 0, NEW v \in Int, 0 <= v
  PROVE  Near(e, v) /\ 0 <= e.crop
<1> DEFINE x == Half * e.ratio
<1> DEFINE c == Round(x)
<1>1. /\ N \in Int /\ Half \in Int /\ 2 * Half = N /\ 1 <= Half /\ e.ratio \in Int
  BY SizesAre DEF States
<1>2. x \in Int /\ Half <= x /\ x <= 16 * Half /\ e.ratio * Half = x
  BY <1>1
<1>3. v * Half \in Int /\ 0 <= v * Half
  BY <1>1
<1> HIDE DEF x
<1>4. c \in Int /\ 4 * c <= x + 2 /\ x - 1 <= 4 * c
  BY <1>2, Rounded
<1>5. e.crop = c
  BY Zenon DEF Cropped, Half, x
<1> HIDE DEF c
<1>6. Surplus(e) = 4 * c + x
  <2>1. Surplus(e) = 0 + 4 * c - 0 + x
    BY <1>2, <1>5 DEF Surplus
  <2>2. QED
    BY <1>2, <1>4, <2>1
<1>7. QED
  BY <1>1, <1>2, <1>3, <1>4, <1>5, <1>6 DEF Near

LEMMA FreshFits ==
  ASSUME ResearchSizes, NEW ratio \in Int, 1 <= ratio, ratio <= 16
  PROVE  /\ Fits(Fresh(ratio)) /\ Near(Fresh(ratio), 0) /\ ~Fresh(ratio).flushed
         /\ Due(Fresh(ratio), Fresh(ratio).flushed) = 0
<1> DEFINE e == Fresh(ratio)
<1> DEFINE c == Cropped(ratio)
<1>1. /\ N \in Int /\ Hop \in Int /\ FifoCap \in Int /\ Half \in Int
      /\ 2 * Half = N /\ 1 <= Hop /\ Hop <= Half /\ 8 * Hop <= FifoCap
  BY SizesAre
<1>2. c \in Int
  <2>1. Half * ratio \in Int
    BY <1>1
  <2>2. QED
    BY <2>1, Rounded DEF Cropped, Half
<1> HIDE DEF c
<1>3. /\ e.in = Half /\ e.start = 0 /\ e.synth = 0 /\ e.safe = 0
      /\ e.cleanup = 0 /\ e.crop = c /\ e.real = 0 /\ e.expected = 0
      /\ e.emitted = 0 /\ e.count = 0 /\ e.ratio = ratio
  BY DEF Fresh, Half, c
<1>4. ~e.initialized /\ ~e.flushed
  BY Zenon DEF Fresh
<1>5. e \in States
  <2> DEFINE h == N \div 2
  <2> SUFFICES ASSUME NEW no \in BOOLEAN
      PROVE [in |-> h, start |-> 0, synth |-> 0, safe |-> 0, cleanup |-> 0,
             crop |-> c, real |-> 0, expected |-> 0, emitted |-> 0,
             count |-> 0, ratio |-> ratio, initialized |-> no, flushed |-> no]
            \in States
    BY DEF Fresh, c
  <2>1. h \in Int
    BY <1>1 DEF Half
  <2> HIDE DEF h
  <2>2. QED
    BY <1>2, <2>1 DEF States
<1> HIDE DEF e
<1>6. Ahead(e) = Half
  BY <1>1, <1>3 DEF Ahead
<1>7. Near(e, 0) /\ 0 <= c
  BY <1>3, <1>5, <1>6, FreshNear DEF c
<1>8. Worth(e, e.flushed) = 0
  <2>1. Worth(e, e.flushed) = 0 \div 4
    BY <1>3, <1>4, Zenon DEF Worth
  <2>2. QED
    BY <2>1
<1>9. Due(e, e.flushed) = 0
  <2>1. Due(e, e.flushed) = Larger(0, Smaller(e.safe, e.crop + Worth(e, e.flushed)) - e.cleanup)
    <3>1. e.flushed \in BOOLEAN
      BY <1>5 DEF States
    <3>2. QED
      BY <1>5, <3>1, DueIs
  <2>2. QED
    BY <1>2, <1>3, <1>7, <1>8, <2>1 DEF Larger, Smaller
<1>10. e.emitted = Larger(0, e.cleanup - e.crop)
  BY <1>2, <1>3, <1>7 DEF Larger
<1>11. Round(e.synth) - e.safe <= 4 * Hop
  BY <1>1, <1>3 DEF Round
<1>12. e.cleanup <= e.crop + Worth(e, e.flushed)
  BY <1>2, <1>3, <1>7, <1>8
<1>13. Fits(e)
  BY <1>1, <1>2, <1>3, <1>4, <1>5, <1>6, <1>7, <1>10, <1>11, <1>12 DEF Fits, c
<1>14. QED
  BY <1>4, <1>7, <1>9, <1>13 DEF e

(* While input comes, what is written is not far from what was handed on.  *)
LEMMA StreamLag ==
  ASSUME ResearchSizes, NEW e, Fits(e), NEW v \in Int, v <= MoveLimit,
         Near(e, v), Due(e, e.flushed) <= 4 * Hop
  PROVE  Lag(e) \in Int /\ 8 * Lag(e) <= LagLimit
<1> DEFINE w == Worth(e, e.flushed)
<1> DEFINE r == Round(e.synth)
<1> DEFINE x == e.ratio * Ahead(e)
<1> DEFINE y == v * Half
<1> DEFINE z == N * MoveLimit
<1>1. /\ N \in Int /\ Hop \in Int /\ Half \in Int
      /\ 2 * Half = N /\ 1 <= Hop /\ Hop <= Half
  BY SizesAre
<1>2. MoveLimit \in Int /\ 0 <= MoveLimit
  BY DEF ResearchSizes
<1>3. /\ e \in States /\ e.in \in Int /\ e.start \in Int /\ e.synth \in Int
      /\ e.safe \in Int /\ e.cleanup \in Int /\ e.crop \in Int
      /\ e.expected \in Int /\ e.ratio \in Int /\ e.flushed \in BOOLEAN
  BY DEF Fits, States
<1>4. w \in Int /\ e.expected - 3 <= 4 * w
      /\ Due(e, e.flushed) = Larger(0, Smaller(e.safe, e.crop + w) - e.cleanup)
  BY <1>3, DueIs
<1>5. r \in Int /\ 4 * r <= e.synth + 2 /\ r - e.safe <= 4 * Hop
  BY <1>3, Rounded DEF Fits
<1>6. x \in Int /\ x <= 8 * N
  <2>1. /\ Ahead(e) \in Int /\ 1 <= Ahead(e) /\ Ahead(e) <= Half
        /\ 1 <= e.ratio /\ e.ratio <= 16
    BY <1>1, <1>3 DEF Fits, Ahead
  <2>2. e.ratio * Ahead(e) <= 16 * Ahead(e) /\ x \in Int
    BY <1>3, <2>1
  <2>3. QED
    BY <1>1, <2>1, <2>2
<1>7. y \in Int /\ z \in Int /\ 2 * y <= z /\ 0 <= z
  <2>1. 2 * y = N * v /\ y \in Int
    BY <1>1
  <2>2. N * v <= N * MoveLimit /\ 0 <= z /\ z \in Int
    BY <1>1, <1>2
  <2>3. QED
    BY <1>1, <2>1, <2>2
<1>8. Lag(e) = r - e.cleanup
  BY DEF Lag
<1>9. N - 2 - y <= e.expected + 4 * e.crop - e.synth + x
  BY DEF Near, Surplus
<1> HIDE DEF r, w, x, y, z
<1>10. \/ e.safe - e.cleanup <= 4 * Hop
       \/ e.crop + w - e.cleanup <= 4 * Hop
  BY <1>1, <1>3, <1>4 DEF Larger, Smaller
<1>11. LagLimit = 64 * Hop + 14 * N + z + 14
  BY DEF LagLimit, z
<1>12. CASE e.safe - e.cleanup <= 4 * Hop
  BY <1>1, <1>3, <1>5, <1>7, <1>8, <1>11, <1>12
<1>13. CASE e.crop + w - e.cleanup <= 4 * Hop
  BY <1>1, <1>3, <1>4, <1>5, <1>6, <1>7, <1>8, <1>9, <1>11, <1>13
<1>14. QED
  BY <1>10, <1>12, <1>13

(* set_ratio() shifts the surplus by what the ratio moves times the frames *)
(* to the next window.                                                     *)
LEMMA TunedFits ==
  ASSUME ResearchSizes, NEW e, Fits(e), ~e.flushed,
         NEW ratio \in Int, 1 <= ratio, ratio <= 16,
         NEW v \in Int, 0 <= v, Near(e, v)
  PROVE  LET q == Tuned(e, ratio)
             moves == IF NothingIn(e) THEN v ELSE v + MovedBy(ratio, e.ratio)
         IN  /\ Fits(q) /\ ~q.flushed /\ Near(q, moves) /\ moves \in Int /\ v <= moves
             /\ Due(q, q.flushed) <= Due(e, e.flushed)
             /\ q.count <= e.count + Due(e, e.flushed) - Due(q, q.flushed)
             /\ Due(q, q.flushed) = 0 \/ q.count = FifoCap
             /\ Due(e, e.flushed) = 0 => Due(q, q.flushed) = 0
<1> DEFINE f == e.flushed
<1> DEFINE c == IF NothingIn(e) THEN Cropped(ratio) ELSE e.crop
<1> DEFINE k == [e EXCEPT !.ratio = ratio, !.crop = c]
<1> DEFINE q == Drain(k, f)
<1> DEFINE moves == IF NothingIn(e) THEN v ELSE v + MovedBy(ratio, e.ratio)
<1>1. /\ N \in Int /\ Hop \in Int /\ FifoCap \in Int /\ Half \in Int
      /\ 2 * Half = N /\ 1 <= Hop /\ Hop <= Half
  BY SizesAre
<1>2. /\ e \in States /\ e.in \in Int /\ e.start \in Int /\ e.synth \in Int
      /\ e.safe \in Int /\ e.cleanup \in Int /\ e.crop \in Int /\ e.real \in Int
      /\ e.expected \in Int /\ e.emitted \in Int /\ e.count \in Int
      /\ e.ratio \in Int /\ f \in BOOLEAN
  BY DEF Fits, States
<1>3. /\ 1 <= Ahead(e) /\ Ahead(e) <= Half /\ (e.initialized => Ahead(e) <= Hop)
      /\ ~e.initialized => e.synth = 0 /\ e.safe = 0 /\ e.cleanup = 0
      /\ NothingIn(e) =>
           Ahead(e) = Half /\ e.expected = 0 /\ e.crop = Cropped(e.ratio)
      /\ 0 <= e.real /\ 0 <= e.crop /\ 0 <= e.expected
      /\ 0 <= e.count /\ e.count <= FifoCap
      /\ e.emitted = Larger(0, e.cleanup - e.crop)
      /\ 0 <= e.cleanup /\ e.cleanup <= e.crop + Worth(e, f)
      /\ Round(e.synth) - e.safe <= 4 * Hop
  BY DEF Fits
<1>4. Tuned(e, ratio) = q
  <2>1. Tuned(e, ratio) = Drain(k, FALSE)
    BY Zenon DEF Tuned
  <2>2. f = FALSE
    BY <1>2
  <2>3. QED
    BY <2>1, <2>2
<1>5. c \in Int /\ 0 <= c
  <2>1. CASE NothingIn(e)
    <3> DEFINE x == Half * ratio
    <3>1. x \in Int /\ 1 <= x
      BY <1>1
    <3> HIDE DEF x
    <3>2. Round(x) \in Int /\ x - 1 <= 4 * Round(x)
      BY <3>1, Rounded
    <3>3. c = Round(x)
      BY <2>1, Zenon DEF Cropped, Half, x
    <3>4. QED
      BY <3>1, <3>2, <3>3
  <2>2. CASE ~NothingIn(e)
    BY <1>2, <1>3, <2>2
  <2>3. QED
    BY <2>1, <2>2
<1>6. NothingIn(e) => e.safe = 0 /\ e.cleanup = 0 /\ e.synth = 0
  BY <1>3, Zenon DEF NothingIn
<1>7. ~NothingIn(e) => c = e.crop
  BY Zenon
<1>8. NothingIn(e) => c = Cropped(ratio)
  BY Zenon
<1> HIDE DEF c
<1>9. /\ k \in States /\ k.ratio = ratio /\ k.crop = c
      /\ k.in = e.in /\ k.start = e.start /\ k.synth = e.synth
      /\ k.safe = e.safe /\ k.cleanup = e.cleanup /\ k.real = e.real
      /\ k.expected = e.expected /\ k.emitted = e.emitted /\ k.count = e.count
  BY <1>2, <1>5 DEF States
<1>10. k.initialized = e.initialized /\ k.flushed = f
  BY <1>2, Zenon DEF States
<1>11. Drainable(k)
  <2>1. e.emitted = Larger(0, e.cleanup - c)
    BY <1>2, <1>3, <1>5, <1>6, <1>7 DEF Larger
  <2>2. QED
    BY <1>1, <1>3, <1>9, <2>1 DEF Drainable
<1> HIDE DEF k
<1>12. Drained(k, q, f)
  BY <1>2, <1>11, DrainDrains
<1> HIDE DEF q
<1>13. /\ q \in States /\ q.in = e.in /\ q.start = e.start /\ q.synth = e.synth
       /\ q.safe = e.safe /\ q.crop = c /\ q.real = e.real
       /\ q.expected = e.expected /\ q.ratio = ratio
       /\ q.initialized = e.initialized /\ q.flushed = f
  BY <1>9, <1>10, <1>12, Zenon DEF Drained, SameInput
<1>14. q.cleanup \in Int /\ q.count \in Int
  BY <1>13 DEF States
<1>15. /\ Worth(e, f) \in Int /\ Worth(k, f) = Worth(e, f) /\ Worth(q, f) = Worth(e, f)
       /\ Due(e, f) \in Int /\ Due(k, f) \in Int /\ Due(q, f) \in Int
       /\ Due(e, f) = Larger(0, Smaller(e.safe, e.crop + Worth(e, f)) - e.cleanup)
       /\ Due(k, f) = Larger(0, Smaller(e.safe, c + Worth(e, f)) - e.cleanup)
       /\ 0 <= Due(e, f) /\ 0 <= Due(q, f)
  <2>1. Worth(k, f) = Worth(e, f) /\ Worth(q, f) = Worth(e, f)
    BY <1>9, <1>13, Zenon DEF Worth, Wanted
  <2>2. /\ Worth(e, f) \in Int /\ Due(e, f) \in Int
        /\ Due(e, f) = Larger(0, Smaller(e.safe, e.crop + Worth(e, f)) - e.cleanup)
    BY <1>2, DueIs
  <2>3. /\ Due(k, f) \in Int
        /\ Due(k, f) = Larger(0, Smaller(k.safe, k.crop + Worth(k, f)) - k.cleanup)
    BY <1>2, <1>9, DueIs
  <2>4. /\ Due(q, f) \in Int
        /\ Due(q, f) = Larger(0, Smaller(q.safe, q.crop + Worth(q, f)) - q.cleanup)
    BY <1>2, <1>13, DueIs
  <2>5. 0 <= Due(e, f) /\ 0 <= Due(q, f)
    BY <2>2, <2>4 DEF Larger
  <2>6. QED
    BY <1>9, <2>1, <2>2, <2>3, <2>4, <2>5
<1>16. Due(k, f) <= Due(e, f)
  <2>1. CASE NothingIn(e)
    <3>1. e.safe = 0 /\ e.cleanup = 0
      BY <1>6, <2>1
    <3>2. Due(k, f) = 0
      BY <1>5, <1>15, <3>1 DEF Larger, Smaller
    <3>3. QED
      BY <1>15, <3>2
  <2>2. CASE ~NothingIn(e)
    BY <1>7, <1>15, <2>2
  <2>3. QED
    BY <2>1, <2>2
<1>17. /\ e.cleanup <= q.cleanup
       /\ q.cleanup + Due(q, f) = e.cleanup + Due(k, f)
       /\ e.count <= q.count /\ q.count <= FifoCap
       /\ q.count <= e.count + q.cleanup - e.cleanup
       /\ q.emitted = Larger(0, q.cleanup - q.crop)
       /\ Due(q, f) = 0 \/ q.count = FifoCap
  BY <1>9, <1>12 DEF Drained
<1>18. /\ Due(q, f) <= Due(e, f) /\ (Due(e, f) = 0 => Due(q, f) = 0)
       /\ q.count <= e.count + Due(e, f) - Due(q, f)
  BY <1>2, <1>14, <1>15, <1>16, <1>17
<1>19. q.cleanup <= q.crop + Worth(q, f)
  <2>1. CASE NothingIn(e)
    <3>1. e.safe = 0 /\ e.cleanup = 0
      BY <1>6, <2>1
    <3>2. Due(k, f) = 0
      BY <1>5, <1>15, <3>1 DEF Larger, Smaller
    <3>3. q.cleanup = 0
      BY <1>14, <1>15, <1>17, <3>1, <3>2
    <3>4. e.expected = 0
      BY <1>3, <2>1
    <3>5. e.expected <= 4 * Worth(e, f) + 3
      BY <1>2, DueIs
    <3>6. QED
      BY <1>5, <1>13, <1>15, <3>3, <3>4, <3>5
  <2>2. CASE ~NothingIn(e)
    BY <1>2, <1>3, <1>7, <1>13, <1>14, <1>15, <1>17, <2>2 DEF Larger, Smaller
  <2>3. QED
    BY <2>1, <2>2
<1>20. Ahead(q) = Ahead(e) /\ Ahead(e) \in Int
  BY <1>1, <1>2, <1>13 DEF Ahead
<1>21. NothingIn(q) <=> NothingIn(e)
  BY <1>13, Zenon DEF NothingIn
<1>22. ~q.initialized => q.synth = 0 /\ q.safe = 0 /\ q.cleanup = 0
  <2> SUFFICES ASSUME ~q.initialized
               PROVE  q.synth = 0 /\ q.safe = 0 /\ q.cleanup = 0
    OBVIOUS
  <2>1. e.synth = 0 /\ e.safe = 0 /\ e.cleanup = 0
    BY <1>3, <1>13
  <2>2. Due(e, f) = 0
    <3>1. 0 <= e.crop + Worth(e, f)
      BY <1>3, <2>1
    <3>2. QED
      BY <1>2, <1>15, <2>1 DEF Larger, Smaller
  <2>3. QED
    BY <1>13, <1>14, <1>15, <1>16, <1>17, <2>1, <2>2
<1>23. Fits(q)
  BY <1>2, <1>3, <1>5, <1>8, <1>13, <1>14, <1>17, <1>19, <1>20, <1>21, <1>22
     DEF Fits
<1>24. moves \in Int /\ v <= moves /\ Near(q, moves)
  <2>1. CASE NothingIn(e)
    <3>1. moves = v
      BY <2>1, Zenon
    <3>2. /\ q.crop = Cropped(q.ratio) /\ Ahead(q) = Half /\ q.expected = 0
          /\ q.synth = 0
      BY <1>3, <1>6, <1>8, <1>13, <1>20, <2>1
    <3>3. Near(q, v)
      BY <1>13, <3>2, FreshNear
    <3>4. QED
      BY <3>1, <3>3
  <2>2. CASE ~NothingIn(e)
    <3> DEFINE d == ratio - e.ratio
    <3> DEFINE m == MovedBy(ratio, e.ratio)
    <3> DEFINE a == Ahead(e)
    <3>1. moves = v + m
      BY <2>2, Zenon
    <3>2. d \in Int /\ m \in Int /\ 0 <= m /\ d <= m /\ 0 - m <= d
      BY <1>2 DEF MovedBy, Larger
    <3>3. ratio * a = e.ratio * a + d * a
      BY <1>2, <1>20
    <3> HIDE DEF d, m
    <3>4. d * a <= m * Half /\ 0 - m * Half <= d * a
      <4>1. a \in Int /\ 1 <= a /\ a <= Half
        BY <1>3, <1>20
      <4> HIDE DEF a
      <4>2. d * a <= m * a /\ 0 - m * a <= d * a
        BY <3>2, <4>1
      <4>3. m * a <= m * Half
        BY <1>1, <3>2, <4>1
      <4>4. d * a \in Int /\ m * a \in Int /\ m * Half \in Int
        BY <1>1, <3>2, <4>1
      <4>5. QED
        BY <4>2, <4>3, <4>4
    <3>5. (v + m) * Half = v * Half + m * Half
      BY <1>1, <3>2
    <3>6. /\ d * a \in Int /\ m * Half \in Int /\ v * Half \in Int
          /\ e.ratio * a \in Int
      BY <1>1, <1>2, <1>20, <3>2
    <3>7. Surplus(q) = Surplus(e) + d * a
      <4>1. Surplus(q) = e.expected + 4 * e.crop - e.synth + ratio * a
        BY <1>7, <1>13, <1>20, <2>2, Zenon DEF Surplus
      <4>2. Surplus(e) = e.expected + 4 * e.crop - e.synth + e.ratio * a
        BY Zenon DEF Surplus
      <4> HIDE DEF a
      <4>3. QED
        BY <1>2, <3>3, <3>6, <4>1, <4>2
    <3>8. Surplus(e) \in Int
      BY <1>2, <3>6 DEF Surplus
    <3> HIDE DEF a
    <3>9. /\ N - 2 - v * Half <= Surplus(e)
          /\ Surplus(e) <= 16 * N + 2 + v * Half
      BY DEF Near
    <3>10. Near(q, v + m)
      <4>1. /\ N - 2 - (v + m) * Half <= Surplus(q)
            /\ Surplus(q) <= 16 * N + 2 + (v + m) * Half
        BY <1>1, <3>4, <3>5, <3>6, <3>7, <3>8, <3>9
      <4>2. QED
        BY <4>1 DEF Near
    <3>11. QED
      BY <3>1, <3>2, <3>10
  <2>3. QED
    BY <2>1, <2>2
<1>25. QED
  BY <1>4, <1>13, <1>17, <1>18, <1>23, <1>24, Zenon

Backlog(e) == Due(e, e.flushed)

(* What remains of the guard, in quarters, when what is wanted has been    *)
(* synthesised: a constant of the loop.                                    *)
Fuel(e, left) ==
  e.ratio * left - 4 * (e.crop + Wanted(e)) + e.synth - e.ratio * Ahead(e)

Streaming ==
  /\ call.of # "flush" /\ (call.of = "push" => 1 <= call.left)
  /\ Near(s, moved) /\ Backlog(s) <= 4 * Hop
  /\ \/ Backlog(s) = 0 \/ s.count = 0
     \/ s.count = FifoCap /\ Idle /\ result = "overflow"

Flushing ==
  /\ call.of # "push" /\ 8 * Lag(s) <= LagLimit + 32 * Hop
  /\ call.of = "flush" =>
       /\ 0 <= call.left /\ 16 * Hop + 4 <= Fuel(s, call.left)
       /\ \/ Backlog(s) = 0
          \/ 0 < call.left /\ 8 * Lag(s) <= LagLimit
  /\ Idle /\ result = "ok" => s.emitted = Wanted(s)

ResearchInv ==
  /\ Fits(s) /\ moved \in Int /\ 0 <= moved /\ moved <= MoveLimit
  /\ call \in [of : {"none", "push", "flush"}, left : Int]
  /\ result \in {"ok", "overflow"}
  /\ ~s.flushed => Streaming
  /\ s.flushed => Flushing

LEMMA FitsFields ==
  ASSUME NEW e, Fits(e)
  PROVE  /\ e \in States /\ e.in \in Int /\ e.start \in Int /\ e.synth \in Int
         /\ e.safe \in Int /\ e.cleanup \in Int /\ e.crop \in Int /\ e.real \in Int
         /\ e.expected \in Int /\ e.emitted \in Int /\ e.count \in Int
         /\ e.ratio \in Int /\ e.flushed \in BOOLEAN
         /\ Worth(e, e.flushed) \in Int /\ Backlog(e) \in Int /\ 0 <= Backlog(e)
         /\ Backlog(e) = Larger(0, Smaller(e.safe, e.crop + Worth(e, e.flushed))
                                   - e.cleanup)
<1>1. /\ e \in States /\ e.in \in Int /\ e.start \in Int /\ e.synth \in Int
      /\ e.safe \in Int /\ e.cleanup \in Int /\ e.crop \in Int /\ e.real \in Int
      /\ e.expected \in Int /\ e.emitted \in Int /\ e.count \in Int
      /\ e.ratio \in Int /\ e.flushed \in BOOLEAN
  BY DEF Fits, States
<1>2. /\ Worth(e, e.flushed) \in Int /\ Backlog(e) \in Int
      /\ Backlog(e) = Larger(0, Smaller(e.safe, e.crop + Worth(e, e.flushed))
                                - e.cleanup)
  BY <1>1, DueIs DEF Backlog
<1>3. 0 <= Backlog(e)
  BY <1>2 DEF Larger
<1>4. QED
  BY <1>1, <1>2, <1>3

LEMMA NamedCalls ==
  /\ NoCall.of = "none" /\ NoCall \in [of : {"none", "push", "flush"}, left : Int]
  BY DEF NoCall

-----------------------------------------------------------------------------
(* Steps. *)

LEMMA PushKeeps == ASSUME ResearchSizes, ResearchInv, Push PROVE ResearchInv'
<1>1. PICK n \in Blocks :
        /\ Idle /\ ~s.flushed /\ result # "overflow"
        /\ call' = [of |-> "push", left |-> n]
        /\ s' = s /\ result' = result /\ moved' = moved
  BY DEF Push
<1>2. n \in Int /\ 1 <= n
  BY DEF ResearchSizes
<1>3. /\ call'.of = "push" /\ call'.left = n
      /\ call' \in [of : {"none", "push", "flush"}, left : Int]
  BY <1>1, <1>2
<1>4. Near(s', moved') /\ Fits(s') /\ Backlog(s') = Backlog(s)
  BY <1>1 DEF ResearchInv, Streaming
<1>5. Streaming'
  BY <1>1, <1>2, <1>3, <1>4 DEF Streaming, ResearchInv
<1>6. QED
  BY <1>1, <1>3, <1>4, <1>5 DEF ResearchInv

(* A frame more leaves a backlog of one window at most, and none if there  *)
(* is room.                                                                *)
LEMMA PushFrameKeeps == ASSUME ResearchSizes, ResearchInv, PushFrame PROVE ResearchInv'
<1> DEFINE i == [s EXCEPT !.in = @ + 1, !.real = @ + 1, !.expected = @ + s.ratio]
<1>1. /\ Fits(s) /\ ~s.flushed /\ s.flushed = FALSE /\ Streaming /\ call.of = "push"
      /\ moved \in Int /\ 0 <= moved /\ moved <= MoveLimit /\ moved' = moved
      /\ result \in {"ok", "overflow"} /\ call.left \in Int
  <2>1. ~s.flushed /\ Streaming
    BY DEF PushFrame, ResearchInv, Flushing
  <2>2. s.flushed = FALSE
    BY <2>1, FitsFields DEF ResearchInv
  <2>3. QED
    BY <2>1, <2>2 DEF PushFrame, ResearchInv
<1>2. /\ FifoCap \in Int /\ Hop \in Int /\ 1 <= Hop /\ 8 * Hop <= FifoCap
  BY SizesAre
<1>3. s \in States /\ s.in \in Int /\ s.real \in Int /\ s.expected \in Int
      /\ s.ratio \in Int
  BY <1>1, FitsFields
<1>4. Longer(s, i)
  <2>1. /\ i \in States /\ i.in = s.in + 1
        /\ i.start = s.start /\ i.synth = s.synth /\ i.safe = s.safe
        /\ i.cleanup = s.cleanup /\ i.crop = s.crop /\ i.emitted = s.emitted
        /\ i.count = s.count /\ i.ratio = s.ratio
        /\ i.real = s.real + 1 /\ i.expected = s.expected + s.ratio
    <3> DEFINE i1 == [s EXCEPT !.in = @ + 1]
    <3> DEFINE i2 == [i1 EXCEPT !.real = @ + 1]
    <3> DEFINE i3 == [i2 EXCEPT !.expected = @ + s.ratio]
    <3>1. i1 \in States /\ i1.real = s.real /\ i1.expected = s.expected
      BY <1>3 DEF States
    <3> HIDE DEF i1
    <3>2. i2 \in States /\ i2.expected = s.expected
      BY <1>3, <3>1 DEF States
    <3> HIDE DEF i2
    <3>3. i3 \in States
      BY <1>3, <3>2 DEF States
    <3>4. i = i3
      BY Zenon DEF i1, i2
    <3>5. QED
      BY <1>3, <3>3, <3>4 DEF States
  <2>2. i.initialized = s.initialized /\ i.flushed = s.flushed
    BY <1>3, Zenon DEF States
  <2>3. QED
    BY <1>1, <2>1, <2>2, Zenon DEF Longer
<1>5. s' = Drain(ProcessAvailable(i), s.flushed)
  BY <1>1, Zenon DEF PushFrame, Taken
<1> HIDE DEF i
<1>6. PICK k : Turned(s, k) /\ Drained(k, s', s.flushed)
  BY <1>1, <1>4, <1>5, LongerTurns
<1>7. Fits(s') /\ Flows(s, s')
  BY <1>1, <1>6, TurnFlows
<1>8. /\ s'.flushed = FALSE /\ ~s'.flushed /\ s'.expected = s.expected + s.ratio
      /\ s'.crop = s.crop
      /\ s'.ratio * Ahead(s)' - s'.synth = s.ratio * Ahead(s) - s.synth - s.ratio
      /\ s'.count + Backlog(s)' <= s.count + Backlog(s) + 4 * Hop
      /\ Backlog(s)' <= Backlog(s) + 4 * Hop
      /\ Backlog(s)' = 0 \/ s'.count = FifoCap
  BY <1>1, <1>7 DEF Flows, Backlog
<1>9. Near(s', moved')
  <2>1. Ahead(s)' \in Int /\ Ahead(s) \in Int /\ s'.synth \in Int
        /\ s'.ratio \in Int /\ s.synth \in Int /\ s.crop \in Int
    BY <1>1, <1>7, FitsFields, SizesAre DEF Ahead
  <2> DEFINE x == s'.ratio * Ahead(s)'
  <2> DEFINE y == s.ratio * Ahead(s)
  <2>2. x \in Int /\ y \in Int
    BY <1>3, <2>1
  <2>3. x - s'.synth = y - s.synth - s.ratio
    BY <1>8
  <2>4. /\ Surplus(s) = s.expected + 4 * s.crop - s.synth + y
        /\ Surplus(s') = s'.expected + 4 * s'.crop - s'.synth + x
    BY DEF Surplus, Ahead
  <2> HIDE DEF x, y
  <2>5. Surplus(s') = Surplus(s)
    <3>1. s'.expected = s.expected + s.ratio /\ s'.crop = s.crop
      BY <1>8
    <3>2. QED
      BY <1>3, <2>1, <2>2, <2>3, <2>4, <3>1
  <2>6. QED
    BY <1>1, <2>5 DEF Near, Streaming
<1>10. /\ Backlog(s) \in Int /\ Backlog(s)' \in Int /\ 0 <= Backlog(s)'
       /\ s.count \in Int /\ s'.count \in Int /\ Backlog(s) <= 4 * Hop
       /\ Backlog(s) = 0 \/ s.count = 0
  BY <1>1, <1>7, FitsFields DEF Streaming, Idle, Backlog
<1>11. Backlog(s)' <= 4 * Hop
  <2>1. CASE Backlog(s) = 0
    BY <1>2, <1>8, <1>10, <2>1
  <2>2. CASE s.count = 0
    BY <1>2, <1>8, <1>10, <2>2
  <2>3. QED
    BY <1>10, <2>1, <2>2
<1>12. \/ Full(s') /\ s'.count = FifoCap /\ call' = NoCall /\ result' = "overflow"
       \/ ~Full(s') /\ Backlog(s)' = 0 /\ call' = NoCall /\ result' = "ok"
       \/ /\ ~Full(s') /\ Backlog(s)' = 0 /\ call' = [call EXCEPT !.left = @ - 1]
          /\ 1 < call.left /\ result' = result
  <2>1. s'.count <= FifoCap
    BY <1>7 DEF Fits
  <2>2. Full(s') => s'.count = FifoCap
    BY <1>2, <1>10, <2>1 DEF Full
  <2>3. ~Full(s') => Backlog(s)' = 0
    BY <1>2, <1>8, <1>10 DEF Full
  <2>4. QED
    BY <2>2, <2>3 DEF PushFrame, Returned
<1>13. /\ call' \in [of : {"none", "push", "flush"}, left : Int]
       /\ result' \in {"ok", "overflow"}
       /\ call'.of # "flush" /\ (call'.of = "push" => 1 <= call'.left)
  <2>1. CASE call' = NoCall
    BY <1>1, <1>12, <2>1, NamedCalls
  <2>2. CASE call' = [call EXCEPT !.left = @ - 1] /\ 1 < call.left /\ result' = result
    BY <1>1, <2>2 DEF ResearchInv
  <2>3. QED
    BY <1>1, <1>12, <2>1, <2>2
<1>14. Streaming'
  <2>1. \/ Backlog(s)' = 0
        \/ s'.count = FifoCap /\ Idle' /\ result' = "overflow"
    BY <1>12, NamedCalls DEF Idle
  <2>2. Near(s, moved)'
    BY <1>9 DEF Near, Surplus, Ahead
  <2>3. QED
    BY <1>11, <1>13, <2>1, <2>2 DEF Streaming
<1>15. QED
  BY <1>1, <1>7, <1>8, <1>13, <1>14 DEF ResearchInv

LEMMA SetRatioKeeps == ASSUME ResearchSizes, ResearchInv, SetRatio PROVE ResearchInv'
<1>1. PICK ratio \in Ratios :
        /\ Idle /\ ~s.flushed /\ s' = Tuned(s, ratio)
        /\ moved' = IF NothingIn(s) THEN moved ELSE moved + MovedBy(ratio, s.ratio)
        /\ moved' <= MoveLimit /\ call' = call /\ result' = result
  BY DEF SetRatio
<1>2. ratio \in Int /\ 1 <= ratio /\ ratio <= 16
  BY DEF ResearchSizes
<1>3. /\ Fits(s) /\ moved \in Int /\ 0 <= moved /\ Streaming
      /\ call \in [of : {"none", "push", "flush"}, left : Int]
      /\ result \in {"ok", "overflow"}
  BY <1>1 DEF ResearchInv
<1>4. /\ FifoCap \in Int /\ Hop \in Int /\ 1 <= Hop /\ 8 * Hop <= FifoCap
  BY SizesAre
<1>5. /\ Near(s, moved) /\ Backlog(s) <= 4 * Hop
      /\ \/ Backlog(s) = 0 \/ s.count = 0
         \/ s.count = FifoCap /\ result = "overflow"
  BY <1>3 DEF Streaming
<1>6. /\ Fits(s') /\ ~s'.flushed /\ Near(s', moved') /\ moved' \in Int /\ moved <= moved'
      /\ Backlog(s') <= Backlog(s)
      /\ s'.count <= s.count + Backlog(s) - Backlog(s')
      /\ Backlog(s') = 0 \/ s'.count = FifoCap
      /\ Backlog(s) = 0 => Backlog(s') = 0
  BY <1>1, <1>2, <1>3, <1>5, TunedFits, Zenon DEF Backlog
<1>7. /\ Backlog(s) \in Int /\ Backlog(s') \in Int /\ 0 <= Backlog(s')
      /\ s.count \in Int /\ s'.count \in Int
  BY <1>3, <1>6, FitsFields
<1>8. Backlog(s') <= 4 * Hop
  BY <1>4, <1>5, <1>6, <1>7
<1>9. Backlog(s') = 0 \/ (s'.count = FifoCap /\ result = "overflow")
  <2>1. CASE s.count = 0
    BY <1>4, <1>5, <1>6, <1>7, <2>1
  <2>2. QED
    BY <1>5, <1>6, <2>1
<1>10. Streaming'
  <2>1. Near(s, moved)'
    BY <1>6 DEF Near, Surplus, Ahead
  <2>2. Backlog(s)' = Backlog(s')
    BY DEF Backlog
  <2>3. QED
    BY <1>1, <1>8, <1>9, <2>1, <2>2 DEF Streaming, Idle
<1>11. QED
  BY <1>1, <1>3, <1>6, <1>10 DEF ResearchInv

(* The guard suffices for any surplus that the moves allow.                *)
LEMMA FlushKeeps == ASSUME ResearchSizes, ResearchInv, Flush PROVE ResearchInv'
<1> DEFINE W == Wanted(s)
<1> DEFINE g == 64 * N + 2 * W + Guard
<1>1. /\ Idle /\ ~s.flushed /\ s' = [s EXCEPT !.flushed = TRUE]
      /\ call' = [of |-> "flush", left |-> g]
      /\ result' = result /\ moved' = moved
  BY DEF Flush
<1>2. /\ Fits(s) /\ moved \in Int /\ 0 <= moved /\ moved <= MoveLimit
      /\ result \in {"ok", "overflow"} /\ Near(s, moved) /\ Backlog(s) <= 4 * Hop
  BY <1>1 DEF ResearchInv, Streaming
<1>3. /\ s \in States /\ s.in \in Int /\ s.start \in Int /\ s.synth \in Int
      /\ s.safe \in Int /\ s.cleanup \in Int /\ s.crop \in Int /\ s.real \in Int
      /\ s.expected \in Int /\ s.count \in Int /\ s.ratio \in Int
      /\ s.flushed \in BOOLEAN /\ 1 <= s.ratio /\ 0 <= s.expected
  BY <1>2, FitsFields DEF Fits
<1>4. /\ N \in Int /\ Hop \in Int /\ FifoCap \in Int /\ Half \in Int
      /\ 2 * Half = N /\ 1 <= Hop /\ Hop <= Half
  BY SizesAre
<1>5. Guard \in Int /\ 0 <= Guard /\ MoveLimit \in Int
      /\ N * MoveLimit + 32 * Hop + 16 <= 96 * N + 2 * Guard
  BY DEF ResearchSizes
<1>6. /\ s' \in States /\ s'.in = s.in /\ s'.start = s.start /\ s'.synth = s.synth
      /\ s'.safe = s.safe /\ s'.cleanup = s.cleanup /\ s'.crop = s.crop
      /\ s'.real = s.real /\ s'.expected = s.expected /\ s'.emitted = s.emitted
      /\ s'.count = s.count /\ s'.ratio = s.ratio
  <2> DEFINE With(yes) == [s EXCEPT !.flushed = yes]
  <2>1. ASSUME NEW yes \in BOOLEAN
        PROVE  LET q == With(yes)
               IN  /\ q \in States /\ q.in = s.in /\ q.start = s.start
                   /\ q.synth = s.synth /\ q.safe = s.safe
                   /\ q.cleanup = s.cleanup /\ q.crop = s.crop
                   /\ q.real = s.real /\ q.expected = s.expected
                   /\ q.emitted = s.emitted /\ q.count = s.count
                   /\ q.ratio = s.ratio
    BY <1>3 DEF States
  <2>2. s' = With(TRUE)
    BY <1>1
  <2> HIDE DEF With
  <2>3. QED
    BY <2>1, <2>2
<1>7. s'.initialized = s.initialized /\ s'.flushed = TRUE
  BY <1>1, <1>3, Zenon DEF States
<1>8. W \in Int /\ 0 <= W /\ 4 * W <= s.expected + 2 /\ s.expected \div 4 <= W
  <2>1. W = Round(s.expected)
    BY DEF Wanted
  <2>2. /\ Round(s.expected) \in Int /\ s.expected - 1 <= 4 * Round(s.expected)
        /\ 4 * Round(s.expected) <= s.expected + 2
    BY <1>3, Rounded, Zenon
  <2>3. 4 * (s.expected \div 4) <= s.expected /\ s.expected \div 4 \in Int
    BY <1>3
  <2> HIDE DEF W
  <2>4. QED
    BY <1>3, <2>1, <2>2, <2>3
<1>9. Fits(s')
  <2>1. Worth(s, s.flushed) = s.expected \div 4
    BY <1>1, Zenon DEF Worth
  <2>2. Worth(s', s'.flushed) = W
    BY <1>6, <1>7, Zenon DEF Worth, Wanted
  <2>3. s.cleanup <= s.crop + Worth(s, s.flushed)
    BY <1>2 DEF Fits
  <2> HIDE DEF W
  <2>4. s'.cleanup <= s'.crop + Worth(s', s'.flushed)
    BY <1>3, <1>6, <1>8, <2>1, <2>2, <2>3
  <2>5. Ahead(s') = Ahead(s)
    BY <1>6 DEF Ahead
  <2>6. QED
    BY <1>2, <1>6, <1>7, <2>4, <2>5 DEF Fits
<1>10. Lag(s') = Lag(s) /\ 8 * Lag(s) <= LagLimit /\ Lag(s) \in Int
  BY <1>2, <1>6, StreamLag DEF Lag, Backlog
<1>11. g \in Int /\ 0 < g
  BY <1>4, <1>5, <1>8
<1>12. 16 * Hop + 4 <= Fuel(s', g)
  <2> DEFINE x == s.ratio * g
  <2> DEFINE a == s.ratio * Ahead(s)
  <2> DEFINE y == moved * Half
  <2> DEFINE z == N * MoveLimit
  <2>1. Ahead(s) \in Int
    BY <1>3, <1>4 DEF Ahead
  <2>2. x \in Int /\ g <= x
    BY <1>3, <1>11
  <2>3. y \in Int /\ z \in Int /\ 2 * y <= z
    <3>1. 2 * y = N * moved /\ y \in Int
      BY <1>2, <1>4
    <3>2. N * moved <= N * MoveLimit /\ z \in Int
      BY <1>2, <1>4, <1>5
    <3>3. QED
      BY <3>1, <3>2
  <2>4. a \in Int
    BY <1>3, <2>1
  <2>5. Fuel(s', g) = x - 4 * (s.crop + W) + s.synth - a
    BY <1>6 DEF Fuel, Wanted, Ahead
  <2>6. s.expected + 4 * s.crop - s.synth + a <= 16 * N + 2 + y
    BY <1>2 DEF Near, Surplus
  <2>7. z + 32 * Hop + 16 <= 96 * N + 2 * Guard
    BY <1>5
  <2> HIDE DEF x, a, y, z, W
  <2>8. QED
    BY <1>3, <1>4, <1>5, <1>8, <2>2, <2>3, <2>4, <2>5, <2>6, <2>7
<1>13. /\ call'.of = "flush" /\ call'.left = g
       /\ call' \in [of : {"none", "push", "flush"}, left : Int]
  <2> HIDE DEF g
  <2>1. QED
    BY <1>1, <1>11
<1>14. Hop \in Int /\ LagLimit \in Int /\ 8 * Lag(s') <= LagLimit + 32 * Hop
  <2>1. LagLimit \in Int
    BY <1>4, <1>5 DEF LagLimit
  <2>2. QED
    BY <1>4, <1>10, <2>1
<1>15. Flushing'
  <2>1. Lag(s)' = Lag(s') /\ Fuel(s, call.left)' = Fuel(s', g)
    BY <1>13 DEF Lag, Fuel, Ahead, Wanted
  <2>2. ~Idle'
    BY <1>13 DEF Idle
  <2> HIDE DEF g
  <2>3. QED
    BY <1>10, <1>11, <1>12, <1>13, <1>14, <2>1, <2>2 DEF Flushing
<1>16. QED
  BY <1>1, <1>2, <1>7, <1>9, <1>13, <1>15 DEF ResearchInv

LEMMA PullKeeps == ASSUME ResearchSizes, ResearchInv, Pull PROVE ResearchInv'
<1>1. /\ Idle /\ s' = [s EXCEPT !.count = 0] /\ call' = call /\ moved' = moved
      /\ result' = IF s.flushed THEN result ELSE "ok"
  BY DEF Pull
<1>2. /\ Fits(s) /\ FifoCap \in Int /\ 0 <= FifoCap
  BY SizesAre DEF ResearchInv
<1>3. s \in States /\ s.flushed \in BOOLEAN
  BY <1>2, FitsFields
<1>4. /\ s' \in States /\ s'.in = s.in /\ s'.start = s.start /\ s'.synth = s.synth
      /\ s'.safe = s.safe /\ s'.cleanup = s.cleanup /\ s'.crop = s.crop
      /\ s'.real = s.real /\ s'.expected = s.expected /\ s'.emitted = s.emitted
      /\ s'.count = 0 /\ s'.ratio = s.ratio
  BY <1>1, <1>3 DEF States
<1>5. s'.initialized = s.initialized /\ s'.flushed = s.flushed
  BY <1>1, <1>3, Zenon DEF States
<1>6. Ahead(s') = Ahead(s) /\ Wanted(s') = Wanted(s)
  BY <1>4 DEF Ahead, Wanted
<1>7. /\ Worth(s', s'.flushed) = Worth(s, s.flushed)
      /\ Backlog(s') = Backlog(s)
  BY <1>4, <1>5, Zenon DEF Worth, Wanted, Backlog, Due
<1>8. Fits(s')
  BY <1>2, <1>4, <1>5, <1>6, <1>7 DEF Fits, NothingIn
<1>9. Near(s', moved) <=> Near(s, moved)
  BY <1>4, <1>6, Zenon DEF Near, Surplus
<1>10. Lag(s') = Lag(s)
  BY <1>4 DEF Lag
<1>11. ~s'.flushed => Streaming'
  <2> SUFFICES ASSUME ~s'.flushed PROVE Streaming'
    OBVIOUS
  <2>1. Streaming /\ result' = "ok"
    BY <1>1, <1>5 DEF ResearchInv
  <2>2. Near(s, moved)' /\ Backlog(s)' = Backlog(s)
    BY <1>1, <1>7, <1>9, <2>1, Zenon DEF Near, Surplus, Ahead, Backlog, Streaming
  <2>3. QED
    BY <1>1, <1>4, <2>1, <2>2 DEF Streaming
<1>12. s'.flushed => Flushing'
  <2> SUFFICES ASSUME s'.flushed PROVE Flushing'
    OBVIOUS
  <2>1. Flushing /\ result' = result
    BY <1>1, <1>5 DEF ResearchInv
  <2>2. Lag(s)' = Lag(s) /\ Wanted(s)' = Wanted(s)
    BY <1>6, <1>10 DEF Lag, Wanted
  <2>3. QED
    BY <1>1, <1>4, <2>1, <2>2 DEF Flushing, Idle
<1>13. QED
  BY <1>1, <1>8, <1>11, <1>12 DEF ResearchInv

LEMMA ResetKeeps == ASSUME ResearchSizes, ResearchInv, Reset PROVE ResearchInv'
<1>1. s.ratio \in Int /\ 1 <= s.ratio /\ s.ratio <= 16
  BY FitsFields DEF ResearchInv, Fits
<1>2. s' = Fresh(s.ratio) /\ result' = "ok" /\ moved' = 0 /\ call' = call /\ Idle
  BY DEF Reset
<1>3. /\ call \in [of : {"none", "push", "flush"}, left : Int] /\ call.of = "none"
  BY <1>2 DEF ResearchInv, Idle
<1>4. QED
  <2>1. /\ Fits(s') /\ Near(s', 0) /\ ~s'.flushed /\ Backlog(s') = 0
    BY <1>1, <1>2, FreshFits DEF Backlog
  <2>2. Hop \in Int /\ 1 <= Hop
    BY SizesAre
  <2>3. Near(s, moved)' /\ Backlog(s)' = 0
    BY <1>2, <2>1 DEF Near, Surplus, Ahead, Backlog
  <2>4. Streaming'
    BY <1>2, <1>3, <2>2, <2>3 DEF Streaming
  <2>5. 0 <= MoveLimit
    BY DEF ResearchSizes
  <2>6. QED
    BY <1>2, <1>3, <2>1, <2>4, <2>5 DEF ResearchInv

(* Nothing is wanted past what was handed on, but what is complete.        *)
LEMMA CompleteNow ==
  ASSUME ResearchSizes, NEW e, Fits(e), e.flushed
  PROVE  /\ Wanted(e) \in Int /\ 0 <= Wanted(e) /\ e.emitted <= Wanted(e)
         /\ Backlog(e) = Larger(0, Smaller(e.safe, e.crop + Wanted(e)) - e.cleanup)
         /\ Backlog(e) = 0 /\ e.crop + Wanted(e) <= e.safe => Complete(e)
         /\ Backlog(e) = 0 /\ ~Complete(e) => e.safe <= e.cleanup
<1> DEFINE W == Wanted(e)
<1>1. /\ e.safe \in Int /\ e.cleanup \in Int /\ e.crop \in Int /\ e.emitted \in Int
      /\ e.expected \in Int /\ Backlog(e) \in Int
  BY FitsFields
<1>2. Worth(e, e.flushed) = W
  BY Zenon DEF Worth
<1>3. /\ 0 <= e.cleanup /\ e.cleanup <= e.crop + W
      /\ e.emitted = Larger(0, e.cleanup - e.crop) /\ 0 <= e.expected
  BY <1>2, Zenon DEF Fits
<1>4. Backlog(e) = Larger(0, Smaller(e.safe, e.crop + W) - e.cleanup)
  BY <1>2, FitsFields, Zenon
<1>5. W \in Int /\ 0 <= W
  <2>1. /\ Round(e.expected) \in Int /\ e.expected - 1 <= 4 * Round(e.expected)
    BY <1>1, Rounded, Zenon
  <2>2. 0 <= Round(e.expected)
    BY <1>1, <1>3, <2>1
  <2>3. QED
    BY <2>1, <2>2 DEF Wanted
<1>6. Complete(e) <=> e.safe >= e.crop + W /\ e.emitted >= W
  BY DEF Complete
<1> HIDE DEF W
<1>7. e.emitted <= W
  BY <1>1, <1>3, <1>5 DEF Larger
<1>8. Backlog(e) = 0 => e.safe <= e.cleanup \/ e.crop + W <= e.cleanup
  BY <1>1, <1>4, <1>5 DEF Larger, Smaller
<1>9. Backlog(e) = 0 /\ e.crop + W <= e.safe => Complete(e)
  <2> SUFFICES ASSUME Backlog(e) = 0, e.crop + W <= e.safe PROVE Complete(e)
    OBVIOUS
  <2>1. e.crop + W <= e.cleanup
    BY <1>1, <1>5, <1>8
  <2>2. W <= e.emitted
    BY <1>1, <1>3, <1>5, <2>1 DEF Larger
  <2>3. QED
    BY <1>1, <1>5, <1>6, <2>2
<1>10. Backlog(e) = 0 /\ ~Complete(e) => e.safe <= e.cleanup
  <2> SUFFICES ASSUME Backlog(e) = 0, ~Complete(e) PROVE e.safe <= e.cleanup
    OBVIOUS
  <2>1. ~(e.crop + W <= e.safe)
    BY <1>9
  <2>2. QED
    BY <1>1, <1>5, <1>8, <2>1
<1>11. QED
  BY <1>4, <1>5, <1>7, <1>9, <1>10 DEF W

LEMMA FlushFrameKeeps == ASSUME ResearchSizes, ResearchInv, FlushFrame PROVE ResearchInv'
<1> DEFINE i == [s EXCEPT !.in = @ + 1]
<1> DEFINE left == call.left
<1>1. /\ call.of = "flush" /\ ~Complete(s) /\ 0 < left /\ left \in Int /\ s' = Padded(s)
      /\ moved' = moved
      /\ call \in [of : {"none", "push", "flush"}, left : Int]
  BY DEF FlushFrame, ResearchInv
<1>2. /\ Fits(s) /\ s.flushed /\ s.flushed = TRUE /\ Flushing
      /\ moved \in Int /\ 0 <= moved /\ moved <= MoveLimit
      /\ result \in {"ok", "overflow"}
  <2>1. s.flushed
    BY <1>1 DEF ResearchInv, Streaming
  <2>2. s.flushed = TRUE
    BY <2>1, FitsFields DEF ResearchInv
  <2>3. QED
    BY <2>1, <2>2 DEF ResearchInv
<1>3. /\ FifoCap \in Int /\ Hop \in Int /\ N \in Int /\ 1 <= Hop /\ LagLimit \in Int
      /\ 64 * Hop <= LagLimit
  <2>1. /\ FifoCap \in Int /\ Hop \in Int /\ N \in Int /\ 1 <= Hop /\ 1 <= N
        /\ MoveLimit \in Int /\ 0 <= MoveLimit
    BY SizesAre DEF ResearchSizes
  <2>2. N * MoveLimit \in Int /\ 0 <= N * MoveLimit
    BY <2>1
  <2>3. QED
    BY <2>1, <2>2 DEF LagLimit
<1>4. /\ s \in States /\ s.in \in Int /\ s.start \in Int /\ s.synth \in Int
      /\ s.safe \in Int /\ s.cleanup \in Int /\ s.crop \in Int
      /\ s.ratio \in Int /\ s.expected \in Int
  BY <1>2, FitsFields
<1>5. Longer(s, i)
  <2>1. /\ i \in States /\ i.in = s.in + 1
        /\ i.start = s.start /\ i.synth = s.synth /\ i.safe = s.safe
        /\ i.cleanup = s.cleanup /\ i.crop = s.crop /\ i.emitted = s.emitted
        /\ i.count = s.count /\ i.ratio = s.ratio
        /\ i.real = s.real /\ i.expected = s.expected
    BY <1>4 DEF States
  <2>2. i.initialized = s.initialized /\ i.flushed = s.flushed
    BY <1>4, Zenon DEF States
  <2>3. QED
    BY <1>2, <2>1, <2>2, Zenon DEF Longer
<1>6. s' = Drain(ProcessAvailable(i), s.flushed)
  BY <1>1, <1>2, Zenon DEF Padded
<1> HIDE DEF i
<1>7. PICK k : Turned(s, k) /\ Drained(k, s', s.flushed)
  BY <1>2, <1>5, <1>6, LongerTurns
<1>8. Fits(s') /\ Flows(s, s')
  BY <1>2, <1>7, TurnFlows
<1>9. /\ s'.flushed = TRUE /\ s'.flushed /\ s'.expected = s.expected
      /\ s'.crop = s.crop /\ s'.ratio = s.ratio
      /\ s'.ratio * Ahead(s') - s'.synth = s.ratio * Ahead(s) - s.synth - s.ratio
      /\ Backlog(s') = 0 \/ (s'.count = FifoCap /\ s'.crop <= s'.cleanup)
      /\ s.cleanup <= s'.cleanup
      /\ Round(s'.synth) <= Round(s.synth) + 4 * Hop
  BY <1>2, <1>8 DEF Flows, Backlog
<1>10. /\ s'.synth \in Int /\ s'.cleanup \in Int /\ s'.crop \in Int /\ s'.count \in Int
       /\ s'.in \in Int /\ s'.start \in Int /\ s'.emitted \in Int /\ s'.safe \in Int
  BY <1>8, FitsFields
<1>11. Wanted(s') = Wanted(s)
  BY <1>9 DEF Wanted
<1>12. Fuel(s', left - 1) = Fuel(s, left)
  <2> DEFINE x == s.ratio * Ahead(s')
  <2> DEFINE y == s.ratio * Ahead(s)
  <2> DEFINE z == s.ratio * left
  <2> DEFINE u == s.ratio * (left - 1)
  <2> DEFINE W == Wanted(s)
  <2> DEFINE before == Fuel(s, left)
  <2> DEFINE after == Fuel(s', left - 1)
  <2>1. Ahead(s) \in Int /\ Ahead(s') \in Int
    BY <1>3, <1>4, <1>10 DEF Ahead
  <2>2. x \in Int /\ y \in Int /\ z \in Int
    BY <1>1, <1>4, <2>1
  <2>3. x - s'.synth = y - s.synth - s.ratio
    BY <1>9
  <2>4. u = z - s.ratio
    BY <1>1, <1>4
  <2>5. W \in Int
    BY <1>2, CompleteNow
  <2>6. before = z - 4 * (s.crop + W) + s.synth - y
    BY DEF Fuel
  <2>7. after = u - 4 * (s.crop + W) + s'.synth - x
    BY <1>9, <1>11, Zenon DEF Fuel
  <2> HIDE DEF x, y, z, u, W, before, after
  <2>8. after = before
    <3>1. s'.synth \in Int /\ s.synth \in Int /\ s.crop \in Int /\ s.ratio \in Int
      BY <1>4, <1>10
    <3>2. QED
      BY <2>2, <2>3, <2>4, <2>5, <2>6, <2>7, <3>1
  <2>9. QED
    BY <2>8 DEF before, after
<1>13. 8 * Lag(s') <= LagLimit + 32 * Hop
  <2>1. /\ Round(s.synth) \in Int /\ Round(s'.synth) \in Int
    BY <1>4, <1>10, Rounded
  <2>2. /\ Lag(s') = Round(s'.synth) - s'.cleanup
        /\ Lag(s) = Round(s.synth) - s.cleanup
    BY DEF Lag
  <2>3. CASE Backlog(s) = 0
    <3>1. s.safe <= s.cleanup
      BY <1>1, <1>2, <2>3, CompleteNow
    <3>2. Round(s.synth) - s.safe <= 4 * Hop
      BY <1>2 DEF Fits
    <3>3. QED
      BY <1>3, <1>4, <1>9, <1>10, <2>1, <2>2, <3>1, <3>2
  <2>4. CASE 8 * Lag(s) <= LagLimit
    BY <1>3, <1>4, <1>9, <1>10, <2>1, <2>2, <2>4
  <2>5. QED
    BY <1>1, <1>2, <2>3, <2>4 DEF Flushing
<1>14. \/ call' = NoCall /\ result' = "overflow"
       \/ call' = [call EXCEPT !.left = @ - 1] /\ result' = result /\ Backlog(s') = 0
  <2>0. IF Full(s') /\ s'.emitted < Wanted(s')
        THEN call' = NoCall /\ result' = "overflow"
        ELSE call' = [call EXCEPT !.left = @ - 1] /\ result' = result
    BY Zenon DEF FlushFrame, Returned
  <2>1. CASE Full(s') /\ s'.emitted < Wanted(s)
    BY <1>11, <2>0, <2>1, Zenon
  <2>2. CASE ~(Full(s') /\ s'.emitted < Wanted(s))
    <3>1. call' = [call EXCEPT !.left = @ - 1] /\ result' = result
      BY <1>11, <2>0, <2>2, Zenon
    <3>2. Backlog(s') = 0
      <4>1. CASE s'.count = FifoCap /\ s'.crop <= s'.cleanup
        <5>1. Wanted(s) <= s'.emitted /\ Wanted(s) \in Int
          <6>1. Wanted(s) \in Int
            BY <1>2, CompleteNow
          <6>2. QED
            BY <1>3, <1>10, <2>2, <4>1, <6>1 DEF Full
        <5>2. s'.emitted = Larger(0, s'.cleanup - s'.crop)
          BY <1>8 DEF Fits
        <5>3. s'.crop + Wanted(s) <= s'.cleanup
          BY <1>10, <4>1, <5>1, <5>2 DEF Larger
        <5>4. Backlog(s') = Larger(0, Smaller(s'.safe, s'.crop + Wanted(s)) - s'.cleanup)
          BY <1>8, <1>9, <1>11, CompleteNow
        <5>5. QED
          BY <1>10, <5>1, <5>3, <5>4 DEF Larger, Smaller
      <4>2. QED
        BY <1>9, <4>1
    <3>3. QED
      BY <3>1, <3>2
  <2>3. QED
    BY <2>1, <2>2
<1>15. Flushing'
  <2>1. Lag(s)' = Lag(s') /\ Backlog(s)' = Backlog(s')
    BY DEF Lag, Backlog
  <2>2. CASE call' = NoCall /\ result' = "overflow"
    BY <1>13, <2>1, <2>2, NamedCalls DEF Flushing
  <2>3. CASE call' = [call EXCEPT !.left = @ - 1] /\ result' = result /\ Backlog(s') = 0
    <3>1. call'.of = "flush" /\ call'.left = left - 1
      BY <1>1, <2>3
    <3>2. Fuel(s, call.left)' = Fuel(s', left - 1)
      BY <3>1 DEF Fuel, Ahead, Wanted
    <3>3. 16 * Hop + 4 <= Fuel(s, left)
      BY <1>1, <1>2 DEF Flushing
    <3>4. 0 <= left - 1
      BY <1>1
    <3>5. QED
      BY <1>12, <1>13, <2>1, <2>3, <3>1, <3>2, <3>3, <3>4 DEF Flushing, Idle
  <2>4. QED
    BY <1>14, <2>2, <2>3
<1>16. /\ call' \in [of : {"none", "push", "flush"}, left : Int]
       /\ result' \in {"ok", "overflow"}
  <2>1. CASE call' = NoCall /\ result' = "overflow"
    BY <2>1, NamedCalls
  <2>2. CASE call' = [call EXCEPT !.left = @ - 1] /\ result' = result
    BY <1>1, <1>2, <2>2
  <2>3. QED
    BY <1>14, <2>1, <2>2
<1>17. QED
  BY <1>1, <1>2, <1>8, <1>9, <1>15, <1>16 DEF ResearchInv

(* When the loop ends, by whichever of its conditions, all is complete.    *)
LEMMA FlushEndsKeeps == ASSUME ResearchSizes, ResearchInv, FlushEnds PROVE ResearchInv'
<1>1. /\ call.of = "flush" /\ s' = Drain(s, TRUE) /\ call' = NoCall /\ moved' = moved
      /\ result' = IF s'.emitted = Wanted(s') THEN "ok" ELSE "internal"
      /\ Complete(s) \/ call.left = 0
  BY DEF FlushEnds, Returned
<1>2. /\ Fits(s) /\ s.flushed /\ s.flushed = TRUE /\ Flushing
      /\ moved \in Int /\ 0 <= moved /\ moved <= MoveLimit
  <2>1. s.flushed
    BY <1>1 DEF ResearchInv, Streaming
  <2>2. s.flushed = TRUE
    BY <2>1, FitsFields DEF ResearchInv
  <2>3. QED
    BY <2>1, <2>2 DEF ResearchInv
<1>3. /\ FifoCap \in Int /\ Hop \in Int /\ 1 <= Hop /\ N \in Int
  BY SizesAre
<1>4. /\ s \in States /\ s.in \in Int /\ s.start \in Int /\ s.synth \in Int
      /\ s.safe \in Int /\ s.cleanup \in Int /\ s.crop \in Int /\ s.emitted \in Int
      /\ s.ratio \in Int /\ s.flushed \in BOOLEAN
      /\ Backlog(s) \in Int /\ 0 <= Backlog(s)
  BY <1>2, FitsFields
<1>5. Drainable(s)
  BY <1>2, <1>3, <1>4 DEF Fits, Drainable
<1>6. Drained(s, s', s.flushed)
  BY <1>1, <1>2, <1>4, <1>5, DrainDrains
<1>7. /\ s' \in States /\ s'.in = s.in /\ s'.start = s.start /\ s'.synth = s.synth
      /\ s'.safe = s.safe /\ s'.crop = s.crop /\ s'.real = s.real
      /\ s'.expected = s.expected /\ s'.ratio = s.ratio
      /\ s'.initialized = s.initialized /\ s'.flushed = s.flushed
      /\ s.cleanup <= s'.cleanup
      /\ s'.cleanup + Due(s', s.flushed) = s.cleanup + Backlog(s)
      /\ s.count <= s'.count /\ s'.count <= FifoCap
      /\ s'.emitted = Larger(0, s'.cleanup - s'.crop)
  BY <1>6, Zenon DEF Drained, SameInput, Backlog
<1>8. s'.cleanup \in Int /\ s'.count \in Int /\ s'.emitted \in Int /\ s.count \in Int
  BY <1>4, <1>7 DEF States
<1>9. Due(s', s.flushed) \in Int /\ 0 <= Due(s', s.flushed)
  <2>1. /\ Due(s', s.flushed) = Larger(0, Smaller(s'.safe, s'.crop + Worth(s', s.flushed)) - s'.cleanup)
        /\ Due(s', s.flushed) \in Int
    BY <1>4, <1>7, DueIs
  <2>2. Smaller(s'.safe, s'.crop + Worth(s', s.flushed)) - s'.cleanup \in Int
    <3>1. Worth(s', s.flushed) \in Int
      BY <1>4, <1>7, DueIs
    <3>2. QED
      BY <1>4, <1>7, <1>8, <3>1 DEF Smaller
  <2>3. QED
    BY <2>1, <2>2 DEF Larger
<1>10. Wanted(s') = Wanted(s) /\ Wanted(s) \in Int /\ 0 <= Wanted(s)
  BY <1>2, <1>7, CompleteNow DEF Wanted
<1>11. s'.cleanup <= s'.crop + Wanted(s)
  <2>1. s.cleanup <= s.crop + Wanted(s)
    <3>1. s.cleanup <= s.crop + Worth(s, s.flushed)
      BY <1>2 DEF Fits
    <3>2. Worth(s, s.flushed) = Wanted(s)
      BY <1>2, Zenon DEF Worth
    <3>3. QED
      BY <3>1, <3>2
  <2>2. Backlog(s) = Larger(0, Smaller(s.safe, s.crop + Wanted(s)) - s.cleanup)
    BY <1>2, CompleteNow
  <2>3. QED
    BY <1>4, <1>7, <1>8, <1>9, <1>10, <2>1, <2>2 DEF Larger, Smaller
<1>12. Complete(s)
  <2> SUFFICES ASSUME ~Complete(s) PROVE FALSE
    OBVIOUS
  <2>1. call.left = 0 /\ Backlog(s) = 0 /\ 16 * Hop + 4 <= Fuel(s, 0)
    BY <1>1, <1>2 DEF Flushing
  <2> DEFINE x == s.ratio * Ahead(s)
  <2>2. x \in Int /\ 0 <= x
    <3>1. Ahead(s) \in Int /\ 1 <= Ahead(s) /\ 1 <= s.ratio
      BY <1>2, <1>3, <1>4 DEF Ahead, Fits
    <3>2. QED
      BY <1>4, <3>1
  <2>3. Fuel(s, 0) = s.ratio * 0 - 4 * (s.crop + Wanted(s)) + s.synth - x
    BY DEF Fuel
  <2>4. s.ratio * 0 = 0
    BY <1>4
  <2> HIDE DEF x
  <2>5. 4 * (s.crop + Wanted(s)) + 16 * Hop + 4 <= s.synth
    BY <1>3, <1>4, <1>10, <2>1, <2>2, <2>3, <2>4
  <2>6. Round(s.synth) \in Int /\ s.synth - 1 <= 4 * Round(s.synth)
    BY <1>4, Rounded
  <2>7. Round(s.synth) - s.safe <= 4 * Hop
    BY <1>2 DEF Fits
  <2>8. s.crop + Wanted(s) <= s.safe
    BY <1>3, <1>4, <1>10, <2>5, <2>6, <2>7
  <2>9. QED
    BY <1>2, <2>1, <2>8, CompleteNow
<1>13. s'.emitted = Wanted(s')
  <2>1. Wanted(s) <= s.emitted /\ s.emitted = Larger(0, s.cleanup - s.crop)
    BY <1>2, <1>4, <1>10, <1>12 DEF Complete, Fits
  <2>2. QED
    BY <1>4, <1>7, <1>8, <1>10, <1>11, <2>1 DEF Larger
<1>14. result' = "ok"
  BY <1>1, <1>13
<1>15. Fits(s')
  <2>1. Worth(s', s'.flushed) = Wanted(s)
    BY <1>2, <1>7, <1>10, Zenon DEF Worth
  <2>2. Ahead(s') = Ahead(s) /\ 0 <= s'.count /\ 0 <= s'.cleanup
    <3>1. 0 <= s.count /\ 0 <= s.cleanup
      BY <1>2 DEF Fits
    <3>2. QED
      BY <1>4, <1>7, <1>8, <3>1 DEF Ahead
  <2>3. ~s'.initialized => s'.synth = 0 /\ s'.safe = 0 /\ s'.cleanup = 0
    <3> SUFFICES ASSUME ~s.initialized
                 PROVE  s'.synth = 0 /\ s'.safe = 0 /\ s'.cleanup = 0
      BY <1>7
    <3>1. s.synth = 0 /\ s.safe = 0 /\ s.cleanup = 0 /\ 0 <= s.crop
      BY <1>2 DEF Fits
    <3>2. Backlog(s) = Larger(0, Smaller(s.safe, s.crop + Wanted(s)) - s.cleanup)
      BY <1>2, CompleteNow
    <3>3. Backlog(s) = 0
      BY <1>4, <1>10, <3>1, <3>2 DEF Larger, Smaller
    <3>4. QED
      BY <1>7, <1>8, <1>9, <3>1, <3>3
  <2>4. QED
    BY <1>2, <1>7, <1>11, <2>1, <2>2, <2>3 DEF Fits
<1>16. 8 * Lag(s') <= LagLimit + 32 * Hop
  <2>1. 8 * Lag(s) <= LagLimit + 32 * Hop
    BY <1>2 DEF Flushing
  <2>2. LagLimit \in Int /\ Round(s.synth) \in Int
    <3>1. MoveLimit \in Int
      BY DEF ResearchSizes
    <3>2. Round(s.synth) \in Int
      BY <1>4, Rounded
    <3>3. LagLimit \in Int
      BY <1>3, <3>1 DEF LagLimit
    <3>4. QED
      BY <3>2, <3>3
  <2>3. Lag(s') = Round(s.synth) - s'.cleanup /\ Lag(s) = Round(s.synth) - s.cleanup
    BY <1>7 DEF Lag
  <2>4. QED
    BY <1>3, <1>4, <1>7, <1>8, <2>1, <2>2, <2>3
<1>17. Flushing'
  BY <1>1, <1>13, <1>16, NamedCalls DEF Flushing, Lag, Wanted
<1>18. QED
  BY <1>1, <1>2, <1>7, <1>14, <1>15, <1>17, NamedCalls DEF ResearchInv

-----------------------------------------------------------------------------
LEMMA StandsStill ==
  ASSUME ResearchSizes, ResearchInv, UNCHANGED researchVars PROVE ResearchInv'
  BY DEF researchVars, ResearchInv, Streaming, Flushing, Near, Surplus, Ahead,
     Backlog, Lag, Fuel, Wanted, Idle

LEMMA ResearchHolds == ASSUME ResearchSizes PROVE ResearchSpec => []ResearchInv
<1>1. ResearchInit => ResearchInv
  <2> SUFFICES ASSUME ResearchInit PROVE ResearchInv
    OBVIOUS
  <2>1. PICK ratio \in Ratios : s = Fresh(ratio)
    BY DEF ResearchInit
  <2>2. ratio \in Int /\ 1 <= ratio /\ ratio <= 16
    BY DEF ResearchSizes
  <2>3. /\ Fits(s) /\ Near(s, 0) /\ ~s.flushed /\ Backlog(s) = 0
    BY <2>1, <2>2, FreshFits DEF Backlog
  <2>4. /\ call.of = "none" /\ call \in [of : {"none", "push", "flush"}, left : Int]
        /\ result = "ok" /\ moved = 0
    BY NamedCalls DEF ResearchInit
  <2>5. Hop \in Int /\ 1 <= Hop /\ 0 <= MoveLimit
    BY SizesAre DEF ResearchSizes
  <2>6. Streaming
    BY <2>3, <2>4, <2>5 DEF Streaming
  <2>7. QED
    BY <2>3, <2>4, <2>5, <2>6 DEF ResearchInv
<1>2. ResearchInv /\ [ResearchNext]_researchVars => ResearchInv'
  BY PushKeeps, PushFrameKeeps, SetRatioKeeps, FlushKeeps, FlushFrameKeeps,
     FlushEndsKeeps, PullKeeps, ResetKeeps, StandsStill DEF ResearchNext
<1>3. QED
  BY <1>1, <1>2, PTL DEF ResearchSpec

(* A flush of the research engine is exact to the frame whatever the       *)
(* ratios were, and no frame wraps, in the overlap-add ring, onto          *)
(* positions that were not handed on, for every size of window, hop and    *)
(* rings, as long as the ratio does not move too far within a stream and   *)
(* the caller pulls the FIFO empty after an overflow.                      *)
THEOREM ResearchStaysExact == ASSUME ResearchSizes PROVE ResearchSpec => []ResearchExact
<1>1. ResearchInv => ResearchExact
  <2> SUFFICES ASSUME ResearchInv PROVE ResearchExact
    OBVIOUS
  <2>1. Fits(s) /\ (~s.flushed => Streaming) /\ (s.flushed => Flushing)
        /\ result \in {"ok", "overflow"} /\ moved \in Int /\ moved <= MoveLimit
    BY DEF ResearchInv
  <2>2. /\ N \in Int /\ Hop \in Int /\ 1 <= Hop /\ OlaCap \in Int /\ MoveLimit \in Int
        /\ 22 * N + 96 * Hop + N * MoveLimit + 14 <= 8 * OlaCap
    BY SizesAre DEF ResearchSizes
  <2>3. /\ s.synth \in Int /\ s.cleanup \in Int /\ s.crop \in Int
        /\ s.emitted \in Int /\ s.expected \in Int
    BY <2>1, FitsFields
  <2>4. ~s.flushed => s.emitted <= s.expected \div 4
    <3> SUFFICES ASSUME ~s.flushed PROVE s.emitted <= s.expected \div 4
      OBVIOUS
    <3>1. Worth(s, s.flushed) = s.expected \div 4
      BY Zenon DEF Worth
    <3>2. /\ s.cleanup <= s.crop + Worth(s, s.flushed) /\ 0 <= s.expected
          /\ s.emitted = Larger(0, s.cleanup - s.crop)
      BY <2>1 DEF Fits
    <3>3. QED
      BY <2>3, <3>1, <3>2 DEF Larger
  <2>5. Exact
    BY <2>1, <2>4 DEF Exact, Flushing
  <2>6. 8 * Lag(s) <= LagLimit + 32 * Hop
    <3>1. CASE s.flushed
      BY <2>1, <3>1 DEF Flushing
    <3>2. CASE ~s.flushed
      <4>1. Near(s, moved) /\ Due(s, s.flushed) <= 4 * Hop
        BY <2>1, <3>2 DEF Streaming, Backlog
      <4>2. 8 * Lag(s) <= LagLimit /\ Lag(s) \in Int
        BY <2>1, <4>1, StreamLag
      <4>3. LagLimit \in Int
        BY <2>2 DEF LagLimit
      <4>4. QED
        BY <2>2, <4>2, <4>3
    <3>3. QED
      BY <3>1, <3>2
  <2>7. NotLapped
    <3> DEFINE z == N * MoveLimit
    <3>1. z \in Int /\ Round(s.synth) \in Int
      BY <2>2, <2>3, Rounded
    <3>2. LagLimit = 64 * Hop + 14 * N + z + 14 /\ Lag(s) = Round(s.synth) - s.cleanup
      BY DEF LagLimit, Lag
    <3>3. 22 * N + 96 * Hop + z + 14 <= 8 * OlaCap
      BY <2>2
    <3> HIDE DEF z
    <3>4. Round(s.synth) + N - s.cleanup <= OlaCap
      BY <2>2, <2>3, <2>6, <3>1, <3>2, <3>3
    <3>5. QED
      BY <3>4 DEF NotLapped
  <2>8. QED
    BY <2>5, <2>7 DEF ResearchExact
<1>2. QED
  BY <1>1, ResearchHolds, PTL
===============================================================================
