--------------------------------- MODULE Peaks ---------------------------------
(***************************************************************************)
(* Phase locking in the phase vocoders: the bins of a frame are divided    *)
(* among the peaks of its spectrum (find_peaks; the transport's            *)
(* find_owners and the research engine's find_peaks are the same), a phase *)
(* is predicted for the peaks only, and every bin turns with its owner's.  *)
(* owners and predictions are arrays that outlive the frame: what a frame  *)
(* does not write is left from an earlier one.                             *)
(***************************************************************************)
EXTENDS Integers

CONSTANTS
  Bins,      (* bins_                                                      *)
  Magnitudes,  (* of a bin                                                 *)
  Depth      (* a peak is at most so many times below the loudest bin      *)

ASSUME PeaksAssumption == Bins \in Nat /\ Bins >= 2

VARIABLES
  stage,     (* where the frame's work stands                              *)
  peaks,     (* the peaks of the frame                                     *)
  peak,      (* the peak whose bins are given next                         *)
  begin,     (* the first bin not given yet                                *)
  owners,    (* owners_                                                    *)
  fresh      (* bins whose timeline_predicted_ is of this frame            *)

peaksVars == <<stage, peaks, peak, begin, owners, fresh>>

Bin == 0..Bins - 1

-----------------------------------------------------------------------------
(* find_peaks(): local maxima not too far below the loudest bin, a plateau *)
(* counting at its right end; or else the first loudest bin.               *)
Loud(m, k) == \A j \in Bin : m[k] * Depth >= m[j]
Summit(m, k) ==
  /\ k = 0 => m[0] > m[1]
  /\ k > 0 => m[k] >= m[k - 1]
  /\ k < Bins - 1 => m[k] > m[k + 1]
Loudest(m) ==
  {k \in Bin : \A j \in Bin : m[j] <= m[k] /\ (m[j] = m[k] => k <= j)}
Found(m) ==
  LET summits == {k \in Bin : Summit(m, k) /\ Loud(m, k)}
  IN  IF summits = {} THEN Loudest(m) ELSE summits

IsFirst(p, set) == p \in set /\ \A r \in set : p <= r
Later(p) == {r \in peaks : r > p}

(* Mutant: a region ends behind the next peak and not half-way to it.      *)
EndBehind(p, q) == q + 1

(* The bins of a peak end half-way to the next.                            *)
End(p, q) == (p + q) \div 2 + 1

Given(p, end) ==
  /\ owners' = [k \in Bin |-> IF begin <= k /\ k < end THEN p ELSE owners[k]]
  /\ begin' = end

-----------------------------------------------------------------------------
PeaksInit ==
  /\ stage = "frame" /\ peaks = {} /\ peak = 0 /\ begin = 0
  /\ owners = [k \in Bin |-> 0] /\ fresh = {}

(* A frame with the magnitudes m.                                          *)
FindPeaks(m) ==
  /\ stage = "frame"
  /\ peaks' = Found(m)
  /\ peak' \in Bin /\ IsFirst(peak', peaks')
  /\ begin' = 0 /\ fresh' = {}
  /\ stage' = "own" /\ UNCHANGED owners

(* The loop over the peaks: the bins of one of them, and of the last.      *)
OwnNext ==
  /\ stage = "own"
  /\ \E q \in Bin : /\ IsFirst(q, Later(peak))
                    /\ Given(peak, End(peak, q))
                    /\ peak' = q
  /\ UNCHANGED <<stage, peaks, fresh>>

OwnLast ==
  /\ stage = "own" /\ Later(peak) = {}
  /\ Given(peak, Bins)
  /\ stage' = "predict"
  /\ UNCHANGED <<peaks, peak, fresh>>

(* linked_static_predict() of every bin: those not their own are left out. *)
Predict ==
  /\ stage = "predict"
  /\ fresh' = {k \in Bin : owners[k] = k}
  /\ stage' = "phase" /\ UNCHANGED <<peaks, peak, begin, owners>>

(* linked_static_phase() of every bin reads the prediction of its owner.   *)
Phase ==
  /\ stage = "phase"
  /\ stage' = "frame" /\ UNCHANGED <<peaks, peak, begin, owners, fresh>>

PeaksNext ==
  \/ \E m \in [Bin -> Magnitudes] : FindPeaks(m)
  \/ OwnNext \/ OwnLast \/ Predict \/ Phase

PeaksSpec == PeaksInit /\ [][PeaksNext]_peaksVars

-----------------------------------------------------------------------------
(* No bin is turned by a prediction left from an earlier frame: the owner  *)
(* of every bin owns itself (the comment at pv_rt.cpp:392).                *)
OwnersFresh == stage = "phase" => \A k \in Bin : owners[k] \in fresh

(* p is a peak nearest to bin k: no peak r is on the near side of it.      *)
Nearest(k, p) ==
  \A r \in peaks : /\ r < p => r + p <= 2 * k
                   /\ r > p => 2 * k <= p + r

(* And it is a peak of this frame that no other is nearer than.            *)
OwnersNearest ==
  stage \in {"predict", "phase"} =>
    \A k \in Bin : owners[k] \in peaks /\ Nearest(k, owners[k])

PeaksOwn == OwnersFresh /\ OwnersNearest
=============================================================================
