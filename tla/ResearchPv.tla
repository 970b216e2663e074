------------------------------ MODULE ResearchPv ------------------------------
(***************************************************************************)
(* The research phase vocoder (research/cpp_pv_rt): the engine the         *)
(* production one grew out of, with a time ratio that may change in        *)
(* mid-stream and without a resampler.  As in PvEngine the spectra are     *)
(* left out.  Ratios, and positions that ratios add up to, are in quarters *)
(* of a frame.                                                             *)
(***************************************************************************)
EXTENDS Integers

CONSTANTS
  N, Hop,             (* n_fft_, analysis_hop_                             *)
  OlaCap, FifoCap,    (* ola_capacity_, fifo_capacity_                     *)
  Guard,              (* what the guard of flush() adds to its multiples   *)
  Ratios, Blocks,     (* ratios set, frames of a push                      *)
  InputLimit,         (* bound: frames pushed                              *)
  MoveLimit           (* bound: how far the ratio moves in all, in quarters *)

(* The sizes for which the theorems hold.  Ratios go from a quarter to      *)
(* four.  The rings and the guard bound how far the ratio may move within  *)
(* a stream: each move shifts what the input is worth against what is      *)
(* synthesised by as many quarters as there are frames to the next window. *)
ResearchSizes ==
  /\ N \in Nat /\ Hop \in Nat /\ OlaCap \in Nat /\ FifoCap \in Nat
  /\ Guard \in Nat /\ MoveLimit \in Nat
  /\ 2 * (N \div 2) = N /\ 1 <= Hop /\ 2 * Hop <= N
  /\ Ratios \subseteq 1..16 /\ Blocks \subseteq Nat \ {0}
  /\ 8 * Hop <= FifoCap
  /\ 22 * N + 96 * Hop + N * MoveLimit + 14 <= 8 * OlaCap
  /\ N * MoveLimit + 32 * Hop + 16 <= 96 * N + 2 * Guard

VARIABLES
  s,         (* the engine                                                 *)
  call,      (* the call under way, and how often its loop may still turn  *)
  result,    (* the answer of the last push or flush                       *)
  moved      (* how far the ratio has moved since the input began          *)

researchVars == <<s, call, result, moved>>

Round(x) == (x + 2) \div 4
Smaller(a, b) == IF a <= b THEN a ELSE b
Larger(a, b) == IF a >= b THEN a ELSE b

(* reset(): the crop is the ratio's share of the padding before the input. *)
Cropped(ratio) == Round((N \div 2) * ratio)
Fresh(ratio) ==
  [in |-> N \div 2, start |-> 0, synth |-> 0, safe |-> 0, cleanup |-> 0,
   crop |-> Cropped(ratio), real |-> 0, expected |-> 0, emitted |-> 0,
   count |-> 0, ratio |-> ratio, initialized |-> FALSE, flushed |-> FALSE]

(* drain_safe(): positions up to the target, those past the crop into the  *)
(* FIFO while it has room.                                                 *)
Silent(e) == Larger(0, e.crop - e.cleanup)
Due(e, final) ==
  LET worth == IF final THEN Round(e.expected) ELSE e.expected \div 4
  IN  Larger(0, Smaller(e.safe, e.crop + worth) - e.cleanup)
MovedOut(e, n, out) ==
  [e EXCEPT !.cleanup = @ + n, !.count = @ + out, !.emitted = @ + out]
DrainBy(e, n) == MovedOut(e, n, Larger(0, n - Silent(e)))
Drain(e, final) ==
  DrainBy(e, Smaller(Due(e, final), Silent(e) + FifoCap - e.count))

(* process_frame() when a window is full; one more frame of input can      *)
(* complete one window at most.                                            *)
Advanced(e) ==
  [e EXCEPT !.initialized = TRUE, !.synth = @ + Hop * e.ratio,
            !.start = @ + Hop]
ProcessFrame(e) ==
  Advanced(Drain([e EXCEPT !.safe = Round(e.synth)], e.flushed))
ProcessAvailable(e) == IF e.in >= e.start + N THEN ProcessFrame(e) ELSE e

(* A frame of push(), and one of zeros of flush().                         *)
Taken(e) ==
  Drain(ProcessAvailable([e EXCEPT !.in = @ + 1, !.real = @ + 1,
                                   !.expected = @ + e.ratio]), FALSE)
Padded(e) == Drain(ProcessAvailable([e EXCEPT !.in = @ + 1]), TRUE)
Full(e) == e.count >= FifoCap
Wanted(e) == Round(e.expected)

(* Mutant: flush() is content when the positions wanted are synthesised,   *)
(* counted from the start and not from the crop.                           *)
CompleteUncropped(e) == e.safe >= Wanted(e)

(* flush() feeds zeros until the wanted positions are final and delivered. *)
Complete(e) == e.safe >= e.crop + Wanted(e) /\ e.emitted >= Wanted(e)

(* set_ratio() crops anew while no frame has come in.                      *)
NothingIn(e) == e.real = 0 /\ ~e.initialized
Tuned(e, ratio) ==
  Drain([e EXCEPT !.ratio = ratio,
                  !.crop = IF NothingIn(e) THEN Cropped(ratio) ELSE @], FALSE)
MovedBy(a, b) == Larger(a - b, b - a)

-----------------------------------------------------------------------------
NoCall == [of |-> "none", left |-> 0]
Idle == call.of = "none"
Returned(answer) == call' = NoCall /\ result' = answer

ResearchInit == /\ s \in {Fresh(ratio) : ratio \in Ratios}
        /\ call = NoCall /\ result = "ok" /\ moved = 0

(* After an overflow the caller first pulls all there is.                  *)
Push ==
  \E n \in Blocks :
    /\ Idle /\ ~s.flushed /\ result # "overflow" /\ s.real + n <= InputLimit
    /\ call' = [of |-> "push", left |-> n]
    /\ UNCHANGED <<s, result, moved>>

PushFrame ==
  /\ call.of = "push"
  /\ s' = Taken(s)
  /\ \/ Full(s') /\ Returned("overflow")
     \/ ~Full(s') /\ call.left = 1 /\ Returned("ok")
     \/ ~Full(s') /\ call.left > 1 /\ call' = [call EXCEPT !.left = @ - 1]
        /\ UNCHANGED result
  /\ UNCHANGED moved

SetRatio ==
  \E ratio \in Ratios :
    /\ Idle /\ ~s.flushed
    /\ s' = Tuned(s, ratio)
    /\ moved' = IF NothingIn(s) THEN moved ELSE moved + MovedBy(ratio, s.ratio)
    /\ moved' <= MoveLimit
    /\ UNCHANGED <<call, result>>

Flush ==
  /\ Idle /\ ~s.flushed
  /\ s' = [s EXCEPT !.flushed = TRUE]
  /\ call' = [of |-> "flush", left |-> 64 * N + 2 * Wanted(s) + Guard]
  /\ UNCHANGED <<result, moved>>

FlushFrame ==
  /\ call.of = "flush" /\ ~Complete(s) /\ call.left > 0
  /\ s' = Padded(s)
  /\ IF Full(s') /\ s'.emitted < Wanted(s')
     THEN Returned("overflow")
     ELSE call' = [call EXCEPT !.left = @ - 1] /\ UNCHANGED result
  /\ UNCHANGED moved

FlushEnds ==
  /\ call.of = "flush" /\ (Complete(s) \/ call.left = 0)
  /\ s' = Drain(s, TRUE)
  /\ Returned(IF s'.emitted = Wanted(s') THEN "ok" ELSE "internal")
  /\ UNCHANGED moved

Pull ==
  /\ Idle /\ s.count > 0
  /\ s' = [s EXCEPT !.count = 0]
  /\ result' = IF s.flushed THEN result ELSE "ok"
  /\ UNCHANGED <<call, moved>>

Reset ==
  /\ Idle
  /\ s' = Fresh(s.ratio) /\ result' = "ok" /\ moved' = 0
  /\ UNCHANGED call

ResearchNext == \/ Push \/ PushFrame \/ SetRatio \/ Flush \/ FlushFrame \/ FlushEnds
        \/ Pull \/ Reset
ResearchSpec == ResearchInit /\ [][ResearchNext]_researchVars

-----------------------------------------------------------------------------
(* The exact-duration contract of the research engine (its README): a      *)
(* flush answers that it failed only when the FIFO is full, one that       *)
(* succeeds has delivered, with what was pulled before, the input's worth  *)
(* at the ratio each frame had, rounded once; and before the flush no more *)
(* than what the frames so far are worth.                                  *)
Exact ==
  /\ result # "internal"
  /\ Idle /\ s.flushed /\ result = "ok" => s.emitted = Wanted(s)
  /\ ~s.flushed => s.emitted <= s.expected \div 4

(* Nor does a frame wrap, in the overlap-add ring, onto positions that     *)
(* were not handed on: whatever the ratios, as long as they move no        *)
(* further than MoveLimit within a stream, and although a FIFO that        *)
(* overflows holds positions back, for a caller that then pulls it empty   *)
(* before it goes on.                                                      *)
NotLapped == Round(s.synth) + N - s.cleanup <= OlaCap

ResearchExact == Exact /\ NotLapped
=============================================================================
