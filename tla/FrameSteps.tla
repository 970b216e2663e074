------------------------------ MODULE FrameSteps ------------------------------
(***************************************************************************)
(* How often the work on a frame is interrupted when it is scheduled       *)
(* (pv_execution.inc, fuzzy_execution.inc), and how often the engine's     *)
(* constructor allows for: work that is not finished when the next frame   *)
(* is due is an overrun, which fails the engine.                           *)
(***************************************************************************)
EXTENDS Integers

CONSTANTS Engines   (* the engines that are constructed                    *)

VARIABLES engine, steps   (* an engine, and the steps its frames take      *)

stepVars == <<engine, steps>>

LevelCount(n) == CHOOSE b \in 0..31 : 2^b <= n /\ n < 2^(b + 1)
CeilDiv(a, b) == (a + b - 1) \div b
BinCount(n) == n \div 2 + 1

(* The operations of a transform, and the calls of advance(): one before   *)
(* each interruption, one after the last.                                  *)
Work(n, inverse) == n + (n * LevelCount(n)) \div 2 + (IF inverse THEN n ELSE 0)
Transform(n, inverse) == CeilDiv(Work(n, inverse), 128)

(* The multiples of a stride among the indices of a loop.                  *)
Every(stride, from, to) ==
  IF to <= from THEN 0 ELSE CeilDiv(to, stride) - CeilDiv(from, stride)

EveryBin(e) == Every(32, 0, BinCount(e.n))
Mirror(e) == Every(32, BinCount(e.n), e.n)
Sample(e) == Every(32, 0, e.n)

Fuzzy(e) == e.mode >= 3
LinkedStatic(e) == e.channels > 1 /\ ~Fuzzy(e) /\ ~e.timeline

(* The loops of formant_sequence(), when the envelope is warped.           *)
FormantSteps(e) ==
  IF e.formant = 0 THEN 0
  ELSE 5 * EveryBin(e) + Mirror(e) + Every(32, 1, e.n)
         + Transform(e.n, TRUE) + Transform(e.n, FALSE)
         + (IF e.formant = 2 THEN Every(32, 2, e.n \div 2) ELSE 0)

(* peaks_sequence(): the bins between the ends, and all bins by owner.     *)
PeakSteps(e) ==
  IF e.mode = 0 THEN 0 ELSE Every(32, 1, BinCount(e.n) - 1) + EveryBin(e)

(* sliced_sequence(), whose first frame fills the history.                 *)
FuzzySteps(e) ==
  IF ~Fuzzy(e) THEN 0 ELSE (IF e.first THEN 5 ELSE 3) * EveryBin(e)

(* The phases: predicted for all channels at once, or channel by channel   *)
(* and locked to the peaks.                                                *)
LinkedPhases(e) == IF LinkedStatic(e) \/ e.timeline THEN 2 * EveryBin(e) ELSE 0
OwnPhases(e) ==
  IF Fuzzy(e) \/ e.timeline \/ LinkedStatic(e) THEN 0
  ELSE IF e.first \/ e.mode = 0 THEN EveryBin(e) ELSE 2 * EveryBin(e)

Analysis(e) == Sample(e) + Transform(e.n, FALSE) + EveryBin(e)
Synthesis(e) ==
  OwnPhases(e) + EveryBin(e) + Mirror(e) + Transform(e.n, TRUE) + Sample(e)

SharedSteps(e) ==
  2 * EveryBin(e) + PeakSteps(e) + FuzzySteps(e) + Sample(e)
  + 2 * Every(64, 0, e.channels * BinCount(e.n)) + Every(64, 0, BinCount(e.n)) + 1

(* frame_sequence(), from one frame to the next.                           *)
Steps(e) ==
  e.channels * (Analysis(e) + Synthesis(e))
  + FormantSteps(e) + SharedSteps(e) + LinkedPhases(e)

-----------------------------------------------------------------------------
(* What the constructor allows for a frame.                                *)
ChannelBound(n) ==
  2 * CeilDiv(n, 32) + CeilDiv(n - BinCount(n), 32) + 4 * CeilDiv(BinCount(n), 32)
  + Transform(n, FALSE) + 1 + Transform(n, TRUE) + 1
FormantBound(n, formant) ==
  IF formant = 0 THEN 0
  ELSE 2 * CeilDiv(n, 32) + (IF formant = 2 THEN 5 ELSE 4) * CeilDiv(BinCount(n), 32)
         + Transform(n, FALSE) + 1 + Transform(n, TRUE) + 1
SharedBound(n, channels, mode) ==
  (IF mode >= 3 THEN 9 ELSE 4) * CeilDiv(BinCount(n), 32) + CeilDiv(n, 32)
  + 2 * CeilDiv(channels * BinCount(n), 64) + CeilDiv(BinCount(n), 64) + 32
frame_step_bound(n, channels, formant, mode) ==
  channels * ChannelBound(n) + FormantBound(n, formant) + SharedBound(n, channels, mode)

Greater(a, b) == IF a > b THEN a ELSE b
StepsPerInput(e) ==
  Greater(2 + CeilDiv(e.n * (e.channels + 1) * (LevelCount(e.n) + 20), 128 * e.hop),
          CeilDiv(frame_step_bound(e.n, e.channels, e.formant, e.mode), e.hop))

StepsInit == engine \in Engines /\ steps = Steps(engine)

(* A frame needs no more steps than it is allowed, and is finished with    *)
(* the inputs of one hop, when the next one is due (execution_helpers.hpp: *)
(* 10-12, engine::tick).                                                   *)
FrameInTime ==
  /\ steps <= frame_step_bound(engine.n, engine.channels, engine.formant, engine.mode)
  /\ steps <= engine.hop * StepsPerInput(engine)
================================================================================
