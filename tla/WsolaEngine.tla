---------------------------- MODULE WsolaEngine ----------------------------
(***************************************************************************)
(* The WSOLA engine, src/src/engine.cpp: three rings in series.            *)
(*                                                                         *)
(*    push -> input -> [overlap-add] -> inter -> [resampler] -> output     *)
(*                                                              -> pull    *)
(*                                                                         *)
(* One audio owner makes every call, so nothing interleaves with a call;   *)
(* each call runs process_available(), whose loops are modelled one        *)
(* iteration per step (pc), so that what holds between two iterations is   *)
(* checked and proved too.                                                 *)
(*                                                                         *)
(* Units: ratios, stream positions and earned output are counted in        *)
(* quarters (4 is the ratio 1.0 and a whole frame).  Which candidate the   *)
(* correlation search prefers is a nondeterministic choice among those it  *)
(* scores.                                                                 *)
(***************************************************************************)
EXTENDS PlanarRing

CONSTANTS
  Window, Search,        (* window_, search_                               *)
  HalfTaps,              (* ResamplerKernelBank::half                      *)
  MaxBlock,              (* max_block_                                     *)
  TimeRatios, PitchRatios,  (* the ratios the host uses, in quarters       *)
  Blocks, Pulls,         (* sizes of the host's push and pull calls        *)
  InputLimit,            (* bound: frames pushed before a reset            *)
  MaxRatioChanges        (* bound: ratio changes before a reset            *)

Hop == Window \div 2

(* valid_config() asks for a larger fifo (8 windows and two blocks) and a  *)
(* window of at least 128; this is what the engine itself needs.           *)
ASSUME EngineAssumption ==
  /\ Window \in Nat \ {0} /\ Hop \in Nat \ {0} /\ Window = 2 * Hop
  /\ Search \in Nat /\ Search < Hop
  /\ HalfTaps \in Nat \ {0}
  /\ MaxBlock \in Nat \ {0}
  /\ TimeRatios \subseteq 1 .. 16 /\ PitchRatios \subseteq 1 .. 16
  /\ Blocks \subseteq Nat \ {0} /\ Pulls \subseteq Nat \ {0}
  /\ \A t \in TimeRatios, p \in PitchRatios : t * p <= 64 * Hop
  /\ InputLimit \in Nat /\ MaxRatioChanges \in Nat

VARIABLES
  time, pitch,          (* time_ratio_, pitch_ratio_                       *)
  input, inter, output, (* input_, intermediate_, output_                  *)
  have_prev,            (* have_prev_                                      *)
  next_expected,        (* next_expected_                                  *)
  resample_pos,         (* resample_pos_                                   *)
  accum,                (* target_output_accum_                            *)
  produced,             (* produced_total_                                 *)
  flushing, target,     (* flushing_, target_output_frames_                *)
  pc,                   (* where the running call is                       *)
  progress,             (* the local of process_available()                *)
  want,                 (* frames the running pull() still has to pop      *)
  padding,              (* frames feed_padding() still has to write        *)
  hops,                 (* history: overlap-add frames emitted             *)
  pushed, changes       (* counters for the two bounds                     *)

ratios == <<time, pitch, changes>>
stretcher == <<have_prev, next_expected, hops>>
resampler == <<resample_pos, produced>>
clock == <<accum, flushing, target, pushed>>
call == <<progress, want, padding>>
vars == <<ratios, input, inter, output, stretcher, resampler, clock, pc, call>>

-----------------------------------------------------------------------------
Floor(q) == q \div 4
Round(q) == (q + 2) \div 4

Unity == time * pitch = 16

(* The analysis hop: hop / stretch, in quarter frames. *)
Advance == (64 * Hop) \div (time * pitch)

Expected == Round(next_expected)

(* Mutants of Reclaimed: the margin on the wrong side; nothing reclaimed. *)
ReclaimedAhead == DiscardBefore(input, MaxOf(0, Expected + Search))
ReclaimedNever == input

(* What process_wsola_frame() drops before it looks at the write cursor. *)
Reclaimed == DiscardBefore(input, MaxOf(0, Expected - Search))

Candidates ==
  IF Unity THEN {Expected}
  ELSE MaxOf(Expected - Search, Reclaimed.start)
         .. MinOf(Expected + Search, Reclaimed.end - Window)

(* Mutant: rounds up what is not earned yet. *)
OutputLimitRounded == IF flushing THEN target ELSE Round(accum)

(* How many samples the resampler may have produced. *)
OutputLimit == IF flushing THEN target ELSE Floor(accum)

Center == Floor(resample_pos)
FirstTap == Center - (HalfTaps - 1)
LastTap == Center + HalfTaps

(* Mutants: keeps too little; forgets the output ring. *)
OldestTapLate(pos) == Floor(pos) - HalfTaps + 2
DrainedEarly == flushing /\ produced >= target

(* What the resampler keeps of its input for a position. *)
OldestTap(pos) == Floor(pos) - HalfTaps - 2

(* drained() *)
Drained == flushing /\ Size(output) = 0 /\ produced >= target

-----------------------------------------------------------------------------
Init ==
  /\ time \in TimeRatios /\ pitch \in PitchRatios /\ changes = 0
  /\ input = EmptyRing /\ inter = EmptyRing /\ output = EmptyRing
  /\ have_prev = FALSE /\ next_expected = 0 /\ hops = 0
  /\ resample_pos = 0 /\ produced = 0
  /\ accum = 0 /\ flushing = FALSE /\ target = 0 /\ pushed = 0
  /\ pc = "idle" /\ progress = FALSE /\ want = 0 /\ padding = 0

(* Setters take effect for what the next call processes. *)
SetTimeRatio(r) ==
  /\ pc = "idle" /\ changes < MaxRatioChanges
  /\ time' = r /\ changes' = changes + 1
  /\ UNCHANGED <<pitch, input, inter, output, stretcher, resampler, clock,
                 pc, call>>

SetPitchRatio(r) ==
  /\ pc = "idle" /\ changes < MaxRatioChanges
  /\ pitch' = r /\ changes' = changes + 1
  /\ UNCHANGED <<time, input, inter, output, stretcher, resampler, clock,
                 pc, call>>

(* reset() forgets the stream and keeps the ratios. *)
Reset ==
  /\ pc = "idle"
  /\ input' = EmptyRing /\ inter' = EmptyRing /\ output' = EmptyRing
  /\ have_prev' = FALSE /\ next_expected' = 0 /\ hops' = 0
  /\ resample_pos' = 0 /\ produced' = 0
  /\ accum' = 0 /\ flushing' = FALSE /\ target' = 0 /\ pushed' = 0
  /\ changes' = 0
  /\ UNCHANGED <<time, pitch, pc, call>>

(* A push takes what fits and earns output time for that much.  The calls  *)
(* that take nothing (END_OF_STREAM, BUFFER_FULL) change nothing.          *)
Push(frames) ==
  LET n == MinOf(frames, Free(input)) IN
    /\ pc = "idle" /\ ~flushing /\ n > 0 /\ pushed + n <= InputLimit
    /\ input' = Grow(input, n)
    /\ accum' = accum + n * time
    /\ pushed' = pushed + n
    /\ pc' = "stretch" /\ progress' = FALSE
    /\ UNCHANGED <<ratios, inter, output, stretcher, resampler, flushing,
                   target, want, padding>>

Pull(frames) ==
  /\ pc = "idle"
  /\ want' = frames
  /\ pc' = "stretch" /\ progress' = FALSE
  /\ UNCHANGED <<ratios, input, inter, output, stretcher, resampler, clock,
                 padding>>

(* The first flush fixes the stream's length and starts writing padding;   *)
(* a later one only processes.                                             *)
Flush ==
  /\ pc = "idle"
  /\ IF flushing
     THEN pc' = "stretch" /\ progress' = FALSE
          /\ UNCHANGED <<flushing, target, padding>>
     ELSE pc' = "pad" /\ padding' = Window + Search + 4 * Hop
          /\ flushing' = TRUE /\ target' = Round(accum)
          /\ UNCHANGED progress
  /\ UNCHANGED <<ratios, input, inter, output, stretcher, resampler, accum,
                 pushed, want>>

-----------------------------------------------------------------------------
(* Mutant: the last chunk as long as the others. *)
PadChunkWhole == MaxBlock

PadChunk == MinOf(padding, MaxBlock)

(* feed_padding() under flush(): one chunk per step.  When a chunk does    *)
(* not fit, flush() returns BUFFER_FULL with the stream already flushing   *)
(* and the earlier chunks written.                                         *)
Pad ==
  /\ pc = "pad"
  /\ IF PadChunk > Free(input)
     THEN pc' = "idle" /\ padding' = 0 /\ UNCHANGED <<input, progress>>
     ELSE /\ input' = Grow(input, PadChunk)
          /\ padding' = padding - PadChunk
          /\ IF padding' > 0 THEN UNCHANGED <<pc, progress>>
             ELSE pc' = "stretch" /\ progress' = FALSE
  /\ UNCHANGED <<ratios, inter, output, stretcher, resampler, clock, want>>

(* Mutants: any room at all; a hop of lookahead too many. *)
AnyRoom == Free(inter) > 0
FrameReadyLate ==
  IF have_prev
  THEN Expected + Search + Window + Hop <= input.end /\ Candidates # {}
  ELSE input.start + Window + Search <= input.end

HopFits == Free(inter) >= Hop

(* process_wsola_frame() has the lookahead it waits for. *)
FrameReady ==
  IF have_prev
  THEN Expected + Search + Window <= input.end /\ Candidates # {}
  ELSE input.start + Window + Search <= input.end

FirstFrame ==
  /\ pc = "stretch" /\ HopFits /\ ~have_prev /\ FrameReady
  /\ inter' = Grow(inter, Hop) /\ hops' = hops + 1
  /\ have_prev' = TRUE
  /\ next_expected' = 4 * input.start + Advance
  /\ progress' = TRUE
  /\ UNCHANGED <<ratios, input, output, resampler, clock, pc, want, padding>>

(* An overlap-add frame from one of the candidates; what lies more than    *)
(* the search span before it is reclaimed.                                 *)
NextFrame ==
  /\ pc = "stretch" /\ HopFits /\ have_prev /\ FrameReady
  /\ \E chosen \in Candidates :
       input' = DiscardBefore(Reclaimed, MaxOf(0, chosen - (Search + 2)))
  /\ inter' = Grow(inter, Hop) /\ hops' = hops + 1
  /\ next_expected' = next_expected + Advance
  /\ progress' = TRUE
  /\ UNCHANGED <<ratios, output, have_prev, resampler, clock, pc, want,
                 padding>>

(* The stretching loop ends for want of room, or of input; in the latter   *)
(* case the frame that was not ready has reclaimed its unused past.        *)
StretchEnd ==
  /\ pc = "stretch"
  /\ IF ~HopFits THEN UNCHANGED input
     ELSE ~FrameReady /\ input' = IF have_prev THEN Reclaimed ELSE input
  /\ pc' = "resample"
  /\ UNCHANGED <<ratios, inter, output, stretcher, resampler, clock, call>>

(* One iteration of process_resampler()'s loop would produce a sample. *)
SampleReady ==
  Free(output) > 0 /\ produced < OutputLimit /\ LastTap < inter.end

(* The loop's branch for a center that was already discarded is not here:  *)
(* TapsLive says that it is dead.                                          *)
Sample ==
  /\ pc = "resample" /\ SampleReady
  /\ output' = Grow(output, 1) /\ produced' = produced + 1
  /\ resample_pos' = resample_pos + pitch
  /\ inter' = DiscardBefore(inter, MaxOf(0, OldestTap(resample_pos')))
  /\ progress' = TRUE
  /\ UNCHANGED <<ratios, input, stretcher, clock, pc, want, padding>>

SampleEnd ==
  /\ pc = "resample" /\ ~SampleReady
  /\ pc' = "decide"
  /\ UNCHANGED <<ratios, input, inter, output, stretcher, resampler, clock,
                 call>>

(* The bottom of process_available()'s loop: a stalled flush feeds itself  *)
(* one more block of zeros.                                                *)
FlushMet == flushing /\ produced >= target

(* Mutants: no self-padding; padding into rings that are full. *)
SelfPaddingNever == FALSE
SelfPaddingUnbounded == ~progress /\ flushing /\ produced < target

SelfPadding ==
  /\ ~progress /\ flushing /\ produced < target
  /\ Free(output) > 0 /\ Free(input) > 0

(* Mutant: the loops run once. *)
AgainNever == ~FlushMet /\ SelfPadding

Again == ~FlushMet /\ (progress \/ SelfPadding)

Repeat ==
  /\ pc = "decide" /\ Again
  /\ input' = IF SelfPadding THEN Grow(input, MinOf(MaxBlock, Free(input)))
              ELSE input
  /\ pc' = "stretch" /\ progress' = FALSE
  /\ UNCHANGED <<ratios, inter, output, stretcher, resampler, clock, want,
                 padding>>

(* process_available() returns: to the pop of a pull, or to the caller. *)
Return ==
  /\ pc = "decide" /\ ~Again
  /\ pc' = IF want > 0 THEN "pop" ELSE "idle"
  /\ progress' = FALSE
  /\ UNCHANGED <<ratios, input, inter, output, stretcher, resampler, clock,
                 want, padding>>

(* pull() pops and then processes once more into the room it made. *)
PopOutput ==
  /\ pc = "pop"
  /\ output' = Pop(output, want)
  /\ want' = 0
  /\ pc' = "stretch" /\ progress' = FALSE
  /\ UNCHANGED <<ratios, input, inter, stretcher, resampler, clock, padding>>

Step == \/ Pad \/ FirstFrame \/ NextFrame \/ StretchEnd \/ Sample
        \/ SampleEnd \/ Repeat \/ Return \/ PopOutput

Host == \/ \E r \in TimeRatios : SetTimeRatio(r)
        \/ \E r \in PitchRatios : SetPitchRatio(r)
        \/ \E n \in Blocks : Push(n)
        \/ \E n \in Pulls : Pull(n)
        \/ Flush
        \/ Reset

Next == Step \/ Host

Spec == Init /\ [][Next]_vars

(* Every call runs to its end, and a host that keeps calling pull. *)
FairSpec == Spec /\ WF_vars(Step) /\ SF_vars(\E n \in Pulls : Pull(n))

-----------------------------------------------------------------------------
(* Type correctness. *)
TypeOK ==
  /\ time \in TimeRatios /\ pitch \in PitchRatios /\ changes \in Nat
  /\ input \in Ring /\ inter \in Ring /\ output \in Ring
  /\ have_prev \in BOOLEAN /\ next_expected \in Nat /\ hops \in Nat
  /\ resample_pos \in Nat /\ produced \in Nat
  /\ accum \in Nat /\ flushing \in BOOLEAN /\ target \in Nat /\ pushed \in Nat
  /\ pc \in {"idle", "pad", "stretch", "resample", "decide", "pop"}
  /\ progress \in BOOLEAN /\ want \in Nat /\ padding \in Nat

(* No ring is ever asked to hold more than it has, or read past its write  *)
(* cursor, by any order of pushes, pulls, flushes and ratio changes.       *)
RingsWellFormed == WellFormed(input) /\ WellFormed(inter) /\ WellFormed(output)

(* emit_*_frame() ignores the result of its push into intermediate_: every *)
(* overlap-add frame nevertheless arrives there, whole.                    *)
NoHopLost == inter.end = Hop * hops

(* Whenever the stretcher has the lookahead it waits for, the search has a *)
(* candidate (its failure return is dead) and every candidate's window     *)
(* lies inside the live input: no frame is built from the silent zeros     *)
(* that get() returns for a frame that was dropped or has not arrived.     *)
FrameReadsLive ==
  (have_prev /\ Expected + Search + Window <= input.end) =>
     /\ Candidates # {}
     /\ \A c \in Candidates : LiveSpan(Reclaimed, c, c + Window - 1)

(* Whenever the resampler can produce a sample, every tap it reads is      *)
(* live, but for those before the stream's first frame (whose zeros are    *)
(* the intended start); so its jump to a later position is dead code.      *)
TapsLive ==
  SampleReady => LiveSpan(inter, MaxOf(0, FirstTap), LastTap)

(* The parts that make the above inductive: a ring's read cursor stays     *)
(* behind the next search and behind the oldest tap, the output ring's     *)
(* write cursor counts the samples produced, and they are all paid for.    *)
ReclaimBehind ==
  /\ have_prev => input.start <= Expected
  /\ ~have_prev => input.start = 0
TapsBehind == inter.start <= MaxOf(0, Center - HalfTaps - 2)
WithinBudget ==
  /\ produced = output.end /\ produced <= OutputLimit
  /\ flushing => target = Round(accum)

(* The inductive invariant: all of the above, in every reachable state. *)
IInv == /\ TypeOK /\ RingsWellFormed /\ NoHopLost
        /\ ReclaimBehind /\ TapsBehind /\ WithinBudget

(* When a call returns in mid-stream there is nothing left that it could   *)
(* have produced: available() tells the host all there is.                 *)
CallLeavesNothing ==
  (pc = "idle" /\ ~flushing) =>
     ~SampleReady /\ (HopFits => ~FrameReady)

(* A stream that reports drained has handed out exactly the rounded sum of *)
(* the output time its input earned.                                       *)
DrainedIsExact == Drained => output.start = Round(accum)

(* A push refused for want of room can be cured by pulling: with the input *)
(* full there is output to take.  It fails when the ratios change (see the *)
(* run stuck), and holds for a stream whose ratios have not.               *)
PullMakesRoom ==
  (pc = "idle" /\ ~flushing /\ Free(input) = 0) => Size(output) > 0
PullMakesRoomFixed == changes = 0 => PullMakesRoom

(* What BackendEngine::realtime_latency() declares. *)
RealtimeLatency == Window + Search + Hop

(* The declared latency covers the engine's backlog at time ratio one: a   *)
(* fixed-I/O block that starts after that many frames of zeros finds all   *)
(* the output it has to deliver.  It fails when the pitch changes (see the *)
(* run latency), and holds for a stream whose ratios have not.             *)
LatencyCovers ==
  (pc = "idle" /\ time = 4 /\ ~flushing /\ Free(output) > 0) =>
     pushed - produced <= RealtimeLatency
LatencyCoversFixed == changes = 0 => LatencyCovers

(* Every call returns. *)
CallsReturn == (pc # "idle") ~> (pc = "idle")

(* A flushed stream drains once the host keeps pulling, also after a flush *)
(* that returned BUFFER_FULL and whatever the host changes meanwhile.      *)
FlushDrains == flushing ~> (Drained \/ ~flushing)

(* The engine implements the stream it promises. *)
Promise == INSTANCE Stream WITH
  Ratios <- TimeRatios, Transfers <- 1 .. Fifo, earned <- accum, made <- produced,
  taken <- output.start, ended <- flushing, length <- target

ExactStream == Promise!StreamSpec
=============================================================================
