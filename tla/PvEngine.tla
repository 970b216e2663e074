------------------------------ MODULE PvEngine ------------------------------
(***************************************************************************)
(* The phase-vocoder engine, experimental/pv/pv_rt.cpp: its cursors, its   *)
(* frames and the two ways they are worked on, at once (push() of a        *)
(* stream) or in slices of a few steps per input frame (pv_execution.inc). *)
(* Spectra, phases and samples are left out: a frame overlap-adds N frames *)
(* at a position, what the model keeps is where and when.                  *)
(*                                                                         *)
(* An engine is a record, a call a function from an engine to the next     *)
(* one, with ok telling whether it succeeded.                              *)
(***************************************************************************)
EXTENDS PitchTimeline

CONSTANTS
  N, Hop,          (* n_fft_, analysis_hop_                                *)
  Half,            (* k_resampler_half                                     *)
  InCap, OlaCap, PvCap, FifoCap,  (* the rings                             *)
  StepsPerInput,   (* steps_per_input_                                     *)
  FlushGuard       (* of guard_limit in flush(): 96 windows and 131072     *)

Round(x) == (x + Frame \div 2) \div Frame
Floor(x) == x \div Frame

(* Where a loop stops: at the first of these places, or at its bound. *)
FirstOf(stops, bound) ==
  IF stops = {} THEN bound ELSE CHOOSE j \in stops : \A i \in stops : j <= i

(* reset(), with the ratios and the way of working of the engine. *)
Fresh(kind, time, pitch) ==
  [kind |-> kind, time |-> time, pitch |-> pitch,
   in |-> N \div 2, start |-> 0, synth |-> 0, framePitch |-> pitch,
   safe |-> 0, cleanup |-> 0, real |-> 0, expectedPv |-> 0,
   expectedOut |-> 0, pvStart |-> 0, pvWrite |-> 0, pos |-> 0,
   emitted |-> 0, count |-> 0, source |-> 0, frames |-> 0, left |-> 0,
   flushed |-> FALSE, explicit |-> FALSE, targetPv |-> 0, targetOut |-> 0,
   line |-> NewTimeline(pitch, time), ok |-> TRUE]

(* The constructor: the time and pitch the engine is made with. *)
Made(kind) == Fresh(kind, kind.time, kind.pitch)

Scheduled(e) == e.kind.scheduled
Timeline(e) == e.kind.timeline
Failed(e) == [e EXCEPT !.ok = FALSE]
FramePitch(e) == IF Timeline(e) THEN e.framePitch ELSE e.pitch
Stretch(e) == e.time * FramePitch(e)
Crop == N \div 2
FullFrame(e) == e.in >= e.start + N

-----------------------------------------------------------------------------
(* Output: drain_safe() and the resamplers. *)

Budget(e, slices) == IF Scheduled(e) /\ ~e.flushed THEN slices ELSE FifoCap

(* How many frames the final FIFO may take in this call. *)
Wanted(e, final) ==
  LET limit == IF final THEN e.targetOut ELSE Floor(e.expectedOut)
  IN  Greater(0, Lesser(Budget(e, 2),
                        Lesser(limit - e.emitted, FifoCap - e.count)))

Emit(e, n) == [e EXCEPT !.emitted = @ + n, !.count = @ + n]
DiscardBefore(e, i) ==
  [e EXCEPT !.pvStart = Lesser(Greater(@, i), e.pvWrite)]

(* process_resampler() at pitch one. *)
CopyThrough(e, final) ==
  LET n == Lesser(Wanted(e, final), e.pvWrite - e.pvStart) IN
    [Emit(e, n) EXCEPT !.pvStart = @ + n,
                       !.pos = IF n = 0 THEN @ ELSE (e.pvStart + n) * Frame]

(* Mutant: a tap fewer is kept. *)
KeepLess(center) == center - Half + 2

(* What the next sample's taps may still need. *)
Keep(center) == center - Half - 2

(* process_resampler() at another pitch. *)
Center(e, j) == Floor(e.pos + j * e.pitch * Unit)
Interpolated(e, n) ==
  IF n = 0 THEN e
  ELSE DiscardBefore([Emit(e, n) EXCEPT !.pos = @ + n * e.pitch * Unit],
                     Keep(Center(e, n)))
TapsThere(e, final, center) ==
  IF final THEN center - Half <= e.pvWrite + Half ELSE center + Half + 1 < e.pvWrite
Interpolate(e, final) ==
  LET n == Wanted(e, final)
  IN  Interpolated(e, FirstOf({j \in 0..n - 1 : ~TapsThere(e, final, Center(e, j))}, n))

(* The input frame an output frame falls on: with a variable time the      *)
(* search goes on from the last one, four frames at most.                  *)
Passed(e, i) == Has(e.line, i + 1) /\ At(e.line, i + 1).output <= e.emitted * Frame
Advance(e) == FirstOf({i \in e.source..e.source + 3 : ~Passed(e, i)}, e.source + 4)

(* process_timeline_resampler(), one frame: the position of the output in  *)
(* the stretched signal by way of the input frame i it falls on, part of   *)
(* whole beyond it.                                                        *)
Source(e) == IF e.kind.variable THEN Advance(e) ELSE (e.emitted * Unit) \div e.time
Part(e, i) == IF e.kind.variable THEN e.emitted * Frame - At(e.line, i).output
              ELSE (e.emitted * Unit) % e.time
Whole(e, i) == IF e.kind.variable
               THEN At(e.line, i + 1).output - At(e.line, i).output ELSE e.time

Mapped(e, i, part, whole) ==
  /\ Has(e.line, i)
  /\ e.kind.variable \/ part # 0 => Has(e.line, i + 1)
  /\ part >= 0 /\ part < whole

(* One output frame of it, if its place in the map and its taps are there. *)
MapEmit(e, final, center) ==
  IF final \/ center + Half + 1 < e.pvWrite
  THEN DiscardBefore(Emit([e EXCEPT !.pos = center * Frame], 1), Keep(center))
  ELSE e
MapAt(e, final, i) ==
  IF Mapped(e, i, Part(e, i), Whole(e, i))
  THEN MapEmit(e, final, PositionFrame(e.line, i, Part(e, i), Whole(e, i)))
  ELSE e
MapFrom(e, final, i) ==
  MapAt([e EXCEPT !.source = IF e.kind.variable THEN i ELSE @], final, i)
MapOne(e, final) == MapFrom(e, final, Source(e))

(* The loop: the frame that is not there ends it. *)
MapNext(x, final, emitted) == IF x.emitted < emitted THEN x ELSE MapOne(x, final)
MapAll(e, final) ==
  LET n == Wanted(e, final)
      after[k \in 0..n] ==
        IF k = 0 THEN e ELSE MapNext(after[k - 1], final, e.emitted + k - 1)
  IN  after[n]

Resample(e, final) ==
  IF Timeline(e) THEN MapAll(e, final)
  ELSE IF e.pitch = Unit THEN CopyThrough(e, final)
  ELSE Interpolate(e, final)

PvFree(e) == PvCap - (e.pvWrite - e.pvStart)

(* drain_safe(): positions that no later frame reaches go to the           *)
(* resampler's ring, those of the startup are dropped.                     *)
Silent(e) == Greater(0, Crop - e.cleanup)
DrainDue(e, final) ==
  LET limit == IF final THEN e.targetPv ELSE Floor(e.expectedPv)
  IN  Greater(0, Lesser(Lesser(e.safe, Crop + limit) - e.cleanup, Budget(e, 8)))
MoveOut(e, n) ==
  [e EXCEPT !.cleanup = @ + n, !.pvWrite = @ + Greater(0, n - Silent(e))]

(* As much as fits; if more is due, the resampler must make room first, and *)
(* once it made none the call ends.                                         *)
DrainRound(e, goal) ==
  LET room == Silent(e) + PvFree(e)
  IN  IF goal - e.cleanup <= room THEN MoveOut(e, goal - e.cleanup)
      ELSE Resample(MoveOut(e, room), FALSE)
DrainNext(x, goal) ==
  IF x.cleanup = goal \/ PvFree(x) = 0 THEN x ELSE DrainRound(x, goal)
DrainTo(e, goal) ==
  LET after[k \in 0..goal - e.cleanup] ==
        IF k = 0 THEN DrainRound(e, goal) ELSE DrainNext(after[k - 1], goal)
  IN  after[goal - e.cleanup]
Drain(e, final) == DrainTo(e, e.cleanup + DrainDue(e, final))

Deliver(e, final) == Resample(Drain(e, final), FALSE)

-----------------------------------------------------------------------------
(* Frames. *)

(* latch_timeline(): the frame's pitch and position are those of its       *)
(* input.                                                                  *)
Latched(e) ==
  IF ~Timeline(e) THEN e
  ELSE [e EXCEPT !.framePitch = At(e.line, e.start).pitch,
                 !.synth = At(e.line, e.start).position]

(* The spectrum of the frame is added to the output at its position: what  *)
(* lies before it is final.                                                *)
OverlapAdded(e) ==
  [e EXCEPT !.safe = Round(e.synth),
            !.synth = @ + Hop * Stretch(e),
            !.start = @ + Hop, !.frames = @ + 1]

(* process_frame() *)
ProcessFrame(e) == Deliver(OverlapAdded(Latched(e)), e.flushed)

(* start_task(), and the frame's last step. *)
StartTask(e, steps) == [Latched(e) EXCEPT !.left = steps]
FinishTask(e) == IF e.left = 0 THEN e
                 ELSE OverlapAdded([e EXCEPT !.left = 0])

(* process_available(): every window that is complete. *)
Windows(e) == Greater(0, (e.in - e.start - N) \div Hop + 1)
WorkWindow(e) ==
  IF ~Scheduled(e) THEN ProcessFrame(e)
  ELSE FinishTask(IF e.left = 0 THEN StartTask(e, 1) ELSE e)
ProcessAvailable(e) ==
  LET after[k \in 0..Windows(e)] == IF k = 0 THEN e ELSE WorkWindow(after[k - 1])
  IN  after[Windows(e)]

(* tick(): a few steps of the frame's work; the frame that is still being  *)
(* worked on when the next is complete fails the stream.                   *)
Worked(busy) ==
  IF busy.left <= StepsPerInput THEN FinishTask(busy)
  ELSE [busy EXCEPT !.left = @ - StepsPerInput]
InTime(e) ==
  IF e.left > 0 /\ e.in >= e.start + N + Hop THEN Failed(e) ELSE e
Tick(e, steps) ==
  InTime(Worked(IF e.left = 0 /\ FullFrame(e) THEN StartTask(e, steps) ELSE e))

-----------------------------------------------------------------------------
(* The engine's calls. *)

InputSpace(e) == e.in - e.start < InCap - 1

(* append_timeline(): the frames that a later frame or output refers to    *)
(* must stay in the map.                                                   *)
AppendTimeline(e) ==
  LET output == IF e.kind.variable THEN e.source
                ELSE (e.emitted * Unit) \div e.time
  IN  IF ~CanAppend(e.line, Lesser(e.start, output)) THEN Failed(e)
      ELSE [e EXCEPT !.line = Appended(@, ~e.flushed \/ ~e.explicit)]

(* What an input frame is worth. *)
EarnMapped(e) ==
  [e EXCEPT !.expectedOut = e.line.output, !.expectedPv = e.line.position]
Earn(e) ==
  IF Timeline(e) THEN EarnMapped(AppendTimeline(e))
  ELSE [e EXCEPT !.expectedOut = @ + e.time * Unit, !.expectedPv = @ + Stretch(e)]

(* push() of one frame; steps is the work of a frame that begins with it. *)
Room(e) == IF e.count >= FifoCap THEN Failed(e) ELSE e
PushDeliver(worked) == IF ~worked.ok THEN worked ELSE Room(Deliver(worked, FALSE))
PushWork(earned, steps) ==
  IF ~earned.ok THEN earned
  ELSE PushDeliver(IF Scheduled(earned) THEN Tick(earned, steps)
                   ELSE ProcessAvailable(earned))
PushOne(e, steps) ==
  IF ~InputSpace(e) THEN Failed(e)
  ELSE PushWork(Earn([e EXCEPT !.in = @ + 1, !.real = @ + 1]), steps)

(* flush() feeds zeros until the stretched signal is complete. *)
Complete(e) == e.safe >= Crop + e.targetPv /\ e.pvWrite >= e.targetPv

FeedRoom(e) == IF e.count >= FifoCap /\ e.emitted < e.targetOut THEN Failed(e) ELSE e
FeedWork(mapped) ==
  IF mapped.ok THEN FeedRoom(Deliver(ProcessAvailable(mapped), TRUE)) ELSE mapped
FeedMap(e) == IF Timeline(e) THEN AppendTimeline(e) ELSE e
FeedZero(e) ==
  IF ~e.ok \/ Complete(e) THEN e
  ELSE IF ~InputSpace(e) THEN Failed(e)
  ELSE FeedWork(FeedMap([e EXCEPT !.in = @ + 1]))
Feed(e, guard) ==
  LET after[k \in 0..guard] == IF k = 0 THEN e ELSE FeedZero(after[k - 1])
  IN  after[guard]

FlushCheck(e) ==
  IF e.pvWrite = e.targetPv /\ e.emitted = e.targetOut THEN e ELSE Failed(e)
FlushRest(fed) ==
  IF ~fed.ok THEN fed ELSE FlushCheck(Resample(Drain(fed, TRUE), TRUE))
FlushFed(begun) == FlushRest(Feed(begun, FlushGuard + 2 * begun.targetPv))
FlushAll(e) ==
  FlushFed(FinishTask([e EXCEPT !.flushed = TRUE,
                                !.targetPv = Round(e.expectedPv),
                                !.targetOut = Round(e.expectedOut)]))

(* pull() resamples before and after it takes the frames. *)
PullSome(e, n) ==
  LET Again(x) ==
        IF Scheduled(x) /\ ~x.flushed THEN x
        ELSE Resample(x, x.flushed /\ x.pvWrite = x.targetPv)
      first == Again(e)
  IN  Again([first EXCEPT !.count = @ - Lesser(n, @)])

(* set_pitch_ratio() of an engine with a timeline. *)
GlidePitch(e, v) ==
  [e EXCEPT !.pitch = v, !.line.plan = Glided(@, v, e.line.written > 0)]

(* apply_ramp(): of the pitch or of the time; a ramp is [at, of, to, over]. *)
RampPlan(plan, r) == [plan EXCEPT ![r.of] = Started(@, r.to, r.over)]
Ramp(e, r) ==
  [e EXCEPT ![r.of] = r.to, !.explicit = TRUE, !.line.plan = RampPlan(@, r)]
=============================================================================
