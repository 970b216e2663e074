------------------------------ MODULE Spectral ------------------------------
(***************************************************************************)
(* The phase-vocoder backend behind the C API: back-pressure and faults    *)
(* (spectral_backend.cpp), the calls of the handle on it (boiled_egg.cpp)  *)
(* and the ramps a caller sends along with its frames (automation_api.inc, *)
(* pv_automation.inc).                                                     *)
(*                                                                         *)
(* One caller owns the stream; another thread may store a pitch in the     *)
(* handle's mailbox between any two calls.                                 *)
(***************************************************************************)
EXTENDS PvEngine

CONSTANTS
  Kinds,        (* the engines a handle may be made with                   *)
  Reserve,      (* frames available at which a push is refused, 32768      *)
  FrameSteps,   (* how many steps the work on a frame may take             *)
  Blocks,       (* frames of a call, by the engine's kind                  *)
  Pulls,        (* capacities of a pull                                    *)
  Pitches,      (* pitches a caller may set                                *)
  Batches,      (* lists of ramps                                          *)
  InputLimit,   (* bound: input frames of a stream, by the engine's kind   *)
  MaxChanges    (* bound: pitches set and batches of ramps, by the kind    *)

(* What the code's tables and validate_config() make sure of: ratios        *)
(* between a half and two whose product is two at most, a time that ramps   *)
(* only in a stream, and a hop of half a window at most. A half, the lowest *)
(* ratio, is a whole number of Units.                                       *)
ASSUME SpectralSizes ==
  /\ {Unit, Nodes, Hop} \subseteq Nat \ {0}
  /\ {RampFrames, N, Half, InCap, OlaCap, PvCap, FifoCap, StepsPerInput,
      FlushGuard, Reserve} \subseteq Nat
  /\ Unit % 2 = 0 /\ N % 2 = 0 /\ 2 * Hop <= N
  /\ Kinds \subseteq [scheduled : BOOLEAN, timeline : BOOLEAN, variable : BOOLEAN,
                     time : Nat, pitch : Nat]
  /\ \A kind \in Kinds :
       /\ kind.variable => kind.timeline /\ ~kind.scheduled
       /\ Unit <= 2 * kind.time /\ kind.time <= 2 * Unit
       /\ Unit <= 2 * kind.pitch /\ kind.pitch <= 2 * Unit
       /\ kind.time * kind.pitch <= 2 * Frame
  /\ FrameSteps \subseteq Nat \ {0} /\ Pulls \subseteq Nat /\ Pitches \subseteq Nat
  /\ Blocks \in [Kinds -> SUBSET (Nat \ {0})]
  /\ Batches \subseteq Seq([at : Nat, of : {"pitch", "time"}, to : Nat, over : Nat])

VARIABLES
  e,            (* SpectralBackend::handle_, the engine                    *)
  fault,        (* fault_                                                  *)
  wanted,       (* requested_pitch_ratio_bits                              *)
  silence,      (* realtime_latency_remaining                              *)
  underrun,     (* a realtime call had to report one                       *)
  last,         (* what the last push with ramps returned, and accepted     *)
  changes       (* bound: see MaxChanges                                   *)

vars == <<e, fault, wanted, silence, underrun, last, changes>>

Ceil(x, y) == -((-x) \div y)

(* Mutant: of the highest pitch. *)
LatencyOfHighest(kind) ==
  LET pitch == IF kind.timeline THEN 2 * Unit ELSE kind.pitch IN
    N \div 2 + 2 * Hop + 2 + Ceil((N \div 2 + Half + 4) * Unit, pitch)

(* child_latency_bound(), of the lowest pitch when it may change. *)
Latency(kind) ==
  LET pitch == IF kind.timeline THEN Unit \div 2 ELSE kind.pitch IN
    N \div 2 + 2 * Hop + 2 + Ceil((N \div 2 + Half + 4) * Unit, pitch)

Init ==
  \E kind \in Kinds :
    /\ e = Made(kind)
    /\ fault = FALSE
    /\ wanted = kind.pitch
    /\ silence = Latency(kind)
    /\ underrun = FALSE
    /\ last = <<"none", 0>>
    /\ changes = 0

-----------------------------------------------------------------------------
(* SpectralBackend *)

Outcome(x, result, accepted) == [e |-> x, result |-> result, accepted |-> accepted]

(* Mutant: no push is refused. *)
CanAcceptAlways(x) == TRUE

CanAccept(x) == ~x.flushed /\ x.count < Reserve

(* The ramps of one offset take effect, then one frame is pushed.          *)
RampAt(x, r, k) == IF r.at = k THEN Ramp(x, r) ELSE x
Ramped(x, batch, k) ==
  LET after[i \in 0..Len(batch)] ==
        IF i = 0 THEN x ELSE RampAt(after[i - 1], batch[i], k)
  IN  after[Len(batch)]

(* A push of n frames: what became of it after each. *)
PushDone(one, k) ==
  IF one.ok THEN Outcome(one, "ok", k + 1) ELSE Outcome(one, "fault", k)
PushNext(o, batch, steps) ==
  IF o.result # "ok" THEN o
  ELSE IF ~CanAccept(o.e) THEN [o EXCEPT !.result = "full"]
  ELSE PushDone(PushOne(Ramped(o.e, batch, o.accepted), steps), o.accepted)
PushFrames(x, n, batch, steps) ==
  LET after[k \in 0..n] ==
        IF k = 0 THEN Outcome(x, "ok", 0) ELSE PushNext(after[k - 1], batch, steps)
  IN  after[n]

(* set_pitch_ratio(): only an engine whose pitch may change has a say. *)
Synced(x) ==
  IF Timeline(x) /\ ~x.kind.variable /\ ~x.flushed THEN GlidePitch(x, wanted)
  ELSE x

-----------------------------------------------------------------------------
(* validate_ramps() *)

(* Mutant: only where the ramps end is looked at. *)
SafeTargets(plan) == plan.pitch.target * plan.time.target <= 2 * Frame

(* safe(): the stretch stays within two whatever the ramps do on the way. *)
Safe(plan) ==
  Greater(plan.pitch.value, plan.pitch.target)
    * Greater(plan.time.value, plan.time.target) <= 2 * Frame

After(plan, ticks) ==
  LET after[k \in 0..ticks] == IF k = 0 THEN plan ELSE TickedPlan(after[k - 1])
  IN  after[ticks]

(* The plans that a batch leads through; where it stays for a frame at     *)
(* least the plan must be safe.                                            *)
Cursor(batch, i) == IF i = 0 THEN 0 ELSE batch[i].at
Leads(plan, batch) ==
  LET led[i \in 0..Len(batch)] ==
        IF i = 0 THEN plan
        ELSE RampPlan(After(led[i - 1], batch[i].at - Cursor(batch, i - 1)), batch[i])
  IN  led
SafeThrough(plan, batch) ==
  \A i \in 0..Len(batch) :
    i = 0 \/ i = Len(batch) \/ batch[i].at # batch[i + 1].at => Safe(Leads(plan, batch)[i])

ValidateRamps(x, batch, n) ==
  /\ Timeline(x) /\ ~x.flushed
  /\ \/ x.kind.variable
     \/ 2 * wanted >= Unit /\ wanted <= 2 * Unit
  /\ \A i \in DOMAIN batch :
       /\ IF n > 0 THEN batch[i].at < n ELSE batch[i].at = 0
       /\ i > 1 => batch[i].at >= batch[i - 1].at
       /\ batch[i].of = "time" => x.kind.variable
       /\ 2 * batch[i].to >= Unit /\ batch[i].to <= 2 * Unit
  /\ SafeThrough(Synced(x).line.plan, batch)

(* The mailbox follows the ramps that took effect, those before offset n. *)
Followed(batch, n) ==
  LET done == {i \in DOMAIN batch : batch[i].at < n /\ batch[i].of = "pitch"}
  IN  IF done = {} THEN wanted
      ELSE batch[CHOOSE i \in done : \A j \in done : j <= i].to

-----------------------------------------------------------------------------
(* The calls of a streaming handle. *)

Streaming == ~Scheduled(e)
Unchanged == UNCHANGED <<silence, underrun>>
Quiet == last' = <<"none", 0>>

(* boiledegg_push() *)
Push(n) ==
  \E done \in {PushFrames(Synced(e), n, <<>>, 1)} :
    /\ Streaming /\ ~fault /\ ~e.flushed
    /\ e.real + n <= InputLimit[e.kind]
    /\ e' = done.e
    /\ fault' = (done.result = "fault")
    /\ Quiet /\ Unchanged /\ UNCHANGED <<wanted, changes>>

(* Mutant: the first ramps take effect before there is room for a frame. *)
PushRampsEager(n, batch) ==
  \E done \in {PushFrames(Ramped(Synced(e), batch, 0), n, batch, 1)} :
    /\ e' = done.e
    /\ fault' = (done.result = "fault")
    /\ last' = <<done.result, done.accepted>>
    /\ wanted' = Followed(batch, done.accepted)

(* boiledegg_push_ramps() of a batch that is valid: without room for a     *)
(* frame nothing happens, not even the ramps at its start; a call without  *)
(* frames is for the ramps alone.                                          *)
RampsPushed(n, batch) ==
  \E done \in {IF n = 0 THEN Outcome(Ramped(Synced(e), batch, 0), "ok", 0)
               ELSE IF ~CanAccept(e) THEN Outcome(e, "full", 0)
               ELSE PushFrames(Synced(e), n, batch, 1)} :
    /\ e' = done.e
    /\ fault' = (done.result = "fault")
    /\ last' = <<done.result, done.accepted>>
    /\ wanted' = Followed(batch, IF n = 0 THEN 1 ELSE done.accepted)

PushRamps(n, batch) ==
  /\ Streaming /\ ~fault /\ ValidateRamps(e, batch, n)
  /\ e.real + n <= InputLimit[e.kind] /\ changes < MaxChanges[e.kind]
  /\ changes' = changes + 1
  /\ RampsPushed(n, batch)
  /\ Unchanged

(* boiledegg_pull() *)
Pull(n) ==
  /\ Streaming /\ ~fault
  /\ e' = PullSome(Synced(e), n)
  /\ Quiet /\ Unchanged /\ UNCHANGED <<fault, wanted, changes>>

(* boiledegg_flush() *)
Flush ==
  /\ Streaming /\ ~fault /\ ~e.flushed
  /\ \E done \in {FlushAll(Synced(e))} :
    /\ e' = done
    /\ fault' = ~done.ok
    /\ Quiet /\ Unchanged /\ UNCHANGED <<wanted, changes>>

-----------------------------------------------------------------------------
(* The calls of a realtime handle. *)

(* process_realtime_chunk(): frames in, silence for the latency, the rest  *)
(* from the engine; r is the state so far, after the first r.at frames.    *)
ChunkPulled(r, pushed, n, zero) ==
  IF pushed.result # "ok" THEN [r EXCEPT !.e = pushed.e, !.ok = FALSE]
  ELSE [e |-> PullSome(pushed.e, n - zero), silence |-> r.silence - zero,
        under |-> r.under \/ pushed.e.count < n - zero, ok |-> TRUE, at |-> r.at + n]
Chunk(r, n, steps) ==
  ChunkPulled(r, PushFrames(r.e, n, <<>>, steps), n, Lesser(n, r.silence))
Upto(r, at, steps) == IF r.ok /\ at > r.at THEN Chunk(r, at - r.at, steps) ELSE r

(* The block, cut at the offsets of its events. *)
Heard(r, event, explicit) ==
  IF ~r.ok THEN r
  ELSE [r EXCEPT !.e = IF explicit THEN Ramp(@, event) ELSE GlidePitch(@, event.to)]
RealtimeBlock(r, n, batch, steps, explicit) ==
  LET after[i \in 0..Len(batch)] ==
        IF i = 0 THEN r
        ELSE Heard(Upto(after[i - 1], batch[i].at, steps), batch[i], explicit)
  IN  Upto(after[Len(batch)], n, steps)

Realtime(n, batch, steps, explicit) ==
  \E done \in {RealtimeBlock([e |-> Synced(e), silence |-> silence, under |-> FALSE,
                              ok |-> TRUE, at |-> 0], n, batch, steps, explicit)} :
    /\ Scheduled(e) /\ ~fault
    /\ e.real + n <= InputLimit[e.kind]
    /\ e' = done.e
    /\ silence' = done.silence
    /\ underrun' = (underrun \/ done.under)
    /\ fault' = ~done.ok
    /\ wanted' = Followed(batch, n)
    /\ Quiet

(* What validate_parameter_value() lets pass as a pitch. *)
PitchTaken(v) == 2 * v >= Unit /\ v <= 2 * Unit /\ e.kind.time * v <= 2 * Frame

(* boiledegg_process_realtime() with pitch events. *)
ProcessRealtime(n, batch, steps) ==
  /\ batch # <<>> => Timeline(e) /\ changes < MaxChanges[e.kind]
  /\ \A i \in DOMAIN batch :
       /\ batch[i].of = "pitch" /\ PitchTaken(batch[i].to) /\ batch[i].at < n
       /\ i > 1 => batch[i].at >= batch[i - 1].at
  /\ changes' = changes + (IF batch = <<>> THEN 0 ELSE 1)
  /\ Realtime(n, batch, steps, FALSE)

(* boiledegg_process_realtime_ramps() *)
ProcessRealtimeRamps(n, batch, steps) ==
  /\ ValidateRamps(e, batch, n)
  /\ changes < MaxChanges[e.kind]
  /\ changes' = changes + 1
  /\ Realtime(n, batch, steps, TRUE)

-----------------------------------------------------------------------------
(* Any handle. *)

(* boiledegg_set_pitch_ratio(), from any thread: the mailbox.              *)
SetPitch(v) ==
  /\ Timeline(e) /\ ~e.kind.variable /\ PitchTaken(v)
  /\ v # wanted /\ changes < MaxChanges[e.kind]
  /\ wanted' = v /\ changes' = changes + 1
  /\ Quiet /\ Unchanged /\ UNCHANGED <<e, fault>>

(* boiledegg_reset(): the engine starts again at the ratios it was heading *)
(* for.                                                                    *)
Reset ==
  /\ e' = Synced(Fresh(e.kind, e.time, e.pitch))
  /\ fault' = FALSE
  /\ silence' = Latency(e.kind)
  /\ Quiet /\ UNCHANGED <<wanted, underrun, changes>>

Next ==
  \/ \E n \in Blocks[e.kind] : Push(n)
  \/ \E n \in Blocks[e.kind] \cup {0}, batch \in Batches : PushRamps(n, batch)
  \/ \E n \in Pulls : Pull(n)
  \/ Flush
  \/ \E n \in Blocks[e.kind], batch \in Batches \cup {<<>>}, steps \in FrameSteps :
       ProcessRealtime(n, batch, steps)
  \/ \E n \in Blocks[e.kind], batch \in Batches, steps \in FrameSteps :
       ProcessRealtimeRamps(n, batch, steps)
  \/ \E v \in Pitches : SetPitch(v)
  \/ Reset

Spec == Init /\ [][Next]_vars

-----------------------------------------------------------------------------
(* A handle that is used as its calls demand never fails: no frame of the  *)
(* spectrum is late for the next one, no ring overflows, the map still has *)
(* every point that is asked for, and a flush delivers the output that the *)
(* input is worth, to the frame (spectral_backend.cpp:93, :107).           *)
NeverFaults == ~fault

(* A realtime call always has its frames: the latency that is reported to  *)
(* the host covers the frames' work, the cleanup, the resampler and every  *)
(* pitch on the way (host_latency_bound.hpp:8).                            *)
NeverLate == ~underrun

(* What a position is normalised by is final when it is handed on: no      *)
(* later frame adds to it, nor does one wrap onto what was not yet.        *)
OverlapOpen ==
  LET next == IF Timeline(e) /\ Has(e.line, e.start)
              THEN At(e.line, e.start).position ELSE e.synth
  IN  /\ e.cleanup <= Round(next)
      /\ Round(next) + N - e.cleanup <= OlaCap

(* The next output frame's taps are in the stretched signal's ring. *)
TapsHeld ==
  LET center == IF Timeline(e) THEN Floor(e.pos) ELSE
                IF e.pitch = Unit THEN e.pvStart + Half - 1 ELSE Floor(e.pos)
  IN  /\ e.pvStart <= Greater(0, center - Half + 1)
      /\ e.pvWrite - e.pvStart <= PvCap

(* The two rings of positions hold what is still needed and only that      *)
(* (pv_rt.cpp:692, :806).                                                  *)
RingsHold == OverlapOpen /\ TapsHeld

(* The stretch that frames are laid out with is never above two, however   *)
(* ramps of pitch and time overlap, are cut short by a full FIFO and sent  *)
(* again (pv_automation.inc:20).                                           *)
StretchBounded ==
  Timeline(e) =>
    e.line.plan.pitch.value * e.line.plan.time.value <= 2 * Frame

(* A push with ramps that was refused for want of room left the engine as  *)
(* it was, even the ramps at offset zero (automation_api.inc:64).          *)
RefusalKeeps == [][last' = <<"full", 0>> => e' = e /\ wanted' = wanted]_vars
=============================================================================
