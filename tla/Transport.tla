------------------------------ MODULE Transport ------------------------------
(***************************************************************************)
(* The preview transport (sdk/transport): a resident source is played at   *)
(* any speed from zero to four, frozen, ramped and sought, while windows   *)
(* of it are synthesised into a ring, which a kernel of taps resamples.    *)
(* Spectra are left out: of a synthesised sample the model keeps which     *)
(* sample of the stretched signal it is and whether source audio entered   *)
(* it.  Times of the source are in Parts of a frame, those of the          *)
(* stretched signal in quarters, speeds in quarters, pitches in octaves;   *)
(* the compensated sums of the code make the integers exact.               *)
(***************************************************************************)
EXTENDS Integers, Sequences

CONSTANTS
  Base,          (* the window of each mode at up to 48 kHz                *)
  Half,          (* half of the interpolation kernel's taps: 16            *)
  Modes,         (* the modes in their order, the spectral ones first      *)
  Configs,       (* the configurations asked for                           *)
  BlockSizes,    (* frames of a call                                       *)
  EventLists,    (* sequences of events of a call                          *)
  Seeks,         (* frames sought                                          *)
  OutputLimit,   (* bound: outputs rendered since the last seek            *)
  ChangeLimit    (* bound: calls with events and seeks of a behaviour      *)

VARIABLES cfg, h, changes
transportVars == <<cfg, h, changes>>

Parts == 24
Spectral == {"classic", "locked", "transient"}
Parameters == {"speed", "pitch", "formant"}

Configurations ==
  [source_rate : Int, output_rate : Int, channels : Int, mode : Modes,
   formant : Nat, frames : Nat]

(* What the theorems ask of the constants: windows of four hops, and a     *)
(* kernel that reaches less than two hops, the first frames, ahead.  The   *)
(* code has 512 frames for the smallest window and 32 taps.                *)
TransportSizes ==
  /\ Half \in Nat \ {0}
  /\ \A mode \in Modes :
       /\ Base[mode] \in Nat /\ Base[mode] % 4 = 0 /\ Base[mode] >= 8
       /\ 2 * (Half + 1) < Base[mode]
  /\ Configs \subseteq Configurations
  /\ BlockSizes \subseteq Nat /\ Seeks \subseteq Nat
  /\ EventLists \subseteq Seq([offset : Nat, parameter : Parameters, value : Int,
                           ramp : Nat])

-----------------------------------------------------------------------------
(* Ramps of the controls.                                                  *)
Still(x) == [value |-> x, start |-> x, target |-> x, length |-> 0, elapsed |-> 0]

Towards(r, x, n) ==
  [value |-> IF n = 0 THEN x ELSE r.value,
   start |-> r.value, target |-> x, length |-> n, elapsed |-> 0]

Tick(r) ==
  IF r.elapsed >= r.length THEN r
  ELSE [r EXCEPT !.elapsed = @ + 1,
                 !.value = r.start
                   + ((r.target - r.start) * (r.elapsed + 1)) \div r.length]

(* Frames of the source an output frame covers, times Parts, at speed 1/4. *)
Pace(c) == (Parts * c.source_rate) \div (4 * c.output_rate)
Window(c) == Base[c.mode] * (IF c.output_rate > 48000 THEN 2 ELSE 1)
SynthesisHop(c) == Window(c) \div 4
Capacity(c) == 4 * Window(c)
TailLimit(c) == 4 * Window(c) + 2 * Half
Quarters(octaves) == 2^(octaves + 2)
HasEnded(c, s) == s.tail = TailLimit(c)

Creates(c) ==
  /\ c.source_rate >= 8000 /\ c.source_rate <= 192000
  /\ c.output_rate >= 8000 /\ c.output_rate <= 192000
  /\ c.channels \in 1..8
  /\ c.mode \in Modes
  /\ c.mode \notin Spectral => c.formant = 0
  /\ c.source_rate <= 6 * c.output_rate

Sought(c, position, control) ==
  [position |-> position, anchor |-> -1, clock |-> 0, analyses |-> 0,
   frame_clock |-> 0, resampled |-> 0, tail |-> 0, spectrum |-> FALSE,
   control |-> control,
   pv |-> [slot \in 0..Capacity(c) - 1 |-> [at |-> -1, heard |-> FALSE]],
   ola |-> [slot \in 0..Capacity(c) - 1 |-> FALSE]]

-----------------------------------------------------------------------------
(* One synthesis frame: a window of source, if any is left, is added ahead *)
(* of frame_clock, and the first hop of it is finished into the pv ring.   *)
Slots(c, from, count) == {(from + j) % Capacity(c) : j \in 0..count - 1}

Sounding(c, s) == s.position < Parts * c.frames

Refresh(c, s) ==
  c.mode \notin Spectral \/ ~s.spectrum \/ s.position # s.anchor

Analysed(c, s) ==
  IF ~Sounding(c, s) \/ ~Refresh(c, s) THEN s
  ELSE [s EXCEPT !.anchor = s.position,
                 !.analyses = @ + (IF c.mode \in Spectral THEN 2 ELSE 1),
                 !.spectrum = @ \/ c.mode \in Spectral]

Frame(c, s) ==
  LET added == Slots(c, s.frame_clock, Window(c))
      done == Slots(c, s.frame_clock, SynthesisHop(c))
      mixed == [slot \in DOMAIN s.ola |->
                  s.ola[slot] \/ (Sounding(c, s) /\ slot \in added)]
  IN [Analysed(c, s) EXCEPT
        !.ola = [slot \in DOMAIN s.ola |-> slot \notin done /\ mixed[slot]],
        !.pv = [slot \in DOMAIN s.pv |->
                  IF slot \notin done THEN s.pv[slot]
                  ELSE [at |-> s.frame_clock
                                 + ((slot - s.frame_clock) % Capacity(c)),
                        heard |-> mixed[slot]]],
        !.frame_clock = @ + SynthesisHop(c)]

Center(s) == s.resampled \div 4
Needed(s) == Center(s) + Half + 1
FramesDue(c, s) ==
  IF s.frame_clock > Needed(s) THEN 0
  ELSE (Needed(s) - s.frame_clock) \div SynthesisHop(c) + 1
Framed(c, s) ==
  LET after[k \in 0..FramesDue(c, s)] == IF k = 0 THEN s ELSE Frame(c, after[k - 1])
  IN  after[FramesDue(c, s)]
Taps(s) == {at \in Center(s) - Half + 1 .. Center(s) + Half : at >= 0}

Moved(c, s) ==
  LET speed == s.control.speed.value
      end == Parts * c.frames
      next == s.position + speed * Pace(c)
  IN IF speed = 0 THEN s.position ELSE IF next < end THEN next ELSE end

(* One output frame.                                                       *)
Sample(c, s) ==
  LET ticked == [s EXCEPT !.control =
                   [p \in DOMAIN s.control |-> Tick(s.control[p])]]
      ready == Framed(c, ticked)
      position == Moved(c, ready)
      counted == IF s.tail < TailLimit(c) THEN s.tail + 1 ELSE s.tail
  IN [ready EXCEPT
        !.resampled = @ + Quarters(ready.control.pitch.value),
        !.position = position,
        !.tail = IF position >= Parts * c.frames THEN counted ELSE 0,
        !.clock = @ + 1]

-----------------------------------------------------------------------------
(* be_transport_render: every event is judged before any is applied.       *)
InRange(e) ==
  CASE e.parameter = "speed" -> e.value \in 0..16
    [] e.parameter = "pitch" -> e.value \in -2..2
    [] OTHER -> e.value \in -1..1

Judged(c, frames, events) ==
  /\ \A i \in DOMAIN events : events[i].offset <= frames /\ InRange(events[i])
  /\ \A i \in 2..Len(events) : events[i - 1].offset <= events[i].offset
  /\ \A i \in DOMAIN events :
       events[i].parameter = "formant" => c.formant # 0 \/ events[i].value = 0

(* The controls after the events of a frame, one after the other.          *)
Controlled(control, events, at) ==
  LET after[i \in 0..Len(events)] ==
        IF i = 0 THEN control
        ELSE IF events[i].offset # at THEN after[i - 1]
        ELSE [after[i - 1] EXCEPT ![events[i].parameter] =
                Towards(@, events[i].value, events[i].ramp)]
  IN  after[Len(events)]

WithDue(s, events, at) == [s EXCEPT !.control = Controlled(s.control, events, at)]

(* The first so many frames of a block, without the events behind them.    *)
Sampled(c, s, frames, events) ==
  LET after[k \in 0..frames] ==
        IF k = 0 THEN s ELSE Sample(c, WithDue(after[k - 1], events, k - 1))
  IN  after[frames]

(* Mutant: an event at the end of a block is lost.                         *)
RenderedLosingLast(c, s, frames, events) == Sampled(c, s, frames, events)

Rendered(c, s, frames, events) ==
  WithDue(Sampled(c, s, frames, events), events, frames)

-----------------------------------------------------------------------------
(* No transport is there until be_transport_create() makes one. *)
NoTransport == [made |-> FALSE]

TransportInit == cfg \in Configs /\ h = NoTransport /\ changes = 0

CreateTransport ==
  /\ h = NoTransport /\ Creates(cfg)
  /\ h' = Sought(cfg, 0, [speed |-> Still(4), pitch |-> Still(0), formant |-> Still(0)])
  /\ UNCHANGED <<cfg, changes>>

Render ==
  \E frames \in BlockSizes, events \in EventLists :
    /\ h # NoTransport /\ Judged(cfg, frames, events)
    /\ h.clock + frames <= OutputLimit
    /\ changes' = changes + (IF events = <<>> THEN 0 ELSE 1)
    /\ changes' <= ChangeLimit
    /\ h' = Rendered(cfg, h, frames, events)
    /\ UNCHANGED cfg

Seek ==
  \E frame \in Seeks :
    /\ h # NoTransport /\ frame <= cfg.frames
    /\ changes < ChangeLimit /\ changes' = changes + 1
    /\ h' = Sought(cfg, Parts * frame,
                   [p \in DOMAIN h.control |-> Still(h.control[p].target)])
    /\ UNCHANGED cfg

TransportNext == CreateTransport \/ Render \/ Seek

TransportSpec == TransportInit /\ [][TransportNext]_transportVars

-----------------------------------------------------------------------------
(* Every tap the kernel reads is a finished sample of its own place in the *)
(* stretched signal, neither overwritten nor left from a lap before, and   *)
(* no output frame costs more than two synthesis frames (the comment in    *)
(* be_transport_render), for any course of pitch, ramps and seeks.         *)
TapsHeld ==
  LET ready == Framed(cfg, h)
  IN /\ \A at \in Taps(h) : ready.pv[at % Capacity(cfg)].at = at
     /\ FramesDue(cfg, h) <= 2

(* When get_info reports the end, all that source audio reached has come   *)
(* under the kernel: nothing audible waits beyond the taps of the current  *)
(* frame, not even two octaves down, where the tail plays four times as    *)
(* long, nor in the overlap buffer.                                        *)
EndedHeard ==
  HasEnded(cfg, h) =>
    LET ready == Framed(cfg, h)
    IN /\ \A slot \in DOMAIN ready.pv :
            ready.pv[slot].heard => ready.pv[slot].at <= Center(h) + Half
       /\ \A slot \in DOMAIN ready.ola : ~ready.ola[slot]

(* A block rendered whole and the same block cut in two are the same       *)
(* performance, whichever side of the cut an event on it is given to.      *)
Early(events, k) == SubSeq(events, 1, k)
Late(events, k, cut) ==
  [i \in 1..Len(events) - k |-> [events[k + i] EXCEPT !.offset = @ - cut]]

SplitAgrees ==
  \A frames \in BlockSizes, events \in EventLists :
    \A cut \in 0..frames, k \in 0..Len(events) :
      /\ Judged(cfg, frames, events)
      /\ \A i \in 1..k : events[i].offset <= cut
      /\ \A i \in k + 1..Len(events) : events[i].offset >= cut
      => Rendered(cfg, h, frames, events)
           = Rendered(cfg, Rendered(cfg, h, cut, Early(events, k)),
                      frames - cut, Late(events, k, cut))

TransportSound == h # NoTransport => TapsHeld /\ EndedHeard /\ SplitAgrees
=============================================================================
