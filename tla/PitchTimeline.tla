--------------------------- MODULE PitchTimeline ---------------------------
(***************************************************************************)
(* Pitch and time trajectories (automation_curve.hpp) and the map from     *)
(* input frames to positions of the stretched signal and of the output     *)
(* that they add up to (pitch_timeline.hpp).                               *)
(*                                                                         *)
(* A ratio is a number of Units, positions and times are numbers of        *)
(* 1/Unit^2 frames, so that a ratio times a ratio is one.  The values      *)
(* within a ramp are rounded down to a Unit; the logarithmic curve is not  *)
(* told from the linear one, both lie between the end points.              *)
(***************************************************************************)
EXTENDS Integers, Sequences

CONSTANTS
  Unit,        (* the ratio one                                            *)
  Nodes,       (* nodes_.size(), the ring of the map                       *)
  RampFrames   (* ramp_frames_, 10 ms                                      *)

Frame == Unit * Unit
Lesser(a, b) == IF a <= b THEN a ELSE b
Greater(a, b) == IF a <= b THEN b ELSE a

Steady(v) == [value |-> v, target |-> v, origin |-> v, left |-> 0, total |-> 0]

(* ratio_ramp::start() *)
Started(ramp, v, frames) ==
  IF frames = 0 THEN [Steady(v) EXCEPT !.origin = ramp.value]
  ELSE [ramp EXCEPT !.origin = ramp.value, !.target = v, !.left = frames,
                    !.total = frames]

(* ratio_ramp::tick() *)
Ticked(ramp) ==
  IF ramp.left = 0 THEN ramp
  ELSE LET done == ramp.total - ramp.left + 1
           next == IF ramp.left = 1 THEN ramp.target
                   ELSE ramp.origin
                          + ((ramp.target - ramp.origin) * done) \div ramp.total
       IN [ramp EXCEPT !.left = @ - 1,
             !.value = Greater(Lesser(ramp.value, ramp.target),
                         Lesser(Greater(ramp.value, ramp.target), next))]

TickedPlan(plan) == [pitch |-> Ticked(plan.pitch), time |-> Ticked(plan.time)]

Node(position, pitch, output) ==
  [position |-> position, pitch |-> pitch, output |-> output]

(* prepare(), reset(): the map begins at zero; a time ramp that was under  *)
(* way is at its end.                                                      *)
NewTimeline(pitch, time) ==
  [plan |-> [pitch |-> Steady(pitch), time |-> Steady(time)],
   written |-> 0, position |-> 0, output |-> 0,
   nodes |-> [i \in {0} |-> Node(0, pitch, 0)]]

(* target(): a pitch that is set glides there over 10 ms. *)
Glided(plan, pitch, begun) ==
  IF plan.pitch.target = pitch THEN plan
  ELSE [plan EXCEPT !.pitch =
          Started(@, pitch, IF begun THEN RampFrames ELSE 0)]

CanAppend(line, oldest) ==
  oldest <= line.written /\ line.written + 1 - oldest < Nodes

(* append(): the node of the frame gets the control after the tick, the    *)
(* map its next point; the ring forgets its oldest node.                   *)
Appended(line, advance) ==
  LET plan == IF advance THEN TickedPlan(line.plan) ELSE line.plan
      pitch == plan.pitch.value
      position == line.position + plan.time.value * pitch
      output == line.output + plan.time.value * Unit
      n == line.written
      kept == {i \in DOMAIN line.nodes : i < n /\ n + 1 - i < Nodes}
  IN [plan |-> plan, written |-> n + 1, position |-> position,
      output |-> output,
      nodes |-> [i \in kept \cup {n, n + 1} |->
                   IF i < n THEN line.nodes[i]
                   ELSE IF i = n THEN Node(line.position, pitch, line.output)
                   ELSE Node(position, pitch, output)]]

(* contains() and at() *)
Has(line, i) == i <= line.written /\ line.written - i < Nodes
At(line, i) == line.nodes[i]

(* position(i + part / whole), rounded down to a frame. *)
PositionFrame(line, i, part, whole) ==
  LET a == At(line, i).position IN
    IF part = 0 THEN a \div Frame
    ELSE (a * whole + part * (At(line, i + 1).position - a))
           \div (whole * Frame)
=============================================================================
