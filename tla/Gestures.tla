------------------------------ MODULE Gestures ------------------------------
(***************************************************************************)
(* What the CLAP editor and its queue promise the host: each edit arrives  *)
(* as one gesture, begun, given values and ended, of one parameter at a    *)
(* time and in the order the user made them.                               *)
(* Sources: PitchEditor::begin/value/end of pitch_editor_x11.cpp and the   *)
(* reserves of gui_edit() in boiled_egg_clap.cpp.                          *)
(***************************************************************************)
EXTENDS Integers, Sequences

CONSTANTS Params, NoParam,   (* the parameters, and none of them            *)
          Levels,            (* the values they may take                    *)
          Size               (* the room of the queue                       *)

ASSUME GestureAssumption == NoParam \notin Params /\ Size \in Nat

Events == [kind : {"begin", "value", "end"}, index : Params, value : Levels]

(* What must be free before an event of a kind is queued: room for it and  *)
(* for what still has to follow it.                                        *)
Reserve(kind) == CASE kind = "begin" -> 3 [] kind = "value" -> 2
                   [] kind = "end" -> 1

VARIABLES
  active,   (* the parameter the user is editing                           *)
  queue,    (* events not delivered yet                                    *)
  open      (* the parameter whose gesture the host has seen begin         *)

gestureVars == <<active, queue, open>>

GestureInit == active = NoParam /\ queue = <<>> /\ open = NoParam

Fits(kind) == Len(queue) + Reserve(kind) <= Size

(* Mutant: a gesture begins inside another. *)
MayBeginAlways == TRUE

(* begin() has ended the gesture before. *)
MayBegin == active = NoParam

(* A user may begin, go on with or end a gesture. *)
BeginGesture ==
  /\ MayBegin /\ Fits("begin")
  /\ \E e \in Events : /\ e.kind = "begin"
                       /\ queue' = Append(queue, e) /\ active' = e.index
  /\ UNCHANGED open

ChangeValue ==
  /\ active # NoParam /\ Fits("value")
  /\ \E e \in Events : /\ e.kind = "value" /\ e.index = active
                       /\ queue' = Append(queue, e)
  /\ UNCHANGED <<active, open>>

(* Ending is always possible: the reserves see to it. *)
EndGesture ==
  /\ active # NoParam
  /\ \E e \in Events : /\ e.kind = "end" /\ e.index = active
                       /\ queue' = Append(queue, e)
  /\ active' = NoParam
  /\ UNCHANGED open

(* The host takes the oldest event. *)
Deliver ==
  /\ queue # <<>>
  /\ open' = CASE Head(queue).kind = "begin" -> Head(queue).index
               [] Head(queue).kind = "value" -> open
               [] Head(queue).kind = "end" -> NoParam
  /\ queue' = Tail(queue)
  /\ UNCHANGED active

GestureNext == BeginGesture \/ ChangeValue \/ EndGesture \/ Deliver

GestureSpec == GestureInit /\ [][GestureNext]_gestureVars

-----------------------------------------------------------------------------
(* Type correctness. *)
GestureTypes ==
  /\ active \in Params \cup {NoParam} /\ open \in Params \cup {NoParam}
  /\ queue \in Seq(Events)

(* The gesture that is open after an event of the queue. *)
OpenAfter(e) == IF e.kind = "end" THEN NoParam ELSE e.index

(* The gesture that is open before the i-th event of the queue. *)
OpenBefore(i) == IF i = 1 THEN open ELSE OpenAfter(queue[i - 1])

(* Every gesture the host sees is bracketed: it begins when no other is    *)
(* open, and values and the end belong to the one that is.                 *)
Bracketed ==
  \A i \in DOMAIN queue :
    OpenBefore(i) = IF queue[i].kind = "begin" THEN NoParam ELSE queue[i].index

(* The editor and the last event it queued agree on what is being edited,  *)
(* so that a gesture is never left open at the host.                       *)
Closes == active = IF queue = <<>> THEN open ELSE OpenAfter(queue[Len(queue)])

(* The queue never overflows, and a gesture under way has room to end.     *)
RoomToEnd ==
  /\ Len(queue) <= Size
  /\ active # NoParam => Len(queue) + Reserve("end") <= Size

(* The inductive invariant: all of the above, in every reachable state. *)
GestureInv == GestureTypes /\ Bracketed /\ Closes /\ RoomToEnd
=============================================================================
