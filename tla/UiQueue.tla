------------------------------ MODULE UiQueue ------------------------------
(***************************************************************************)
(* The way of a user's edit from the X11 editor to the CLAP host:          *)
(* PitchEditor (adapters/common/pitch_editor_x11.cpp) calls gui_edit() on  *)
(* the GUI thread, which stores a value in the processor's target and      *)
(* queues an event in UiQueue; output_ui() on the audio thread offers the  *)
(* queued events to the host, which may refuse one (then it is offered     *)
(* again by a later call).                                                 *)
(*                                                                         *)
(* The queue is a ring of Size slots between two free-running counters     *)
(* that wrap at Wrap; a step makes at most one access to what the threads  *)
(* share.  The counters' release and acquire orders make a published slot  *)
(* visible.                                                                *)
(***************************************************************************)
EXTENDS Integers, Sequences

CONSTANTS
  Params, NoParam, Levels,   (* parameters, and the values they may take   *)
  Initial,                   (* the value every parameter starts with      *)
  Size,                      (* UiQueue::values.size()                     *)
  Wrap                       (* the counters' range, 2^32                  *)

ASSUME QueueAssumption ==
  /\ Params # {} /\ NoParam \notin Params /\ Initial \in Levels
  /\ Size \in Nat /\ Size >= 3
  /\ Wrap \in Nat /\ Wrap > Size /\ Wrap % Size = 0

VARIABLES
  slots, write, read,   (* UiQueue                                         *)
  target,               (* Processor::targets                              *)
  active,               (* PitchEditor::active_                            *)
  todo,                 (* the edits of the running editor call            *)
  gpc,                  (* GUI thread: position in gui_edit()              *)
  apc, end,             (* audio thread: position and local of output_ui() *)
  open, told            (* the host: open gesture, values it was told      *)

gui == <<active, todo, gpc>>
audio == <<apc, end>>
host == <<open, told>>
vars == <<slots, write, read, target, gui, audio, host>>

Events == [kind : {"begin", "value", "end"}, index : Params, value : Levels]

Slot(counter) == counter % Size

Succ(counter) == (counter + 1) % Wrap

(* Mutant: the counters as if they never wrapped. *)
FreeUnwrapped == IF write < read THEN Size ELSE Size - (write - read)

(* The subtraction of two unsigned counters. *)
Count == (write - read + Wrap) % Wrap

(* Mutant: one slot too many. *)
FreeMany == Size - Count + 1

FreeSlots == Size - Count

(* Mutant: only room for the event itself. *)
ReserveOne(kind) == 1

(* The reserve that gui_edit() asks for. *)
Reserve(kind) == CASE kind = "begin" -> 3 [] kind = "value" -> 2
                   [] kind = "end" -> 1

Edit(kind, p, v) == [kind |-> kind, index |-> p, value |-> v]

Init ==
  /\ slots = [s \in 0 .. Size - 1 |->
               Edit("end", CHOOSE p \in Params : TRUE, Initial)]
  /\ write = 0 /\ read = 0
  /\ target = [p \in Params |-> Initial] /\ told = target
  /\ active = NoParam /\ todo = <<>> /\ gpc = "idle"
  /\ apc = "idle" /\ end = 0
  /\ open = NoParam

-----------------------------------------------------------------------------
(* The editor.  Its calls are run one at a time; what end() and value()    *)
(* are answered is ignored.                                                *)

Idle == gpc = "idle" /\ todo = <<>>

Ending == IF active = NoParam THEN <<>> ELSE <<Edit("end", active, target[active])>>

(* begin() ends the gesture under way first; a control that is disabled is *)
(* not begun, which leaves an End.                                         *)
Begin(p) ==
  /\ Idle
  /\ todo' = Ending \o <<Edit("begin", p, target[p])>>
  /\ UNCHANGED <<slots, write, read, target, active, gpc, audio, host>>

(* value(), of the parameter under way. *)
Value(v) ==
  /\ Idle /\ active # NoParam
  /\ todo' = <<Edit("value", active, v)>>
  /\ UNCHANGED <<slots, write, read, target, active, gpc, audio, host>>

End ==
  /\ Idle /\ active # NoParam
  /\ todo' = Ending
  /\ UNCHANGED <<slots, write, read, target, active, gpc, audio, host>>

(* What the editor makes of an edit that was queued, or that was not.      *)
ActiveAfter(e, queued) ==
  CASE e.kind = "end" -> NoParam
    [] e.kind = "begin" /\ queued -> e.index
    [] OTHER -> active

-----------------------------------------------------------------------------
(* gui_edit() *)

(* Mutant: the value goes to the processor before there is room for it. *)
RoomUnchecked ==
  /\ gpc = "idle" /\ todo # <<>>
  /\ gpc' = IF Head(todo).kind = "value" THEN "request" ELSE "put"
  /\ UNCHANGED <<slots, write, read, target, active, todo, audio, host>>

(* It looks for room before it does anything else. *)
Room ==
  /\ gpc = "idle" /\ todo # <<>>
  /\ LET e == Head(todo) IN
       IF FreeSlots < Reserve(e.kind)
       THEN /\ todo' = Tail(todo) /\ active' = ActiveAfter(e, FALSE)
            /\ UNCHANGED gpc
       ELSE /\ gpc' = IF e.kind = "value" THEN "request" ELSE "put"
            /\ UNCHANGED <<todo, active>>
  /\ UNCHANGED <<slots, write, read, target, audio, host>>

(* The value goes to the processor, which refuses an unsupported pair. *)
Request ==
  /\ gpc = "request"
  /\ LET e == Head(todo) IN
       \/ /\ target' = [target EXCEPT ![e.index] = e.value]
          /\ gpc' = "put" /\ UNCHANGED todo
       \/ gpc' = "idle" /\ todo' = Tail(todo) /\ UNCHANGED target
  /\ UNCHANGED <<slots, write, read, active, audio, host>>

(* put() looks for room once more, and fills the slot. *)
Put ==
  /\ gpc = "put"
  /\ LET e == Head(todo) IN
       IF FreeSlots < Reserve(e.kind)
       THEN /\ gpc' = "idle" /\ todo' = Tail(todo)
            /\ active' = ActiveAfter(e, FALSE)
            /\ UNCHANGED slots
       ELSE /\ slots' = [slots EXCEPT ![Slot(write)] = e]
            /\ gpc' = "publish"
            /\ UNCHANGED <<todo, active>>
  /\ UNCHANGED <<write, read, target, audio, host>>

Publish ==
  /\ gpc = "publish"
  /\ write' = Succ(write)
  /\ active' = ActiveAfter(Head(todo), TRUE)
  /\ todo' = Tail(todo) /\ gpc' = "idle"
  /\ UNCHANGED <<slots, read, target, audio, host>>

-----------------------------------------------------------------------------
(* output_ui().  Its local r is "read" all the time. *)

Output ==
  /\ apc = "idle"
  /\ end' = write /\ apc' = "offer"
  /\ UNCHANGED <<slots, write, read, target, gui, host>>

(* The host accepts the oldest event ... *)
Accept ==
  /\ apc = "offer" /\ read # end
  /\ LET e == slots[Slot(read)] IN
       /\ open' = CASE e.kind = "begin" -> e.index
                    [] e.kind = "value" -> open
                    [] e.kind = "end" -> NoParam
       /\ told' = IF e.kind = "value" THEN [told EXCEPT ![e.index] = e.value]
                  ELSE told
  /\ apc' = "accepted"
  /\ UNCHANGED <<slots, write, read, target, gui, end>>

(* ... which frees its slot ... *)
Advance ==
  /\ apc = "accepted"
  /\ read' = Succ(read) /\ apc' = "offer"
  /\ UNCHANGED <<slots, write, target, gui, end, host>>

(* ... or refuses it, and the call ends as it does when none is left. *)
OutputEnd ==
  /\ apc = "offer"
  /\ apc' = "idle"
  /\ UNCHANGED <<slots, write, read, target, gui, end, host>>

User == (\E p \in Params : Begin(p)) \/ (\E v \in Levels : Value(v)) \/ End
GuiStep == Room \/ Request \/ Put \/ Publish
HostStep == Output \/ Accept \/ Advance \/ OutputEnd

Next == User \/ GuiStep \/ HostStep

Spec == Init /\ [][Next]_vars

(* The editor's calls end, the host keeps asking for output and does not   *)
(* refuse the same event for ever.                                         *)
FairSpec ==
  Spec /\ WF_vars(GuiStep) /\ WF_vars(HostStep) /\ SF_vars(Accept)

-----------------------------------------------------------------------------
(* The slot the GUI thread has filled, and not published yet, is none that *)
(* the audio thread may be reading, also when the counters have wrapped.   *)
SlotPrivate ==
  gpc = "publish" => \A i \in 0 .. Count - 1 : Slot(read + i) # Slot(write)

(* When every edit has been delivered, the host has been told the values   *)
(* that the processor works with: no value reaches only one of them.       *)
HostTold == (Idle /\ read = write /\ apc # "accepted") => told = target

(* The audio thread and the queue implement what is promised to the host.  *)
Undelivered ==
  LET first == IF apc = "accepted" THEN 1 ELSE 0
  IN [i \in 1 .. Count - first |-> slots[Slot(read + first + i - 1)]]

Promise == INSTANCE Gestures WITH queue <- Undelivered

GesturesKept == Promise!GestureSpec

(* No gesture is ever left open or split at the host. *)
Brackets == Promise!Bracketed /\ Promise!Closes

(* A gesture that the user has ended ends at the host too. *)
GestureEnds == active = NoParam ~> (open = NoParam \/ active # NoParam)
=============================================================================
