-------------------------------- MODULE Editor --------------------------------
(***************************************************************************)
(* The editor's window (PitchEditor of adapters/common/                    *)
(* pitch_editor_x11.cpp) and the views that the two adapters make of it:   *)
(* a mouse, a keyboard and the host's calls, in any order, become gestures *)
(* of which the host is told.  All of it runs on the host's main thread;   *)
(* the audio thread may store values at any time, also between two looks   *)
(* that one event takes at them.                                           *)
(*                                                                         *)
(* A semitone is the unit; the fine tune reaches one, the formant has no   *)
(* fine tune, an engine shifts by at most Limit of its backend.  Wet, dry, *)
(* volume, pan and bypass are like Pitch without a limit and left out,     *)
(* Quality is like Policy.                                                 *)
(***************************************************************************)
EXTENDS Integers, Sequences

CONSTANTS
  Limits,   (* of the pitch, by backend: 24 and 12                         *)
  FormantLimit,
  Meanwhile (* what the audio thread may store while an event is handled:  *)
            (* sequences of the values it stores before each look          *)

Nobody == "none"
Sliders == {"Pitch", "Fine", "Formant"}
Controls == Sliders \cup {"Backend", "Policy"}

(* What a control may be on its own.                                       *)
Own(p) == CASE p = "Pitch" -> -Limits[0]..Limits[0]
            [] p = "Fine" -> -1..1
            [] p = "Formant" -> -FormantLimit..FormantLimit
            [] OTHER -> 0..1

(* Values of some controls, each of which valid_value() takes.             *)
Stores ==
  UNION {{f \in [ps -> UNION {Own(p) : p \in ps}] : \A p \in ps : f[p] \in Own(p)} :
         ps \in SUBSET Controls}

(* Every plugin's limits, and every automation.                            *)
EditorLimits ==
  /\ Limits \in [{0, 1} -> Nat] /\ FormantLimit \in Nat
  /\ Meanwhile \subseteq Seq(Stores)

VARIABLES
  adapter,      (* "clap" or "vst3"                                        *)
  exists,       (* CLAP: Plugin::editor; the VST3 view always has one      *)
  timer,        (* registered with the host                                *)
  display,      (* PitchEditor::display_: the window is there              *)
  shown,
  values,       (* Processor::targets                                      *)
  ui,           (* active_ and editing_, the gesture the host has seen     *)
                (* begin, the calls of this event it still answers with    *)
                (* yes, and whether all it was sent was in order           *)
  hosted        (* CPluginView::isAttached()                               *)

life == <<adapter, exists, timer, display, shown, hosted>>
editorVars == <<life, values, ui>>

Distance(x) == IF x < 0 THEN -x ELSE x
Greater(a, b) == IF a > b THEN a ELSE b
Lesser(a, b) == IF a < b THEN a ELSE b

valid_values(v) ==
  /\ \A p \in Controls : v[p] \in Own(p)
  /\ Distance(v.Pitch + v.Fine) <= Limits[v.Backend]
  /\ v.Backend = 0 => v.Policy = 0
  /\ v.Policy = 0 => v.Formant = 0

enabled(p, v) == p = "Formant" => v.Backend = 1 /\ v.Policy # 0

(* range(): what a control may be set to while the others are as they are. *)
Low(p, v) ==
  CASE p = "Pitch" -> Greater(-Limits[0], -Limits[v.Backend] - v.Fine)
    [] p = "Fine" -> Greater(-1, -Limits[v.Backend] - v.Pitch)
    [] p = "Formant" -> -FormantLimit
    [] OTHER -> 0
(* Mutant: the pitch as if there were no fine tune. *)
HighAlone(p, v) ==
  CASE p = "Pitch" -> Limits[v.Backend]
    [] p = "Fine" -> Lesser(1, Limits[v.Backend] - v.Pitch)
    [] p = "Formant" -> FormantLimit
    [] OTHER -> 1

High(p, v) ==
  CASE p = "Pitch" -> Lesser(Limits[0], Limits[v.Backend] - v.Fine)
    [] p = "Fine" -> Lesser(1, Limits[v.Backend] - v.Pitch)
    [] p = "Formant" -> FormantLimit
    [] OTHER -> 1
(* std::clamp() has no defined result when the others leave no room and    *)
(* the bounds cross; neither bound is valid then, so that the processor    *)
(* refuses either.                                                         *)
Clamped(p, v, x) == Lesser(Greater(x, Low(p, v)), High(p, v))

(* Some value of the control goes with the others.                         *)
HasRoom(p, v) == \E x \in Own(p) : valid_values([v EXCEPT ![p] = x])

-----------------------------------------------------------------------------
(* The audio thread publishes the events of a block one value at a time.   *)
(* Each is in its own range, but process() judged them with what the       *)
(* engine was last given wherever the targets were not valid or, in VST3,  *)
(* wait for a restart: nothing is known of how they go with the others.    *)
(* VST3 has no automation of the configuration.                            *)
Automated == IF adapter = "vst3" THEN Sliders ELSE Controls
Over(v, f) ==
  [p \in Controls |-> IF p \in DOMAIN f \cap Automated THEN f[p] ELSE v[p]]

-----------------------------------------------------------------------------
(* What the editor does in an event: s is [v |-> values, u |-> ui] and,    *)
(* late, what the audio thread stores before each of its next looks.       *)

Look(s) == IF s.late = <<>> THEN s
           ELSE [s EXCEPT !.v = Over(@, Head(s.late)), !.late = Tail(@)]

(* callbacks_.edit(): the host is told, or says no.                        *)
Answers(s) == s.u.yes > 0
Asked(s) == [s EXCEPT !.u.yes = IF @ > 0 THEN @ - 1 ELSE 0]

(* end(): the answer is not looked at, and is never no (UiQueue).          *)
Ended(s) ==
  [s EXCEPT !.u.active = Nobody, !.u.editing = FALSE,
            !.u.open = IF s.u.active = Nobody THEN @ ELSE Nobody,
            !.u.good = @ /\ s.u.active = s.u.open]

(* begin() after its look at the values, of which the event goes on only   *)
(* if it was taken.                                                        *)
Started(s, p) ==
  IF enabled(p, s.v) /\ Answers(s)
  THEN [Asked(s) EXCEPT !.u.active = p, !.u.open = p,
                        !.u.good = @ /\ s.u.open = Nobody]
  ELSE s
Begun(s, p) == Started(Look(s), p)

(* What the editor may count on when it has computed a value from what it  *)
(* has seen (a choice from what its event has found).                      *)
Expected(s, p, seen) ==
  /\ s.v = seen /\ (p \in Sliders \/ s.v = values)
  /\ enabled(p, s.v) /\ HasRoom(p, s.v)

(* request() looks itself and refuses what is not valid, then stores the   *)
(* one value; a CLAP value that does not fit the queue is dropped, a VST3  *)
(* one is kept whatever the host says.                                     *)
Sent(s, p, x, seen) ==
  LET valid == valid_values([s.v EXCEPT ![p] = x])
      stored == valid /\ (Answers(s) \/ adapter = "vst3")
  IN [Asked(Look(s)) EXCEPT
        !.v = IF stored THEN [@ EXCEPT ![p] = x] ELSE @,
        !.u.good = @ /\ s.u.open = p /\ (Expected(s, p, seen) => valid)]

(* value(): the look for the range and the processor's own are two.        *)
Clamps(s, p, x) == Sent(Look(s), p, Clamped(p, s.v, x), s.v)
Valued(s, p, x) == Clamps(Look(s), p, x)

(* A whole gesture: begun, given a value and ended.                        *)
Finished(s, p, x) == IF s.u.active = p THEN Ended(Valued(s, p, x)) ELSE s
Clicked(s, p, x) == Finished(Begun(Ended(s), p), p, x)

(* Reset voice: the values, not the configuration.                         *)
VoiceReset(s) ==
  Clicked(Clicked(Clicked(s, "Pitch", 0), "Fine", 0), "Formant", 0)

(* The state as an event finds it; the host answers yes so many times.     *)
AsFound(yes, late) == [v |-> values, u |-> [ui EXCEPT !.yes = yes], late |-> late]
Calmly == AsFound(9, <<>>)
Becomes(s) ==
  /\ \E after \in {s} : values' = after.v /\ ui' = [after.u EXCEPT !.yes = 0]
EventStates == {AsFound(yes, late) : yes \in {0, 1, 2, 9}, late \in Meanwhile}

-----------------------------------------------------------------------------
(* pump(): an event of the window.  Some may be left in its queue when the *)
(* window is hidden.                                                       *)
Pumped == display /\ timer /\ UNCHANGED life
Positions == -Limits[0]..Limits[0]

(* The button goes down on a slider: the drag begins at the value there.   *)
Dragged(s, p, x) == IF s.u.active = p THEN Valued(s, p, x) ELSE s
Press ==
  /\ Pumped
  /\ \E s \in EventStates, p \in Sliders, x \in Positions :
       Becomes(Dragged(Begun(Ended(s), p), p, x))

(* It goes down on a number, which may then be typed.                      *)
Typing(s, p) == [s EXCEPT !.u.editing = (s.u.active = p)]
PressNumber ==
  /\ Pumped
  /\ \E s \in EventStates, p \in Sliders : Becomes(Typing(Begun(Ended(s), p), p))

(* The wheel and the arrow keys: one unit from the value of before.        *)
Nudge ==
  /\ Pumped
  /\ \E s \in EventStates, p \in Sliders, by \in {-1, 1} :
       Becomes(Clicked(s, p, values[p] + by))

(* A backend or policy is clicked: the next that goes with the others, of  *)
(* which the last is the one it is.                                        *)
Choose ==
  /\ Pumped
  /\ \E s \in EventStates, p \in {"Backend", "Policy"} :
     \E next \in {(values[p] + 1) % 2} :
       \/ /\ valid_values([values EXCEPT ![p] = next])
          /\ Becomes(Clicked(s, p, next))
       \/ /\ ~valid_values([values EXCEPT ![p] = next]) /\ valid_values(values)
          /\ Becomes(Clicked(s, p, values[p]))

ResetVoice == Pumped /\ \E s \in EventStates : Becomes(VoiceReset(s))

Motion ==
  /\ Pumped /\ ui.active # Nobody /\ ~ui.editing
  /\ \E s \in EventStates, x \in Positions : Becomes(Valued(s, ui.active, x))

Release == Pumped /\ ~ui.editing /\ Becomes(Ended(Calmly))

FocusOut == Pumped /\ Becomes(Ended(Calmly))

(* A key while a number is typed: Return takes it, Escape (and Return of   *)
(* what is no number) does not.                                            *)
Return ==
  /\ display /\ ui.editing /\ UNCHANGED life
  /\ \E s \in EventStates, x \in Positions : Becomes(Ended(Valued(s, ui.active, x)))
Escape ==
  /\ display /\ ui.editing /\ UNCHANGED life
  /\ Becomes(Ended(Calmly))

(* A key while none is typed: one unit, or the initial value.              *)
Key ==
  /\ display /\ ~ui.editing /\ UNCHANGED life
  /\ \E s \in EventStates, p \in Sliders : \E x \in {0, values[p] - 1, values[p] + 1} :
       Becomes(Clicked(s, p, x))

-----------------------------------------------------------------------------
(* The views.                                                              *)
Untouched == UNCHANGED <<adapter, values, ui>>

Detached ==
  /\ display' = FALSE /\ shown' = FALSE
  /\ Becomes(IF display THEN Ended(Calmly) ELSE Calmly)

(* CLAP: gui_create(), gui_parent(), gui_show(), gui_hide(), gui_destroy() *)
Create ==
  /\ adapter = "clap" /\ ~exists
  /\ \E registers \in BOOLEAN : exists' = registers /\ timer' = registers
  /\ UNCHANGED <<display, shown, hosted>> /\ Untouched
Parent ==
  /\ adapter = "clap" /\ exists /\ ~display
  /\ display' \in BOOLEAN
  /\ UNCHANGED <<exists, timer, shown, hosted>> /\ Untouched
Show ==
  /\ adapter = "clap" /\ exists /\ display
  /\ shown' = TRUE
  /\ UNCHANGED <<exists, timer, display, hosted>> /\ Untouched
Hide ==
  /\ adapter = "clap" /\ display
  /\ shown' = FALSE
  /\ Becomes(Ended(Calmly))
  /\ UNCHANGED <<adapter, exists, timer, display, hosted>>
Destroy ==
  /\ adapter = "clap" /\ exists
  /\ exists' = FALSE /\ timer' = FALSE /\ Detached
  /\ UNCHANGED <<adapter, hosted>>

(* VST3: attached(), where the window or the timer may be refused, and     *)
(* removed(), which may be called twice; onFocus(FALSE).                   *)
Attached ==
  /\ adapter = "vst3" /\ ~hosted
  /\ \E granted \in BOOLEAN :
       /\ timer' = granted /\ display' = granted /\ shown' = granted
       /\ hosted' = granted
  /\ UNCHANGED exists /\ Untouched
Removed ==
  /\ adapter = "vst3"
  /\ timer' = FALSE /\ hosted' = FALSE /\ Detached
  /\ UNCHANGED <<adapter, exists>>
LoseFocus ==
  /\ adapter = "vst3" /\ Becomes(Ended(Calmly)) /\ UNCHANGED life

(* Automation between two events: process() publishes a value.             *)
Automate ==
  /\ \E p \in Automated : \E x \in Own(p) : values' = [values EXCEPT ![p] = x]
  /\ UNCHANGED <<life, ui>>

(* The host sets a value on this thread, or those of a state (here one     *)
(* after the other): request() takes what is valid.                        *)
HostSets ==
  /\ \E p \in Controls : \E x \in Own(p) : \E next \in {[values EXCEPT ![p] = x]} :
       valid_values(next) /\ values' = next
  /\ UNCHANGED <<life, ui>>

EditorInit ==
  /\ adapter \in {"clap", "vst3"}
  /\ exists = (adapter = "vst3")
  /\ timer = FALSE /\ display = FALSE /\ shown = FALSE /\ hosted = FALSE
  /\ values = [p \in Controls |-> 0]
  /\ ui = [active |-> Nobody, editing |-> FALSE, open |-> Nobody, yes |-> 0,
           good |-> TRUE]

EditorNext ==
  \/ Press \/ PressNumber \/ Nudge \/ Choose \/ ResetVoice \/ Motion
  \/ Release \/ FocusOut \/ Return \/ Escape \/ Key
  \/ Create \/ Parent \/ Show \/ Hide \/ Destroy
  \/ Attached \/ Removed \/ LoseFocus \/ Automate \/ HostSets

-----------------------------------------------------------------------------
(* Whatever the order of clicks, keys, refusals, window calls and          *)
(* automation: the editor and the host agree on the gesture that is open;  *)
(* all values come in their gesture, and the processor takes them unless   *)
(* the control is disabled, no value of it goes with the others (VST3      *)
(* automation while a restart is pending), or the audio thread stored      *)
(* between the editor's look at the values and the processor's; a number   *)
(* is typed into a gesture only; no window, no gesture and nothing shown;  *)
(* and the timer is there as long as its view.                             *)
EditorSound ==
  /\ ui.good /\ ui.active = ui.open
  /\ ui.editing => ui.active # Nobody
  /\ ~display => ui.active = Nobody /\ ~shown
  /\ display => exists /\ timer
  /\ timer => IF adapter = "clap" THEN exists ELSE hosted
===============================================================================
