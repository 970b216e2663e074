------------------------------- MODULE Handle -------------------------------
(***************************************************************************)
(* The C API handle, src/src/boiled_egg.cpp: one audio owner and one       *)
(* control thread that share three atomics, the two ratio mailboxes and    *)
(* the processing mode.  Each step makes at most one access to them.       *)
(*                                                                         *)
(* The mailboxes are stored with memory_order_relaxed, so a store of the   *)
(* control thread may become visible after its later load of the mode, and *)
(* stores to different mailboxes in either order: a store waits in         *)
(* "pending" until Commit.  Stores of the audio owner become visible at    *)
(* their step, which is free to come late.                                 *)
(*                                                                         *)
(* The engine is any engine with the interface of engine.hpp: a push may   *)
(* be refused, a pull may come up short.  Ratios are in quarters; 4 is 1.0.*)
(* The WSOLA backend is meant, whose only formant ratio is 1.              *)
(***************************************************************************)
EXTENDS Integers, Sequences

CONSTANTS
  Contracts,     (* io_contract of the handles considered                  *)
  Frames,        (* the length of a realtime block                         *)
  Latency,       (* realtime_latency_frames                                *)
  Commands,      (* what the control thread may call                       *)
  Automations,   (* the event lists a realtime block may carry             *)
  Flushes        (* the event lists of a parameter-only flush              *)

Parameters == {"time", "pitch"}

(* 0 and 99 stand for the values that validation refuses. *)
Event == [at : Nat, id : Parameters, value : Nat]

ASSUME HandleAssumption ==
  /\ Contracts \subseteq {"auto", "streaming", "realtime"}
  /\ Frames \in Nat \ {0} /\ Latency \in Nat
  /\ \A c \in Commands : /\ c.kind \in {"set", "state", "batch"}
                         /\ c.events \in Seq(Event)
  /\ \A a \in Automations \cup Flushes : a \in Seq(Event)

VARIABLES
  contract,            (* backend.io_contract, fixed at construction       *)
  request,             (* requested_{time,pitch}_ratio_bits                *)
  mode,                (* mode                                             *)
  engine,              (* the engine's own time and pitch ratios           *)
  latency_remaining,   (* realtime_latency_remaining                       *)
  apc, kind, status,   (* audio owner: position, call, result              *)
  events, cursor, written,   (* the block's events left, its frames done   *)
  cpc, todo, outcome,  (* control thread: position, stores left, result    *)
  pending,             (* its stores that are not visible yet; 0 is none   *)
  used, fed, span      (* history, see the properties                      *)

control == <<cpc, todo, outcome, pending>>
audio == <<apc, kind, status, events, cursor, written>>
history == <<used, fed, span>>
vars == <<contract, request, mode, engine, latency_remaining, audio, control,
          history>>

-----------------------------------------------------------------------------
(* validate_parameter_value(): the range, and a time ratio of one where    *)
(* the I/O is fixed.                                                       *)
Valid(event, fixed) ==
  /\ event.value \in 1 .. 16
  /\ event.id = "time" /\ fixed => event.value = 4

ValidAll(list, fixed) == \A i \in DOMAIN list : Valid(list[i], fixed)

(* An event that a realtime block accepts: validate_realtime_event(), and  *)
(* an offset that is not before the previous one's.                        *)
Accepted(list, i) ==
  /\ list[i].at < Frames /\ Valid(list[i], TRUE)
  /\ i > 1 => list[i - 1].at <= list[i].at

AcceptedAll(list) == \A i \in DOMAIN list : Accepted(list, i)

(* Why a refused list is refused: for its first event at fault.            *)
BlockBlame(list) ==
  LET first == CHOOSE i \in DOMAIN list :
                 ~Accepted(list, i) /\ \A j \in 1 .. i - 1 : Accepted(list, j)
      unsupported == /\ list[first].at < Frames
                     /\ Valid(list[first], FALSE) /\ ~Valid(list[first], TRUE)
  IN IF unsupported THEN "unsupported" ELSE "invalid"

(* The same for the lists without a block, whose events are at offset 0.   *)
(* boiledegg_set_parameter_state looks at all ranges first.                *)
Blame(list, fixed) ==
  LET first == CHOOSE i \in DOMAIN list :
                 /\ ~Valid(list[i], fixed)
                 /\ \A j \in 1 .. i - 1 : Valid(list[j], fixed)
  IN IF Valid(list[first], FALSE) THEN "unsupported" ELSE "invalid"

(* Mutant: the mode no longer excludes the other contract. *)
AdmitsBoth(desired) == contract \in {"auto", desired}

FixedNow == contract = "realtime" \/ mode = "realtime"

Admits(desired) ==
  /\ contract \in {"auto", desired}
  /\ mode \in {"none", desired}

Nothing == [p \in Parameters |-> 0]
Quiet == cpc = "idle" /\ pending = Nothing

(* Whether a call that begins now has the handle to itself. *)
SpanNow == IF Quiet THEN "calm" ELSE "shared"
Calm == span = "calm"

Least(a, b) == IF a <= b THEN a ELSE b

Init ==
  /\ contract \in Contracts
  /\ request = [p \in Parameters |-> 4] /\ engine = request
  /\ mode = "none" /\ latency_remaining = Latency
  /\ apc = "idle" /\ kind = "none" /\ status = "ok"
  /\ events = <<>> /\ cursor = 0 /\ written = 0
  /\ cpc = "idle" /\ todo = <<>> /\ outcome = "ok"
  /\ pending = Nothing
  /\ used = {} /\ fed = 0 /\ span = "shared"

-----------------------------------------------------------------------------
(* The control thread: boiledegg_set_{time,pitch}_ratio ("set"),           *)
(* boiledegg_set_parameter_state ("state") and                             *)
(* boiledegg_apply_parameter_events ("batch").                             *)

(* Validation, with one look at the mode; a refused call stores nothing. *)
Command(c) ==
  /\ cpc = "idle"
  /\ IF ValidAll(c.events, FixedNow)
     THEN /\ cpc' = IF c.kind # "batch" /\ ~ValidAll(c.events, TRUE)
                    THEN "store time" ELSE "store"
          /\ todo' = c.events /\ UNCHANGED outcome
     ELSE /\ outcome' = IF c.kind = "state"
                        THEN IF ValidAll(c.events, FALSE) THEN "unsupported"
                             ELSE "invalid"
                        ELSE Blame(c.events, FixedNow)
          /\ UNCHANGED <<cpc, todo>>
  /\ span' = "shared"
  /\ UNCHANGED <<contract, request, mode, engine, latency_remaining, audio,
                 pending, used, fed>>

(* One relaxed store per parameter. *)
Store ==
  /\ cpc \in {"store", "store time"} /\ todo # <<>> /\ pending[Head(todo).id] = 0
  /\ pending' = [pending EXCEPT ![Head(todo).id] = Head(todo).value]
  /\ todo' = Tail(todo)
  /\ UNCHANGED <<contract, request, mode, engine, latency_remaining, audio,
                 cpc, outcome, history>>

(* The stores are done; a setter of a time ratio looks at the mode again. *)
Recheck ==
  /\ cpc \in {"store", "store time"} /\ todo = <<>>
  /\ IF cpc = "store time" /\ FixedNow THEN cpc' = "undo" /\ UNCHANGED outcome
     ELSE cpc' = "idle" /\ outcome' = "ok"
  /\ UNCHANGED <<contract, request, mode, engine, latency_remaining, audio,
                 todo, pending, history>>

Undo ==
  /\ cpc = "undo" /\ pending["time"] = 0
  /\ pending' = [pending EXCEPT !["time"] = 4]
  /\ cpc' = "idle" /\ outcome' = "unsupported"
  /\ UNCHANGED <<contract, request, mode, engine, latency_remaining, audio,
                 todo, history>>

(* A store becomes visible to the audio owner. *)
Commit(p) ==
  /\ pending[p] # 0
  /\ request' = [request EXCEPT ![p] = pending[p]]
  /\ pending' = [pending EXCEPT ![p] = 0]
  /\ UNCHANGED <<contract, mode, engine, latency_remaining, audio, cpc, todo,
                 outcome, history>>

-----------------------------------------------------------------------------
(* The audio owner: push, pull and flush. *)

StreamCall ==
  /\ apc = "idle"
  /\ kind' = "stream"
  /\ IF Admits("streaming")
     THEN mode' = "streaming" /\ apc' = "sync time" /\ span' = SpanNow
          /\ UNCHANGED status
     ELSE status' = "state" /\ UNCHANGED <<mode, apc, span>>
  /\ UNCHANGED <<contract, request, engine, latency_remaining, events, cursor,
                 written, control, used, fed>>

(* sync_requested_parameters_streaming(), one mailbox at a time. *)
SyncTime ==
  /\ apc = "sync time"
  /\ engine' = [engine EXCEPT !["time"] = request["time"]]
  /\ apc' = "sync pitch"
  /\ UNCHANGED <<contract, request, mode, latency_remaining, kind, status,
                 events, cursor, written, control, history>>

(* Mutant: a realtime synchronisation leaves the time ratio as it was. *)
Unpinned == engine["time"]

(* What the second half of a synchronisation makes of the time ratio. *)
Pinned == IF kind = "realtime" THEN 4 ELSE engine["time"]

(* The last load of either sync; a realtime sync pins the time ratio. *)
SyncPitch ==
  /\ apc = "sync pitch"
  /\ engine' = [engine EXCEPT !["time"] = Pinned,
                              !["pitch"] = request["pitch"]]
  /\ apc' = IF kind = "realtime" THEN "block" ELSE "run"
  /\ UNCHANGED <<contract, request, mode, latency_remaining, kind, status,
                 events, cursor, written, control, history>>

Run ==
  /\ apc = "run"
  /\ used' = used \cup {"streaming"}
  /\ status' = "ok" /\ apc' = "idle"
  /\ UNCHANGED <<contract, request, mode, engine, latency_remaining, kind,
                 events, cursor, written, control, fed, span>>

(* Mutant: the startup latency is not owed again. *)
ResetLate ==
  /\ apc = "idle" /\ Quiet
  /\ mode' = "none" /\ engine' = request /\ used' = {} /\ fed' = 0
  /\ UNCHANGED <<contract, request, latency_remaining, audio, control, span>>

(* boiledegg_reset(), which must not race with another call; its           *)
(* synchronisation is the streaming one.                                   *)
Reset ==
  /\ apc = "idle" /\ Quiet
  /\ mode' = "none" /\ latency_remaining' = Latency
  /\ engine' = request
  /\ used' = {} /\ fed' = 0
  /\ UNCHANGED <<contract, request, audio, control, span>>

-----------------------------------------------------------------------------
(* The audio owner: a parameter-only flush, which is                       *)
(* boiledegg_apply_parameter_events() on this thread, or the same as       *)
(* boiledegg_process_realtime() of no frames.  It selects no mode.         *)

FlushCall(list) ==
  /\ apc = "idle"
  /\ kind' = "flush"
  /\ IF ValidAll(list, FixedNow)
     THEN apc' = "flush" /\ events' = list /\ UNCHANGED status
     ELSE status' = Blame(list, FixedNow) /\ UNCHANGED <<apc, events>>
  /\ UNCHANGED <<contract, request, mode, engine, latency_remaining, cursor,
                 written, control, history>>

FlushStore ==
  /\ apc = "flush" /\ events # <<>>
  /\ request' = [request EXCEPT ![Head(events).id] = Head(events).value]
  /\ events' = Tail(events)
  /\ UNCHANGED <<contract, mode, engine, latency_remaining, apc, kind, status,
                 cursor, written, control, history>>

FlushEnd ==
  /\ apc = "flush" /\ events = <<>>
  /\ apc' = "idle" /\ status' = "ok"
  /\ UNCHANGED <<contract, request, mode, engine, latency_remaining, kind,
                 events, cursor, written, control, history>>

-----------------------------------------------------------------------------
(* The audio owner: boiledegg_process_realtime(). *)

(* A list that is out of order or range is refused before anything else;   *)
(* then the mode is looked at.                                             *)
RealtimeCall(list) ==
  /\ apc = "idle"
  /\ kind' = "realtime" /\ events' = list /\ cursor' = 0 /\ written' = 0
  /\ IF AcceptedAll(list)
     THEN /\ apc' = IF mode = "none" THEN "ratio" ELSE "enter"
          /\ span' = SpanNow /\ UNCHANGED status
     ELSE status' = BlockBlame(list) /\ UNCHANGED <<apc, span>>
  /\ UNCHANGED <<contract, request, mode, engine, latency_remaining, control,
                 used, fed>>

(* A fresh handle is not put into fixed I/O under another time ratio. *)
CheckRatio ==
  /\ apc = "ratio"
  /\ IF request["time"] = 4 THEN apc' = "enter" /\ UNCHANGED status
     ELSE apc' = "idle" /\ status' = "unsupported"
  /\ UNCHANGED <<contract, request, mode, engine, latency_remaining, kind,
                 events, cursor, written, control, history>>

Enter ==
  /\ apc = "enter"
  /\ IF Admits("realtime")
     THEN mode' = "realtime" /\ apc' = "heal" /\ status' = "ok"
     ELSE apc' = "idle" /\ status' = "state" /\ UNCHANGED mode
  /\ UNCHANGED <<contract, request, engine, latency_remaining, kind, events,
                 cursor, written, control, history>>

(* A time ratio that a control thread slipped in since is seen ... *)
FindRatio ==
  /\ apc = "heal"
  /\ apc' = IF request["time"] = 4 THEN "sync pitch" ELSE "healing"
  /\ UNCHANGED <<contract, request, mode, engine, latency_remaining, kind,
                 status, events, cursor, written, control, history>>

(* ... and replaced. *)
HealRatio ==
  /\ apc = "healing"
  /\ request' = [request EXCEPT !["time"] = 4]
  /\ apc' = "sync pitch"
  /\ UNCHANGED <<contract, mode, engine, latency_remaining, kind, status,
                 events, cursor, written, control, history>>

(* Mutant: the engine follows an event, the getters do not. *)
Unpublished(e) == request

(* An applied event is published in its mailbox. *)
Published(e) == [request EXCEPT ![e.id] = e.value]

(* apply_event_realtime(): the next event is due at the cursor. *)
Apply ==
  /\ apc = "block" /\ events # <<>> /\ Head(events).at = cursor
  /\ LET e == Head(events) IN
       /\ request' = Published(e)
       /\ engine' = [engine EXCEPT ![e.id] = IF e.id = "time" THEN 4
                                             ELSE e.value]
  /\ events' = Tail(events)
  /\ UNCHANGED <<contract, mode, latency_remaining, apc, kind, status, cursor,
                 written, control, history>>

ChunkEnd == IF events = <<>> THEN Frames ELSE Head(events).at

(* process_realtime_chunk() up to the next event, or to the block's end.   *)
(* Once its push is accepted it fills all its frames: with the startup     *)
(* silence, with what the engine has, and with zeros for what it lacks.    *)
Chunk ==
  /\ apc = "block" /\ cursor < ChunkEnd
  /\ used' = used \cup {"realtime"}
  /\ LET n == ChunkEnd - cursor
         zeros == Least(n, latency_remaining)
     IN /\ latency_remaining' = latency_remaining - zeros
        /\ fed' = Least(fed + n, Latency)
        /\ \/ UNCHANGED status
           \/ n > zeros /\ status' = "underrun"
  /\ written' = ChunkEnd /\ cursor' = ChunkEnd
  /\ UNCHANGED <<contract, request, mode, engine, apc, kind, events, control,
                 span>>

(* The engine refuses frames of a chunk: the call returns at once. *)
Refused ==
  /\ apc = "block" /\ cursor < ChunkEnd
  /\ used' = used \cup {"realtime"}
  /\ apc' = "idle" /\ status' = "full"
  /\ UNCHANGED <<contract, request, mode, engine, latency_remaining, kind,
                 events, cursor, written, control, fed, span>>

(* Mutant: the call ends with its last event. *)
RealtimeEndEarly ==
  /\ apc = "block" /\ events = <<>>
  /\ apc' = "idle"
  /\ UNCHANGED <<contract, request, mode, engine, latency_remaining, kind,
                 status, events, cursor, written, control, history>>

(* The block is done, through the frames behind its last event. *)
RealtimeEnd ==
  /\ apc = "block" /\ events = <<>> /\ cursor = Frames
  /\ apc' = "idle"
  /\ UNCHANGED <<contract, request, mode, engine, latency_remaining, kind,
                 status, events, cursor, written, control, history>>

-----------------------------------------------------------------------------
ControlStep == \/ \E c \in Commands : Command(c)
               \/ Store \/ Recheck \/ Undo
               \/ \E p \in Parameters : Commit(p)

AudioStep == \/ SyncTime \/ SyncPitch \/ Run
             \/ CheckRatio \/ Enter \/ FindRatio \/ HealRatio
             \/ FlushStore \/ FlushEnd
             \/ Apply \/ Chunk \/ Refused \/ RealtimeEnd

AudioCall == \/ StreamCall \/ Reset
             \/ \E list \in Automations : RealtimeCall(list)
             \/ \E list \in Flushes : FlushCall(list)

Next == ControlStep \/ AudioStep \/ AudioCall

Spec == Init /\ [][Next]_vars

-----------------------------------------------------------------------------
Ratio == 1 .. 16

RatiosOK ==
  /\ request \in [Parameters -> Ratio] /\ engine \in [Parameters -> Ratio]
  /\ pending \in [Parameters -> 0 .. 16]

CallsOK ==
  /\ contract \in {"auto", "streaming", "realtime"}
  /\ mode \in {"none", "streaming", "realtime"}
  /\ latency_remaining \in 0 .. Latency /\ fed \in 0 .. Latency
  /\ apc \in {"idle", "sync time", "sync pitch", "run", "ratio", "enter",
              "heal", "healing", "block", "flush"}
  /\ kind \in {"none", "stream", "realtime", "flush"}
  /\ status \in {"ok", "underrun", "full", "unsupported", "state", "invalid"}
  /\ events \in Seq(Event) /\ cursor \in Nat /\ written \in Nat
  /\ cpc \in {"idle", "store", "store time", "undo"} /\ todo \in Seq(Event)
  /\ outcome \in {"ok", "unsupported", "invalid"}

HistoryOK ==
  /\ used \subseteq {"streaming", "realtime"} /\ span \in {"calm", "shared"}

TypeOK == RatiosOK /\ CallsOK /\ HistoryOK

(* Between two resets a handle processes audio under one I/O contract      *)
(* only, the one its mode names.                                           *)
OneContract == used \subseteq {mode}

(* Fixed I/O always runs at time ratio one, whatever the control thread    *)
(* stores and whenever: else input and output would drift apart.           *)
RealtimeAtUnity == apc = "block" => mode = "realtime" /\ engine["time"] = 4

(* A call that began when the control thread had finished processes with   *)
(* exactly the ratios the getters report, before and after each of its     *)
(* events.                                                                 *)
InSync ==
  (apc \in {"block", "run"} /\ Calm) => engine = request

(* A block whose call reports success, or an underrun, is written to its   *)
(* last frame however its events divide it.                                *)
FixedOutput ==
  (apc = "idle" /\ kind = "realtime" /\ status \in {"ok", "underrun"}) =>
     written = Frames

(* The startup silence is as long as the declared latency, over any        *)
(* division into blocks and chunks, and again after every reset.           *)
StartupSilence == latency_remaining = Latency - fed

(* What makes these inductive: a call's position fixes the mode; lists     *)
(* under way are valid; the history flag is honest; a synchronisation      *)
(* under way agrees with the mailboxes so far.                             *)
InRealtime == \/ apc \in {"ratio", "enter", "heal", "healing", "block"}
              \/ apc = "sync pitch" /\ kind = "realtime"
ModeFits ==
  /\ apc \in {"sync time", "run"} => kind = "stream"
  /\ apc \in {"ratio", "enter", "heal", "healing", "block"} => kind = "realtime"
  /\ apc = "sync pitch" => kind \in {"stream", "realtime"}
  /\ apc = "flush" => kind = "flush"
  /\ (InRealtime /\ apc \notin {"ratio", "enter"}) => mode = "realtime"
  /\ (apc \in {"sync time", "sync pitch", "run"} /\ ~InRealtime) =>
        mode = "streaming"
ListsFit ==
  /\ ValidAll(todo, FALSE)
  /\ InRealtime => ValidAll(events, TRUE)
  /\ apc = "flush" => ValidAll(events, FALSE)
CalmQuiet == Calm => Quiet
SyncSoFar ==
  (Calm /\ apc = "sync pitch") =>
     IF kind = "realtime" THEN request["time"] = 4
     ELSE engine["time"] = request["time"]
WrittenSoFar == InRealtime => cursor = written

(* The inductive invariant: all of the above, in every reachable state. *)
IInv == /\ TypeOK /\ OneContract /\ RealtimeAtUnity /\ InSync /\ FixedOutput
        /\ StartupSilence
        /\ ModeFits /\ ListsFit /\ CalmQuiet /\ SyncSoFar /\ WrittenSoFar

(* The comment in boiledegg_process_realtime(): when it replaces a time    *)
(* ratio, the setter that stored it reports UNSUPPORTED_MODE.              *)
SetterReports == (apc = "healing" /\ Quiet) => outcome # "ok"

(* docs/HOST_INTEGRATION.md: process_realtime always initializes the full  *)
(* output block for valid pointers.                                        *)
OutputInitialized ==
  (apc = "idle" /\ kind = "realtime") => written = Frames
=============================================================================
