---------------------------- MODULE HandleProofs ----------------------------
(***************************************************************************)
(* Theorems about the handle, for every contract, block length, latency    *)
(* and every command and event list the two threads may use.               *)
(***************************************************************************)
EXTENDS Handle, SequenceTheorems, TLAPS

(* Taking the first event off a valid list leaves a valid list. *)
LEMMA TailValid ==
  ASSUME NEW list \in Seq(Event), list # <<>>, NEW fixed \in BOOLEAN,
         ValidAll(list, fixed)
  PROVE  /\ Head(list) \in Event /\ Valid(Head(list), fixed)
         /\ Tail(list) \in Seq(Event) /\ ValidAll(Tail(list), fixed)
<1>1. Len(list) \in Nat /\ Len(list) >= 1 /\ DOMAIN list = 1 .. Len(list)
  BY EmptySeq
<1>2. Head(list) \in Event /\ Valid(Head(list), fixed)
  BY <1>1 DEF ValidAll
<1>3. Tail(list) \in Seq(Event) /\ DOMAIN Tail(list) = 1 .. Len(list) - 1
      /\ \A i \in 1 .. Len(list) - 1 : Tail(list)[i] = list[i + 1]
  BY <1>1
<1>4. ASSUME NEW i \in DOMAIN Tail(list) PROVE Valid(Tail(list)[i], fixed)
  <2>1. i + 1 \in DOMAIN list /\ Tail(list)[i] = list[i + 1]
    BY <1>1, <1>3
  <2>2. QED
    BY <2>1 DEF ValidAll
<1>5. QED
  BY <1>2, <1>3, <1>4 DEF ValidAll

(* A valid value is a ratio, and what fixed I/O admits is valid elsewhere. *)
LEMMA ValidRatio ==
  ASSUME NEW e \in Event, NEW fixed \in BOOLEAN, Valid(e, fixed)
  PROVE  /\ e.id \in Parameters /\ e.value \in Ratio
         /\ fixed /\ e.id = "time" => e.value = 4
  BY DEF Event, Valid, Ratio

-----------------------------------------------------------------------------
(* The parts of the invariant that different steps disturb. *)
ModePart == OneContract /\ RealtimeAtUnity /\ ModeFits
SyncPart == InSync /\ SyncSoFar /\ CalmQuiet
BlockPart == FixedOutput /\ StartupSilence /\ WrittenSoFar

(* A fresh handle satisfies the invariant. *)
LEMMA InitIInv == Init => IInv
<1> SUFFICES ASSUME Init PROVE IInv
  OBVIOUS
<1>1. TypeOK
  <2>1. engine \in [Parameters -> Ratio] /\ request \in [Parameters -> Ratio]
        /\ pending \in [Parameters -> 0 .. 16]
    BY DEF Init, Nothing, Ratio
  <2>2. todo \in Seq(Event) /\ events \in Seq(Event)
    BY DEF Init
  <2>3. QED
    BY <2>1, <2>2, HandleAssumption DEF Init, TypeOK, RatiosOK, CallsOK, HistoryOK
<1>2. ModePart
  BY DEF Init, ModePart, OneContract, RealtimeAtUnity, ModeFits, InRealtime
<1>3. SyncPart
  BY DEF Init, SyncPart, InSync, SyncSoFar, CalmQuiet, Calm
<1>4. BlockPart
  BY HandleAssumption DEF Init, BlockPart, FixedOutput, StartupSilence, WrittenSoFar,
     InRealtime
<1>5. ListsFit
  BY DEF Init, ListsFit, ValidAll, InRealtime
<1>6. QED
  BY <1>1, <1>2, <1>3, <1>4, <1>5 DEF IInv, ModePart, SyncPart, BlockPart

-----------------------------------------------------------------------------
(* The control thread. *)

(* What its steps leave alone keeps its type. *)
LEMMA CallsFrame ==
  ASSUME IInv, UNCHANGED <<contract, mode, latency_remaining, audio, fed>>,
         cpc' \in {"idle", "store", "store time", "undo"}, todo' \in Seq(Event),
         outcome' \in {"ok", "unsupported", "invalid"}
  PROVE  CallsOK'
<1>1. UNCHANGED <<apc, kind, status, events, cursor, written>>
  BY DEF audio
<1>2. CallsOK
  BY DEF IInv, TypeOK
<1>3. QED
  BY <1>1, <1>2 DEF CallsOK

(* Its steps leave the audio owner's call alone, and are never calm. *)
LEMMA ControlFrame ==
  ASSUME IInv, TypeOK', ValidAll(todo', FALSE), ~Calm',
         UNCHANGED <<contract, mode, engine, latency_remaining, audio, used, fed>>
  PROVE  IInv'
<1>1. UNCHANGED <<apc, kind, status, events, cursor, written, mode, engine,
                  latency_remaining, used, fed>>
  BY DEF audio
<1>2. ModePart'
  BY <1>1 DEF IInv, ModePart, OneContract, RealtimeAtUnity, ModeFits, InRealtime
<1>3. SyncPart'
  BY DEF SyncPart, InSync, SyncSoFar, CalmQuiet
<1>4. BlockPart'
  BY <1>1 DEF IInv, BlockPart, FixedOutput, StartupSilence, WrittenSoFar,
     InRealtime
<1>5. ListsFit'
  BY <1>1 DEF IInv, ListsFit, ValidAll, InRealtime
<1>6. QED
  BY <1>2, <1>3, <1>4, <1>5 DEF IInv, ModePart, SyncPart, BlockPart

(* A control call validates and at most schedules its stores. *)
LEMMA CommandStep == ASSUME IInv, NEW c \in Commands, Command(c) PROVE IInv'
<1>1. c.events \in Seq(Event)
  BY HandleAssumption
<1>2. /\ UNCHANGED <<contract, request, mode, engine, latency_remaining, audio,
                     pending, used, fed>>
      /\ span' = "shared"
  BY DEF Command
<1>3. /\ cpc' \in {"idle", "store", "store time", "undo"} /\ todo' \in Seq(Event)
      /\ outcome' \in {"ok", "unsupported", "invalid"}
      /\ ValidAll(todo', FALSE)
  <2>1. CASE ValidAll(c.events, FixedNow)
    <3>1. ValidAll(c.events, FALSE)
      BY <2>1 DEF ValidAll, Valid
    <3>2. cpc' \in {"store", "store time"} /\ todo' = c.events /\ outcome' = outcome
      BY <2>1, Zenon DEF Command
    <3>3. QED
      BY <1>1, <3>1, <3>2, Zenon DEF IInv, TypeOK, RatiosOK, CallsOK
  <2>2. CASE ~ValidAll(c.events, FixedNow)
    <3>1. /\ outcome' \in {"ok", "unsupported", "invalid"}
          /\ cpc' = cpc /\ todo' = todo
      BY <2>2, Zenon DEF Command, Blame
    <3>2. QED
      BY <3>1, Zenon DEF IInv, TypeOK, CallsOK, ListsFit
  <2>3. QED
    BY <2>1, <2>2
<1>4. TypeOK'
  BY <1>2, <1>3 DEF IInv, TypeOK, RatiosOK, CallsOK, HistoryOK, audio
<1>5. QED
  BY <1>2, <1>3, <1>4, ControlFrame DEF Calm

(* A store waits in "pending", where no call can be calm. *)
LEMMA StoreStep == ASSUME IInv, Store PROVE IInv'
<1>1. todo \in Seq(Event) /\ todo # <<>> /\ ValidAll(todo, FALSE)
  BY DEF Store, IInv, TypeOK, CallsOK, ListsFit
<1>2. Head(todo) \in Event /\ Valid(Head(todo), FALSE)
      /\ Tail(todo) \in Seq(Event) /\ ValidAll(Tail(todo), FALSE)
  BY <1>1, TailValid
<1>3. Head(todo).id \in Parameters /\ Head(todo).value \in Ratio
  BY <1>2, ValidRatio, Zenon
<1>4. Head(todo).value \in 0 .. 16
  BY <1>3 DEF Ratio
<1>9. pending' \in [Parameters -> 0 .. 16]
  BY <1>3, <1>4 DEF Store, IInv, TypeOK, RatiosOK
<1>5. /\ todo' = Tail(todo) /\ cpc \in {"store", "store time"}
      /\ UNCHANGED <<contract, request, mode, engine, latency_remaining, audio,
                     cpc, outcome, history>>
  BY DEF Store
<1>6. ~Calm'
  BY <1>5 DEF IInv, CalmQuiet, Quiet, Calm, history
<1>7. TypeOK'
  <2>1. RatiosOK'
    BY <1>5, <1>9 DEF IInv, TypeOK, RatiosOK, history
  <2>2. CallsOK'
    <3>1. outcome' \in {"ok", "unsupported", "invalid"}
          /\ cpc' \in {"idle", "store", "store time", "undo"}
      BY <1>5 DEF IInv, TypeOK, CallsOK
    <3>2. QED
      BY <1>2, <1>5, <3>1, CallsFrame DEF history
  <2>3. HistoryOK'
    BY <1>2, <1>5 DEF IInv, TypeOK, HistoryOK, audio, history
  <2>4. QED
    BY <2>1, <2>2, <2>3 DEF TypeOK
<1>8. QED
  BY <1>2, <1>5, <1>6, <1>7, ControlFrame DEF history

(* Looking at the mode again, and undoing, are not seen by the engine. *)
LEMMA FinishStep == ASSUME IInv, Recheck \/ Undo PROVE IInv'
<1>1. /\ cpc # "idle" /\ todo' = todo
      /\ UNCHANGED <<contract, request, mode, engine, latency_remaining, audio,
                     history>>
  BY DEF Recheck, Undo
<1>2. /\ cpc' \in {"idle", "undo"} /\ outcome' \in {outcome, "ok", "unsupported"}
  BY Zenon DEF Recheck, Undo
<1>3. pending' \in [Parameters -> 0 .. 16]
  <2>1. pending \in [Parameters -> 0 .. 16]
    BY Zenon DEF IInv, TypeOK, RatiosOK, CallsOK
  <2>2. pending' = pending \/ pending' = [pending EXCEPT !["time"] = 4]
    BY Zenon DEF Recheck, Undo
  <2>3. QED
    BY <2>1, <2>2
<1>4. ~Calm'
  BY <1>1 DEF IInv, CalmQuiet, Quiet, Calm, history
<1>5. TypeOK'
  <2>1. RatiosOK'
    BY <1>1, <1>2, <1>3 DEF IInv, TypeOK, RatiosOK, audio, history
  <2>2. CallsOK'
    <3>1. outcome' \in {"ok", "unsupported", "invalid"} /\ todo' \in Seq(Event)
      BY <1>1, <1>2 DEF IInv, TypeOK, CallsOK
    <3>2. QED
      BY <1>1, <1>2, <3>1, CallsFrame DEF history
  <2>3. HistoryOK'
    BY <1>1, <1>2 DEF IInv, TypeOK, HistoryOK, audio, history
  <2>4. QED
    BY <2>1, <2>2, <2>3 DEF TypeOK
<1>6. QED
  BY <1>1, <1>4, <1>5, ControlFrame DEF history, IInv, ListsFit

(* A store that becomes visible: the calls under way are not calm. *)
LEMMA CommitStep == ASSUME IInv, NEW p \in Parameters, Commit(p) PROVE IInv'
<1>1. pending \in [Parameters -> 0 .. 16] /\ request \in [Parameters -> Ratio]
  BY DEF IInv, TypeOK, RatiosOK
<1>2. pending[p] \in Ratio
  BY <1>1 DEF Commit, Ratio
<1>3. request' \in [Parameters -> Ratio] /\ pending' \in [Parameters -> 0 .. 16]
  BY <1>1, <1>2 DEF Commit
<1>7. UNCHANGED <<contract, mode, engine, latency_remaining, audio, cpc, todo,
                  outcome, history>>
  BY DEF Commit
<1>4. ~Calm'
  <2>1. pending # Nothing
    BY DEF Commit, Nothing
  <2>2. QED
    BY <1>7, <2>1 DEF IInv, CalmQuiet, Quiet, Calm, history
<1>5. TypeOK'
  <2>1. RatiosOK'
    BY <1>3, <1>7 DEF IInv, TypeOK, RatiosOK, audio, history
  <2>2. CallsOK'
    BY <1>7, CallsFrame DEF IInv, TypeOK, CallsOK, history
  <2>3. HistoryOK'
    BY <1>7 DEF IInv, TypeOK, HistoryOK, audio, history
  <2>4. QED
    BY <2>1, <2>2, <2>3 DEF TypeOK
<1>6. QED
  BY <1>4, <1>5, <1>7, ControlFrame DEF history, IInv, ListsFit

-----------------------------------------------------------------------------
(* The audio owner's calls and steps leave the control thread alone. *)

(* A streaming call enters its mode, or is refused. *)
LEMMA StreamCallStep == ASSUME IInv, StreamCall PROVE IInv'
<1>1. /\ UNCHANGED <<contract, request, engine, latency_remaining, events, cursor,
                     written, control, used, fed>>
      /\ kind' = "stream" /\ apc = "idle"
      /\ span' \in {span, SpanNow} /\ (span' = span \/ span' = SpanNow)
      /\ \/ mode \in {"none", "streaming"} /\ mode' = "streaming"
            /\ apc' = "sync time" /\ status' = status
         \/ status' = "state" /\ mode' = mode /\ apc' = apc
  BY Zenon DEF StreamCall, Admits
<1>2. TypeOK'
  BY <1>1 DEF IInv, TypeOK, RatiosOK, CallsOK, HistoryOK, control,
     SpanNow
<1>3. ModePart'
  BY <1>1 DEF IInv, TypeOK, HistoryOK, ModePart, OneContract, RealtimeAtUnity, ModeFits,
     InRealtime
<1>4. SyncPart'
  BY <1>1 DEF IInv, SyncPart, InSync, SyncSoFar, CalmQuiet, Calm, Quiet, SpanNow,
     control
<1>5. BlockPart'
  BY <1>1 DEF IInv, BlockPart, FixedOutput, StartupSilence, WrittenSoFar,
     InRealtime
<1>6. ListsFit'
  BY <1>1 DEF IInv, ListsFit, ValidAll, InRealtime, control
<1>7. QED
  BY <1>2, <1>3, <1>4, <1>5, <1>6 DEF IInv, ModePart, SyncPart, BlockPart

(* Half of a synchronisation agrees with half of the mailboxes. *)
LEMMA SyncTimeStep == ASSUME IInv, SyncTime PROVE IInv'
<1>1. /\ UNCHANGED <<contract, request, mode, latency_remaining, kind, status,
                     events, cursor, written, control, history>>
      /\ apc = "sync time" /\ apc' = "sync pitch"
      /\ engine' = [engine EXCEPT !["time"] = request["time"]]
  BY DEF SyncTime
<1>2. engine' \in [Parameters -> Ratio] /\ engine'["time"] = request["time"]
  BY <1>1 DEF IInv, TypeOK, RatiosOK, Parameters
<1>3. TypeOK'
  <2>1. RatiosOK'
    BY <1>1, <1>2 DEF IInv, TypeOK, RatiosOK, control, history
  <2>2. CallsOK'
    BY <1>1, <1>2 DEF IInv, TypeOK, CallsOK, control, history
  <2>3. HistoryOK'
    BY <1>1, <1>2 DEF IInv, TypeOK, HistoryOK, control, history
  <2>4. QED
    BY <2>1, <2>2, <2>3 DEF TypeOK
<1>4. ModePart'
  BY <1>1 DEF IInv, TypeOK, HistoryOK, ModePart, OneContract, RealtimeAtUnity, ModeFits,
     InRealtime, history
<1>5. SyncPart'
  BY <1>1, <1>2 DEF IInv, SyncPart, InSync, SyncSoFar, CalmQuiet, Calm, Quiet,
     ModeFits, control, history
<1>6. BlockPart'
  BY <1>1 DEF IInv, BlockPart, FixedOutput, StartupSilence, WrittenSoFar,
     InRealtime, ModeFits, history
<1>7. ListsFit'
  BY <1>1 DEF IInv, ListsFit, ValidAll, InRealtime, ModeFits, control
<1>8. QED
  BY <1>3, <1>4, <1>5, <1>6, <1>7 DEF IInv, ModePart, SyncPart, BlockPart

(* A finished synchronisation agrees with both, and pins the time. *)
LEMMA SyncPitchStep == ASSUME IInv, SyncPitch PROVE IInv'
<1>1. /\ UNCHANGED <<contract, request, mode, latency_remaining, kind, status,
                     events, cursor, written, control, history>>
      /\ apc = "sync pitch"
      /\ apc' = IF kind = "realtime" THEN "block" ELSE "run"
  BY DEF SyncPitch, Pinned
<1>2. /\ engine' \in [Parameters -> Ratio]
      /\ engine'["time"] = IF kind = "realtime" THEN 4 ELSE engine["time"]
      /\ engine'["pitch"] = request["pitch"]
  <2>1. request \in [Parameters -> Ratio] /\ engine \in [Parameters -> Ratio]
    BY DEF IInv, TypeOK, RatiosOK
  <2>2. "time" \in Parameters /\ "pitch" \in Parameters /\ 4 \in Ratio
    BY DEF Parameters, Ratio
  <2>3. engine' = [engine EXCEPT !["time"] = IF kind = "realtime" THEN 4
                                             ELSE engine["time"],
                                 !["pitch"] = request["pitch"]]
    BY DEF SyncPitch, Pinned
  <2>4. QED
    BY <2>1, <2>2, <2>3
<1>3. Calm => engine' = request
  <2>1. SUFFICES ASSUME Calm PROVE engine' = request
    OBVIOUS
  <2>2. engine'["time"] = request["time"]
    BY <1>1, <1>2, <2>1 DEF IInv, SyncSoFar
  <2>3. request \in [Parameters -> Ratio]
    BY DEF IInv, TypeOK, RatiosOK
  <2>4. QED
    BY <1>2, <2>2, <2>3 DEF Parameters
<1>4. kind = "realtime" => engine'["time"] = 4
  BY <1>2
<1>5. TypeOK'
  <2>1. RatiosOK'
    BY <1>1, <1>2 DEF IInv, TypeOK, RatiosOK, control, history
  <2>2. CallsOK'
    BY <1>1 DEF IInv, TypeOK, CallsOK, control, history
  <2>3. HistoryOK'
    BY <1>1 DEF IInv, TypeOK, HistoryOK, control, history
  <2>4. QED
    BY <2>1, <2>2, <2>3 DEF TypeOK
<1>6. ModePart'
  BY <1>1, <1>4 DEF IInv, TypeOK, HistoryOK, ModePart, OneContract, RealtimeAtUnity,
     ModeFits, InRealtime, control, history
<1>7. SyncPart'
  BY <1>1, <1>3 DEF IInv, SyncPart, InSync, SyncSoFar, CalmQuiet, Calm, Quiet,
     ModeFits, InRealtime, control, history
<1>8. BlockPart'
  BY <1>1 DEF IInv, BlockPart, FixedOutput, StartupSilence, WrittenSoFar,
     InRealtime, control, history
<1>9. ListsFit'
  BY <1>1 DEF IInv, ListsFit, ValidAll, InRealtime, ModeFits, control
<1>10. QED
  BY <1>5, <1>6, <1>7, <1>8, <1>9 DEF IInv, ModePart, SyncPart, BlockPart

(* A streaming call processes in streaming mode only. *)
LEMMA RunStep == ASSUME IInv, Run PROVE IInv'
<1>1. /\ UNCHANGED <<contract, request, mode, engine, latency_remaining, kind,
                     events, cursor, written, control, fed, span>>
      /\ apc = "run" /\ apc' = "idle" /\ status' = "ok"
      /\ used' = used \cup {"streaming"}
  BY DEF Run
<1>2. mode = "streaming" /\ kind = "stream"
  BY <1>1 DEF IInv, ModeFits, InRealtime
<1>3. TypeOK'
  <2>1. RatiosOK'
    BY <1>1 DEF IInv, TypeOK, RatiosOK, control, history
  <2>2. CallsOK'
    BY <1>1 DEF IInv, TypeOK, CallsOK, control, history
  <2>3. HistoryOK'
    BY <1>1 DEF IInv, TypeOK, HistoryOK, control, history
  <2>4. QED
    BY <2>1, <2>2, <2>3 DEF TypeOK
<1>4. ModePart'
  BY <1>1, <1>2 DEF IInv, TypeOK, HistoryOK, ModePart, OneContract, RealtimeAtUnity,
     ModeFits, InRealtime, control, history
<1>5. SyncPart'
  BY <1>1 DEF IInv, SyncPart, InSync, SyncSoFar, CalmQuiet, Calm, Quiet,
     ModeFits, InRealtime, control, history
<1>6. BlockPart'
  BY <1>1, <1>2 DEF IInv, BlockPart, FixedOutput, StartupSilence, WrittenSoFar,
     InRealtime, control, history
<1>7. ListsFit'
  BY <1>1 DEF IInv, ListsFit, ValidAll, InRealtime, ModeFits, control
<1>8. QED
  BY <1>3, <1>4, <1>5, <1>6, <1>7 DEF IInv, ModePart, SyncPart, BlockPart

(* A reset forgets the contract and owes the startup latency again. *)
LEMMA ResetStep == ASSUME IInv, Reset PROVE IInv'
<1>1. /\ UNCHANGED <<contract, request, audio, control, span>>
      /\ apc = "idle" /\ mode' = "none" /\ latency_remaining' = Latency
      /\ engine' = request /\ used' = {} /\ fed' = 0
  BY DEF Reset
<1>2. UNCHANGED <<apc, kind, status, events, cursor, written>>
  BY <1>1 DEF audio
<1>3. Latency \in Nat
  BY HandleAssumption
<1>4. TypeOK'
  <2>1. RatiosOK'
    BY <1>1 DEF IInv, TypeOK, RatiosOK, control, history
  <2>2. CallsOK'
    <3>1. cpc' = cpc /\ todo' = todo /\ outcome' = outcome
      BY <1>1 DEF control
    <3>2. latency_remaining' \in 0 .. Latency /\ fed' \in 0 .. Latency
      BY <1>1, <1>3
    <3>3. QED
      BY <1>1, <1>2, <3>1, <3>2 DEF IInv, TypeOK, CallsOK
  <2>3. HistoryOK'
    BY <1>1, <1>2, <1>3 DEF IInv, TypeOK, HistoryOK, control, history
  <2>4. QED
    BY <2>1, <2>2, <2>3 DEF TypeOK
<1>5. ModePart'
  BY <1>1, <1>2 DEF IInv, TypeOK, HistoryOK, ModePart, OneContract, RealtimeAtUnity,
     ModeFits, InRealtime, control, history
<1>6. SyncPart'
  BY <1>1, <1>2 DEF IInv, SyncPart, InSync, SyncSoFar, CalmQuiet, Calm, Quiet,
     ModeFits, InRealtime, control, history
<1>7. BlockPart'
  BY <1>1, <1>2, <1>3 DEF IInv, BlockPart, FixedOutput, StartupSilence, WrittenSoFar,
     InRealtime, control, history
<1>8. ListsFit'
  BY <1>1, <1>2 DEF IInv, ListsFit, ValidAll, InRealtime, ModeFits, control
<1>9. QED
  BY <1>4, <1>5, <1>6, <1>7, <1>8 DEF IInv, ModePart, SyncPart, BlockPart

-----------------------------------------------------------------------------
(* A parameter-only flush. *)

(* A list that a flush accepts is valid where the I/O is not fixed. *)
LEMMA FlushListValid ==
  ASSUME NEW list \in Flushes, ValidAll(list, FixedNow)
  PROVE  list \in Seq(Event) /\ ValidAll(list, FALSE)
  BY HandleAssumption DEF ValidAll, Valid

(* A parameter-only flush selects no mode. *)
LEMMA FlushCallStep ==
  ASSUME IInv, NEW list \in Flushes, FlushCall(list)
  PROVE  IInv'
<1>1. /\ UNCHANGED <<contract, request, mode, engine, latency_remaining, cursor,
                     written, control, history>>
      /\ apc = "idle" /\ kind' = "flush"
      /\ \/ apc' = "flush" /\ events' = list /\ status' = status
            /\ ValidAll(list, FixedNow)
         \/ apc' = apc /\ events' = events /\ status' \in {"unsupported", "invalid"}
  BY Zenon DEF FlushCall, Blame
<1>2. events' \in Seq(Event) /\ (apc' = "flush" => ValidAll(events', FALSE))
  BY <1>1, FlushListValid DEF IInv, TypeOK, CallsOK
<1>3. TypeOK'
  <2>1. RatiosOK'
    BY <1>1 DEF IInv, TypeOK, RatiosOK, control, history
  <2>2. CallsOK'
    BY <1>1, <1>2 DEF IInv, TypeOK, CallsOK, control, history
  <2>3. HistoryOK'
    BY <1>1 DEF IInv, TypeOK, HistoryOK, history
  <2>4. QED
    BY <2>1, <2>2, <2>3 DEF TypeOK
<1>4. ModePart'
  BY <1>1 DEF IInv, TypeOK, HistoryOK, ModePart, OneContract, RealtimeAtUnity,
     ModeFits, InRealtime, control, history
<1>5. SyncPart'
  BY <1>1 DEF IInv, SyncPart, InSync, SyncSoFar, CalmQuiet, Calm, Quiet,
     ModeFits, InRealtime, control, history
<1>6. BlockPart'
  BY <1>1 DEF IInv, BlockPart, FixedOutput, StartupSilence, WrittenSoFar,
     InRealtime, control, history
<1>7. ListsFit'
  BY <1>1, <1>2 DEF IInv, ListsFit, ValidAll, InRealtime, ModeFits, control
<1>8. QED
  BY <1>3, <1>4, <1>5, <1>6, <1>7 DEF IInv, ModePart, SyncPart, BlockPart

(* It stores a value that is valid somewhere; no block is under way. *)
LEMMA FlushStoreStep == ASSUME IInv, FlushStore PROVE IInv'
<1>1. /\ UNCHANGED <<contract, mode, engine, latency_remaining, apc, kind, status,
                     cursor, written, control, history>>
      /\ apc = "flush" /\ events' = Tail(events) /\ events # <<>>
      /\ request' = [request EXCEPT ![Head(events).id] = Head(events).value]
  BY DEF FlushStore
<1>2. /\ Head(events) \in Event /\ Valid(Head(events), FALSE)
      /\ events' \in Seq(Event) /\ ValidAll(events', FALSE)
  BY <1>1, TailValid DEF IInv, TypeOK, CallsOK, ListsFit
<1>3. Head(events).id \in Parameters /\ Head(events).value \in Ratio
  BY <1>2, ValidRatio, Zenon
<1>4. TypeOK'
  <2>1. RatiosOK'
    BY <1>1, <1>3 DEF IInv, TypeOK, RatiosOK, control, history
  <2>2. CallsOK'
    BY <1>1, <1>2 DEF IInv, TypeOK, CallsOK, control, history
  <2>3. HistoryOK'
    BY <1>1 DEF IInv, TypeOK, HistoryOK, history
  <2>4. QED
    BY <2>1, <2>2, <2>3 DEF TypeOK
<1>5. ModePart'
  BY <1>1 DEF IInv, TypeOK, HistoryOK, ModePart, OneContract, RealtimeAtUnity,
     ModeFits, InRealtime, control, history
<1>6. SyncPart'
  BY <1>1 DEF IInv, SyncPart, InSync, SyncSoFar, CalmQuiet, Calm, Quiet,
     ModeFits, InRealtime, control, history
<1>7. BlockPart'
  BY <1>1 DEF IInv, BlockPart, FixedOutput, StartupSilence, WrittenSoFar,
     InRealtime, control, history
<1>8. ListsFit'
  BY <1>1, <1>2 DEF IInv, ListsFit, ValidAll, InRealtime, ModeFits, control
<1>9. QED
  BY <1>4, <1>5, <1>6, <1>7, <1>8 DEF IInv, ModePart, SyncPart, BlockPart

(* Its end leaves the mailboxes alone. *)
LEMMA FlushEndStep == ASSUME IInv, FlushEnd PROVE IInv'
<1>1. /\ UNCHANGED <<contract, request, mode, engine, latency_remaining, kind,
                     events, cursor, written, control, history>>
      /\ apc = "flush" /\ apc' = "idle" /\ status' = "ok"
  BY DEF FlushEnd
<1>2. kind = "flush"
  BY <1>1 DEF IInv, ModeFits
<1>3. TypeOK'
  <2>1. RatiosOK'
    BY <1>1 DEF IInv, TypeOK, RatiosOK, control, history
  <2>2. CallsOK'
    BY <1>1 DEF IInv, TypeOK, CallsOK, control, history
  <2>3. HistoryOK'
    BY <1>1 DEF IInv, TypeOK, HistoryOK, history
  <2>4. QED
    BY <2>1, <2>2, <2>3 DEF TypeOK
<1>4. ModePart'
  BY <1>1 DEF IInv, TypeOK, HistoryOK, ModePart, OneContract, RealtimeAtUnity,
     ModeFits, InRealtime, control, history
<1>5. SyncPart'
  BY <1>1 DEF IInv, SyncPart, InSync, SyncSoFar, CalmQuiet, Calm, Quiet,
     ModeFits, InRealtime, control, history
<1>6. BlockPart'
  BY <1>1, <1>2 DEF IInv, BlockPart, FixedOutput, StartupSilence, WrittenSoFar,
     InRealtime, control, history
<1>7. ListsFit'
  BY <1>1 DEF IInv, ListsFit, ValidAll, InRealtime, ModeFits, control
<1>8. QED
  BY <1>3, <1>4, <1>5, <1>6, <1>7 DEF IInv, ModePart, SyncPart, BlockPart

-----------------------------------------------------------------------------
(* A realtime block. *)

(* A block under way has a list that fixed I/O admits. *)
LEMMA RealtimeCallStep ==
  ASSUME IInv, NEW list \in Automations, RealtimeCall(list)
  PROVE  IInv'
<1>1. /\ UNCHANGED <<contract, request, mode, engine, latency_remaining, control,
                     used, fed>>
      /\ apc = "idle" /\ kind' = "realtime" /\ events' = list
      /\ cursor' = 0 /\ written' = 0
      /\ \/ apc' \in {"ratio", "enter"} /\ span' = SpanNow /\ status' = status
            /\ ValidAll(list, TRUE)
         \/ /\ apc' = apc /\ span' = span
            /\ status' \in {"unsupported", "invalid"}
  <2>1. AcceptedAll(list) => ValidAll(list, TRUE)
    BY Zenon DEF AcceptedAll, Accepted, ValidAll
  <2>2. QED
    BY <2>1, Zenon DEF RealtimeCall, BlockBlame
<1>2. events' \in Seq(Event)
  BY <1>1, HandleAssumption
<1>3. span' \in {"calm", "shared"}
  BY <1>1 DEF IInv, TypeOK, HistoryOK, SpanNow
<1>9. Calm' => Quiet'
  BY <1>1 DEF IInv, CalmQuiet, Calm, SpanNow, Quiet, control
<1>4. TypeOK'
  <2>1. RatiosOK'
    BY <1>1 DEF IInv, TypeOK, RatiosOK, control, history
  <2>2. CallsOK'
    BY <1>1, <1>2 DEF IInv, TypeOK, CallsOK, control, history
  <2>3. HistoryOK'
    BY <1>1, <1>3 DEF IInv, TypeOK, HistoryOK, history
  <2>4. QED
    BY <2>1, <2>2, <2>3 DEF TypeOK
<1>5. ModePart'
  BY <1>1 DEF IInv, TypeOK, HistoryOK, ModePart, OneContract, RealtimeAtUnity,
     ModeFits, InRealtime, control, history
<1>6. SyncPart'
  BY <1>1, <1>9 DEF IInv, SyncPart, InSync, SyncSoFar, CalmQuiet, Calm, Quiet,
     ModeFits, InRealtime, control, history
<1>7. BlockPart'
  BY <1>1 DEF IInv, BlockPart, FixedOutput, StartupSilence, WrittenSoFar,
     InRealtime, control, history
<1>8. ListsFit'
  BY <1>1 DEF IInv, ListsFit, ValidAll, InRealtime, ModeFits, control
<1>10. QED
  BY <1>4, <1>5, <1>6, <1>7, <1>8 DEF IInv, ModePart, SyncPart, BlockPart

(* A look at the time ratio stores nothing. *)
LEMMA CheckRatioStep == ASSUME IInv, CheckRatio PROVE IInv'
<1>1. /\ UNCHANGED <<contract, request, mode, engine, latency_remaining, kind,
                     events, cursor, written, control, history>>
      /\ apc = "ratio"
      /\ \/ apc' = "enter" /\ status' = status
         \/ apc' = "idle" /\ status' = "unsupported"
  BY DEF CheckRatio
<1>2. TypeOK'
  <2>1. RatiosOK'
    BY <1>1 DEF IInv, TypeOK, RatiosOK, control, history
  <2>2. CallsOK'
    BY <1>1 DEF IInv, TypeOK, CallsOK, control, history
  <2>3. HistoryOK'
    BY <1>1 DEF IInv, TypeOK, HistoryOK, history
  <2>4. QED
    BY <2>1, <2>2, <2>3 DEF TypeOK
<1>3. ModePart'
  BY <1>1 DEF IInv, TypeOK, HistoryOK, ModePart, OneContract, RealtimeAtUnity,
     ModeFits, InRealtime, control, history
<1>4. SyncPart'
  BY <1>1 DEF IInv, SyncPart, InSync, SyncSoFar, CalmQuiet, Calm, Quiet,
     ModeFits, InRealtime, control, history
<1>5. BlockPart'
  BY <1>1 DEF IInv, BlockPart, FixedOutput, StartupSilence, WrittenSoFar,
     InRealtime, control, history
<1>6. ListsFit'
  BY <1>1 DEF IInv, ListsFit, ValidAll, InRealtime, ModeFits, control
<1>7. QED
  BY <1>2, <1>3, <1>4, <1>5, <1>6 DEF IInv, ModePart, SyncPart, BlockPart

(* A block is under way only once the mode is realtime. *)
LEMMA EnterStep == ASSUME IInv, Enter PROVE IInv'
<1>1. /\ UNCHANGED <<contract, request, engine, latency_remaining, kind, events,
                     cursor, written, control, history>>
      /\ apc = "enter"
      /\ \/ mode \in {"none", "realtime"} /\ mode' = "realtime"
            /\ apc' = "heal" /\ status' = "ok"
         \/ apc' = "idle" /\ status' = "state" /\ mode' = mode
  BY Zenon DEF Enter, Admits
<1>2. TypeOK'
  <2>1. RatiosOK'
    BY <1>1 DEF IInv, TypeOK, RatiosOK, control, history
  <2>2. CallsOK'
    BY <1>1 DEF IInv, TypeOK, CallsOK, control, history
  <2>3. HistoryOK'
    BY <1>1 DEF IInv, TypeOK, HistoryOK, history
  <2>4. QED
    BY <2>1, <2>2, <2>3 DEF TypeOK
<1>3. ModePart'
  BY <1>1 DEF IInv, TypeOK, HistoryOK, ModePart, OneContract, RealtimeAtUnity,
     ModeFits, InRealtime, control, history
<1>4. SyncPart'
  BY <1>1 DEF IInv, SyncPart, InSync, SyncSoFar, CalmQuiet, Calm, Quiet,
     ModeFits, InRealtime, control, history
<1>5. BlockPart'
  BY <1>1 DEF IInv, BlockPart, FixedOutput, StartupSilence, WrittenSoFar,
     InRealtime, control, history
<1>6. ListsFit'
  BY <1>1 DEF IInv, ListsFit, ValidAll, InRealtime, ModeFits, control
<1>7. QED
  BY <1>2, <1>3, <1>4, <1>5, <1>6 DEF IInv, ModePart, SyncPart, BlockPart

(* A calm call that finds a time ratio of one keeps it. *)
LEMMA FindRatioStep == ASSUME IInv, FindRatio PROVE IInv'
<1>1. /\ UNCHANGED <<contract, request, mode, engine, latency_remaining, kind,
                     status, events, cursor, written, control, history>>
      /\ apc = "heal"
      /\ \/ request["time"] = 4 /\ apc' = "sync pitch"
         \/ apc' = "healing"
  BY DEF FindRatio
<1>2. kind = "realtime"
  BY <1>1 DEF IInv, ModeFits
<1>3. TypeOK'
  <2>1. RatiosOK'
    BY <1>1 DEF IInv, TypeOK, RatiosOK, control, history
  <2>2. CallsOK'
    <3>1. cpc' = cpc /\ todo' = todo /\ outcome' = outcome /\ fed' = fed
      BY <1>1 DEF control, history
    <3>2. mode' \in {"none", "streaming", "realtime"}
      BY <1>1 DEF IInv, TypeOK, CallsOK
    <3>3. /\ contract' = contract /\ latency_remaining' = latency_remaining
          /\ kind' = kind /\ events' = events /\ cursor' = cursor
          /\ written' = written
      BY <1>1
    <3>4. apc' \in {"sync pitch", "healing"} /\ status' = status
      BY <1>1
    <3>5. QED
      BY <3>1, <3>2, <3>3, <3>4, Zenon DEF IInv, TypeOK, CallsOK
  <2>3. HistoryOK'
    BY <1>1 DEF IInv, TypeOK, HistoryOK, history
  <2>4. QED
    BY <2>1, <2>2, <2>3 DEF TypeOK
<1>4. ModePart'
  BY <1>1, <1>2 DEF IInv, TypeOK, HistoryOK, ModePart, OneContract, RealtimeAtUnity,
     ModeFits, InRealtime, control, history
<1>5. SyncPart'
  BY <1>1, <1>2 DEF IInv, SyncPart, InSync, SyncSoFar, CalmQuiet, Calm, Quiet,
     ModeFits, InRealtime, control, history
<1>6. BlockPart'
  BY <1>1 DEF IInv, BlockPart, FixedOutput, StartupSilence, WrittenSoFar,
     InRealtime, control, history
<1>7. ListsFit'
  BY <1>1 DEF IInv, ListsFit, ValidAll, InRealtime, ModeFits, control
<1>8. QED
  BY <1>3, <1>4, <1>5, <1>6, <1>7 DEF IInv, ModePart, SyncPart, BlockPart

(* A calm call that found another replaces it. *)
LEMMA HealRatioStep == ASSUME IInv, HealRatio PROVE IInv'
<1>1. /\ UNCHANGED <<contract, mode, engine, latency_remaining, kind, status,
                     events, cursor, written, control, history>>
      /\ apc = "healing" /\ apc' = "sync pitch"
      /\ request' = [request EXCEPT !["time"] = 4]
  BY DEF HealRatio
<1>2. kind = "realtime"
  BY <1>1 DEF IInv, ModeFits
<1>3. request' \in [Parameters -> Ratio] /\ request'["time"] = 4
  <2>1. request \in [Parameters -> Ratio]
    BY DEF IInv, TypeOK, RatiosOK
  <2>2. 4 \in Ratio /\ "time" \in Parameters
    BY DEF Ratio, Parameters
  <2>3. QED
    BY <1>1, <2>1, <2>2
<1>4. TypeOK'
  <2>1. RatiosOK'
    BY <1>1, <1>3 DEF IInv, TypeOK, RatiosOK, control, history
  <2>2. CallsOK'
    BY <1>1 DEF IInv, TypeOK, CallsOK, control, history
  <2>3. HistoryOK'
    BY <1>1 DEF IInv, TypeOK, HistoryOK, history
  <2>4. QED
    BY <2>1, <2>2, <2>3 DEF TypeOK
<1>5. ModePart'
  BY <1>1, <1>2 DEF IInv, TypeOK, HistoryOK, ModePart, OneContract, RealtimeAtUnity,
     ModeFits, InRealtime, control, history
<1>6. SyncPart'
  BY <1>1, <1>2, <1>3 DEF IInv, SyncPart, InSync, SyncSoFar, CalmQuiet, Calm, Quiet,
     ModeFits, InRealtime, control, history
<1>7. BlockPart'
  BY <1>1 DEF IInv, BlockPart, FixedOutput, StartupSilence, WrittenSoFar,
     InRealtime, control, history
<1>8. ListsFit'
  BY <1>1 DEF IInv, ListsFit, ValidAll, InRealtime, ModeFits, control
<1>9. QED
  BY <1>4, <1>5, <1>6, <1>7, <1>8 DEF IInv, ModePart, SyncPart, BlockPart

(* An event reaches the engine and its mailbox together. *)
LEMMA ApplyStep == ASSUME IInv, Apply PROVE IInv'
<1> DEFINE e == Head(events)
<1>1. /\ UNCHANGED <<contract, mode, latency_remaining, apc, kind, status, cursor,
                     written, control, history>>
      /\ apc = "block" /\ events # <<>> /\ events' = Tail(events)
      /\ request' = [request EXCEPT ![e.id] = e.value]
      /\ engine' = [engine EXCEPT ![e.id] = IF e.id = "time" THEN 4 ELSE e.value]
  BY DEF Apply, Published
<1>2. /\ e \in Event /\ Valid(e, TRUE)
      /\ events' \in Seq(Event) /\ ValidAll(events', TRUE)
  BY <1>1, TailValid DEF IInv, TypeOK, CallsOK, ListsFit, InRealtime
<1>3. /\ e.id \in Parameters /\ e.value \in Ratio
      /\ e.id = "time" => e.value = 4
  BY <1>2, ValidRatio, Zenon
<1> HIDE DEF e
<1>4. engine' = [engine EXCEPT ![e.id] = e.value]
  BY <1>1, <1>3
<1>5. request \in [Parameters -> Ratio] /\ engine \in [Parameters -> Ratio]
  BY DEF IInv, TypeOK, RatiosOK
<1>6. request' \in [Parameters -> Ratio] /\ engine' \in [Parameters -> Ratio]
  BY <1>1, <1>3, <1>4, <1>5
<1>7. engine'["time"] = 4
  BY <1>1, <1>3, <1>4, <1>5 DEF IInv, RealtimeAtUnity, Parameters
<1>8. Calm' => engine' = request'
  BY <1>1, <1>4 DEF IInv, InSync, Calm, history
<1>9. TypeOK'
  <2>1. RatiosOK'
    BY <1>1, <1>6 DEF IInv, TypeOK, RatiosOK, control, history
  <2>2. CallsOK'
    BY <1>1, <1>2 DEF IInv, TypeOK, CallsOK, control, history
  <2>3. HistoryOK'
    BY <1>1 DEF IInv, TypeOK, HistoryOK, history
  <2>4. QED
    BY <2>1, <2>2, <2>3 DEF TypeOK
<1>10. ModePart'
  BY <1>1, <1>7 DEF IInv, TypeOK, HistoryOK, ModePart, OneContract, RealtimeAtUnity,
     ModeFits, InRealtime, control, history
<1>11. SyncPart'
  BY <1>1, <1>8 DEF IInv, SyncPart, InSync, SyncSoFar, CalmQuiet, Calm, Quiet,
     ModeFits, InRealtime, control, history
<1>12. BlockPart'
  BY <1>1 DEF IInv, BlockPart, FixedOutput, StartupSilence, WrittenSoFar,
     InRealtime, control, history
<1>13. ListsFit'
  BY <1>1, <1>2 DEF IInv, ListsFit, ValidAll, InRealtime, ModeFits, control
<1>14. QED
  BY <1>9, <1>10, <1>11, <1>12, <1>13 DEF IInv, ModePart, SyncPart, BlockPart

(* A chunk pays off part of the startup latency and moves both cursors. *)
LEMMA ChunkStep == ASSUME IInv, Chunk PROVE IInv'
<1> DEFINE n == ChunkEnd - cursor
           zeros == Least(n, latency_remaining)
<1>1. /\ UNCHANGED <<contract, request, mode, engine, apc, kind, events, control,
                     span>>
      /\ apc = "block" /\ cursor < ChunkEnd
      /\ used' = used \cup {"realtime"}
      /\ latency_remaining' = latency_remaining - zeros
      /\ fed' = Least(fed + n, Latency)
      /\ status' \in {status, "underrun"}
      /\ written' = ChunkEnd /\ cursor' = ChunkEnd
  BY DEF Chunk
<1>2. ChunkEnd \in Nat /\ cursor \in Nat
  <2>1. CASE events = <<>>
    BY <2>1, HandleAssumption DEF ChunkEnd, IInv, TypeOK, CallsOK
  <2>2. CASE events # <<>>
    <3>1. Head(events) \in Event
      BY <1>1, <2>2, TailValid DEF IInv, TypeOK, CallsOK, ListsFit, InRealtime
    <3>2. QED
      BY <2>2, <3>1 DEF ChunkEnd, Event, IInv, TypeOK, CallsOK
  <2>3. QED
    BY <2>1, <2>2
<1>3. /\ latency_remaining \in Nat /\ fed \in Nat /\ Latency \in Nat
      /\ latency_remaining = Latency - fed
  <2>1. latency_remaining \in 0 .. Latency /\ fed \in 0 .. Latency
    BY Zenon DEF IInv, TypeOK, CallsOK
  <2>2. Latency \in Nat
    BY HandleAssumption
  <2>3. QED
    BY <2>1, <2>2 DEF IInv, StartupSilence
<1>4. n \in Nat
  BY <1>1, <1>2
<1> HIDE DEF n
<1>5. /\ latency_remaining' \in 0 .. Latency /\ fed' \in 0 .. Latency
      /\ latency_remaining' = Latency - fed'
  BY <1>1, <1>3, <1>4 DEF Least
<1>6. mode = "realtime" /\ kind = "realtime"
  BY <1>1 DEF IInv, ModeFits, InRealtime
<1>14. status' \in {"ok", "underrun", "full", "unsupported", "state", "invalid"}
  BY <1>1 DEF IInv, TypeOK, CallsOK
<1>7. TypeOK'
  <2>1. RatiosOK'
    BY <1>1 DEF IInv, TypeOK, RatiosOK, control
  <2>2. CallsOK'
    <3>1. UNCHANGED <<cpc, todo, outcome>>
      BY <1>1 DEF control
    <3>2. written' \in Nat /\ cursor' \in Nat
      BY <1>1, <1>2
    <3>3. UNCHANGED <<contract, mode, apc, kind, events>>
      BY <1>1
    <3>4. QED
      BY <1>5, <1>14, <3>1, <3>2, <3>3 DEF IInv, TypeOK, CallsOK
  <2>3. HistoryOK'
    BY <1>1 DEF IInv, TypeOK, HistoryOK
  <2>4. QED
    BY <2>1, <2>2, <2>3 DEF TypeOK
<1>8. ModePart'
  BY <1>1, <1>6 DEF IInv, TypeOK, HistoryOK, ModePart, OneContract, RealtimeAtUnity,
     ModeFits, InRealtime, control, history
<1>9. SyncPart'
  BY <1>1 DEF IInv, SyncPart, InSync, SyncSoFar, CalmQuiet, Calm, Quiet,
     ModeFits, InRealtime, control, history
<1>10. BlockPart'
  BY <1>1, <1>5 DEF IInv, BlockPart, FixedOutput, StartupSilence, WrittenSoFar,
     InRealtime, control, history
<1>11. ListsFit'
  BY <1>1 DEF IInv, ListsFit, ValidAll, InRealtime, ModeFits, control
<1>12. QED
  BY <1>7, <1>8, <1>9, <1>10, <1>11 DEF IInv, ModePart, SyncPart, BlockPart

(* A refused chunk writes nothing, and the status says so. *)
LEMMA RefusedStep == ASSUME IInv, Refused PROVE IInv'
<1>1. /\ UNCHANGED <<contract, request, mode, engine, latency_remaining, kind,
                     events, cursor, written, control, fed, span>>
      /\ apc = "block" /\ apc' = "idle" /\ status' = "full"
      /\ used' = used \cup {"realtime"}
  BY DEF Refused
<1>2. mode = "realtime"
  BY <1>1 DEF IInv, ModeFits, InRealtime
<1>3. TypeOK'
  <2>1. RatiosOK'
    BY <1>1 DEF IInv, TypeOK, RatiosOK, control, history
  <2>2. CallsOK'
    BY <1>1 DEF IInv, TypeOK, CallsOK, control, history
  <2>3. HistoryOK'
    BY <1>1 DEF IInv, TypeOK, HistoryOK, history
  <2>4. QED
    BY <2>1, <2>2, <2>3 DEF TypeOK
<1>4. ModePart'
  BY <1>1, <1>2 DEF IInv, TypeOK, HistoryOK, ModePart, OneContract, RealtimeAtUnity,
     ModeFits, InRealtime, control, history
<1>5. SyncPart'
  BY <1>1 DEF IInv, SyncPart, InSync, SyncSoFar, CalmQuiet, Calm, Quiet,
     ModeFits, InRealtime, control, history
<1>6. BlockPart'
  BY <1>1 DEF IInv, BlockPart, FixedOutput, StartupSilence, WrittenSoFar,
     InRealtime, control, history
<1>7. ListsFit'
  BY <1>1 DEF IInv, ListsFit, ValidAll, InRealtime, ModeFits, control
<1>8. QED
  BY <1>3, <1>4, <1>5, <1>6, <1>7 DEF IInv, ModePart, SyncPart, BlockPart

(* The end of a block has written all its frames. *)
LEMMA RealtimeEndStep == ASSUME IInv, RealtimeEnd PROVE IInv'
<1>1. /\ UNCHANGED <<contract, request, mode, engine, latency_remaining, kind,
                     status, events, cursor, written, control, history>>
      /\ apc = "block" /\ apc' = "idle" /\ cursor = Frames
  BY DEF RealtimeEnd
<1>2. TypeOK'
  <2>1. RatiosOK'
    BY <1>1 DEF IInv, TypeOK, RatiosOK, control, history
  <2>2. CallsOK'
    BY <1>1 DEF IInv, TypeOK, CallsOK, control, history
  <2>3. HistoryOK'
    BY <1>1 DEF IInv, TypeOK, HistoryOK, history
  <2>4. QED
    BY <2>1, <2>2, <2>3 DEF TypeOK
<1>3. ModePart'
  BY <1>1 DEF IInv, TypeOK, HistoryOK, ModePart, OneContract, RealtimeAtUnity,
     ModeFits, InRealtime, control, history
<1>4. SyncPart'
  BY <1>1 DEF IInv, SyncPart, InSync, SyncSoFar, CalmQuiet, Calm, Quiet,
     ModeFits, InRealtime, control, history
<1>5. BlockPart'
  BY <1>1 DEF IInv, BlockPart, FixedOutput, StartupSilence, WrittenSoFar,
     InRealtime, control, history
<1>6. ListsFit'
  BY <1>1 DEF IInv, ListsFit, ValidAll, InRealtime, ModeFits, control
<1>7. QED
  BY <1>2, <1>3, <1>4, <1>5, <1>6 DEF IInv, ModePart, SyncPart, BlockPart

(* Nothing changes. *)
LEMMA StutterStep == ASSUME IInv, UNCHANGED vars PROVE IInv'
<1>1. UNCHANGED <<contract, request, mode, engine, latency_remaining, apc, kind,
                  status, events, cursor, written, control, history>>
  BY DEF vars, audio
<1>2. TypeOK'
  <2>1. RatiosOK'
    BY <1>1 DEF IInv, TypeOK, RatiosOK, control, history
  <2>2. CallsOK'
    <3>1. UNCHANGED <<contract, mode, latency_remaining, audio, fed>>
      BY DEF vars, history
    <3>2. /\ cpc' \in {"idle", "store", "store time", "undo"}
          /\ todo' \in Seq(Event)
          /\ outcome' \in {"ok", "unsupported", "invalid"}
      BY <1>1 DEF control, IInv, TypeOK, CallsOK
    <3>3. QED
      BY <3>1, <3>2, CallsFrame
  <2>3. HistoryOK'
    BY <1>1 DEF IInv, TypeOK, HistoryOK, history
  <2>4. QED
    BY <2>1, <2>2, <2>3 DEF TypeOK
<1>3. ModePart'
  BY <1>1 DEF IInv, TypeOK, HistoryOK, ModePart, OneContract, RealtimeAtUnity,
     ModeFits, InRealtime, control, history
<1>4. SyncPart'
  BY <1>1 DEF IInv, SyncPart, InSync, SyncSoFar, CalmQuiet, Calm, Quiet,
     ModeFits, InRealtime, control, history
<1>5. BlockPart'
  BY <1>1 DEF IInv, BlockPart, FixedOutput, StartupSilence, WrittenSoFar,
     InRealtime, control, history
<1>6. ListsFit'
  BY <1>1 DEF IInv, ListsFit, ValidAll, InRealtime, ModeFits, control
<1>7. QED
  BY <1>2, <1>3, <1>4, <1>5, <1>6 DEF IInv, ModePart, SyncPart, BlockPart

(* Every step keeps the invariant. *)
LEMMA NextIInv == IInv /\ [Next]_vars => IInv'
<1> SUFFICES ASSUME IInv, [Next]_vars PROVE IInv'
  OBVIOUS
<1>1. CASE ControlStep
  BY <1>1, CommandStep, StoreStep, FinishStep, CommitStep DEF ControlStep
<1>2. CASE AudioStep
  BY <1>2, SyncTimeStep, SyncPitchStep, RunStep, CheckRatioStep, EnterStep,
     FindRatioStep, HealRatioStep, FlushStoreStep, FlushEndStep, ApplyStep,
     ChunkStep, RefusedStep, RealtimeEndStep DEF AudioStep
<1>3. CASE AudioCall
  BY <1>3, StreamCallStep, ResetStep, RealtimeCallStep, FlushCallStep
     DEF AudioCall
<1>4. CASE UNCHANGED vars
  BY <1>4, StutterStep
<1>5. QED
  BY <1>1, <1>2, <1>3, <1>4 DEF Next

(* The strengthened invariant holds of every behaviour. *)
THEOREM Invariance == Spec => []IInv
<1>1. Init => IInv
  BY InitIInv
<1>2. IInv /\ [Next]_vars => IInv'
  BY NextIInv
<1>3. QED
  BY <1>1, <1>2, PTL DEF Spec

-----------------------------------------------------------------------------
(* Every variable of the handle keeps its type. *)
THEOREM TypeCorrect == Spec => []TypeOK
<1>1. IInv => TypeOK
  BY DEF IInv
<1>2. QED
  BY <1>1, Invariance, PTL

(* A handle never processes under two I/O contracts between two resets.    *)
THEOREM ContractKept == Spec => []OneContract
<1>1. IInv => OneContract
  BY DEF IInv
<1>2. QED
  BY <1>1, Invariance, PTL

(* Fixed I/O runs at time ratio one, whatever a control thread stores.     *)
THEOREM UnityKept == Spec => []RealtimeAtUnity
<1>1. IInv => RealtimeAtUnity
  BY DEF IInv
<1>2. QED
  BY <1>1, Invariance, PTL

(* A call that runs alone processes with the ratios the getters report.    *)
THEOREM SyncKept == Spec => []InSync
<1>1. IInv => InSync
  BY DEF IInv
<1>2. QED
  BY <1>1, Invariance, PTL

(* A block whose call reports success is written to its last frame.        *)
THEOREM OutputKept == Spec => []FixedOutput
<1>1. IInv => FixedOutput
  BY DEF IInv
<1>2. QED
  BY <1>1, Invariance, PTL

(* The startup silence is as long as the declared latency, over any        *)
(* division of the stream into blocks and of a block into chunks.          *)
THEOREM SilenceKept == Spec => []StartupSilence
<1>1. IInv => StartupSilence
  BY DEF IInv
<1>2. QED
  BY <1>1, Invariance, PTL

=============================================================================
