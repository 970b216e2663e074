---------------------------- MODULE MCComponents ----------------------------
(***************************************************************************)
(* The smaller parts of the system, each on its own: a behaviour belongs   *)
(* to one part, and the variables of the others stay as they were.         *)
(***************************************************************************)
EXTENDS Gestures, Peaks, HostEvents, Transport, Config, ResearchPv, Editor

VARIABLES
  part,                       (* the part this behaviour is about          *)
  data, inverse, step, position, length, base, column, budget, spent, original,
                              (* Fft                                       *)
  m, past,                    (* Medians                                   *)
  engine, steps               (* FrameSteps                                *)

fftVars == <<data, inverse, step, position, length, base, column, budget, spent,
             original>>
frameVars == <<m, past, engine, steps>>
vars == <<part, gestureVars, peaksVars, eventVars, transportVars, configVars,
          researchVars, fftVars, frameVars, editorVars>>

(* Event lists: up to four events of two automatable parameters, a         *)
(* structural and a foreign one, in and out of the block and its order.    *)
P(time, index, value) ==
  [kind |-> "param", time |-> time, index |-> index, value |-> value,
   valid |-> TRUE]

Ordinary == {P(t, i, v) : t \in 0..2, i \in {"wet", "dry"}, v \in {0, 1}}
Odd == {P(0, "backend", 1), P(1, "foreign", 1),
        [P(1, "wet", 9) EXCEPT !.valid = FALSE],
        [P(1, "dry", 0) EXCEPT !.kind = "note"],
        [P(0, "wet", 0) EXCEPT !.kind = "short"]}

MCLists ==
  {<<>>} \cup [1..2 -> Ordinary \cup Odd]
    \cup [1..3 -> {e \in Ordinary : e.time < 2}]
    \cup [1..4 -> {e \in Ordinary : e.time < 2 /\ e.index = "wet"}
                    \cup {P(1, "dry", 1)}]

(* The instance is one that the theorem about the lists speaks of. *)
ASSUME TypesOfEvents == EventTypes

-----------------------------------------------------------------------------
(* Transport: a window of eight and a kernel of four taps, played at the   *)
(* source's rate, six times as fast and without a source.                  *)
E(offset, parameter, value, ramp) ==
  [offset |-> offset, parameter |-> parameter, value |-> value, ramp |-> ramp]
Played(mode, rate, frames) ==
  [source_rate |-> 48000, output_rate |-> rate, channels |-> 1,
   mode |-> mode, formant |-> 0, frames |-> frames]

MCPlayed ==
  {Played("locked", 48000, 5), Played("wsola", 8000, 13),
   Played("wsola", 48000, 0)}
MCEvents ==
  {<<>>, <<E(0, "pitch", -2, 0)>>, <<E(3, "pitch", 2, 2)>>,
   <<E(1, "speed", 0, 2), E(2, "pitch", 0, 0)>>, <<E(3, "speed", 16, 2)>>}

MCBase == [mode \in {"locked", "wsola"} |-> 8]

(* The instance is one that the theorems about the transport speak of. *)
ASSUME SizesOfTransport == TransportSizes

-----------------------------------------------------------------------------
(* Config: shapes of audio at and around every limit with a plain backend, *)
(* two plain shapes with every backend.  A window of 2^21 wraps the sum.   *)
A(rate, channels, block, window, search, fifo) ==
  [rate |-> rate, channels |-> channels, block |-> block, window |-> window,
   search |-> search, fifo |-> fifo]
MCAudio ==
  {A(rate, channels, block, 1024, 128, 262144) :
     rate \in {8000, 44100, 48000, 96000, 192000}, channels \in {1, 3},
     block \in {512, 2048}}
  \cup {A(48000, 2, 64, window, search, fifo) :
          window \in {128, 256, 1024, 2097152}, search \in {0, 63, 64, 127},
          fifo \in {1151, 1152, 2175, 2176, 262144}}

Flags ==
  {{}, {"experimental"}, {"experimental", "continuous_pitch"},
   {"experimental", "continuous_pitch", "continuous_time"},
   {"experimental", "low_detail"}}
MCBackends ==
  [backend_id : {"wsola", "phase_vocoder"},
   quality : {"general", "transient", "efficient"},
   policy : {"off", "monophonic"}, io : {"auto", "streaming", "realtime"},
   flags : Flags, time : {1, 4, 8}, pitch : {2, 4, 8}, formant : {2, 4}]
Plain(b) ==
  /\ b.policy = "off" /\ b.flags \subseteq {"experimental"} /\ b.io # "auto"
  /\ b.time = 4 /\ b.pitch = 4 /\ b.formant = 4
MCAsked ==
  ({A(48000, 2, 512, 1024, 128, 262144), A(44100, 1, 1024, 1024, 128, 262144)}
     \X MCBackends)
  \cup (MCAudio \X {b \in MCBackends : Plain(b)})

MCValues == [id \in {"time", "pitch", "formant", "semitones"} |->
               IF id = "semitones" THEN -2..1 ELSE {1, 2, 4, 8, 16}]

(* The instance is one that the theorems about configurations speak of. *)
ASSUME TypesOfConfig == ConfigTypes

-----------------------------------------------------------------------------
(* ResearchPv: ratios of a quarter, one and four; a FIFO that overflows.   *)
(* The instance is one that the theorem about this engine speaks of.       *)
ASSUME SizesOfResearch == ResearchSizes

(* Fft: sixteen numbers, four single ones and a mixture; budgets that cut  *)
(* blocks of two, four and more.                                           *)
Single(k) == [i \in 0..15 |-> IF i = k THEN 1 ELSE 0]
F == INSTANCE Fft WITH
       Bits <- 4, Prime <- 17, Root <- 3, Batch <- 4, Budgets <- {1, 2, 3, 5, 9},
       Inputs <- {Single(k) : k \in {0, 1, 3, 6}}
                   \cup {[i \in 0..15 |-> (i * i + 3 * i + 1) % 17]}

(* Medians: frames with edges, plateaus, repeated values and silence.      *)
M == INSTANCE Medians WITH
       Bands <- 5, Radius <- 2, History <- 3,
       Frames <- {<<0, 0, 0, 0, 0>>, <<1, 2, 1, 0, 2>>, <<2, 2, 1, 1, 1>>,
                  <<3, 0, 1, 2, 0>>, <<0, 1, 2, 3, 3>>, <<1, 1, 0, 0, 3>>}

(* FrameSteps: the smallest, usual and largest engines.                    *)
FS == INSTANCE FrameSteps WITH
        Engines <- [n : {16, 512, 2048, 16384}, channels : {1, 2, 8},
                    formant : 0..2, mode : 0..4, timeline : BOOLEAN,
                    first : BOOLEAN, hop : {1, 8}]

(* Editor: shifts of three semitones, of two in the spectral backend.      *)
MCLimits == [b \in {0, 1} |-> 3 - b]

(* The audio thread stores before one of the four looks of a click: what   *)
(* leaves the fine tune no room in the spectral backend, or formants.      *)
MCMeanwhile ==
  {<<>>} \cup
  {[i \in 1..n |-> IF i = n THEN f ELSE <<>>] :
     n \in 1..4, f \in {[Pitch |-> 3, Policy |-> 0],
                       [Backend |-> 1, Policy |-> 1, Formant |-> 1]}}

(* The instance is one that the theorems about the editor speak of. *)
ASSUME LimitsOfEditor == EditorLimits

-----------------------------------------------------------------------------
(* Parts that are not under way: one state each, of those that a theorem   *)
(* speaks of an initial one.                                               *)
Nothing == "nothing"

EventsIdle == list = <<>> /\ clap = Refused /\ vst3 = Refused
TransportIdle == TransportInit /\ cfg = Played("locked", 48000, 5)
ConfigIdle ==
  /\ audio = A(48000, 2, 64, 128, 127, 1151) /\ handle = None
  /\ backend = [default_backend_config EXCEPT !.io = "streaming"]
ResearchIdle == ResearchInit /\ s.ratio = 4
FftIdle ==
  /\ data = Nothing /\ inverse = Nothing /\ step = Nothing /\ position = Nothing
  /\ length = Nothing /\ base = Nothing /\ column = Nothing /\ budget = Nothing
  /\ spent = Nothing /\ original = Nothing
MediansIdle == m = Nothing /\ past = Nothing
StepsIdle == engine = Nothing /\ steps = Nothing
EditorIdle == EditorInit /\ adapter = "clap"

Modelled == {"gestures", "peaks", "events", "transport", "config", "research",
          "fft", "medians", "steps", "editor"}

Init ==
  /\ part \in Modelled
  /\ GestureInit /\ PeaksInit
  /\ IF part = "events" THEN EventsInit ELSE EventsIdle
  /\ IF part = "transport" THEN TransportInit ELSE TransportIdle
  /\ IF part = "config" THEN ConfigInit ELSE ConfigIdle
  /\ IF part = "research" THEN ResearchInit ELSE ResearchIdle
  /\ IF part = "fft" THEN F!FftInit ELSE FftIdle
  /\ IF part = "medians" THEN M!MediansInit ELSE MediansIdle
  /\ IF part = "steps" THEN FS!StepsInit ELSE StepsIdle
  /\ IF part = "editor" THEN EditorInit ELSE EditorIdle

Next ==
  \/ /\ part = "gestures" /\ GestureNext
     /\ UNCHANGED <<part, peaksVars, eventVars, transportVars, configVars, researchVars,
                    fftVars, frameVars, editorVars>>
  \/ /\ part = "peaks" /\ PeaksNext
     /\ UNCHANGED <<part, gestureVars, eventVars, transportVars, configVars, researchVars,
                    fftVars, frameVars, editorVars>>
  \/ /\ part = "events" /\ EventsNext
     /\ UNCHANGED <<part, gestureVars, peaksVars, transportVars, configVars, researchVars,
                    fftVars, frameVars, editorVars>>
  \/ /\ part = "transport" /\ TransportNext
     /\ UNCHANGED <<part, gestureVars, peaksVars, eventVars, configVars, researchVars,
                    fftVars, frameVars, editorVars>>
  \/ /\ part = "config" /\ ConfigNext
     /\ UNCHANGED <<part, gestureVars, peaksVars, eventVars, transportVars, researchVars,
                    fftVars, frameVars, editorVars>>
  \/ /\ part = "research" /\ ResearchNext
     /\ UNCHANGED <<part, gestureVars, peaksVars, eventVars, transportVars, configVars,
                    fftVars, frameVars, editorVars>>
  \/ /\ part = "fft" /\ F!FftNext
     /\ UNCHANGED <<part, gestureVars, peaksVars, eventVars, transportVars, configVars,
                    researchVars, frameVars, editorVars>>
  \/ /\ part = "medians" /\ M!MediansNext
     /\ UNCHANGED <<part, gestureVars, peaksVars, eventVars, transportVars, configVars,
                    researchVars, fftVars, engine, steps, editorVars>>
  \/ /\ part = "editor" /\ EditorNext
     /\ UNCHANGED <<part, gestureVars, peaksVars, eventVars, transportVars, configVars,
                    researchVars, fftVars, frameVars>>

Spec == Init /\ [][Next]_vars

(* The work on a frame may be cut anywhere: the slices compute what the    *)
(* whole does, the rolling medians are the medians, and there are as many  *)
(* steps as are allowed for (pv_execution.inc, fft.cpp, fuzzy_phase.hpp).  *)
WorkSliced ==
  /\ part = "fft" => F!FftExact
  /\ part = "medians" => M!MediansExact
  /\ part = "steps" => FS!FrameInTime
=============================================================================
