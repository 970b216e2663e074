-------------------------------- MODULE Config --------------------------------
(***************************************************************************)
(* Which configurations make a handle, and which settings a made handle    *)
(* takes.  The same question is answered in several places of the code:    *)
(* boiledegg_create, boiledegg_create_ex and boiledegg_create_backend      *)
(* check, the engines check again when they are constructed, setters check *)
(* what the engine will be told only later, its answer being ignored.      *)
(* Ratios are in quarters, pitches in semitones come in octaves.           *)
(***************************************************************************)
EXTENDS Integers, FiniteSetsExt

CONSTANTS
  Word,        (* the width of the 32-bit sum in valid_config: 2^32        *)
  AskedConfigs, (* pairs of a boiledegg_config and a backend configuration  *)
  Values       (* what the setters are given                               *)

VARIABLES
  audio, backend,      (* the configuration asked for                      *)
  handle               (* requested ratios of the handle, or None          *)

configVars == <<audio, backend, handle>>

(* What may be asked of the program: any numbers, however far out of the   *)
(* limits, the values of the enumerations, and any set of flags.           *)
Kinds ==
  [backend_id : {"wsola", "phase_vocoder"},
   quality : {"general", "transient", "efficient", "monophonic"},
   policy : {"off", "harmonic", "monophonic"},
   io : {"auto", "streaming", "realtime"},
   flags : SUBSET {"experimental", "continuous_pitch", "continuous_time",
                   "low_detail"},
   time : Nat, pitch : Nat, formant : Nat]
Shapes == [rate : Nat, channels : Nat, block : Nat, window : Nat, search : Nat,
           fifo : Nat]
ConfigTypes == Word \in Nat /\ AskedConfigs \subseteq Shapes \X Kinds

None == [made |-> FALSE]
Pv(s) == s.backend_id = "phase_vocoder"
Between(x, lo, hi) == lo <= x /\ x <= hi

-----------------------------------------------------------------------------
(* The audio side: valid_config (32 bits) and valid_audio (64 bits).       *)
InLimits(a) ==
  /\ Between(a.rate, 8000, 384000)
  /\ Between(a.channels, 1, 32)
  /\ Between(a.block, 1, 65536)
  /\ a.window >= 128 /\ a.window % 2 = 0
  /\ a.search < a.window \div 2

valid_config(a) ==
  InLimits(a) /\ a.fifo >= (a.window * 8 + a.block * 2) % Word

default_config(rate, channels) ==
  LET window == IF rate >= 88200 THEN 1536 ELSE 1024
  IN [rate |-> rate, channels |-> channels, block |-> 2048, window |-> window,
      search |-> window \div 8, fifo |-> 262144]

valid_audio(a) ==
  InLimits(a) /\ a.fifo >= a.window * 8 + a.block * 2

(* The WSOLA profiles change window and search of what was asked.          *)
Even(x) == 2 * (x \div 2)
wsola_profile(a, quality) ==
  LET window == Even(Max({256, (a.window * 3) \div 4}))
  IN CASE quality = "transient" ->
            [a EXCEPT !.window = window,
                      !.search = Min({a.search, Max({16, window \div 8})})]
       [] quality = "efficient" ->
            [a EXCEPT !.search = Max({8, a.search \div 2})]
       [] OTHER -> a

-----------------------------------------------------------------------------
(* The build with the spectral backend.                                    *)
query_backend(id) ==
  IF id = "wsola"
  THEN [status |-> "stable", qualities |-> {"general", "transient", "efficient"},
        policies |-> {"off"}, rates |-> {8000, 384000}, channels |-> 32,
        block |-> 65536, lowest |-> 1, highest |-> 16]
  ELSE [status |-> "experimental", qualities |-> {"general", "transient"},
        policies |-> {"off", "harmonic", "monophonic"},
        rates |-> {44100, 96000}, channels |-> 2,
        block |-> 1024, lowest |-> 2, highest |-> 8]

Malformed(a, s) ==
  \/ ~valid_audio(a)
  \/ ~Between(s.time, 1, 16) \/ ~Between(s.pitch, 1, 16) \/ ~Between(s.formant, 2, 8)

Unsupported(s) ==
  LET info == query_backend(s.backend_id)
  IN \/ info.status = "experimental" /\ "experimental" \notin s.flags
     \/ s.quality \notin info.qualities \/ s.policy \notin info.policies
     \/ s.policy = "off" /\ s.formant # 4
     \/ s.io = "realtime" /\ s.time # 4

LowDetailRefused(a, s) ==
  /\ "low_detail" \in s.flags
  /\ \/ ~Pv(s) \/ s.quality # "general" \/ s.policy # "monophonic"
     \/ a.rate \notin {48000, 96000} \/ s.time # 4
     \/ {"continuous_pitch", "continuous_time"} \cap s.flags # {}

TimeRefused(s) ==
  /\ "continuous_time" \in s.flags
  /\ ~Pv(s) \/ s.io # "streaming" \/ "continuous_pitch" \notin s.flags

PvRefused(a, s) ==
  \/ a.rate \notin {44100, 48000, 88200, 96000}
  \/ a.channels > 2 \/ a.block > 1024 \/ s.io = "auto"
  \/ ~Between(s.time, 2, 8) \/ ~Between(s.pitch, 2, 8)
  \/ s.time * s.pitch > 32

BackendRefused(a, s) ==
  IF Pv(s) THEN PvRefused(a, s) ELSE "continuous_pitch" \in s.flags

(* Mutant: the profile is taken to fit because the window asked for does.  *)
ProfileAssumed(a, s) == TRUE

ProfileFits(a, s) == Pv(s) \/ valid_audio(wsola_profile(a, s.quality))

validate_backend_config(a, s) ==
  IF Malformed(a, s) THEN "invalid"
  ELSE IF \/ Unsupported(s) \/ LowDetailRefused(a, s) \/ TimeRefused(s)
          \/ BackendRefused(a, s)
  THEN "unsupported"
  ELSE IF ProfileFits(a, s) THEN "ok" ELSE "invalid"

default_backend_config ==
  [backend_id |-> "wsola", quality |-> "general", policy |-> "off",
   io |-> "auto", flags |-> {}, time |-> 4, pitch |-> 4, formant |-> 4]

(* boiledegg_create_ex: the profile's shape and support come first.        *)
create_ex(a, quality) ==
  IF quality = "monophonic" THEN "unsupported"
  ELSE validate_backend_config(a, [default_backend_config EXCEPT !.quality = quality])

-----------------------------------------------------------------------------
(* What the constructors check.  Spectral: the engine's configuration is   *)
(* made from the public one, checked, scaled with the rate, and checked    *)
(* once more.                                                              *)
PvConfig(a, s) ==
  [rate |-> a.rate, channels |-> a.channels, block |-> a.block,
   fft |-> IF s.quality = "general" THEN 2048 ELSE 1024, hop |-> 256,
   order |-> IF "low_detail" \in s.flags THEN 80 ELSE 40,
   time |-> s.time, pitch |-> s.pitch]

Scale(rate) == IF rate <= 48000 THEN 1 ELSE IF rate <= 96000 THEN 2
               ELSE IF rate <= 192000 THEN 4 ELSE 8

Scaled(p) ==
  [p EXCEPT !.fft = @ * Scale(p.rate), !.hop = @ * Scale(p.rate),
            !.order = @ * Scale(p.rate)]

PvValid(p) ==
  /\ Between(p.rate, 8000, 384000) /\ Between(p.channels, 1, 8)
  /\ Between(p.block, 1, 16384)
  /\ p.fft \in {2^k : k \in 6..14}
  /\ Between(p.hop, 1, p.fft \div 2)
  /\ Between(p.time, 1, 16) /\ Between(p.pitch, 1, 16)
  /\ p.order >= 4 /\ p.order < p.fft \div 2

FeaturesValid(s) == Between(s.formant, 2, 8) /\ (s.policy = "off" => s.formant = 4)

ExecutionValid(s) ==
  s.io = "realtime" => s.time = 4 /\ Between(s.pitch, 2, 8)

EnablesTime(s) ==
  "continuous_time" \in s.flags =>
    "continuous_pitch" \in s.flags /\ s.io # "realtime"

SpectralConstructs(a, s) ==
  /\ FeaturesValid(s) /\ ExecutionValid(s)
  /\ PvValid(PvConfig(a, s)) /\ PvValid(Scaled(PvConfig(a, s)))
  /\ EnablesTime(s)

-----------------------------------------------------------------------------
(* The settings.  validate_parameter_value of boiled_egg.cpp.              *)
Ratio(id, value) == IF id = "semitones" THEN 2^(value + 2) ELSE value
Timing(id) == id \in {"time", "pitch", "semitones"}

(* Mutant: a pitch is judged without the time it will run with.            *)
PvTakesAnyPitch(s, id, ratio) ==
  IF id # "time" /\ "continuous_pitch" \in s.flags
  THEN Between(ratio, 2, 8)
  ELSE ratio = IF id = "time" THEN s.time ELSE s.pitch

PvTakes(s, id, ratio) ==
  IF id # "time" /\ "continuous_pitch" \in s.flags
  THEN Between(ratio, 2, 8) /\ s.time * ratio <= 32
  ELSE ratio = IF id = "time" THEN s.time ELSE s.pitch

validate_parameter_value(s, id, value, fixed) ==
  LET ratio == Ratio(id, value)
  IN /\ Timing(id) => "continuous_time" \notin s.flags
     /\ Timing(id) => Between(ratio, 1, 16)
     /\ Timing(id) /\ Pv(s) => PvTakes(s, id, ratio)
     /\ id = "time" /\ fixed => ratio = 4
     /\ id = "formant" => Between(ratio, 2, 8)
     /\ id = "formant" /\ (~Pv(s) \/ s.policy = "off") => ratio = 4

(* The engine's own answers, SpectralBackend's on top.                     *)
PvPitchReaches(s, v) ==
  IF "continuous_pitch" \in s.flags THEN Between(v, 2, 8) /\ s.time * v <= 32
  ELSE v = s.pitch
PvFormantReaches(s, v) == Between(v, 2, 8) /\ (s.policy = "off" => v = 4)

FixedNow(s) == s.io = "realtime"
Target(id) == IF id = "semitones" THEN "pitch" ELSE id

(* What the engine behind the handle answers when a value reaches it.      *)
TimeReaches(s, v) == IF Pv(s) THEN v = s.time ELSE Between(v, 1, 16)
PitchReaches(s, v) ==
  IF ~Pv(s) THEN Between(v, 1, 16) ELSE PvPitchReaches(s, v)
FormantReaches(s, v) ==
  IF ~Pv(s) THEN v = 4 ELSE PvFormantReaches(s, v)

(* boiledegg_set_backend_parameter_state on a handle not yet processing:   *)
(* all three settings are judged before the first is stored.               *)
Restores(s, state) ==
  \A id \in {"time", "pitch", "formant"} :
    validate_parameter_value(s, id, state[id], FixedNow(s))

-----------------------------------------------------------------------------
ConfigInit ==
  /\ \E ask \in AskedConfigs : audio = ask[1] /\ backend = ask[2]
  /\ handle = None

CreateHandle ==
  /\ handle = None
  /\ validate_backend_config(audio, backend) = "ok"
  /\ Pv(backend) => SpectralConstructs(audio, backend)
  /\ handle' = [made |-> TRUE, time |-> backend.time, pitch |-> backend.pitch,
                formant |-> backend.formant]
  /\ UNCHANGED <<audio, backend>>

Set ==
  /\ handle # None
  /\ \E id \in {"time", "pitch", "semitones"} :
       \E value \in Values[id] :
         /\ validate_parameter_value(backend, id, value, FixedNow(backend))
         /\ handle' = [handle EXCEPT ![Target(id)] = Ratio(id, value)]
  /\ UNCHANGED <<audio, backend>>

SetFormant ==
  /\ handle # None
  /\ \E value \in Values["formant"] :
       /\ validate_parameter_value(backend, "formant", value, FALSE)
       /\ handle' = [handle EXCEPT !.formant = value]
  /\ UNCHANGED <<audio, backend>>

ConfigNext == CreateHandle \/ Set \/ SetFormant
ConfigSpec == ConfigInit /\ [][ConfigNext]_configVars

-----------------------------------------------------------------------------
(* What boiledegg_validate_backend_config accepts makes a handle, and one  *)
(* its engine can run: the spectral constructors find no fault, and a      *)
(* WSOLA profile leaves the engine room for its windows and its search.    *)
AcceptedConstructs ==
  validate_backend_config(audio, backend) = "ok" =>
    IF Pv(backend) THEN SpectralConstructs(audio, backend)
    ELSE LET a == wsola_profile(audio, backend.quality)
         IN /\ a.window % 2 = 0 /\ a.search < a.window \div 2
            /\ a.fifo >= 8 * a.window + 2 * a.block

(* What is accepted lies in what boiledegg_query_backend advertises.       *)
AcceptedAdvertised ==
  LET info == query_backend(backend.backend_id)
  IN validate_backend_config(audio, backend) = "ok" =>
       /\ Between(audio.rate, Min(info.rates), Max(info.rates))
       /\ audio.channels <= info.channels /\ audio.block <= info.block
       /\ \A ratio \in {backend.time, backend.pitch} :
            Between(ratio, info.lowest, info.highest)

(* boiledegg_create is create_ex with the default profile (boiled_egg.h),  *)
(* as long as the 32-bit sum of valid_config does not wrap.                *)
CreatesAgree ==
  audio.window * 8 + audio.block * 2 < Word =>
    (valid_config(audio) <=> create_ex(audio, "general") = "ok")

(* boiledegg_default_config makes a handle at every rate and channel count *)
(* that is taken at all, whatever the WSOLA profile.                       *)
DefaultsAccepted ==
  \A quality \in query_backend("wsola").qualities :
    InLimits(audio) =>
      create_ex(default_config(audio.rate, audio.channels), quality) = "ok"

(* A setting the handle took, and reports, is one its engine will take     *)
(* when the next call hands it over and ignores the answer.                *)
SettingsReach ==
  handle # None =>
    /\ TimeReaches(backend, handle.time)
    /\ PitchReaches(backend, handle.pitch)
    /\ FormantReaches(backend, handle.formant)

(* A state that was saved can be restored into a handle of the same        *)
(* configuration, whatever had been set; but for handles of continuous     *)
(* time, whose time and pitch belong to the ramps.                         *)
StateRestores ==
  handle # None /\ "continuous_time" \notin backend.flags =>
    Restores(backend, handle)

ConfigSound == AcceptedConstructs /\ AcceptedAdvertised /\ CreatesAgree /\ DefaultsAccepted
SettingsHold == SettingsReach /\ StateRestores
=============================================================================
