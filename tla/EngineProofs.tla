---------------------------- MODULE EngineProofs ----------------------------
(***************************************************************************)
(* Theorems about engines: what validation accepts can be built and set,   *)
(* for every configuration that can be asked for and every value a setter  *)
(* is given; and the WSOLA engine's rings, progress and latency, for every *)
(* size and ratio.                                                         *)
(***************************************************************************)
EXTENDS WsolaEngine, Config, TLAPS

Valid == validate_backend_config(audio, backend) = "ok"

(* A handle with such settings.                                            *)
Made(m, t, p, f) == [made |-> m, time |-> t, pitch |-> p, formant |-> f]

(* Settings that the engine will take, and would be taken again.           *)
Settings(t, p, f) ==
  /\ TimeReaches(backend, t) /\ PitchReaches(backend, p) /\ FormantReaches(backend, f)
  /\ Between(t, 1, 16) /\ Between(p, 1, 16) /\ Between(f, 2, 8)
  /\ FixedNow(backend) => t = 4

(* A handle was made from a configuration that is valid, and what it holds *)
(* would be taken again: for time and pitch also where ramps own them.     *)
HandleFits ==
  handle # None =>
    /\ Valid
    /\ \E m, t, p, f : handle = Made(m, t, p, f) /\ Settings(t, p, f)

ConfigInv == audio \in Shapes /\ backend \in Kinds /\ HandleFits

-----------------------------------------------------------------------------
(* Of two numbers. *)
LEMMA OfTwoInt ==
  ASSUME NEW a \in Int, NEW b \in Int
  PROVE  Max({a, b}) \in Int /\ Min({a, b}) \in Int
  BY DEF Max, Min

LEMMA OfTwo ==
  ASSUME NEW a \in Int, NEW b \in Int
  PROVE  /\ Max({a, b}) \in {a, b} /\ Max({a, b}) >= a /\ Max({a, b}) >= b
         /\ Min({a, b}) \in {a, b} /\ Min({a, b}) <= a /\ Min({a, b}) <= b
  BY DEF Max, Min

(* What the first check of validate_backend_config has excluded.           *)
LEMMA ValidFirst ==
  ASSUME Valid
  PROVE  /\ ~Malformed(audio, backend) /\ ~Unsupported(backend)
         /\ ~LowDetailRefused(audio, backend) /\ ~TimeRefused(backend)
         /\ ~BackendRefused(audio, backend) /\ ProfileFits(audio, backend)
  BY DEF Valid, validate_backend_config

(* What is valid lies in the limits of the interface.                      *)
LEMMA ValidShape ==
  ASSUME Valid
  PROVE  /\ valid_audio(audio) /\ InLimits(audio)
         /\ Between(backend.time, 1, 16) /\ Between(backend.pitch, 1, 16)
         /\ Between(backend.formant, 2, 8)
         /\ backend.policy = "off" => backend.formant = 4
         /\ backend.io = "realtime" => backend.time = 4
  BY ValidFirst DEF Malformed, Unsupported, valid_audio

(* What is valid for the spectral backend lies in its limits.              *)
LEMMA ValidSpectral ==
  ASSUME Valid, Pv(backend)
  PROVE  ~PvRefused(audio, backend)
  BY ValidFirst DEF BackendRefused

-----------------------------------------------------------------------------
(* The spectral engine's own checks, before and after it is scaled with    *)
(* the rate, find nothing more.                                            *)
LEMMA EngineValid ==
  ASSUME audio \in Shapes, backend \in Kinds, Valid, Pv(backend)
  PROVE  PvValid(PvConfig(audio, backend)) /\ PvValid(Scaled(PvConfig(audio, backend)))
<1> DEFINE p == PvConfig(audio, backend)
<1>1. /\ audio.rate \in {44100, 48000, 88200, 96000}
      /\ audio.channels \in Nat /\ audio.channels <= 2
      /\ audio.block \in Nat /\ audio.block <= 1024
  BY ValidSpectral DEF PvRefused, Shapes
<1>2. audio.channels >= 1 /\ audio.block >= 1
      /\ Between(backend.time, 1, 16) /\ Between(backend.pitch, 1, 16)
  BY ValidShape DEF InLimits, Between
<1>3. /\ p.rate = audio.rate /\ p.channels = audio.channels /\ p.block = audio.block
      /\ p.fft \in {1024, 2048} /\ p.hop = 256 /\ p.order \in {40, 80}
      /\ p.time = backend.time /\ p.pitch = backend.pitch
  BY DEF PvConfig
<1>4. Scale(p.rate) \in {1, 2}
  BY <1>1, <1>3 DEF Scale
<1>5. /\ Scaled(p).rate = audio.rate /\ Scaled(p).channels = audio.channels
      /\ Scaled(p).block = audio.block
      /\ Scaled(p).fft = p.fft * Scale(p.rate)
      /\ Scaled(p).hop = p.hop * Scale(p.rate)
      /\ Scaled(p).order = p.order * Scale(p.rate)
      /\ Scaled(p).time = backend.time /\ Scaled(p).pitch = backend.pitch
  BY <1>3 DEF Scaled, PvConfig
<1>6. {1024, 2048, 4096} \subseteq {2^k : k \in 6..14}
  BY 2^10 = 1024, 2^11 = 2048, 2^12 = 4096
<1>7. PvValid(p)
  BY <1>1, <1>2, <1>3, <1>6 DEF PvValid, Between
<1>8. /\ Scaled(p).fft \in {1024, 2048, 4096} /\ Scaled(p).hop \in {256, 512}
      /\ Scaled(p).order \in {40, 80, 160}
      /\ Scaled(p).hop <= Scaled(p).fft \div 2
      /\ Scaled(p).order < Scaled(p).fft \div 2
  BY <1>3, <1>4, <1>5
<1>9. PvValid(Scaled(p))
  BY <1>1, <1>2, <1>5, <1>6, <1>8 DEF PvValid, Between
<1> QED BY <1>7, <1>9

(* So do the checks of the features and of the way of working.             *)
LEMMA ExtrasValid ==
  ASSUME backend \in Kinds, Valid, Pv(backend)
  PROVE  FeaturesValid(backend) /\ ExecutionValid(backend) /\ EnablesTime(backend)
<1>1. FeaturesValid(backend)
  BY ValidShape DEF FeaturesValid
<1>2. ExecutionValid(backend)
  BY ValidShape, ValidSpectral DEF ExecutionValid, PvRefused
<1>3. EnablesTime(backend)
  BY ValidFirst DEF EnablesTime, TimeRefused
<1> QED BY <1>1, <1>2, <1>3

(* The window and the two searches that the profiles make of what is asked. *)
Shorter(a) == Even(Max({256, (a.window * 3) \div 4}))
Closer(a) == Min({a.search, Max({16, Shorter(a) \div 8})})
Halved(a) == Max({8, a.search \div 2})

(* A profile changes window and search alone.                              *)
SameRest(p, a) ==
  p.rate = a.rate /\ p.channels = a.channels /\ p.block = a.block /\ p.fifo = a.fifo

(* The transient profile takes a shorter window.                         *)
LEMMA Transient ==
  ASSUME NEW a \in Shapes
  PROVE  /\ SameRest(wsola_profile(a, "transient"), a)
         /\ wsola_profile(a, "transient").window = Shorter(a)
         /\ wsola_profile(a, "transient").search = Closer(a)
<1>1. wsola_profile(a, "transient")
        = [a EXCEPT !.window = Shorter(a), !.search = Closer(a)]
  BY Zenon DEF wsola_profile, Shorter, Closer
<1> QED BY <1>1 DEF Shapes, SameRest

(* The efficient profile searches half as far.                            *)
LEMMA Efficient ==
  ASSUME NEW a \in Shapes
  PROVE  /\ SameRest(wsola_profile(a, "efficient"), a)
         /\ wsola_profile(a, "efficient").window = a.window
         /\ wsola_profile(a, "efficient").search = Halved(a)
<1>1. wsola_profile(a, "efficient") = [a EXCEPT !.search = Halved(a)]
  BY Zenon DEF wsola_profile, Halved
<1> QED BY <1>1 DEF Shapes, SameRest

(* The general profile changes nothing.                                  *)
LEMMA Unprofiled ==
  ASSUME NEW a, NEW quality, quality \notin {"transient", "efficient"}
  PROVE  wsola_profile(a, quality) = a
  BY DEF wsola_profile

(* What is accepted makes a handle with an engine that can run             *)
(* (boiledegg_validate_backend_config).                                    *)
LEMMA AcceptedCanRun ==
  ASSUME audio \in Shapes, backend \in Kinds PROVE AcceptedConstructs
<1> SUFFICES ASSUME Valid
             PROVE  IF Pv(backend) THEN SpectralConstructs(audio, backend)
                    ELSE LET a == wsola_profile(audio, backend.quality)
                         IN /\ a.window % 2 = 0 /\ a.search < a.window \div 2
                            /\ a.fifo >= 8 * a.window + 2 * a.block
  BY DEF AcceptedConstructs, Valid
<1>1. CASE Pv(backend)
  BY <1>1, EngineValid, ExtrasValid DEF SpectralConstructs
<1>2. CASE ~Pv(backend)
  <2> DEFINE a == wsola_profile(audio, backend.quality)
  <2>1. valid_audio(a)
    BY <1>2, ValidFirst DEF ProfileFits
  <2>2. a.window \in Int /\ a.block \in Int /\ a.fifo \in Int
    <3>1. Shorter(audio) \in Int
      <4> DEFINE x == (audio.window * 3) \div 4
      <4>1. x \in Int
        BY DEF Shapes
      <4> HIDE DEF x
      <4>2. Max({256, x}) \in Int
        BY <4>1, OfTwoInt
      <4>3. Shorter(audio) = 2 * (Max({256, x}) \div 2)
        BY Zenon DEF Even, Shorter, x
      <4> QED BY <4>2, <4>3
    <3>2. CASE backend.quality = "transient"
      BY <3>1, <3>2, Transient DEF SameRest, Shapes
    <3>3. CASE backend.quality = "efficient"
      BY <3>3, Efficient DEF SameRest, Shapes
    <3>4. CASE backend.quality \notin {"transient", "efficient"}
      BY <3>4, Unprofiled DEF Shapes
    <3> QED BY <3>2, <3>3, <3>4
  <2> HIDE DEF a
  <2>3. a.window % 2 = 0 /\ a.search < a.window \div 2 /\ a.fifo >= a.window * 8 + a.block * 2
    BY <2>1 DEF valid_audio, InLimits
  <2>4. a.fifo >= 8 * a.window + 2 * a.block
    BY <2>2, <2>3
  <2> QED BY <1>2, <2>3, <2>4 DEF a
<1> QED BY <1>1, <1>2

(* And lies within what is advertised (boiledegg_query_backend).           *)
LEMMA AcceptedKnown ==
  ASSUME audio \in Shapes, backend \in Kinds PROVE AcceptedAdvertised
<1> DEFINE info == query_backend(backend.backend_id)
<1> SUFFICES ASSUME Valid
             PROVE  /\ Between(audio.rate, Min(info.rates), Max(info.rates))
                    /\ audio.channels <= info.channels /\ audio.block <= info.block
                    /\ \A ratio \in {backend.time, backend.pitch} :
                         Between(ratio, info.lowest, info.highest)
  BY DEF AcceptedAdvertised, Valid
<1>1. /\ Max({8000, 384000}) = 384000 /\ Min({8000, 384000}) = 8000
      /\ Max({44100, 96000}) = 96000 /\ Min({44100, 96000}) = 44100
  BY OfTwo
<1>2. CASE backend.backend_id = "wsola"
  <2>1. /\ info.rates = {8000, 384000} /\ info.channels = 32 /\ info.block = 65536
        /\ info.lowest = 1 /\ info.highest = 16
    BY <1>2 DEF query_backend
  <2> QED BY <1>1, <2>1, ValidShape DEF InLimits, Between
<1>3. CASE backend.backend_id # "wsola"
  <2>1. /\ info.rates = {44100, 96000} /\ info.channels = 2 /\ info.block = 1024
        /\ info.lowest = 2 /\ info.highest = 8
    BY <1>3 DEF query_backend
  <2>2. Pv(backend)
    BY <1>3 DEF Pv, Kinds
  <2>3. /\ audio.rate \in {44100, 48000, 88200, 96000} /\ audio.channels <= 2
        /\ audio.block <= 1024
        /\ Between(backend.time, 2, 8) /\ Between(backend.pitch, 2, 8)
    BY <2>2, ValidSpectral DEF PvRefused, Shapes
  <2> QED BY <1>1, <2>1, <2>3 DEF Between
<1> QED BY <1>2, <1>3

-----------------------------------------------------------------------------
(* Plain WSOLA is refused for the shape of the audio only.                 *)
LEMMA PlainAccepted ==
  ASSUME NEW a, NEW quality \in {"general", "transient", "efficient"}
  PROVE  create_ex(a, quality) = "ok"
           <=> valid_audio(a) /\ valid_audio(wsola_profile(a, quality))
<1> DEFINE s == [default_backend_config EXCEPT !.quality = quality]
<1>1. /\ s.backend_id = "wsola" /\ s.quality = quality /\ s.policy = "off"
      /\ s.io = "auto" /\ s.flags = {} /\ s.time = 4 /\ s.pitch = 4 /\ s.formant = 4
  BY DEF default_backend_config
<1> HIDE DEF s
<1>2. create_ex(a, quality) = validate_backend_config(a, s)
  BY DEF create_ex, s
<1>3. ~Pv(s)
  BY <1>1 DEF Pv
<1>4. Malformed(a, s) <=> ~valid_audio(a)
  BY <1>1 DEF Malformed, Between
<1>5. ~Unsupported(s)
  BY <1>1 DEF Unsupported, query_backend
<1>6. ~LowDetailRefused(a, s) /\ ~TimeRefused(s) /\ ~BackendRefused(a, s)
  BY <1>1, <1>3 DEF LowDetailRefused, TimeRefused, BackendRefused
<1>7. ProfileFits(a, s) <=> valid_audio(wsola_profile(a, quality))
  BY <1>1, <1>3 DEF ProfileFits
<1> QED BY <1>2, <1>4, <1>5, <1>6, <1>7 DEF validate_backend_config

(* boiledegg_create and create_ex judge alike where 32 bits are enough.    *)
LEMMA CreatesAlike ==
  ASSUME Word \in Nat, audio \in Shapes PROVE CreatesAgree
<1> SUFFICES ASSUME audio.window * 8 + audio.block * 2 < Word
             PROVE  valid_config(audio) <=> create_ex(audio, "general") = "ok"
  BY DEF CreatesAgree
<1> DEFINE sum == audio.window * 8 + audio.block * 2
<1>1. sum \in Nat
  BY DEF Shapes
<1>2. sum % Word = sum
  <2> HIDE DEF sum
  <2> QED BY <1>1 DEF sum
<1>3. valid_config(audio) <=> valid_audio(audio)
  BY <1>2 DEF valid_config, valid_audio
<1>4. wsola_profile(audio, "general") = audio
  BY Unprofiled
<1> QED BY <1>3, <1>4, PlainAccepted

(* boiledegg_default_config is accepted whatever the profile.              *)
LEMMA DefaultsGood ==
  ASSUME audio \in Shapes PROVE DefaultsAccepted
<1> SUFFICES ASSUME NEW quality \in {"general", "transient", "efficient"},
                    InLimits(audio)
             PROVE  create_ex(default_config(audio.rate, audio.channels), quality) = "ok"
  BY DEF DefaultsAccepted, query_backend
<1> DEFINE a == default_config(audio.rate, audio.channels)
<1>1. /\ a.rate = audio.rate /\ a.channels = audio.channels /\ a.block = 2048
      /\ a.fifo = 262144
      /\ \/ a.window = 1536 /\ a.search = 192
         \/ a.window = 1024 /\ a.search = 128
      /\ a \in Shapes
  BY DEF default_config, Shapes
<1> HIDE DEF a
<1>2. valid_audio(a)
  BY <1>1 DEF valid_audio, InLimits, Between
<1>3. valid_audio(wsola_profile(a, quality)) => create_ex(a, quality) = "ok"
  BY <1>2, PlainAccepted
<1>4. CASE quality = "transient"
  <2> DEFINE p == wsola_profile(a, quality)
  <2>1. SameRest(p, a) /\ p.window = Shorter(a) /\ p.search = Closer(a)
    BY <1>1, <1>4, Transient
  <2> HIDE DEF p
  <2>2. Shorter(a) \in {1152, 768}
    <3> DEFINE x == (a.window * 3) \div 4
    <3>1. x \in {1152, 768}
      BY <1>1
    <3> HIDE DEF x
    <3>2. Max({256, x}) = x
      BY <3>1, OfTwo
    <3> QED BY <3>1, <3>2 DEF Even, Shorter, x
  <2>3. Closer(a) \in Int /\ Closer(a) <= a.search
    <3> DEFINE x == Shorter(a) \div 8
               y == Max({16, x})
    <3>1. x \in Int /\ a.search \in Int
      BY <1>1, <2>2
    <3> HIDE DEF x
    <3>2. y \in Int
      BY <3>1, OfTwoInt
    <3> HIDE DEF y
    <3>3. Closer(a) = Min({a.search, y})
      BY Zenon DEF Closer, x, y
    <3> QED BY <3>1, <3>2, <3>3, OfTwo
  <2>4. valid_audio(p)
    BY <1>1, <1>2, <2>1, <2>2, <2>3 DEF valid_audio, InLimits, SameRest
  <2> QED BY <2>4, <1>3 DEF a, p
<1>5. CASE quality = "efficient"
  <2> DEFINE p == wsola_profile(a, quality)
  <2>1. SameRest(p, a) /\ p.window = a.window /\ p.search = Halved(a)
    BY <1>1, <1>5, Efficient
  <2> HIDE DEF p
  <2>2. Halved(a) \in {96, 64}
    <3> DEFINE x == a.search \div 2
    <3>1. x \in {96, 64}
      BY <1>1
    <3> HIDE DEF x
    <3>2. Halved(a) = Max({8, x})
      BY Zenon DEF Halved, x
    <3> QED BY <3>1, <3>2, OfTwo
  <2>3. valid_audio(p)
    BY <1>1, <1>2, <2>1, <2>2 DEF valid_audio, InLimits, SameRest
  <2> QED BY <2>3, <1>3 DEF a, p
<1>6. CASE quality = "general"
  BY <1>2, <1>3, <1>6, Unprofiled DEF a
<1> QED BY <1>4, <1>5, <1>6

-----------------------------------------------------------------------------
(* One setting of a handle is changed.                                     *)
LEMMA OneRenewed ==
  ASSUME NEW m, NEW t, NEW p, NEW f, NEW r
  PROVE  /\ [Made(m, t, p, f) EXCEPT !.time = r] = Made(m, r, p, f)
         /\ [Made(m, t, p, f) EXCEPT !.pitch = r] = Made(m, t, r, f)
         /\ [Made(m, t, p, f) EXCEPT !.formant = r] = Made(m, t, p, r)
         /\ Made(m, t, p, f).time = t /\ Made(m, t, p, f).pitch = p
         /\ Made(m, t, p, f).formant = f
  BY DEF Made

(* The configuration is left alone and the settings are right.             *)
LEMMA KeptHandle ==
  ASSUME audio' = audio, backend' = backend, audio \in Shapes, backend \in Kinds, Valid,
         NEW m, NEW t, NEW p, NEW f, handle' = Made(m, t, p, f), Settings(t, p, f)
  PROVE  ConfigInv'
<1>1. Valid'
  BY DEF Valid
<1>2. \E w, x, y, z : handle' = Made(w, x, y, z) /\ Settings(x, y, z)
  OBVIOUS
<1>3. \E w, x, y, z : handle' = Made(w, x, y, z) /\ Settings(x, y, z)'
  BY <1>2, Zenon DEF Settings
<1>4. HandleFits'
  BY <1>1, <1>3, Zenon DEF HandleFits, Made
<1> QED BY <1>4 DEF ConfigInv

(* The handle that is made holds what was asked for.                       *)
LEMMA CreateFits ==
  ASSUME ConfigInv, CreateHandle PROVE ConfigInv'
<1>1. /\ Valid /\ audio' = audio /\ backend' = backend
      /\ handle' = Made(TRUE, backend.time, backend.pitch, backend.formant)
  BY Zenon DEF CreateHandle, Valid, Made
<1>2. /\ Between(backend.time, 1, 16) /\ Between(backend.pitch, 1, 16)
      /\ Between(backend.formant, 2, 8)
      /\ backend.policy = "off" => backend.formant = 4
      /\ FixedNow(backend) => backend.time = 4
  BY <1>1, ValidShape DEF FixedNow
<1>3. Pv(backend) => Between(backend.pitch, 2, 8) /\ backend.time * backend.pitch <= 32
  BY <1>1, ValidSpectral DEF PvRefused, ConfigInv, Kinds
<1>4. ~Pv(backend) => backend.policy = "off"
  BY <1>1, ValidFirst DEF Unsupported, query_backend, Pv, ConfigInv, Kinds
<1>5. TimeReaches(backend, backend.time)
  BY <1>2 DEF TimeReaches
<1>6. PitchReaches(backend, backend.pitch)
  BY <1>2, <1>3 DEF PitchReaches, PvPitchReaches
<1>7. FormantReaches(backend, backend.formant)
  BY <1>2, <1>4 DEF FormantReaches, PvFormantReaches
<1>8. Settings(backend.time, backend.pitch, backend.formant)
  BY <1>2, <1>5, <1>6, <1>7 DEF Settings
<1> QED BY <1>1, <1>8, KeptHandle DEF ConfigInv

(* A setting of time or pitch that is taken reaches the engine             *)
(* (validate_parameter_value).                                             *)
LEMMA TakenReaches ==
  ASSUME NEW id \in {"time", "pitch", "semitones"}, NEW value,
         validate_parameter_value(backend, id, value, FixedNow(backend))
  PROVE  LET ratio == Ratio(id, value)
         IN /\ Between(ratio, 1, 16)
            /\ id = "time" => /\ TimeReaches(backend, ratio)
                              /\ FixedNow(backend) => ratio = 4
            /\ id # "time" => PitchReaches(backend, ratio)
<1> DEFINE ratio == Ratio(id, value)
<1>1. /\ Between(ratio, 1, 16)
      /\ Pv(backend) => PvTakes(backend, id, ratio)
      /\ id = "time" /\ FixedNow(backend) => ratio = 4
  BY DEF validate_parameter_value, Timing
<1> HIDE DEF ratio
<1>2. id = "time" => TimeReaches(backend, ratio)
  BY <1>1 DEF TimeReaches, PvTakes
<1>3. id # "time" => PitchReaches(backend, ratio)
  BY <1>1 DEF PitchReaches, PvPitchReaches, PvTakes
<1> QED BY <1>1, <1>2, <1>3 DEF ratio

(* Of a setter the one setting changes.                                    *)
LEMMA SetFits ==
  ASSUME ConfigInv, Set PROVE ConfigInv'
<1>0. PICK id \in {"time", "pitch", "semitones"} : \E value \in Values[id] :
        /\ validate_parameter_value(backend, id, value, FixedNow(backend))
        /\ handle' = [handle EXCEPT ![Target(id)] = Ratio(id, value)]
  BY DEF Set
<1>1. PICK value \in Values[id] :
        /\ validate_parameter_value(backend, id, value, FixedNow(backend))
        /\ handle' = [handle EXCEPT ![Target(id)] = Ratio(id, value)]
  BY <1>0
<1>2. /\ audio' = audio /\ backend' = backend /\ audio \in Shapes /\ backend \in Kinds
      /\ handle # None /\ Valid
  BY DEF Set, ConfigInv, HandleFits
<1>3. PICK m, t, p, f : handle = Made(m, t, p, f) /\ Settings(t, p, f)
  BY <1>2 DEF ConfigInv, HandleFits
<1> DEFINE ratio == Ratio(id, value)
<1>4. /\ Between(ratio, 1, 16)
      /\ id = "time" => /\ TimeReaches(backend, ratio)
                        /\ FixedNow(backend) => ratio = 4
      /\ id # "time" => PitchReaches(backend, ratio)
  BY <1>1, TakenReaches
<1>5. handle' = [Made(m, t, p, f) EXCEPT ![Target(id)] = ratio]
  BY <1>1, <1>3, Zenon
<1> HIDE DEF ratio
<1>6. CASE id = "time"
  <2>1. handle' = Made(m, ratio, p, f)
    BY <1>5, <1>6, OneRenewed DEF Target
  <2>2. Settings(ratio, p, f)
    BY <1>3, <1>4, <1>6 DEF Settings
  <2> QED BY <1>2, <2>1, <2>2, KeptHandle
<1>7. CASE id # "time"
  <2>1. Target(id) = "pitch"
    BY <1>7 DEF Target
  <2>2. handle' = Made(m, t, ratio, f)
    BY <1>5, <2>1, OneRenewed
  <2>3. Settings(t, ratio, f)
    BY <1>3, <1>4, <1>7 DEF Settings
  <2> QED BY <1>2, <2>2, <2>3, KeptHandle
<1> QED BY <1>6, <1>7

(* So it does of the setter of the formant.                                *)
LEMMA SetFormantFits ==
  ASSUME ConfigInv, SetFormant PROVE ConfigInv'
<1>1. PICK value \in Values["formant"] :
        /\ validate_parameter_value(backend, "formant", value, FALSE)
        /\ handle' = [handle EXCEPT !.formant = value]
  BY DEF SetFormant
<1>2. /\ audio' = audio /\ backend' = backend /\ audio \in Shapes /\ backend \in Kinds
      /\ handle # None /\ Valid
  BY DEF SetFormant, ConfigInv, HandleFits
<1>3. PICK m, t, p, f : handle = Made(m, t, p, f) /\ Settings(t, p, f)
  BY <1>2 DEF ConfigInv, HandleFits
<1>4. /\ Between(value, 2, 8)
      /\ ~Pv(backend) \/ backend.policy = "off" => value = 4
  BY <1>1 DEF validate_parameter_value, Ratio, Timing
<1>5. FormantReaches(backend, value)
  BY <1>4 DEF FormantReaches, PvFormantReaches
<1>6. handle' = [Made(m, t, p, f) EXCEPT !.formant = value]
  BY <1>1, <1>3, Zenon
<1>7. handle' = Made(m, t, p, value)
  BY <1>6, OneRenewed
<1>8. Settings(t, p, value)
  BY <1>3, <1>4, <1>5 DEF Settings
<1> QED BY <1>2, <1>7, <1>8, KeptHandle

(* The invariant holds of every handle.                                    *)
LEMMA ConfigInvariance == ASSUME ConfigTypes PROVE ConfigSpec => []ConfigInv
<1>1. ASSUME ConfigInit PROVE ConfigInv
  <2>1. PICK ask \in AskedConfigs : audio = ask[1] /\ backend = ask[2]
    BY <1>1 DEF ConfigInit
  <2>2. audio \in Shapes /\ backend \in Kinds
    BY <2>1 DEF ConfigTypes
  <2> QED BY <1>1, <2>2 DEF ConfigInit, ConfigInv, HandleFits
<1>2. ASSUME ConfigInv, [ConfigNext]_configVars PROVE ConfigInv'
  <2>1. CASE UNCHANGED configVars
    BY <1>2, <2>1 DEF configVars, ConfigInv, HandleFits, Valid, Settings
  <2> QED BY <1>2, <2>1, CreateFits, SetFits, SetFormantFits DEF ConfigNext
<1> QED BY <1>1, <1>2, PTL DEF ConfigSpec

-----------------------------------------------------------------------------
(* A configuration that boiledegg_validate_backend_config accepts can be   *)
(* built and lies within what is advertised, the ways to create a handle   *)
(* agree, and the defaults are always accepted.                            *)
THEOREM SoundConfig == ASSUME ConfigTypes PROVE ConfigSpec => []ConfigSound
<1>1. ASSUME ConfigInv PROVE ConfigSound
  BY <1>1, AcceptedCanRun, AcceptedKnown, CreatesAlike, DefaultsGood
  DEF ConfigInv, ConfigTypes, ConfigSound
<1> QED BY <1>1, ConfigInvariance, PTL

(* What a handle holds.                                                    *)
LEMMA HandleHolds ==
  ASSUME ConfigInv, handle # None
  PROVE  /\ Settings(handle.time, handle.pitch, handle.formant)
         /\ handle["time"] = handle.time /\ handle["pitch"] = handle.pitch
         /\ handle["formant"] = handle.formant
<1>1. PICK m, t, p, f : handle = Made(m, t, p, f) /\ Settings(t, p, f)
  BY DEF ConfigInv, HandleFits
<1>2. handle.time = t /\ handle.pitch = p /\ handle.formant = f
  BY <1>1, OneRenewed
<1> QED BY <1>1, <1>2, Zenon

(* A handle that is saved can be restored (boiledegg_set_backend_parameter_ *)
(* state).                                                                 *)
LEMMA HandleRestores ==
  ASSUME ConfigInv PROVE StateRestores
<1> SUFFICES ASSUME handle # None, "continuous_time" \notin backend.flags,
                    NEW id \in {"time", "pitch", "formant"}
             PROVE  validate_parameter_value(backend, id, handle[id], FixedNow(backend))
  BY DEF StateRestores, Restores
<1>1. Settings(handle.time, handle.pitch, handle.formant) /\ backend \in Kinds
  BY HandleHolds DEF ConfigInv
<1>2. CASE id = "time"
  <2>1. /\ Between(handle.time, 1, 16) /\ TimeReaches(backend, handle.time)
        /\ FixedNow(backend) => handle.time = 4
    BY <1>1 DEF Settings
  <2> QED BY <1>2, <2>1 DEF validate_parameter_value, Ratio, Timing, PvTakes, TimeReaches
<1>3. CASE id = "pitch"
  <2>1. Between(handle.pitch, 1, 16) /\ PitchReaches(backend, handle.pitch)
    BY <1>1 DEF Settings
  <2> QED BY <1>3, <2>1 DEF validate_parameter_value, Ratio, Timing, PvTakes,
                            PitchReaches, PvPitchReaches
<1>4. CASE id = "formant"
  <2>1. Between(handle.formant, 2, 8) /\ FormantReaches(backend, handle.formant)
    BY <1>1 DEF Settings
  <2> QED BY <1>4, <2>1 DEF validate_parameter_value, Ratio, Timing,
                            FormantReaches, PvFormantReaches
<1> QED BY <1>2, <1>3, <1>4

(* A setting that a handle took is one its engine will take, and a state   *)
(* that was saved can be restored, whatever was set in between.            *)
THEOREM TakenSettingsHold == ASSUME ConfigTypes PROVE ConfigSpec => []SettingsHold
<1>1. ASSUME ConfigInv PROVE SettingsHold
  BY <1>1, HandleRestores, HandleHolds DEF Settings, SettingsHold, SettingsReach
<1> QED BY <1>1, ConfigInvariance, PTL

-----------------------------------------------------------------------------
-----------------------------------------------------------------------------
(* Rounding. *)

(* Whole frames below, and nearest to, a quarter count. *)
LEMMA Rounding ==
  ASSUME NEW q \in Nat
  PROVE  /\ Floor(q) \in Nat /\ Round(q) \in Nat
         /\ 4 * Floor(q) <= q /\ q < 4 * Floor(q) + 4
         /\ Floor(q) <= Round(q)
  BY DEF Floor, Round

(* Both roundings are monotonic. *)
LEMMA RoundingMonotonic ==
  ASSUME NEW q \in Nat, NEW r \in Nat, q <= r
  PROVE  Floor(q) <= Floor(r) /\ Round(q) <= Round(r)
  BY DEF Floor, Round

(* The hop is positive, and half the window. *)
LEMMA HopType == Hop \in Nat \ {0} /\ Window \in Nat \ {0} /\ Window = 2 * Hop
  BY EngineAssumption

(* The analysis hop is a natural number, so positions never move back. *)
LEMMA AdvanceType ==
  ASSUME time \in TimeRatios, pitch \in PitchRatios
  PROVE  Advance \in Nat
<1>1. time \in 1 .. 16 /\ pitch \in 1 .. 16
  BY EngineAssumption
<1>2. time * pitch \in Nat \ {0}
  BY <1>1
<1>3. 64 * Hop \in Nat
  BY HopType
<1>4. ASSUME NEW a \in Nat, NEW b \in Nat \ {0} PROVE a \div b \in Nat
  OBVIOUS
<1>5. QED
  BY <1>2, <1>3, <1>4 DEF Advance

-----------------------------------------------------------------------------
(* Rings. *)

(* A push keeps a ring well formed and moves only the write cursor, by all *)
(* or nothing.                                                             *)
LEMMA GrowRing ==
  ASSUME NEW r \in Ring, NEW n \in Nat, WellFormed(r)
  PROVE  /\ Grow(r, n) \in Ring /\ WellFormed(Grow(r, n))
         /\ Grow(r, n).start = r.start
         /\ n <= Free(r) => Grow(r, n).end = r.end + n
  BY FifoAssumption DEF Grow, Ring, WellFormed, Size, Free

(* Discarding keeps a ring well formed and moves only the read cursor,     *)
(* forward and no further than asked.                                      *)
LEMMA DiscardRing ==
  ASSUME NEW r \in Ring, NEW i \in Int, WellFormed(r)
  PROVE  /\ DiscardBefore(r, i) \in Ring /\ WellFormed(DiscardBefore(r, i))
         /\ DiscardBefore(r, i).end = r.end
         /\ DiscardBefore(r, i).start >= r.start
         /\ DiscardBefore(r, i).start <= MaxOf(r.start, i)
  BY FifoAssumption DEF DiscardBefore, Ring, WellFormed, Size, MinOf, MaxOf

(* A pop hands out what is stored, up to what is asked for. *)
LEMMA PopRing ==
  ASSUME NEW r \in Ring, NEW n \in Nat, WellFormed(r)
  PROVE  /\ Pop(r, n) \in Ring /\ WellFormed(Pop(r, n))
         /\ Pop(r, n).end = r.end
         /\ Pop(r, n).start = r.start + Popped(r, n)
         /\ Popped(r, n) \in 0 .. Fifo
         /\ r.start + Popped(r, n) <= r.end
  BY FifoAssumption DEF Pop, Popped, DiscardBefore, Ring, WellFormed, Size, MinOf

(* A fresh ring. *)
LEMMA EmptyRingOK ==
  /\ EmptyRing \in Ring /\ WellFormed(EmptyRing)
  /\ EmptyRing.start = 0 /\ EmptyRing.end = 0
  BY FifoAssumption DEF EmptyRing, Ring, WellFormed, Size

-----------------------------------------------------------------------------
(* The stretcher's reads. *)

(* What a waiting frame reclaims is never ahead of the next search. *)
LEMMA ReclaimedRing ==
  ASSUME IInv, have_prev
  PROVE  /\ Reclaimed \in Ring /\ WellFormed(Reclaimed)
         /\ Reclaimed.end = input.end
         /\ input.start <= Reclaimed.start /\ Reclaimed.start <= Expected
<1>1. input \in Ring /\ WellFormed(input) /\ input.start <= Expected
      /\ Expected \in Nat /\ Search \in Nat
  BY EngineAssumption, Rounding
     DEF IInv, TypeOK, RingsWellFormed, ReclaimBehind, Expected
<1> DEFINE floor == MaxOf(0, Expected - Search)
<1>2. floor \in Int /\ floor <= Expected
  BY <1>1 DEF MaxOf
<1>3. Reclaimed = DiscardBefore(input, floor)
  BY DEF Reclaimed
<1> HIDE DEF floor
<1>4. /\ Reclaimed \in Ring /\ WellFormed(Reclaimed)
      /\ Reclaimed.end = input.end
      /\ Reclaimed.start >= input.start
      /\ Reclaimed.start <= MaxOf(input.start, floor)
  BY <1>1, <1>2, <1>3, DiscardRing
<1>5. QED
  BY <1>1, <1>2, <1>4 DEF MaxOf, Ring

(* FrameReadsLive follows from the position of the read cursor. *)
LEMMA CandidatesLive ==
  ASSUME IInv, have_prev, Expected + Search + Window <= input.end
  PROVE  /\ Candidates # {}
         /\ \A c \in Candidates :
              /\ c \in Nat /\ c <= Expected + Search
              /\ LiveSpan(Reclaimed, c, c + Window - 1)
<1>1. /\ Reclaimed.start \in Nat /\ Reclaimed.end = input.end
      /\ Reclaimed.start <= Expected /\ input.end \in Nat
  BY ReclaimedRing DEF Ring, IInv, TypeOK
<1>2. Expected \in Nat /\ Search \in Nat /\ Window \in Nat \ {0}
  BY EngineAssumption, HopType, Rounding DEF IInv, TypeOK, Expected
<1>3. CASE Unity
  BY <1>1, <1>2, <1>3 DEF Candidates, LiveSpan
<1>4. CASE ~Unity
  <2>1. Expected \in Candidates
    BY <1>1, <1>2, <1>4 DEF Candidates, MinOf, MaxOf
  <2>2. ASSUME NEW c \in Candidates
        PROVE  /\ c \in Nat /\ c <= Expected + Search
               /\ LiveSpan(Reclaimed, c, c + Window - 1)
    BY <1>1, <1>2, <1>4, <2>2 DEF Candidates, LiveSpan, MinOf, MaxOf
  <2>3. QED
    BY <2>1, <2>2
<1>5. QED
  BY <1>3, <1>4

-----------------------------------------------------------------------------
(* The inductive invariant. *)

(* A fresh engine satisfies the invariant. *)
LEMMA InitIInv == Init => IInv
<1> SUFFICES ASSUME Init PROVE IInv
  OBVIOUS
<1>1. TypeOK
  BY EmptyRingOK DEF Init, TypeOK
<1>2. RingsWellFormed /\ NoHopLost
  BY EmptyRingOK, HopType DEF Init, RingsWellFormed, NoHopLost
<1>3. ReclaimBehind /\ TapsBehind /\ WithinBudget
  BY EmptyRingOK, EngineAssumption, Rounding
     DEF Init, ReclaimBehind, TapsBehind, WithinBudget, OutputLimit, MaxOf,
         Center, Floor
<1>4. QED
  BY <1>1, <1>2, <1>3 DEF IInv

(* The host's calls. *)

(* A ratio does not occur in what the invariant says of the rings. *)
LEMMA SetterStep ==
  ASSUME IInv, (\E r \in TimeRatios : SetTimeRatio(r))
               \/ (\E r \in PitchRatios : SetPitchRatio(r))
  PROVE  IInv'
<1>1. /\ UNCHANGED <<input, inter, output, stretcher, resampler, clock, pc, call>>
      /\ time' \in TimeRatios /\ pitch' \in PitchRatios /\ changes' \in Nat
  BY DEF SetTimeRatio, SetPitchRatio, IInv, TypeOK
<1>2. TypeOK'
  BY <1>1 DEF IInv, TypeOK, stretcher, resampler, clock, call
<1>3. QED
  BY <1>1, <1>2 DEF IInv, RingsWellFormed, NoHopLost, ReclaimBehind, TapsBehind,
     WithinBudget, OutputLimit, Expected, Center, stretcher, resampler, clock

(* A reset empties every ring and starts every position over. *)
LEMMA ResetStep == ASSUME IInv, Reset PROVE IInv'
<1>1. TypeOK'
  BY EmptyRingOK DEF Reset, IInv, TypeOK, call
<1>2. RingsWellFormed' /\ NoHopLost'
  BY EmptyRingOK, HopType DEF Reset, RingsWellFormed, NoHopLost
<1>3. ReclaimBehind' /\ TapsBehind' /\ WithinBudget'
  BY EmptyRingOK, EngineAssumption, Rounding
     DEF Reset, ReclaimBehind, TapsBehind, WithinBudget, OutputLimit, MaxOf,
         Center, Floor
<1>4. QED
  BY <1>1, <1>2, <1>3 DEF IInv

(* A push takes no more than fits, and the budget only grows. *)
LEMMA PushStep == ASSUME IInv, NEW frames \in Blocks, Push(frames) PROVE IInv'
<1> DEFINE n == MinOf(frames, Free(input))
<1>1. /\ n \in Nat /\ n <= Free(input)
      /\ input \in Ring /\ WellFormed(input)
      /\ time \in 1 .. 16 /\ accum \in Nat /\ pushed \in Nat
  BY EngineAssumption, FifoAssumption
     DEF Push, IInv, TypeOK, RingsWellFormed, MinOf, Free, Size, Ring, WellFormed
<1>2. /\ input' = Grow(input, n) /\ accum' = accum + n * time
      /\ pushed' = pushed + n /\ pc' = "stretch" /\ progress' = FALSE
      /\ UNCHANGED <<ratios, inter, output, stretcher, resampler, flushing,
                     target, want, padding>>
      /\ ~flushing
  BY DEF Push
<1>3. accum' \in Nat /\ accum <= accum' /\ pushed' \in Nat
  BY <1>1, <1>2
<1>4. input' \in Ring /\ WellFormed(input') /\ input'.start = input.start
  BY <1>1, <1>2, GrowRing
<1>5. TypeOK'
  BY <1>2, <1>3, <1>4 DEF IInv, TypeOK, ratios, stretcher, resampler
<1>6. RingsWellFormed' /\ NoHopLost' /\ ReclaimBehind' /\ TapsBehind'
  BY <1>2, <1>4 DEF IInv, RingsWellFormed, NoHopLost, ReclaimBehind, TapsBehind,
     Expected, Center, stretcher, resampler
<1>7. WithinBudget'
  <2>1. Floor(accum) <= Floor(accum') /\ Floor(accum) \in Nat /\ Floor(accum') \in Nat
    BY <1>1, <1>3, Rounding, RoundingMonotonic
  <2>2. QED
    BY <1>2, <2>1 DEF IInv, TypeOK, WithinBudget, OutputLimit, resampler
<1>8. QED
  BY <1>5, <1>6, <1>7 DEF IInv

(* A pull that begins moves nothing yet. *)
LEMMA PullStep == ASSUME IInv, NEW frames \in Pulls, Pull(frames) PROVE IInv'
<1>1. /\ UNCHANGED <<ratios, input, inter, output, stretcher, resampler, clock,
                     padding>>
      /\ want' \in Nat /\ pc' = "stretch" /\ progress' = FALSE
  BY EngineAssumption DEF Pull
<1>2. TypeOK'
  BY <1>1 DEF IInv, TypeOK, ratios, stretcher, resampler, clock
<1>3. QED
  BY <1>1, <1>2 DEF IInv, RingsWellFormed, NoHopLost, ReclaimBehind, TapsBehind,
     WithinBudget, OutputLimit, Expected, Center, stretcher, resampler, clock

(* The end of input fixes a length that the budget does not exceed. *)
LEMMA FlushStep == ASSUME IInv, Flush PROVE IInv'
<1>1. /\ UNCHANGED <<ratios, input, inter, output, stretcher, resampler, accum,
                     pushed, want>>
      /\ pc' \in {"stretch", "pad"} /\ progress' \in BOOLEAN
      /\ padding' \in Nat /\ flushing' = TRUE
      /\ target' = IF flushing THEN target ELSE Round(accum)
  <2>1. CASE flushing
    BY <2>1, Zenon DEF Flush, IInv, TypeOK
  <2>2. CASE ~flushing
    <3>1. Window + Search + 4 * Hop \in Nat
      BY EngineAssumption, HopType
    <3>2. QED
      BY <2>2, <3>1, Zenon DEF Flush, IInv, TypeOK
  <2>3. QED
    BY <2>1, <2>2
<1>2. accum \in Nat /\ produced \in Nat /\ target \in Nat
      /\ Round(accum) \in Nat /\ Floor(accum) \in Nat
      /\ Floor(accum) <= Round(accum)
  BY Rounding DEF IInv, TypeOK
<1>3. TypeOK'
  BY <1>1, <1>2 DEF IInv, TypeOK, ratios, stretcher, resampler
<1>4. WithinBudget'
  BY <1>1, <1>2 DEF IInv, WithinBudget, OutputLimit, resampler
<1>5. QED
  BY <1>1, <1>3, <1>4 DEF IInv, RingsWellFormed, NoHopLost, ReclaimBehind,
     TapsBehind, Expected, Center, stretcher, resampler

(* The engine's own steps. *)

(* A padding chunk that does not fit is not written. *)
LEMMA PadStep == ASSUME IInv, Pad PROVE IInv'
<1> DEFINE chunk == MinOf(padding, MaxBlock)
<1>1. chunk \in Nat /\ padding - chunk \in Nat
  BY EngineAssumption DEF IInv, TypeOK, MinOf
<1>2. input \in Ring /\ WellFormed(input)
  BY DEF IInv, TypeOK, RingsWellFormed
<1>3. /\ input' \in {input, Grow(input, chunk)}
      /\ padding' \in {0, padding - chunk}
      /\ pc' \in {"idle", "pad", "stretch"}
      /\ UNCHANGED <<ratios, inter, output, stretcher, resampler, clock, want>>
      /\ progress' \in BOOLEAN
  <2>1. progress' = progress \/ progress' = FALSE
    BY Zenon DEF Pad, PadChunk
  <2>2. QED
    BY <2>1, Zenon DEF Pad, PadChunk, IInv, TypeOK
<1> HIDE DEF chunk
<1>4. input' \in Ring /\ WellFormed(input') /\ input'.start = input.start
  BY <1>1, <1>2, <1>3, GrowRing
<1>5. TypeOK'
  BY <1>1, <1>3, <1>4 DEF IInv, TypeOK, ratios, stretcher, resampler, clock
<1>6. QED
  BY <1>3, <1>4, <1>5 DEF IInv, RingsWellFormed, NoHopLost, ReclaimBehind,
     TapsBehind, WithinBudget, OutputLimit, Expected, Center, stretcher,
     resampler, clock

(* The first frame is emitted whole, at the start of the input. *)
LEMMA FirstFrameStep == ASSUME IInv, FirstFrame PROVE IInv'
<1>1. /\ UNCHANGED <<ratios, input, output, resampler, clock, pc, want, padding>>
      /\ inter' = Grow(inter, Hop) /\ hops' = hops + 1 /\ have_prev' = TRUE
      /\ next_expected' = 4 * input.start + Advance /\ progress' = TRUE
      /\ Hop <= Free(inter) /\ ~have_prev
  BY HopType, FifoAssumption
     DEF FirstFrame, HopFits, IInv, TypeOK, RingsWellFormed, Free, Size, Ring, WellFormed
<1>2. /\ inter \in Ring /\ WellFormed(inter) /\ Hop \in Nat /\ hops \in Nat
      /\ input.start = 0 /\ inter.end = Hop * hops
  BY <1>1, HopType DEF IInv, TypeOK, RingsWellFormed, NoHopLost, ReclaimBehind
<1>3. /\ inter' \in Ring /\ WellFormed(inter') /\ inter'.start = inter.start
      /\ inter'.end = inter.end + Hop
  BY <1>1, <1>2, GrowRing
<1>4. next_expected' \in Nat
  BY <1>1, <1>2, AdvanceType DEF IInv, TypeOK
<1>5. TypeOK'
  BY <1>1, <1>2, <1>3, <1>4 DEF IInv, TypeOK, ratios, resampler, clock
<1>6. NoHopLost'
  BY <1>1, <1>2, <1>3 DEF NoHopLost
<1>7. ReclaimBehind'
  BY <1>1, <1>2, <1>4, Rounding DEF ReclaimBehind, Expected
<1>8. QED
  BY <1>1, <1>3, <1>5, <1>6, <1>7 DEF IInv, RingsWellFormed, TapsBehind,
     WithinBudget, OutputLimit, Center, resampler, clock

(* A frame is emitted whole and reclaims nothing the next one needs. *)
LEMMA NextFrameStep == ASSUME IInv, NextFrame PROVE IInv'
<1>1. /\ UNCHANGED <<ratios, output, have_prev, resampler, clock, pc, want,
                     padding>>
      /\ inter' = Grow(inter, Hop) /\ hops' = hops + 1
      /\ next_expected' = next_expected + Advance /\ progress' = TRUE
      /\ Hop <= Free(inter) /\ have_prev
      /\ Expected + Search + Window <= input.end
  BY HopType, FifoAssumption DEF NextFrame, HopFits, FrameReady, IInv, TypeOK,
     RingsWellFormed, Free, Size, Ring, WellFormed
<1>2. PICK chosen \in Candidates :
        input' = DiscardBefore(Reclaimed, MaxOf(0, chosen - (Search + 2)))
  BY DEF NextFrame, HopFits
<1>3. chosen \in Nat /\ chosen <= Expected + Search
  BY <1>1, CandidatesLive
<1>4. /\ Reclaimed \in Ring /\ WellFormed(Reclaimed)
      /\ Reclaimed.start <= Expected
  BY <1>1, ReclaimedRing
<1>5. /\ Expected \in Nat /\ Search \in Nat /\ next_expected \in Nat
      /\ inter \in Ring /\ WellFormed(inter) /\ Hop \in Nat /\ hops \in Nat
      /\ inter.end = Hop * hops
  BY HopType, EngineAssumption, Rounding
     DEF IInv, TypeOK, RingsWellFormed, NoHopLost, Expected
<1> DEFINE safe == MaxOf(0, chosen - (Search + 2))
<1>6. safe \in Int /\ safe <= Expected
  BY <1>3, <1>5 DEF MaxOf
<1>7. input' = DiscardBefore(Reclaimed, safe)
  BY <1>2, Zenon
<1> HIDE DEF safe
<1>8. /\ input' \in Ring /\ WellFormed(input')
      /\ input'.start <= MaxOf(Reclaimed.start, safe)
  BY <1>4, <1>6, <1>7, DiscardRing
<1>9. input'.start <= Expected
  BY <1>4, <1>5, <1>6, <1>8 DEF MaxOf, Ring
<1>10. Advance \in Nat /\ next_expected' \in Nat /\ next_expected <= next_expected'
  BY <1>1, <1>5, AdvanceType DEF IInv, TypeOK
<1>11. Expected <= Expected' /\ Expected' \in Nat
  BY <1>5, <1>10, Rounding, RoundingMonotonic DEF Expected
<1>12. ReclaimBehind'
  BY <1>1, <1>5, <1>8, <1>9, <1>11 DEF ReclaimBehind, Ring
<1>13. /\ inter' \in Ring /\ WellFormed(inter') /\ inter'.start = inter.start
       /\ inter'.end = inter.end + Hop
  BY <1>1, <1>5, GrowRing
<1>14. TypeOK'
  BY <1>1, <1>5, <1>8, <1>10, <1>13 DEF IInv, TypeOK, ratios, resampler, clock
<1>15. NoHopLost'
  BY <1>1, <1>5, <1>13 DEF NoHopLost
<1>16. QED
  BY <1>1, <1>8, <1>12, <1>13, <1>14, <1>15 DEF IInv, RingsWellFormed,
     TapsBehind, WithinBudget, OutputLimit, Center, resampler, clock

(* A frame that is not ready still reclaims only its past. *)
LEMMA StretchEndStep == ASSUME IInv, StretchEnd PROVE IInv'
<1>1. /\ UNCHANGED <<ratios, inter, output, stretcher, resampler, clock, call>>
      /\ pc' = "resample"
      /\ input' = input \/ (have_prev /\ input' = Reclaimed)
  BY DEF StretchEnd, HopFits
<1>2. /\ input' \in Ring /\ WellFormed(input')
      /\ have_prev => input'.start <= Expected
      /\ ~have_prev => input'.start = 0
  BY <1>1, ReclaimedRing DEF IInv, TypeOK, RingsWellFormed, ReclaimBehind
<1>3. TypeOK'
  BY <1>1, <1>2 DEF IInv, TypeOK, ratios, stretcher, resampler, clock, call
<1>4. QED
  BY <1>1, <1>2, <1>3 DEF IInv, RingsWellFormed, NoHopLost, ReclaimBehind,
     TapsBehind, WithinBudget, OutputLimit, Expected, Center, stretcher,
     resampler, clock

(* A sample is paid for, and the taps of the next one are kept. *)
LEMMA SampleStep == ASSUME IInv, Sample PROVE IInv'
<1> DEFINE keep == MaxOf(0, OldestTap(resample_pos'))
<1>1. /\ UNCHANGED <<ratios, input, stretcher, clock, pc, want, padding>>
      /\ output' = Grow(output, 1) /\ produced' = produced + 1
      /\ resample_pos' = resample_pos + pitch /\ progress' = TRUE
      /\ inter' = DiscardBefore(inter, keep)
      /\ Free(output) > 0 /\ produced < OutputLimit
  BY DEF Sample, SampleReady
<1>2. /\ output \in Ring /\ WellFormed(output) /\ 1 <= Free(output)
      /\ inter \in Ring /\ WellFormed(inter)
      /\ produced \in Nat /\ produced = output.end
      /\ resample_pos \in Nat /\ pitch \in Nat /\ HalfTaps \in Nat
      /\ inter.start <= MaxOf(0, Center - HalfTaps - 2)
  BY <1>1, EngineAssumption, FifoAssumption DEF IInv, TypeOK, RingsWellFormed,
     WithinBudget, TapsBehind, Free, Size, Ring, WellFormed
<1>3. /\ output' \in Ring /\ WellFormed(output')
      /\ output'.end = output.end + 1
  BY <1>1, <1>2, GrowRing
<1>4. /\ resample_pos' \in Nat /\ Center \in Nat /\ Floor(resample_pos') \in Nat
      /\ Center <= Floor(resample_pos')
  <2>1. resample_pos' \in Nat /\ resample_pos <= resample_pos'
    BY <1>1, <1>2
  <2>2. QED
    BY <1>2, <2>1, Rounding, RoundingMonotonic DEF Center
<1>5. keep \in Int /\ MaxOf(0, Center - HalfTaps - 2) <= keep
  BY <1>2, <1>4 DEF OldestTap, MaxOf
<1>6. inter.start <= keep
  <2> DEFINE low == MaxOf(0, Center - HalfTaps - 2)
  <2>1. low \in Int /\ inter.start \in Int /\ inter.start <= low
    BY <1>2, <1>4 DEF Ring, MaxOf
  <2>2. low <= keep
    BY <1>5
  <2> HIDE DEF low, keep
  <2>3. QED
    BY <1>5, <2>1, <2>2
<1>7. keep = MaxOf(0, Center' - HalfTaps - 2)
  BY DEF Center, OldestTap
<1> HIDE DEF keep
<1>8. /\ inter' \in Ring /\ WellFormed(inter') /\ inter'.end = inter.end
      /\ inter'.start <= keep
  <2>1. /\ inter' \in Ring /\ WellFormed(inter') /\ inter'.end = inter.end
        /\ inter'.start <= MaxOf(inter.start, keep)
    BY <1>1, <1>2, <1>5, DiscardRing
  <2>2. inter'.start \in Int /\ inter.start \in Int
    BY <1>2, <2>1 DEF Ring
  <2>3. QED
    BY <1>5, <1>6, <2>1, <2>2 DEF MaxOf
<1>9. TapsBehind'
  BY <1>7, <1>8 DEF TapsBehind
<1>10. OutputLimit \in Nat
  BY Rounding DEF OutputLimit, IInv, TypeOK
<1>11. WithinBudget'
  BY <1>1, <1>2, <1>3, <1>10 DEF IInv, WithinBudget, OutputLimit, clock
<1>12. TypeOK'
  BY <1>1, <1>2, <1>3, <1>4, <1>8 DEF IInv, TypeOK, ratios, stretcher, clock
<1>13. QED
  BY <1>1, <1>3, <1>8, <1>9, <1>11, <1>12 DEF IInv, RingsWellFormed, NoHopLost,
     ReclaimBehind, Expected, stretcher

(* The loops' bookkeeping moves no ring. *)
LEMMA ControlStep ==
  ASSUME IInv, SampleEnd \/ Return
  PROVE  IInv'
<1>1. /\ UNCHANGED <<ratios, input, inter, output, stretcher, resampler, clock,
                     want, padding>>
      /\ pc' \in {"decide", "pop", "idle"} /\ progress' \in BOOLEAN
  BY DEF SampleEnd, Return, Again, IInv, TypeOK, call
<1>2. TypeOK'
  BY <1>1 DEF IInv, TypeOK, ratios, stretcher, resampler, clock
<1>3. QED
  BY <1>1, <1>2 DEF IInv, RingsWellFormed, NoHopLost, ReclaimBehind, TapsBehind,
     WithinBudget, OutputLimit, Expected, Center, stretcher, resampler, clock

(* A block of zeros for a stalled flush takes no more than fits. *)
LEMMA RepeatStep == ASSUME IInv, Repeat PROVE IInv'
<1> DEFINE chunk == MinOf(MaxBlock, Free(input))
<1>1. /\ UNCHANGED <<ratios, inter, output, stretcher, resampler, clock, want,
                     padding>>
      /\ pc' = "stretch" /\ progress' = FALSE
      /\ input' \in {input, Grow(input, chunk)}
  BY DEF Repeat, Again
<1>2. input \in Ring /\ WellFormed(input) /\ chunk \in Nat
  BY EngineAssumption, FifoAssumption
     DEF IInv, TypeOK, RingsWellFormed, MinOf, Free, Size, Ring, WellFormed
<1> HIDE DEF chunk
<1>3. input' \in Ring /\ WellFormed(input') /\ input'.start = input.start
  BY <1>1, <1>2, GrowRing
<1>4. TypeOK'
  BY <1>1, <1>3 DEF IInv, TypeOK, ratios, stretcher, resampler, clock
<1>5. QED
  BY <1>1, <1>3, <1>4 DEF IInv, RingsWellFormed, NoHopLost, ReclaimBehind,
     TapsBehind, WithinBudget, OutputLimit, Expected, Center, stretcher,
     resampler, clock

(* A pop moves only the read cursor of the output. *)
LEMMA PopStep == ASSUME IInv, PopOutput PROVE IInv'
<1>1. /\ UNCHANGED <<ratios, input, inter, stretcher, resampler, clock, padding>>
      /\ pc' = "stretch" /\ progress' = FALSE /\ want' = 0
      /\ output' = Pop(output, want)
  BY DEF PopOutput
<1>2. output' \in Ring /\ WellFormed(output') /\ output'.end = output.end
  BY <1>1, PopRing DEF IInv, TypeOK, RingsWellFormed
<1>3. TypeOK'
  BY <1>1, <1>2 DEF IInv, TypeOK, ratios, stretcher, resampler, clock
<1>4. QED
  BY <1>1, <1>2, <1>3 DEF IInv, RingsWellFormed, NoHopLost, ReclaimBehind,
     TapsBehind, WithinBudget, OutputLimit, Expected, Center, stretcher,
     resampler, clock

(* Nothing changes. *)
LEMMA StutterStep == ASSUME IInv, UNCHANGED vars PROVE IInv'
<1>1. UNCHANGED <<ratios, input, inter, output, stretcher, resampler, clock,
                  pc, call>>
  BY DEF vars
<1>2. QED
  BY <1>1 DEF IInv, TypeOK, RingsWellFormed, NoHopLost, ReclaimBehind,
     TapsBehind, WithinBudget, OutputLimit, Expected, Center, ratios, stretcher,
     resampler, clock, call

(* Every step keeps the invariant. *)
LEMMA NextIInv == IInv /\ [Next]_vars => IInv'
<1> SUFFICES ASSUME IInv, [Next]_vars PROVE IInv'
  OBVIOUS
<1>1. CASE Step
  BY <1>1, PadStep, FirstFrameStep, NextFrameStep, StretchEndStep, SampleStep,
     ControlStep, RepeatStep, PopStep DEF Step
<1>2. CASE Host
  BY <1>2, SetterStep, ResetStep, PushStep, PullStep, FlushStep DEF Host
<1>3. CASE UNCHANGED vars
  BY <1>3, StutterStep
<1>4. QED
  BY <1>1, <1>2, <1>3 DEF Next

(* The strengthened invariant holds of every behaviour. *)
THEOREM Invariance == Spec => []IInv
<1>1. Init => IInv
  BY InitIInv
<1>2. IInv /\ [Next]_vars => IInv'
  BY NextIInv
<1>3. QED
  BY <1>1, <1>2, PTL DEF Spec

-----------------------------------------------------------------------------
(* What the invariant says of the code. *)

(* Every variable of the engine keeps its type: positions and counts are   *)
(* never negative.                                                         *)
THEOREM TypeCorrect == Spec => []TypeOK
<1>1. IInv => TypeOK
  BY DEF IInv
<1>2. QED
  BY <1>1, Invariance, PTL

(* No ring overflows and no read cursor overtakes its write cursor. *)
THEOREM RingsSafe == Spec => []RingsWellFormed
<1>1. IInv => RingsWellFormed
  BY DEF IInv
<1>2. QED
  BY <1>1, Invariance, PTL

(* The unchecked pushes of emit_first_frame() and emit_overlap_frame() are *)
(* never refused.                                                          *)
THEOREM HopsArrive == Spec => []NoHopLost
<1>1. IInv => NoHopLost
  BY DEF IInv
<1>2. QED
  BY <1>1, Invariance, PTL

(* choose_candidate() always finds a candidate, and process_wsola_frame()  *)
(* never builds a frame from input that was dropped or has not arrived.    *)
THEOREM FramesLive == Spec => []FrameReadsLive
<1>1. IInv => FrameReadsLive
  BY CandidatesLive DEF FrameReadsLive
<1>2. QED
  BY <1>1, Invariance, PTL

(* process_resampler() never interpolates over discarded samples, so its   *)
(* jump to a later position is dead code.                                  *)
THEOREM SamplesLive == Spec => []TapsLive
<1>1. ASSUME IInv PROVE TapsLive
  <2>1. inter.start <= MaxOf(0, Center - HalfTaps - 2) /\ inter.start \in Nat
    BY <1>1 DEF IInv, TapsBehind, TypeOK, Ring
  <2>2. Center \in Nat /\ HalfTaps \in Nat
    BY <1>1, Rounding, EngineAssumption DEF IInv, TypeOK, Center
  <2>3. inter.start <= MaxOf(0, FirstTap)
    BY <2>1, <2>2 DEF MaxOf, FirstTap
  <2>4. QED
    BY <2>3 DEF TapsLive, SampleReady, LiveSpan
<1>2. QED
  BY <1>1, Invariance, PTL

(* A stream that reports drained has handed out round(sum of accepted      *)
(* frames times the time ratio at which each was accepted).                *)
THEOREM DrainExact == Spec => []DrainedIsExact
<1>1. ASSUME IInv PROVE DrainedIsExact
  <2>1. SUFFICES ASSUME Drained PROVE output.start = Round(accum)
    BY DEF DrainedIsExact
  <2>2. /\ flushing /\ target = Round(accum) /\ produced = output.end
        /\ produced <= target /\ produced >= target
        /\ output.end - output.start = 0
        /\ output \in Ring /\ produced \in Nat /\ target \in Nat
    BY <1>1, <2>1 DEF Drained, IInv, WithinBudget, OutputLimit, Size, TypeOK
  <2>3. QED
    BY <2>2 DEF Ring
<1>2. QED
  BY <1>1, Invariance, PTL

-----------------------------------------------------------------------------
(* The engine implements the stream of Stream.tla. *)

(* A fresh engine is a fresh stream. *)
LEMMA InitStream == Init => Promise!StreamInit
  BY DEF Init, EmptyRing, Promise!StreamInit

(* The variables of the stream, in the engine's terms. *)
LEMMA StreamStutter ==
  ASSUME UNCHANGED <<accum, produced, output, flushing, target>>
  PROVE  UNCHANGED Promise!streamVars
  BY DEF Promise!streamVars

(* An accepting push is an Accept. *)
LEMMA PushAccepts ==
  ASSUME IInv, NEW frames \in Blocks, Push(frames)
  PROVE  Promise!Accept
<1> DEFINE n == MinOf(frames, Free(input))
<1>1. n \in 1 .. Fifo
  BY EngineAssumption, FifoAssumption DEF Push, IInv, TypeOK, RingsWellFormed,
     MinOf, Free, Size, Ring, WellFormed
<1>2. accum' = accum + n * time /\ time \in TimeRatios /\ ~flushing
      /\ UNCHANGED <<produced, output, flushing, target>>
  BY DEF Push, IInv, TypeOK, resampler
<1> HIDE DEF n
<1>3. QED
  BY <1>1, <1>2 DEF Promise!Accept

(* A resampled frame is a Make, within the budget. *)
LEMMA SampleMakes == ASSUME IInv, Sample PROVE Promise!Make
<1>1. produced < OutputLimit /\ produced' = produced + 1
      /\ UNCHANGED <<accum, flushing, target>>
  BY DEF Sample, SampleReady, clock
<1>2. output'.start = output.start
  BY GrowRing DEF Sample, OldestTap, IInv, TypeOK, RingsWellFormed
<1>3. OutputLimit = Promise!Budget
  BY DEF OutputLimit, Promise!Budget, Floor
<1>4. QED
  BY <1>1, <1>2, <1>3 DEF Promise!Make

(* A pop is a Take, of nothing or of what is stored. *)
LEMMA PopTakes ==
  ASSUME IInv, PopOutput
  PROVE  Promise!Take \/ UNCHANGED Promise!streamVars
<1> DEFINE n == Popped(output, want)
<1>1. /\ output'.start = output.start + n
      /\ n \in 0 .. Fifo /\ output.start + n <= output.end
  BY PopRing DEF PopOutput, IInv, TypeOK, RingsWellFormed
<1>2. /\ UNCHANGED <<accum, produced, flushing, target>>
      /\ produced = output.end /\ output.start \in Nat
  BY DEF PopOutput, resampler, clock, IInv, WithinBudget, TypeOK, Ring
<1> HIDE DEF n
<1>3. CASE n = 0
  <2>1. output'.start = output.start
    BY <1>1, <1>2, <1>3
  <2>2. QED
    BY <1>2, <2>1 DEF Promise!streamVars
<1>4. CASE n # 0
  <2>1. n \in 1 .. Fifo /\ output.start + n <= produced
    BY <1>1, <1>2, <1>4
  <2>2. QED
    BY <1>1, <1>2, <2>1 DEF Promise!Take
<1>5. QED
  BY <1>3, <1>4

(* A first flush is an End. *)
LEMMA FlushEnds ==
  ASSUME Flush
  PROVE  Promise!End \/ UNCHANGED Promise!streamVars
<1>1. CASE flushing
  BY <1>1, StreamStutter DEF Flush, resampler
<1>2. CASE ~flushing
  BY <1>2 DEF Flush, resampler, Promise!End, Round
<1>3. QED
  BY <1>1, <1>2

(* Every other step of the engine is invisible. *)
LEMMA QuietStep ==
  ASSUME \/ Pad \/ FirstFrame \/ NextFrame \/ StretchEnd \/ SampleEnd
         \/ Repeat \/ Return
         \/ (\E r \in TimeRatios : SetTimeRatio(r))
         \/ (\E r \in PitchRatios : SetPitchRatio(r))
         \/ (\E n \in Pulls : Pull(n)) \/ UNCHANGED vars
  PROVE  UNCHANGED Promise!streamVars
<1>1. UNCHANGED <<accum, produced, output, flushing, target>>
  BY DEF Pad, FirstFrame, NextFrame, StretchEnd, SampleEnd, Repeat, Return,
     SetTimeRatio, SetPitchRatio, Pull, vars, resampler, clock
<1>2. QED
  BY <1>1, StreamStutter

(* Every step of the engine is one of the stream, or none. *)
LEMMA NextStream ==
  IInv /\ [Next]_vars => [Promise!StreamNext]_(Promise!streamVars)
<1> SUFFICES ASSUME IInv, [Next]_vars
             PROVE  Promise!StreamNext \/ UNCHANGED Promise!streamVars
  OBVIOUS
<1>1. CASE Step
  BY <1>1, SampleMakes, PopTakes, QuietStep DEF Step, Promise!StreamNext
<1>2. CASE Host
  <2>1. CASE Reset
    BY <2>1 DEF Reset, EmptyRing, Promise!StreamNext, Promise!Restart,
       Promise!StreamInit
  <2>2. QED
    BY <1>2, <2>1, PushAccepts, FlushEnds, QuietStep
       DEF Host, Promise!StreamNext
<1>3. CASE UNCHANGED vars
  BY <1>3, QuietStep
<1>4. QED
  BY <1>1, <1>2, <1>3 DEF Next

(* The engine implements the stream that boiledegg.h promises: output is   *)
(* paid for by accepted input, made once, handed out in order, and its     *)
(* length is fixed by the first flush.                                     *)
THEOREM Refinement == Spec => ExactStream
<1>1. Init => Promise!StreamInit
  BY InitStream
<1>2. IInv /\ [Next]_vars => [Promise!StreamNext]_(Promise!streamVars)
  BY NextStream
<1>3. QED
  BY <1>1, <1>2, Invariance, PTL DEF Spec, ExactStream, Promise!StreamSpec

-----------------------------------------------------------------------------
(* What a call leaves behind.  A call that returns in mid-stream went round *)
(* its loop until nothing moved; the invariant below says what each loop    *)
(* has left undone when it ends.                                            *)

(* What the stretcher waits for, but for the search's candidates. *)
Lookahead ==
  IF have_prev THEN Expected + Search + Window <= input.end
  ELSE input.start + Window + Search <= input.end

(* The stretching loop has ended: there is no room for a hop, or no        *)
(* lookahead, and then the input behind the next search is reclaimed.      *)
StretchDone ==
  HopFits =>
    /\ ~Lookahead
    /\ have_prev => input.start >= MinOf(input.end, Expected - Search)

(* How far the running call has come.  A round of the loop that made no    *)
(* progress has found both inner loops done.                               *)
LoopsDone ==
  /\ pc = "pad" => flushing
  /\ pc \in {"resample", "decide"} /\ ~progress => StretchDone
  /\ pc = "decide" => ~SampleReady
  /\ pc = "idle" /\ ~flushing => StretchDone /\ ~SampleReady

(* The stretcher waits for nothing but its lookahead. *)
LEMMA LookaheadReady == ASSUME IInv PROVE FrameReady <=> Lookahead
<1>1. CASE have_prev
  BY <1>1, CandidatesLive DEF FrameReady, Lookahead
<1>2. CASE ~have_prev
  BY <1>2 DEF FrameReady, Lookahead
<1>3. QED
  BY <1>1, <1>2

(* A fresh engine has nothing to do. *)
LEMMA FreshDone ==
  ASSUME input = EmptyRing, ~have_prev, produced = 0, accum = 0, ~flushing
  PROVE  StretchDone /\ ~SampleReady
<1>1. ~Lookahead
  BY EmptyRingOK, HopType, EngineAssumption DEF Lookahead
<1>2. OutputLimit = 0
  BY DEF OutputLimit, Floor
<1>3. QED
  BY <1>1, <1>2 DEF StretchDone, SampleReady

(* What neither loop looks at cannot wake it. *)
LEMMA DoneFrame ==
  ASSUME UNCHANGED <<input, inter, stretcher>>
  PROVE  StretchDone' = StretchDone
  BY DEF StretchDone, HopFits, Lookahead, Expected, stretcher

LEMMA ReadyFrame ==
  ASSUME UNCHANGED <<inter, output, resampler, clock>>
  PROVE  SampleReady' = SampleReady
  BY DEF SampleReady, OutputLimit, LastTap, Center, resampler, clock

(* The stretching loop ends as StretchDone says. *)
LEMMA StretchEndDone == ASSUME IInv, StretchEnd PROVE StretchDone'
<1>1. UNCHANGED <<inter, stretcher>> /\ have_prev' = have_prev
      /\ Expected' = Expected /\ HopFits' = HopFits
  BY DEF StretchEnd, stretcher, Expected, HopFits
<1>2. CASE ~HopFits
  BY <1>1, <1>2 DEF StretchDone
<1>3. CASE HopFits
  <2>1. ~Lookahead /\ input' = IF have_prev THEN Reclaimed ELSE input
    BY <1>3, LookaheadReady DEF StretchEnd
  <2>2. CASE ~have_prev
    BY <1>1, <2>1, <2>2 DEF StretchDone, Lookahead
  <2>3. CASE have_prev
    <3>1. Expected \in Nat /\ Search \in Nat /\ input \in Ring
      BY EngineAssumption, Rounding DEF IInv, TypeOK, Expected
    <3>2. input'.end = input.end
      BY <2>1, <2>3, ReclaimedRing
    <3>3. ~Lookahead'
      BY <1>1, <2>1, <2>3, <3>2 DEF Lookahead
    <3>4. Reclaimed.start >= MinOf(input.end, Expected - Search)
      <4> DEFINE floor == MaxOf(0, Expected - Search)
      <4>1. floor \in Int /\ Expected - Search <= floor
        BY <3>1 DEF MaxOf
      <4>2. Reclaimed = DiscardBefore(input, floor)
        BY DEF Reclaimed
      <4> HIDE DEF floor
      <4>3. QED
        BY <3>1, <4>1, <4>2 DEF DiscardBefore, MinOf, Ring
    <3>5. QED
      BY <1>1, <2>1, <2>3, <3>2, <3>3, <3>4 DEF StretchDone
  <2>4. QED
    BY <2>2, <2>3
<1>4. QED
  BY <1>2, <1>3

(* A step that leaves the loops at an earlier place has nothing to show. *)
LEMMA WorkLoops ==
  ASSUME IInv, LoopsDone,
         \/ (\E n \in Blocks : Push(n)) \/ (\E n \in Pulls : Pull(n)) \/ Flush
         \/ Pad \/ FirstFrame \/ NextFrame \/ Repeat \/ PopOutput
  PROVE  LoopsDone'
<1>1. \/ pc' = "stretch"
      \/ pc' \in {"pad", "idle"} /\ flushing'
  <2>1. ASSUME Pad PROVE flushing' /\ pc' \in {"pad", "idle", "stretch"}
    BY <2>1, Zenon DEF Pad, LoopsDone, clock
  <2>2. ASSUME Flush PROVE flushing' /\ pc' \in {"pad", "stretch"}
    BY <2>2, Zenon DEF Flush
  <2>3. QED
    BY <2>1, <2>2 DEF Push, Pull, FirstFrame, NextFrame, Repeat, PopOutput
<1>2. QED
  BY <1>1 DEF LoopsDone

(* The setters move nothing the loops look at; a reset leaves no stream. *)
LEMMA HostLoops ==
  ASSUME IInv, LoopsDone,
         \/ (\E r \in TimeRatios : SetTimeRatio(r))
         \/ (\E r \in PitchRatios : SetPitchRatio(r))
         \/ Reset \/ UNCHANGED vars
  PROVE  LoopsDone'
<1>1. CASE Reset
  <2>1. /\ input' = EmptyRing /\ ~have_prev' /\ produced' = 0 /\ accum' = 0
        /\ ~flushing' /\ pc' = "idle"
    BY <1>1 DEF Reset
  <2>2. ~Lookahead'
    BY <2>1, EmptyRingOK, HopType, EngineAssumption DEF Lookahead
  <2>3. OutputLimit' = 0
    BY <2>1 DEF OutputLimit, Floor
  <2>4. StretchDone' /\ ~SampleReady'
    BY <2>1, <2>2, <2>3 DEF StretchDone, SampleReady
  <2>5. QED
    BY <2>1, <2>4 DEF LoopsDone
<1>2. CASE ~Reset
  <2>1. UNCHANGED <<input, inter, output, stretcher, resampler, clock, pc,
                    progress, flushing>>
    BY <1>2 DEF SetTimeRatio, SetPitchRatio, vars, call, clock
  <2>2. StretchDone' = StretchDone /\ SampleReady' = SampleReady
    BY <2>1, DoneFrame, ReadyFrame
  <2>3. QED
    BY <2>1, <2>2 DEF LoopsDone
<1>3. QED
  BY <1>1, <1>2

(* Where the loops end. *)
LEMMA EndLoops ==
  ASSUME IInv, LoopsDone, StretchEnd \/ Sample \/ SampleEnd \/ Return
  PROVE  LoopsDone'
<1>1. CASE StretchEnd
  <2>1. pc' = "resample"
    BY <1>1 DEF StretchEnd
  <2>2. QED
    BY <1>1, <2>1, StretchEndDone DEF LoopsDone
<1>2. CASE Sample
  BY <1>2 DEF Sample, LoopsDone
<1>3. CASE SampleEnd
  <2>1. /\ pc = "resample" /\ pc' = "decide" /\ ~SampleReady
        /\ progress' = progress
        /\ UNCHANGED <<input, inter, output, stretcher, resampler, clock>>
    BY <1>3 DEF SampleEnd, call
  <2>2. StretchDone' = StretchDone /\ SampleReady' = SampleReady
    BY <2>1, DoneFrame, ReadyFrame
  <2>3. QED
    BY <2>1, <2>2 DEF LoopsDone
<1>4. CASE Return
  <2>1. /\ pc = "decide" /\ pc' \in {"pop", "idle"} /\ ~Again
        /\ UNCHANGED <<input, inter, output, stretcher, resampler, clock,
                       flushing>>
    BY <1>4 DEF Return, clock
  <2>2. StretchDone' = StretchDone /\ SampleReady' = SampleReady
    BY <2>1, DoneFrame, ReadyFrame
  <2>3. ~flushing => ~progress
    BY <2>1 DEF Again, FlushMet
  <2>4. QED
    BY <2>1, <2>2, <2>3 DEF LoopsDone
<1>5. QED
  BY <1>1, <1>2, <1>3, <1>4

(* Every step keeps it, and a fresh engine has it. *)
LEMMA NextLoops == IInv /\ LoopsDone /\ [Next]_vars => LoopsDone'
<1> SUFFICES ASSUME IInv, LoopsDone, [Next]_vars PROVE LoopsDone'
  OBVIOUS
<1>1. CASE Step
  BY <1>1, WorkLoops, EndLoops DEF Step
<1>2. CASE Host
  BY <1>2, WorkLoops, HostLoops DEF Host
<1>3. CASE UNCHANGED vars
  BY <1>3, HostLoops
<1>4. QED
  BY <1>1, <1>2, <1>3 DEF Next

LEMMA InitLoops == Init => LoopsDone
<1> SUFFICES ASSUME Init PROVE LoopsDone
  OBVIOUS
<1>1. StretchDone /\ ~SampleReady
  BY FreshDone DEF Init
<1>2. QED
  BY <1>1 DEF Init, LoopsDone

(* The loops' bookkeeping in every behaviour. *)
LEMMA LoopsInvariance == Spec => [](IInv /\ LoopsDone)
<1>1. Init => LoopsDone
  BY InitLoops
<1>2. IInv /\ LoopsDone /\ [Next]_vars => LoopsDone'
  BY NextLoops
<1>3. QED
  BY <1>1, <1>2, Invariance, PTL DEF Spec

(* A call of process_available() in mid-stream leaves nothing undone that  *)
(* its rings allow: what available() then reports is all there is.         *)
THEOREM CallsExhaust == Spec => []CallLeavesNothing
<1>1. IInv /\ LoopsDone => CallLeavesNothing
  <2> SUFFICES ASSUME IInv, LoopsDone PROVE CallLeavesNothing
    OBVIOUS
  <2>1. QED
    BY LookaheadReady DEF LoopsDone, CallLeavesNothing, StretchDone
<1>2. QED
  BY <1>1, LoopsInvariance, PTL

-----------------------------------------------------------------------------
(* What a stream's counts are while its ratios stay as they were at the     *)
(* reset.                                                                   *)

(* The resampler's ring keeps exactly the taps the next sample may need.   *)
TapsExact == inter.start = MaxOf(0, Center - HalfTaps - 2)

(* Until the flush the input's write cursor counts what the host pushed.   *)
FramesCounted ==
  /\ have_prev <=> hops > 0
  /\ ~flushing => input.end = pushed

(* Budget, positions and frames are products of the counts and ratios; the *)
(* last frame had its lookahead.                                           *)
FixedCounts ==
  changes = 0 =>
    /\ accum = pushed * time
    /\ resample_pos = produced * pitch
    /\ next_expected = hops * Advance
    /\ hops > 0 => Round((hops - 1) * Advance) + Search + Window <= input.end

Pace == TapsExact /\ FramesCounted /\ FixedCounts

(* One more of the same. *)
LEMMA OneMore ==
  ASSUME NEW n \in Nat, NEW m \in Nat, NEW r \in Nat
  PROVE  /\ (n + m) * r = n * r + m * r
         /\ (n + 1) * r = n * r + r
         /\ 0 * r = 0
  OBVIOUS

(* What the counts do not speak of may change. *)
LEMMA PaceFrame ==
  ASSUME Pace, input'.end = input.end \/ (flushing' /\ input'.end >= input.end),
         flushing => flushing', input.end \in Nat, input'.end \in Nat,
         Advance \in Nat, hops \in Nat,
         UNCHANGED <<ratios, inter, stretcher, resampler, accum, pushed>>
  PROVE  Pace'
<1>1. /\ Advance' = Advance /\ Center' = Center
      /\ UNCHANGED <<time, pitch, changes, have_prev, next_expected, hops,
                     resample_pos, produced>>
  BY DEF ratios, stretcher, resampler, Advance, Center
<1>2. TapsExact'
  BY <1>1 DEF Pace, TapsExact
<1>3. FramesCounted'
  BY <1>1 DEF Pace, FramesCounted
<1>4. FixedCounts'
  <2> DEFINE last == Round((hops - 1) * Advance)
  <2>1. hops > 0 => last \in Nat
    <3>1. ASSUME hops > 0 PROVE (hops - 1) * Advance \in Nat
      BY <3>1
    <3>2. QED
      BY <3>1, Rounding
  <2>2. last' = last
    BY <1>1
  <2> HIDE DEF last
  <2>3. hops > 0 /\ last + Search + Window <= input.end =>
          last + Search + Window <= input'.end
    BY <2>1, HopType, EngineAssumption
  <2>4. SUFFICES ASSUME changes = 0
                 PROVE  hops > 0 => last + Search + Window <= input'.end
    BY <1>1, <2>2 DEF Pace, FixedCounts, last
  <2>5. QED
    BY <2>3, <2>4 DEF Pace, FixedCounts, last
<1>5. QED
  BY <1>2, <1>3, <1>4 DEF Pace

(* The steps that move no stream position. *)
LEMMA QuietPace ==
  ASSUME IInv, Pace,
         \/ (\E n \in Pulls : Pull(n)) \/ Flush \/ StretchEnd \/ SampleEnd
         \/ Return \/ PopOutput \/ UNCHANGED vars
  PROVE  Pace'
<1>1. /\ input.end \in Nat /\ Advance \in Nat /\ hops \in Nat
      /\ input'.end = input.end
  <2>1. input.end \in Nat /\ Advance \in Nat /\ hops \in Nat
    BY AdvanceType DEF IInv, TypeOK, Ring
  <2>2. CASE StretchEnd
    <3>1. input' = input \/ (have_prev /\ input' = Reclaimed)
      BY <2>2 DEF StretchEnd
    <3>2. QED
      BY <2>1, <3>1, ReclaimedRing
  <2>3. CASE ~StretchEnd
    <3>1. input' = input
      BY <2>3, Zenon DEF Pull, Flush, SampleEnd, Return, PopOutput, vars
    <3>2. QED
      BY <2>1, <3>1
  <2>4. QED
    BY <2>1, <2>2, <2>3
<1>2. UNCHANGED <<ratios, inter, stretcher, resampler, accum, pushed>>
      /\ (flushing => flushing')
  BY DEF Pull, Flush, StretchEnd, SampleEnd, Return, PopOutput, vars, clock
<1>3. QED
  BY <1>1, <1>2, PaceFrame

(* The zeros of a flush come behind what was pushed. *)
LEMMA PadPace == ASSUME IInv, LoopsDone, Pace, Pad \/ Repeat PROVE Pace'
<1> DEFINE chunk == MinOf(padding, MaxBlock)
           block == MinOf(MaxBlock, Free(input))
<1>1. chunk \in Nat /\ block \in Nat /\ input \in Ring /\ WellFormed(input)
      /\ Advance \in Nat /\ hops \in Nat
  BY EngineAssumption, FifoAssumption, AdvanceType
     DEF IInv, TypeOK, RingsWellFormed, MinOf, Free, Size, Ring, WellFormed
<1>2. /\ UNCHANGED <<ratios, inter, stretcher, resampler, clock>>
      /\ input' = input \/ (flushing /\ input' \in {Grow(input, chunk),
                                                    Grow(input, block)})
  BY DEF Pad, PadChunk, Repeat, SelfPadding, LoopsDone
<1> HIDE DEF chunk, block
<1>3. input' = input \/ (flushing /\ input'.end >= input.end /\ input'.end \in Nat)
  BY <1>1, <1>2 DEF Grow, Ring
<1>4. input.end \in Nat /\ flushing' = flushing
      /\ UNCHANGED <<accum, pushed>>
  BY <1>1, <1>2 DEF Ring, clock
<1>5. QED
  BY <1>1, <1>2, <1>3, <1>4, PaceFrame

(* A changed ratio ends the regular stream; a reset begins another. *)
LEMMA HostPace ==
  ASSUME IInv, Pace,
         \/ (\E r \in TimeRatios : SetTimeRatio(r))
         \/ (\E r \in PitchRatios : SetPitchRatio(r))
         \/ Reset
  PROVE  Pace'
<1>1. CASE Reset
  <2>1. /\ inter'.start = 0 /\ input'.end = 0 /\ resample_pos' = 0
        /\ produced' = 0 /\ next_expected' = 0 /\ hops' = 0 /\ ~have_prev'
        /\ accum' = 0 /\ pushed' = 0
        /\ UNCHANGED <<time, pitch>>
    BY <1>1, EmptyRingOK DEF Reset
  <2>2. time \in Nat /\ pitch \in Nat /\ Advance' = Advance /\ Advance \in Nat
    BY <2>1, AdvanceType, EngineAssumption DEF IInv, TypeOK, Advance
  <2>3. TapsExact'
    BY <2>1, EngineAssumption DEF TapsExact, Center, Floor, MaxOf
  <2>4. FramesCounted'
    BY <2>1 DEF FramesCounted
  <2>5. 0 * time = 0 /\ 0 * pitch = 0 /\ 0 * Advance = 0
    <3> HIDE DEF Advance
    <3>1. QED
      BY <2>2, OneMore
  <2>6. FixedCounts'
    BY <2>1, <2>2, <2>5 DEF FixedCounts
  <2>7. QED
    BY <2>3, <2>4, <2>6 DEF Pace
<1>2. CASE ~Reset
  <2>1. /\ changes' = changes + 1 /\ changes \in Nat
        /\ UNCHANGED <<inter, input, resample_pos, have_prev, hops, flushing,
                       pushed>>
    BY <1>2 DEF SetTimeRatio, SetPitchRatio, IInv, TypeOK, resampler, stretcher,
       clock
  <2>2. QED
    BY <2>1 DEF Pace, TapsExact, FramesCounted, FixedCounts, Center
<1>3. QED
  BY <1>1, <1>2

(* A push earns its frames times the ratio. *)
LEMMA PushPace ==
  ASSUME IInv, Pace, NEW frames \in Blocks, Push(frames)
  PROVE  Pace'
<1> DEFINE n == MinOf(frames, Free(input))
           last == Round((hops - 1) * Advance)
<1>1. /\ n \in Nat /\ n <= Free(input)
      /\ input \in Ring /\ WellFormed(input)
      /\ time \in Nat /\ accum \in Nat /\ pushed \in Nat /\ hops \in Nat
      /\ Advance \in Nat
  BY EngineAssumption, FifoAssumption, AdvanceType
     DEF Push, IInv, TypeOK, RingsWellFormed, MinOf, Free, Size, Ring, WellFormed
<1>2. /\ input' = Grow(input, n) /\ accum' = accum + n * time
      /\ pushed' = pushed + n /\ ~flushing
      /\ UNCHANGED <<ratios, inter, stretcher, resampler, flushing>>
  BY DEF Push
<1>3. /\ UNCHANGED <<time, pitch, changes, have_prev, next_expected, hops,
                     resample_pos, produced>>
      /\ Advance' = Advance /\ Center' = Center /\ last' = last
  BY <1>2 DEF ratios, stretcher, resampler, Advance, Center
<1>4. input'.end = input.end + n /\ input.end \in Nat
  BY <1>1, <1>2, GrowRing DEF Ring
<1>5. TapsExact' /\ FramesCounted'
  BY <1>2, <1>3, <1>4 DEF Pace, TapsExact, FramesCounted
<1>6. hops > 0 => last \in Nat
  <2>1. ASSUME hops > 0 PROVE (hops - 1) * Advance \in Nat
    BY <1>1, <2>1
  <2>2. QED
    BY <2>1, Rounding
<1>7. (pushed + n) * time = pushed * time + n * time
  BY <1>1, OneMore
<1> HIDE DEF n, last
<1>8. hops > 0 /\ last + Search + Window <= input.end =>
        last + Search + Window <= input'.end
  BY <1>1, <1>4, <1>6, HopType, EngineAssumption
<1>9. FixedCounts'
  <2>1. SUFFICES ASSUME changes = 0
                 PROVE  /\ accum' = pushed' * time
                        /\ hops > 0 => last + Search + Window <= input'.end
    BY <1>3 DEF Pace, FixedCounts, last
  <2>2. accum' = pushed' * time
    BY <1>2, <1>7, <2>1 DEF Pace, FixedCounts
  <2>3. QED
    BY <1>8, <2>1, <2>2 DEF Pace, FixedCounts, last
<1>10. QED
  BY <1>5, <1>9 DEF Pace

(* A frame had its lookahead, and the next is due one advance later. *)
LEMMA FramePace == ASSUME IInv, Pace, FirstFrame \/ NextFrame PROVE Pace'
<1>1. /\ hops' = hops + 1 /\ have_prev' = TRUE /\ HopFits
      /\ inter' = Grow(inter, Hop)
      /\ UNCHANGED <<ratios, resampler, clock>>
  BY DEF FirstFrame, NextFrame
<1>2. /\ hops \in Nat /\ Advance \in Nat /\ next_expected \in Nat
      /\ input \in Ring /\ inter \in Ring /\ WellFormed(inter)
      /\ Hop \in Nat /\ Search \in Nat /\ Window \in Nat
  BY AdvanceType, HopType, EngineAssumption DEF IInv, TypeOK, RingsWellFormed
<1>3. /\ UNCHANGED <<time, pitch, changes, resample_pos, produced, accum,
                     pushed, flushing>>
      /\ Advance' = Advance /\ Center' = Center
  BY <1>1 DEF ratios, resampler, clock, Advance, Center
<1>4. inter'.start = inter.start
  BY <1>1, <1>2, GrowRing
<1>5. input'.end = input.end
      /\ next_expected' = (IF have_prev THEN next_expected ELSE 0) + Advance
      /\ (IF have_prev THEN Expected ELSE 0) + Search + Window <= input.end
  <2>1. CASE FirstFrame
    BY <1>2, <2>1 DEF FirstFrame, FrameReady, IInv, ReclaimBehind
  <2>2. CASE NextFrame
    <3>1. /\ have_prev /\ next_expected' = next_expected + Advance
          /\ Expected + Search + Window <= input.end
      BY <2>2 DEF NextFrame, FrameReady
    <3>2. PICK chosen \in Candidates :
            input' = DiscardBefore(Reclaimed, MaxOf(0, chosen - (Search + 2)))
      BY <2>2 DEF NextFrame
    <3>3. chosen \in Nat
      BY <3>1, CandidatesLive
    <3> DEFINE safe == MaxOf(0, chosen - (Search + 2))
    <3>4. safe \in Int
      BY <1>2, <3>3 DEF MaxOf
    <3>5. input' = DiscardBefore(Reclaimed, safe)
      BY <3>2, Zenon
    <3> HIDE DEF safe
    <3>6. input'.end = input.end
      BY <3>1, <3>4, <3>5, ReclaimedRing, DiscardRing
    <3>7. QED
      BY <3>1, <3>6
  <2>3. QED
    BY <2>1, <2>2
<1>6. TapsExact'
  BY <1>3, <1>4 DEF Pace, TapsExact
<1>7. FramesCounted'
  BY <1>1, <1>2, <1>3, <1>5 DEF Pace, FramesCounted
<1>8. FixedCounts'
  <2>1. SUFFICES ASSUME changes = 0
                 PROVE  /\ next_expected' = (hops + 1) * Advance
                        /\ Round(hops * Advance) + Search + Window <= input.end
    BY <1>1, <1>2, <1>3, <1>5 DEF Pace, FixedCounts
  <2>2. /\ (hops + 1) * Advance = hops * Advance + Advance
        /\ 0 * Advance = 0
    <3> HIDE DEF Advance
    <3>1. QED
      BY <1>2, OneMore
  <2>3. (IF have_prev THEN next_expected ELSE 0) = hops * Advance
    BY <1>2, <2>1, <2>2 DEF Pace, FixedCounts, FramesCounted
  <2>4. (IF have_prev THEN Expected ELSE 0) = Round(hops * Advance)
    <3>1. Round(0) = 0
      BY DEF Round
    <3>2. QED
      BY <2>3, <3>1 DEF Expected
  <2>5. QED
    BY <1>5, <2>2, <2>3, <2>4
<1>9. QED
  BY <1>6, <1>7, <1>8 DEF Pace

(* The taps behind the next position are dropped, no more and no fewer:    *)
(* they have all arrived.                                                  *)
LEMMA SamplePace == ASSUME IInv, Pace, Sample PROVE Pace'
<1> DEFINE keep == MaxOf(0, OldestTap(resample_pos'))
           next == Floor(resample_pos')
<1>1. /\ produced' = produced + 1 /\ resample_pos' = resample_pos + pitch
      /\ inter' = DiscardBefore(inter, keep)
      /\ UNCHANGED <<ratios, input, stretcher, clock>>
      /\ Center + HalfTaps < inter.end
  BY DEF Sample, SampleReady, LastTap
<1>2. /\ produced \in Nat /\ resample_pos \in Nat /\ pitch \in 1 .. 16
      /\ inter \in Ring /\ HalfTaps \in Nat \ {0}
      /\ inter.start = MaxOf(0, Center - HalfTaps - 2)
  BY EngineAssumption DEF IInv, TypeOK, Pace, TapsExact
<1>3. /\ UNCHANGED <<time, pitch, changes, have_prev, next_expected, hops,
                     accum, pushed, flushing>>
      /\ Advance' = Advance
  BY <1>1 DEF ratios, stretcher, clock, Advance
<1>4. next \in Nat /\ Center \in Nat /\ Center <= next /\ next <= Center + 4
  BY <1>1, <1>2 DEF Center, Floor
<1>5. keep = MaxOf(0, next - HalfTaps - 2) /\ Center' = next
  BY DEF OldestTap, Center
<1> HIDE DEF next, keep
<1>6. keep \in Nat /\ inter.start <= keep /\ keep <= inter.end
  BY <1>1, <1>2, <1>4, <1>5 DEF MaxOf, Ring
<1>7. inter'.start = keep
  BY <1>1, <1>2, <1>6 DEF DiscardBefore, MinOf, Ring
<1>8. TapsExact'
  BY <1>5, <1>7 DEF TapsExact
<1>9. FramesCounted'
  BY <1>1, <1>3 DEF Pace, FramesCounted
<1>10. (produced + 1) * pitch = produced * pitch + pitch
  BY <1>2, OneMore
<1>11. FixedCounts'
  BY <1>1, <1>3, <1>10 DEF Pace, FixedCounts
<1>12. QED
  BY <1>8, <1>9, <1>11 DEF Pace

(* Every step keeps the pace. *)
LEMMA NextPace == IInv /\ LoopsDone /\ Pace /\ [Next]_vars => Pace'
<1> SUFFICES ASSUME IInv, LoopsDone, Pace, [Next]_vars PROVE Pace'
  OBVIOUS
<1>1. CASE Step
  BY <1>1, PadPace, FramePace, QuietPace, SamplePace DEF Step
<1>2. CASE Host
  BY <1>2, HostPace, PushPace, QuietPace DEF Host
<1>3. CASE UNCHANGED vars
  BY <1>3, QuietPace
<1>4. QED
  BY <1>1, <1>2, <1>3 DEF Next

LEMMA InitPace == Init => Pace
<1> SUFFICES ASSUME Init PROVE Pace
  OBVIOUS
<1>1. TapsExact /\ FramesCounted
  BY EmptyRingOK, EngineAssumption
     DEF Init, TapsExact, FramesCounted, Center, Floor, MaxOf
<1>2. time \in Nat /\ pitch \in Nat /\ Advance \in Nat
  BY EngineAssumption, AdvanceType DEF Init
<1>3. 0 * time = 0 /\ 0 * pitch = 0 /\ 0 * Advance = 0
  <2> HIDE DEF Advance
  <2>1. QED
    BY <1>2, OneMore
<1>4. QED
  BY <1>1, <1>3 DEF Init, Pace, FixedCounts

(* Loops and counts in every behaviour. *)
LEMMA PaceInvariance == Spec => [](IInv /\ LoopsDone /\ Pace)
<1>1. Init => Pace
  BY InitPace
<1>2. IInv /\ LoopsDone /\ Pace /\ [Next]_vars => Pace'
  BY NextPace
<1>3. QED
  BY <1>1, <1>2, LoopsInvariance, PTL DEF Spec

-----------------------------------------------------------------------------
(* Streams of fixed ratios.  The hypotheses of the two theorems below name  *)
(* what a configuration must have for them.                                 *)

(* The analysis hop is a whole number of quarter frames.  The code counts  *)
(* in doubles, where it need not be; the model's rounding would drift.     *)
ExactAdvance ==
  \A t \in TimeRatios, p \in PitchRatios : (64 * Hop) % (t * p) = 0

(* The rings hold two windows and the taps of the resampler.  valid_config *)
(* asks for more: eight windows of at least 128 frames, and 20 taps.       *)
RoomyRings == Window >= 4 /\ Fifo >= 2 * Window + 2 * HalfTaps + 2

(* The half window that the declared latency counts makes up for the taps  *)
(* that the resampler waits for, at every pitch.                           *)
KernelCovered == \A p \in PitchRatios : 4 * HalfTaps <= p * Hop

(* Multiplying keeps an order. *)
LEMMA Multiplied ==
  ASSUME NEW x \in Int, NEW y \in Int, x >= y, NEW k \in Nat
  PROVE  x * k >= y * k
  OBVIOUS

(* The analysis hop, exactly. *)
LEMMA AdvanceExact ==
  ASSUME IInv, ExactAdvance
  PROVE  Advance \in Nat /\ (time * pitch) * Advance = 64 * Hop
<1>1. /\ time \in TimeRatios /\ pitch \in PitchRatios
      /\ time \in 1 .. 16 /\ pitch \in 1 .. 16
  BY EngineAssumption DEF IInv, TypeOK
<1>2. (64 * Hop) % (time * pitch) = 0
  BY <1>1 DEF ExactAdvance
<1>3. time * pitch \in Nat \ {0} /\ 64 * Hop \in Nat
  BY <1>1, HopType
<1>4. ASSUME NEW a \in Nat, NEW b \in Nat \ {0}, a % b = 0
      PROVE  a \div b \in Nat /\ b * (a \div b) = a
  BY <1>4
<1>5. QED
  BY <1>2, <1>3, <1>4 DEF Advance

(* What fills the input ring of a stretcher that has room to write. *)
LEMMA InputSpent ==
  ASSUME IInv, StretchDone, HopFits
  PROVE  Size(input) < 2 * Window
<1>1. /\ input.start \in Nat /\ input.end \in Nat /\ Expected \in Nat
      /\ Search \in Nat /\ Hop \in Nat /\ Search < Hop /\ Window = 2 * Hop
  BY EngineAssumption, HopType, Rounding DEF IInv, TypeOK, Ring, Expected
<1>2. CASE have_prev
  <2>1. /\ input.end < Expected + Search + Window
        /\ input.start >= MinOf(input.end, Expected - Search)
    BY <1>1, <1>2 DEF StretchDone, Lookahead
  <2>2. QED
    BY <1>1, <2>1 DEF Size, MinOf
<1>3. CASE ~have_prev
  <2>1. input.end < input.start + Window + Search
    BY <1>1, <1>3 DEF StretchDone, Lookahead
  <2>2. QED
    BY <1>1, <2>1 DEF Size
<1>4. QED
  BY <1>2, <1>3

(* A resampler that waits for input has used up its ring. *)
LEMMA TapsSpent ==
  ASSUME IInv, Pace, RoomyRings, LastTap >= inter.end
  PROVE  HopFits
<1>1. /\ inter.start \in Nat /\ inter.end \in Nat /\ Center \in Nat
      /\ HalfTaps \in Nat /\ Hop \in Nat /\ Window = 2 * Hop /\ Fifo \in Nat
      /\ inter.start = MaxOf(0, Center - HalfTaps - 2)
  BY EngineAssumption, FifoAssumption, HopType, Rounding
     DEF IInv, TypeOK, Ring, Center, Pace, TapsExact
<1>2. Size(inter) <= 2 * HalfTaps + 2
  BY <1>1 DEF LastTap, Size, MaxOf
<1>3. QED
  BY <1>1, <1>2 DEF HopFits, Free, Size, RoomyRings

(* Output paid for by q frames of input, of which h + 1 were stretched, has *)
(* passed all but the last hop.                                             *)
LEMMA TapsFollow ==
  ASSUME NEW t \in Nat \ {0}, NEW p \in 1 .. 16, NEW a \in Nat,
         NEW hop \in Nat, (t * p) * a = 64 * hop,
         NEW h \in Nat, NEW s \in Nat, s >= 4,
         NEW q \in Nat, 4 * q >= h * a - 1 + 4 * s,
         NEW n \in Nat, 4 * n >= q * t - 3,
         NEW c \in Nat, 4 * c >= n * p - 3
  PROVE  c >= h * hop
<1> DEFINE k == t * p
<1>1. k \in Nat /\ k >= p
  <2>1. t * p >= 1 * p
    BY Multiplied
  <2>2. QED
    BY <2>1
<1>2. (4 * n) * p >= (q * t - 3) * p
  BY Multiplied
<1>3. (q * t - 3) * p = q * k - 3 * p
  OBVIOUS
<1>4. (4 * n) * p = 4 * (n * p)
  OBVIOUS
<1>5. (4 * q) * k >= (h * a - 1 + 4 * s) * k
  BY <1>1, Multiplied
<1>6. (4 * q) * k = 4 * (q * k)
  BY <1>1
<1>7. (h * a - 1 + 4 * s) * k = 64 * (h * hop) - k + 4 * (s * k)
  <2>1. (h * a) * k = h * (k * a)
    BY <1>1
  <2>2. h * (64 * hop) = 64 * (h * hop)
    OBVIOUS
  <2>3. (h * a - 1 + 4 * s) * k = (h * a) * k - k + 4 * (s * k)
    BY <1>1
  <2>4. QED
    BY <2>1, <2>2, <2>3
<1>8. s * k >= 4 * k
  BY <1>1, Multiplied
<1> DEFINE np == n * p
           qk == q * k
           hh == h * hop
           sk == s * k
<1>9. np \in Int /\ qk \in Int /\ hh \in Int /\ sk \in Int
  BY <1>1
<1>10. /\ 4 * np >= qk - 3 * p
       /\ 4 * qk >= 64 * hh - k + 4 * sk
       /\ sk >= 4 * k /\ 4 * c >= np - 3
  BY <1>2, <1>3, <1>4, <1>5, <1>6, <1>7, <1>8
<1> HIDE DEF np, qk, hh, sk, k
<1>11. c >= hh
  BY <1>1, <1>9, <1>10
<1>12. QED
  BY <1>11 DEF hh

(* With the stretcher blocked by the intermediate ring, the resampler has  *)
(* either output to make or somewhere to put it.                           *)
LEMMA NeverStuck ==
  ASSUME IInv, Pace, changes = 0, ~flushing, ExactAdvance, RoomyRings,
         ~SampleReady, Free(output) > 0
  PROVE  HopFits
<1>1. /\ produced \in Nat /\ accum \in Nat /\ pushed \in Nat /\ hops \in Nat
      /\ time \in 1 .. 16 /\ pitch \in 1 .. 16 /\ Hop \in Nat
      /\ Window = 2 * Hop /\ Search \in Nat /\ HalfTaps \in Nat /\ Fifo \in Nat
      /\ Window >= 4 /\ Fifo >= 2 * Window + 2 * HalfTaps + 2
  BY EngineAssumption, FifoAssumption, HopType DEF IInv, TypeOK, RoomyRings
<1>2. CASE LastTap >= inter.end
  BY <1>2, TapsSpent
<1>3. CASE LastTap < inter.end /\ hops = 0
  <2>1. inter.end = 0 /\ inter.start \in Nat
    BY <1>1, <1>3 DEF IInv, TypeOK, Ring, NoHopLost
  <2>2. QED
    BY <1>1, <2>1 DEF HopFits, Free, Size
<1>4. CASE LastTap < inter.end /\ hops # 0
  <2> DEFINE h == hops - 1
             a == Advance
  <2>1. h \in Nat /\ a \in Nat /\ (time * pitch) * a = 64 * Hop
    BY <1>1, <1>4, AdvanceExact
  <2>2. produced >= Floor(accum)
    BY <1>1, <1>4, Rounding DEF SampleReady, OutputLimit
  <2>3. /\ accum = pushed * time /\ resample_pos = produced * pitch
        /\ Round(h * a) + Search + Window <= pushed
    BY <1>1, <1>4 DEF Pace, FixedCounts, FramesCounted
  <2>4. 4 * produced >= pushed * time - 3
    BY <1>1, <2>2, <2>3 DEF Floor
  <2>5. 4 * pushed >= h * a - 1 + 4 * (Search + Window)
    <3> HIDE DEF h, a
    <3>1. h * a \in Nat
      BY <2>1
    <3>2. 4 * Round(h * a) >= h * a - 1 /\ Round(h * a) \in Nat
      BY <3>1 DEF Round
    <3> DEFINE r == Round(h * a)
               ha == h * a
    <3>3. r + Search + Window <= pushed /\ 4 * r >= ha - 1 /\ r \in Nat
          /\ ha \in Nat
      BY <2>3, <3>1, <3>2
    <3> HIDE DEF r, ha
    <3>4. 4 * pushed >= ha - 1 + 4 * (Search + Window)
      BY <1>1, <3>3
    <3>5. QED
      BY <3>4 DEF ha
  <2>6. /\ Center \in Nat /\ 4 * Center >= produced * pitch - 3
    <3>1. produced * pitch \in Nat
      BY <1>1
    <3>2. QED
      BY <2>3, <3>1 DEF Center, Floor
  <2>7. Center >= h * Hop
    <3> HIDE DEF h, a
    <3>1. Search + Window \in Nat /\ Search + Window >= 4
      BY <1>1
    <3>2. QED
      BY <1>1, <2>1, <2>4, <2>5, <2>6, <3>1, TapsFollow
  <2>8. inter.end = h * Hop + Hop
    <3>1. inter.end = Hop * hops
      BY DEF IInv, NoHopLost
    <3>2. QED
      BY <1>1, <3>1
  <2>9. inter.start = MaxOf(0, Center - HalfTaps - 2)
    BY DEF Pace, TapsExact
  <2> DEFINE hh == h * Hop
  <2>10. hh \in Nat
    BY <1>1, <2>1
  <2> HIDE DEF h, a, hh
  <2>11. inter.end - inter.start <= Hop + HalfTaps + 2
    <3>1. Center >= hh /\ inter.end = hh + Hop
      BY <2>7, <2>8 DEF hh
    <3>2. QED
      BY <1>1, <2>6, <2>9, <2>10, <3>1 DEF MaxOf
  <2>12. inter.start \in Nat /\ inter.end \in Nat
    BY DEF IInv, TypeOK, Ring
  <2>13. QED
    BY <1>1, <2>11, <2>12 DEF HopFits, Free, Size
<1>5. QED
  <2>1. LastTap \in Int /\ inter.end \in Nat
    BY <1>1, Rounding DEF LastTap, Center, IInv, TypeOK, Ring
  <2>2. QED
    BY <1>2, <1>3, <1>4, <2>1

(* A stream whose ratios stay as they are is never stuck: when push has to *)
(* refuse for want of room, there is output to pull.                       *)
THEOREM RoomMade ==
  ASSUME ExactAdvance, RoomyRings
  PROVE  Spec => []PullMakesRoomFixed
<1>1. IInv /\ LoopsDone /\ Pace => PullMakesRoomFixed
  <2> SUFFICES ASSUME IInv, LoopsDone, Pace, changes = 0, pc = "idle",
                      ~flushing, Free(input) = 0, ~(Size(output) > 0)
               PROVE  FALSE
    BY DEF PullMakesRoomFixed, PullMakesRoom
  <2>1. StretchDone /\ ~SampleReady
    BY DEF LoopsDone
  <2>2. /\ Fifo \in Nat \ {0} /\ Window \in Nat /\ HalfTaps \in Nat
        /\ output.start \in Nat /\ output.end \in Nat
        /\ input.start \in Nat /\ input.end \in Nat
    BY FifoAssumption, EngineAssumption, HopType DEF IInv, TypeOK, Ring
  <2>3. Free(output) > 0
    BY <2>2 DEF Free, Size
  <2>4. HopFits
    BY <2>1, <2>3, NeverStuck
  <2>5. Size(input) < 2 * Window
    BY <2>1, <2>4, InputSpent
  <2>6. QED
    BY <2>2, <2>5 DEF Free, Size, RoomyRings
<1>2. QED
  BY <1>1, PaceInvariance, PTL

(* The arithmetic of the latency: q frames came in, n went out; the        *)
(* stretcher lacks lookahead and the resampler taps.                       *)
LEMMA BacklogBound ==
  ASSUME NEW p \in 1 .. 16, NEW a \in Nat, NEW hop \in Nat, a * p = 16 * hop,
         NEW h \in Nat, NEW s \in Nat, NEW half \in Nat, 4 * half <= p * hop,
         NEW q \in Nat, 4 * q <= h * a - 2 + 4 * s,
         NEW n \in Nat, 4 * (h * hop - half) <= n * p
  PROVE  q - n <= s + hop
<1> DEFINE hh == h * hop
           np == n * p
           ph == p * hop
           d == q - n - s - hop
<1>1. (h * a - 2 + 4 * s) * p >= (4 * q) * p
  <2>1. h * a - 2 + 4 * s \in Int /\ 4 * q \in Int /\ h * a - 2 + 4 * s >= 4 * q
    OBVIOUS
  <2>2. QED
    BY <2>1, Multiplied
<1>2. (h * a - 2 + 4 * s) * p = 16 * hh - 2 * p + 4 * (s * p)
  <2>1. (h * a) * p = h * (a * p)
    OBVIOUS
  <2>2. h * (16 * hop) = 16 * hh
    OBVIOUS
  <2>3. (h * a - 2 + 4 * s) * p = (h * a) * p - 2 * p + 4 * (s * p)
    OBVIOUS
  <2>4. QED
    BY <2>1, <2>2, <2>3
<1>3. d * p = q * p - np - s * p - ph
  OBVIOUS
<1>4. (4 * q) * p = 4 * (q * p)
  OBVIOUS
<1> DEFINE qp == q * p
           sp == s * p
           dp == d * p
<1>5. /\ hh \in Nat /\ np \in Nat /\ ph \in Nat /\ qp \in Nat /\ sp \in Nat
      /\ d \in Int /\ dp \in Int
  OBVIOUS
<1>6. /\ 4 * qp <= 16 * hh - 2 * p + 4 * sp
      /\ 4 * (hh - half) <= np /\ 4 * half <= ph
      /\ dp = qp - np - sp - ph
  BY <1>1, <1>2, <1>3, <1>4
<1>7. d >= 1 => dp >= 1 * p
  BY <1>5, Multiplied
<1>8. SUFFICES ~(d >= 1)
  OBVIOUS
<1> HIDE DEF hh, np, ph, qp, sp, dp, d
<1>9. QED
  BY <1>5, <1>6, <1>7

(* A stream at time ratio one whose pitch stays as it is never lags by     *)
(* more than the latency that realtime_latency() declares.                 *)
THEOREM LatencyKept ==
  ASSUME ExactAdvance, RoomyRings, KernelCovered
  PROVE  Spec => []LatencyCoversFixed
<1>1. IInv /\ LoopsDone /\ Pace => LatencyCoversFixed
  <2> SUFFICES ASSUME IInv, LoopsDone, Pace, changes = 0, pc = "idle",
                      time = 4, ~flushing, Free(output) > 0
               PROVE  pushed - produced <= RealtimeLatency
    BY DEF LatencyCoversFixed, LatencyCovers
  <2>1. StretchDone /\ ~SampleReady
    BY DEF LoopsDone
  <2>2. /\ produced \in Nat /\ pushed \in Nat /\ hops \in Nat
        /\ Hop \in Nat /\ Window \in Nat /\ Search \in Nat /\ HalfTaps \in Nat
        /\ pitch \in 1 .. 16 /\ pitch \in PitchRatios
        /\ Center \in Nat /\ inter.end \in Nat
    BY EngineAssumption, HopType, Rounding DEF IInv, TypeOK, Ring, Center
  <2>3. /\ accum = pushed * 4 /\ resample_pos = produced * pitch
        /\ have_prev => next_expected = hops * Advance
        /\ input.end = pushed
    BY DEF Pace, FixedCounts, FramesCounted
  <2>4. OutputLimit = pushed
    BY <2>2, <2>3 DEF OutputLimit, Floor
  <2>5. CASE produced >= OutputLimit
    BY <2>2, <2>4, <2>5 DEF RealtimeLatency
  <2>6. CASE produced < OutputLimit
    <3>1. LastTap >= inter.end
      BY <2>1, <2>2, <2>6 DEF SampleReady, LastTap
    <3>2. ~Lookahead
      BY <2>1, <3>1, TapsSpent DEF StretchDone
    <3>3. CASE ~have_prev
      <4>1. input.start = 0
        BY <3>3 DEF IInv, ReclaimBehind
      <4>2. QED
        BY <2>2, <2>3, <3>2, <3>3, <4>1 DEF Lookahead, RealtimeLatency
    <3>4. CASE have_prev
      <4> DEFINE a == Advance
      <4>1. a \in Nat /\ a * pitch = 16 * Hop
        <5>1. a \in Nat /\ (4 * pitch) * a = 64 * Hop
          BY AdvanceExact
        <5> HIDE DEF a
        <5>2. (4 * pitch) * a = 4 * (a * pitch) /\ a * pitch \in Nat
          BY <2>2, <5>1
        <5>3. QED
          BY <2>2, <5>1, <5>2
      <4>2. 4 * pushed <= hops * a - 2 + 4 * (Search + Window)
        <5>1. pushed < Expected + Search + Window
              /\ Expected = Round(hops * a)
          <6>1. Expected \in Nat
            BY Rounding DEF IInv, TypeOK, Expected
          <6>2. QED
            BY <2>2, <2>3, <3>2, <3>4, <6>1 DEF Lookahead, Expected
        <5> HIDE DEF a
        <5> DEFINE ha == hops * a
        <5>2. ha \in Nat
          BY <2>2, <4>1
        <5>3. Round(ha) \in Nat /\ 4 * Round(ha) <= ha + 2
          <6> HIDE DEF ha
          <6>1. QED
            BY <5>2 DEF Round
        <5>4. pushed < Round(ha) + Search + Window
          BY <5>1
        <5> HIDE DEF ha
        <5>5. 4 * pushed <= ha - 2 + 4 * (Search + Window)
          BY <2>2, <5>2, <5>3, <5>4
        <5>6. QED
          BY <5>5 DEF ha
      <4>3. 4 * (hops * Hop - HalfTaps) <= produced * pitch
        <5>1. Center + HalfTaps >= hops * Hop
          BY <2>2, <3>1 DEF LastTap, IInv, NoHopLost
        <5>2. 4 * Center <= produced * pitch
          <6>1. produced * pitch \in Nat
            BY <2>2
          <6>2. QED
            BY <2>3, <6>1, Rounding DEF Center
        <5>3. hops * Hop \in Nat /\ produced * pitch \in Nat
          BY <2>2
        <5>4. QED
          BY <2>2, <5>1, <5>2, <5>3
      <4>4. 4 * HalfTaps <= pitch * Hop
        BY <2>2 DEF KernelCovered
      <4>5. Search + Window \in Nat
        BY <2>2
      <4> HIDE DEF a
      <4>6. pushed - produced <= Search + Window + Hop
        BY <2>2, <4>1, <4>2, <4>3, <4>4, <4>5, BacklogBound
      <4>7. QED
        BY <2>2, <4>6 DEF RealtimeLatency
    <3>5. QED
      BY <3>3, <3>4
  <2>7. QED
    BY <2>2, <2>4, <2>5, <2>6
<1>2. QED
  BY <1>1, PaceInvariance, PTL

=============================================================================
