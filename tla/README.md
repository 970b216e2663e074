# Verification of boiled egg

boiled egg is a C/C++ library for time stretching and pitch shifting with CLAP
and VST3 adapters. This directory holds TLA+ models of its control logic, TLC
configurations that check them on small instances, and TLAPS proofs of their
most important invariants for every value of the constants. Paths below are
relative to the repository root; `src/engine.cpp:70` is line 70 of that file.

    tlc -config WsolaEngineSafety.cfg MCWsolaEngine      # a run
    tlapm EngineProofs.tla                               # a proof

PROJECT.json lists the runs, the lines each definition models, a mutant for
each property, the hazards of the code and the theorems.

## Inventory

| Part | Files | State | Operations |
|---|---|---|---|
| PlanarRing | src/engine.hpp | read and write cursor in absolute frames | push, pop, discard, get |
| WSOLA engine | src/engine.{hpp,cpp} | three rings, search and resample positions, output budget, end-of-input | push, pull, flush, reset, ratio setters |
| C API handle | src/boiled_egg.cpp, include/boiled_egg | I/O mode, ratio mailboxes (atomics), startup latency still owed, the engine | setters, parameter state, event batches, push/pull/flush, process_realtime, reset |
| Automation ramps | src/automation_api.inc, experimental/pv/pv_automation.inc | none of its own | push_ramps, process_realtime_ramps: validate all, then apply a prefix |
| Backends and configuration | src/backend.cpp, profile.cpp | which engine | configuration checks, latency, quality profiles |
| Spectral backend | src/spectral_backend.cpp | sticky fault, flushed | the engine interface over the phase vocoder |
| Phase vocoder | src/experimental/pv | rings, pitch timeline, frame task and its cursors in transforms and medians | push (with a budget of work per tick), pull, flush, ramps |
| Plugin processor | adapters/common/pitch_processor.cpp, pitch_controls.hpp | targets (atomics), applied and staged configuration, dry delay, fault | request, activate, process, reset |
| CLAP adapter | adapters/clap | gesture queue, processing flag, announced latency, window and timer | host callbacks of three threads |
| VST3 adapter | adapters/vst3 | host events, restart flags, view and timer | host callbacks |
| Editor | adapters/common/pitch_editor_x11.cpp | gesture under way, text being edited | mouse, wheel, keys, focus, timer |
| Preview transport | sdk/transport | source clock, controls, phase state, tail | create, render, seek, info |
| Research vocoder | research/cpp_pv_rt | rings, ratios | push, pull, flush, reset, setters |
| Everything else | include (C++ wrapper), other research, bench, eval, quality, apps, scripts | | a wrapper, experiments and measurements |

How they interact. A streaming host calls push/pull/flush on the handle; a
plugin host calls the adapter's process, which calls the processor, which calls
boiledegg_process_realtime. These are calls of one *audio owner*. A *control
thread* may at any time call the setters; it and the audio owner share the
mailboxes and the mode, and nothing else. In the plugin the *GUI thread* stores
into the processor's targets and writes the gesture queue, which the audio
thread empties into the host. The handle drives either engine, WSOLA or phase
vocoder; the latter's work on a frame is a coroutine that is resumed by budget.
Nothing blocks and nothing is persisted while running; there is no crash
recovery and no message loss. What is hard is:

* three rings in series, each with its own refusal, whose positions are real
  numbers that depend on ratios that change between any two calls;
* discarding: a ring answers a discarded frame with silence, so an index that is
  off by one is never noticed by the code;
* work in slices: a frame that is not finished in time is a failure that no
  later call can mend, and each slice must go on exactly where the last stopped;
* lock-free sharing with relaxed stores, look-then-act on the mode, and sets of
  values that are read one by one while another thread stores them;
* all-or-nothing event lists and ramps in front of rings that take a prefix;
* a queue at its limit in the middle of a gesture, with a host that refuses;
* a configuration that waits for a restart that only the host can make.

What makes each part correct: the rings never lose, skip or re-read a frame;
the output is exactly paid for by the input, and drains; calls return; a host
that pulls can push again; fixed I/O runs at time ratio one, has its frames in
time and returns full blocks; the getters and the engine agree; a refused call
changes nothing; what is accepted can be built; each gesture arrives bracketed
at the host, the host is told the values that the processor uses and the
latency it runs with, and someone asks for the restart a new configuration needs.

## Modules

| Module | Models | Used by |
|---|---|---|
| PlanarRing | the FIFO, as operators on records [start, end] | WsolaEngine |
| Stream | abstract: what a push/pull stream promises | WsolaEngine (refinement) |
| WsolaEngine | class Engine | MCWsolaEngine, EngineProofs |
| MCWsolaEngine | instances; the single schedule of the run `stuck` | the engine's runs |
| EngineProofs | theorems about the engine, and about configurations and settings | |
| Handle | boiled_egg.cpp: audio owner and control thread | MCHandle, HandleProofs |
| MCHandle | the calls and event lists of the instances | the handle's runs |
| HandleProofs | theorems about the handle | |
| Gestures | abstract: what the editor and its queue promise the host | UiQueue (refinement), MCComponents, GesturesProofs |
| GesturesProofs | theorems about that protocol | UiQueueProofs |
| UiQueue | editor, gui_edit, UiQueue, output_ui: two threads and a host | its own run, UiQueueProofs |
| UiQueueProofs | theorems about the queue, that it implements Gestures, and about the editor | |
| Plugin | Processor and the life cycle of both adapters, two threads | MCPlugin, PluginProofs |
| PluginProofs | theorems about the processor and its adapters | |
| HostEvents | the event lists of CLAP and VST3, as process() gets them | MCComponents, TransportProofs |
| Editor | PitchEditor with the windows of both adapters | MCComponents, UiQueueProofs |
| PitchTimeline | pitch_timeline.hpp, automation_curve.hpp: plan, nodes, the map of input to output | PvEngine |
| PvEngine | pv_rt.cpp, pv_execution.inc: cursors, frames, slices, flush | Spectral |
| Spectral | SpectralBackend, ramps, the handle's calls on it | MCSpectral, SpectralProofs |
| MCSpectral | the kinds of engine, blocks and batches of ramps of the instance | run `pv` |
| SpectralProofs | theorems about the vocoder behind the C API: its map, ramps and stretch, and what is refused | |
| Peaks | which bin is turned with which peak | MCComponents, SpectrumProofs |
| Fft | the transform, whole and cut by budgets | MCComponents |
| Medians | the rolling medians of fuzzy_phase | MCComponents |
| FrameSteps | how many steps a frame takes and is allowed | MCComponents, SpectrumProofs |
| SpectrumProofs | theorems about the owners of bins; that no frame takes too many steps; that the research engine is exact | |
| ResearchPv | research/cpp_pv_rt | MCComponents, SpectrumProofs |
| Transport | sdk/transport | MCComponents, TransportProofs |
| TransportProofs | theorems about the transport, and about the event lists of both formats | |
| Config | what configurations, settings and states are accepted, and what becomes of them | MCComponents, EngineProofs |
| MCComponents | instances of the parts that stand alone: a behaviour is about one of them | run `components` |

Some operators stand beside a variant whose comment says *Mutant*. No
specification uses it: it is a plausible bug, and the property named with it in
PROJECT.json fails when it takes the operator's place.

### WsolaEngine

The engine is single-threaded, so only calls could interleave; the model goes
further and takes one iteration of a loop per step (`pc`), so that invariants
hold in the middle of a call as well. The correspondence is

| Code | Model |
|---|---|
| push | Push, then the loops |
| pull | Pull (records how much is wanted), loops, PopOutput, loops |
| flush, feed_padding | Flush, Pad (one chunk per step; may end with BUFFER_FULL), loops |
| process_available | StretchEnd, SampleEnd, Repeat, Return |
| process_wsola_frame, emit_*_frame, choose_candidate | FirstFrame, NextFrame, Reclaimed, Candidates |
| process_resampler | Sample, OutputLimit, OldestTap |
| drained | Drained |

Numbers. Ratios, stream positions and earned output are counted in quarters, so
the ratio 4 is 1.0. The code uses doubles; the analysis hop is then rounded down to
a quarter, where the code keeps the fraction. No property depends on the
fraction, as Advance only needs to be a non-negative number for all of them.
Positions are bounded only by InputLimit in TLC and not at all in the proofs;
the 64-bit counters of the code do not wrap in the life of a stream.

Abstractions. Samples have no values. The candidate search prefers the best
correlation; the model takes any candidate that the search scores. Three
write-only members (`flush_padding_done_`, `last_start_`, `input_total_`) are
left out. `target_output_frames_` is read only once flushing, so its initial
value does not matter. Two branches of the code are left out because properties
show that they are never taken: the search's failure return (`FrameReadsLive`)
and the resampler's jump to a later position (`TapsLive`).

### Handle

The audio owner's calls are divided at each access to an atomic, and so are the
control thread's. Mailbox stores are relaxed: a store of the control thread goes
to `pending` and becomes visible by Commit at any later time, also after the
control thread's next load of the mode and in either order among the two
mailboxes. The audio owner's own store to a mailbox needs no such delay, as its
step may itself come arbitrarily late. The engine is any engine: a push may be
refused and a pull may come up short, so what is proved about the handle holds
for every backend that has no formant ratio and no CONTINUOUS flag.
`latency_remaining` and `fed` (history: frames accepted since the reset, up to
the latency) make the startup silence a relation between two counts. Values are
quarters again, and 99 stands for those outside the range. Batches and flushes
are given at offset 0; the refusal of any other offset is a plain argument check.
The calls reset (by contract never concurrent with another call) and the zero
frame process_realtime (a flush of parameters) are included.

### Gestures and UiQueue

`Gestures` is the protocol: a sequence of events, appended by the editor when
the reserve of gui_edit allows it, taken by the host. `UiQueue` is the code: an
array, two counters that wrap, the local variables of gui_edit and output_ui, and
the editor that ignores what a refused End or Value answers. A step makes at
most one access to shared state; the release store of `write` and the acquire
load on the other side make filled slots visible, so the model is sequentially
consistent for the slots. It is assumed that CLAP does not run `process` and
`flush` of one plugin at once, as its specification says, so output_ui has one
caller at a time. `Undelivered` maps the ring to the sequence.

### Plugin

One module for both adapters (`live` is CLAP, whose processor follows a new
configuration's values live) and both kinds of host (`overlap`: whether a call
of the main thread may fall into one of the audio thread). A snapshot of the
targets and a store of a set of values take one step per value, so a snapshot
may be torn. reset() looks twice, in needs_restart() and again for the values it
applies (pitch_processor.cpp:36), and so does the model: `ResetReads`, then
`ResetApplies`. Three parameters stand for the twelve: one that follows at once
(Formant) and two that wait for a restart (Backend, Policy), with the two rules
of valid_values that relate them. `audio` is what the engine was last given,
`configuration` what it was built for, `told` what the host knows of the
latency. Two history variables name what the properties except: `split`, that
the last reset() took values of another configuration than its first look had
seen, and `lapsed`, that a CLAP block failed before it looked whether a restart
is needed. Gains and the dry delay are left out.

### Spectral and PvEngine

An engine is a record of cursors and a call a function from engine to engine,
so that `Spectral` can say what the handle does with it: a push of a batch of
ramps and n frames, a pull, a flush, a realtime call, a reset, and a pitch that
another thread leaves in the mailbox between any two calls. What PvEngine keeps:

| Code | Model |
|---|---|
| push | PushOne per frame: Earn, then ProcessAvailable or Tick, then Deliver |
| process_available, process_frame | Latched, OverlapAdded: frames at once |
| engine::tick, frame_sequence's cursors | Tick: a frame is `left` steps of work, done by StepsPerInput per input |
| the cleanup of positions that are final | Drain, in parts as the stretched signal's ring has room |
| the resampler, copy, fixed or by the map | CopyThrough, Interpolate, MapAll |
| flush | FlushAll: the wanted lengths, then zero input until they are there or FlushGuard ends it (Feed) |
| pitch_timeline, automation_curve | Plan of ramps, nodes of input, output and pitch, interpolation |

Which work fills the steps does not matter to the cursors; how much it can be
is the subject of FrameSteps, and that it is cut without harm that of Fft and
Medians. `Spectral` takes the steps of each frame from a set that reaches the
limit StepsPerInput * Hop. Positions are counted in Unit * Unit parts of a
frame. The cursors were compared with those of
the compiled engine over random calls while the module was written.

### The smaller parts

* **HostEvents**: the list of a block as CLAP's input_events (one list by time)
  and VST3's parameter queues (one per parameter, sorted stably by the adapter).
* **Editor**: what is grabbed, the gesture's parameter, the number being typed,
  and the callbacks' answers (the host may refuse each edit); in CLAP the host
  creates, parents, shows, hides and destroys the window, in VST3 it attaches
  and removes the view. Between any two events, and between any two looks that an
  event takes at the values, the audio thread may store any value of any control
  it may automate: VST3 automation judged against the running engine leaves
  targets that are not valid together (plugin_pending), and a look may fall into
  a set that is being stored. So a value clamped by one look (pitch_editor_x11.cpp:52)
  may be refused by the next (pitch_processor.cpp:6). EditorSound asks that a value
  be taken only when both looks saw the same, the control is enabled, and some
  value of it goes with the others. Where none does, range() has a lower end above
  its upper one, std::clamp has no defined result, and request() refuses
  whichever of the two ends is sent; the model sends one of them.
* **Peaks**: the peaks of a spectrum and the pass that gives every bin the nearest.
* **Fft**: the transform with its cursor (stage, position, length, base, column)
  over the numbers modulo 17, which have a root of unity of order 16: the
  butterflies are exact and the result can be compared with the definition of a
  transform. The short cuts for blocks of two and four are those of the code.
* **Medians**: rings of frames and windows kept in order by removing one value
  and inserting one.
* **FrameSteps**: the yields of frame_sequence and its subsequences, counted loop
  by loop, against the constructor's bound.
* **Transport**: render frame by frame with what it reads ahead, controls with
  their ramps, seeks, the end of the source and the tail.
* **Config**: the checks as operators, with the 32-bit sum of valid_config as a
  remainder by Word (2^24 in the instance, as TLC's integers are narrow), and
  what the constructors then demand.
* **ResearchPv**: cursors and rings of the older engine, one step a turn of the
  loops of push and flush, with the guard of the latter. Set_ratio is taken while
  the ratio has moved by MoveLimit quarters at most since the stream began.
  Inputs and counters are whole, ratios and what they add up to in quarters.

## Runs

| Run | Instance | Checks | Distinct states |
|---|---|---|---|
| safety | rings of 28, window 8, pushes of 9, 63 frames of input, three time ratios, two pitch ratios, one change | type, rings, no hop lost, live reads and taps, nothing left behind, exact drain; while ratios have not changed, pulling makes room and the declared latency covers | 2,886,735 |
| stream | rings of 16, window 4, pushes of 5 and 17, two time and two pitch ratios, one change, fairness | refinement of Stream, calls return, flush drains | 155,832 |
| stuck | window 128, search 8, rings of 1152, 20 taps: a legal configuration of the library | pulling makes room: **violated** | |
| latency | the default window, taps and rings (search narrowed to 16), blocks of 256, pitch changed up to twice between 1 and 1/4 | declared latency covers: **violated** | |
| races | all contracts, blocks of 3 frames, latency 4, six control calls, six event lists, two flushes | one contract, time ratio one, in sync, full blocks, startup silence | 1,459,463 |
| setter | auto handles, setters | the comment on the race: **violated** | |
| output | auto handles, valid event lists | output always initialised: **violated** | |
| queue | two parameters, two values, three slots, counters that wrap at 6, fairness | slots private, host told, refinement of Gestures, an ended gesture ends at the host | 151,108 |
| plugin | both adapters, calls that overlap and calls that do not, five event lists, one call that edits | what the engine gets is usable, also after a reset that looked twice, groups stay valid, host knows the latency, targets valid together, a restart is asked for | 4,012,170 |
| plugin_pending | VST3, no overlap, two edits | targets valid together: **violated** | |
| components | each small part by itself, see below | brackets at the host; owners of bins; adapters agree; transport, configuration, settings, research engine, slices of work, editor | 117,043 |
| pv | nine ways to make an engine: frames of 8 with hop 2, streams of 24 to 42 frames, four batches of ramps, two changes | never faults, never late, rings hold, stretch bounded, a refusal keeps | 51,471 |

Why the bounds are enough.

* **safety.** A window of 8 with half a kernel of 2 is the smallest in which
  half a window outweighs the kernel's lookahead at the lowest pitch, as it does
  in every default; rings of 28 hold three windows and a push of 9 is more than
  one, so all three rings meet their limits, and 63 frames are more than two
  ringfuls. The engine's own properties need none of the 8 windows and 2
  blocks of a legal ring. PullMakesRoomFixed and LatencyCoversFixed speak of
  streams whose ratios have been the same from the start, which is what makes
  them true (see `stuck` and `latency`).
* **stream.** A push of 17 is accepted in part, the time ratio 3 leaves earned
  fractions of a frame, and the pitch ratio 1 (two octaves down) lets a hop
  make more samples than are earned, so that the output budget binds; a flush's
  padding fits only while little input is left, so both of its results occur.
* **races.** The block of 3 frames has an event at its start, middle and last
  frame, and the latency is longer than a block.
* **queue.** Three slots are what a Begin needs to find room; wrap at twice
  the size lets both counters wrap independently of the slots. Every behaviour
  with two parameters is covered, as more only repeat the reserve's rule.
* **plugin.** One call that edits on the main thread, up to three targets
  stored one at a time, may fall anywhere into a process, a flush or its checks
  on the audio thread; blocks, restarts and resets are not bounded.
* **pv.** Window to hop is 4 : 1 as in the library. The FIFO is 64 frames and the
  reserve 32, half of the real 16 and 8 windows and so harder; the reserve
  exceeds the realtime latency (30), as the code's does. Calls bring 3
  frames, 7 where each frame makes two, which fills the FIFO within 35. The
  kinds are static engines (with the highest and lowest stretch), continuous
  pitch, continuous time (streams only) and the two realtime ones; the ramps
  reach both ends of pitch and time, overlap and are cut. FlushGuard is three
  windows where the code has 96 and more: a flush needs no more zeros.
  A realtime handle refuses flush, so the flush of a scheduled engine, which
  the code contains, is never reached.
* **components.** Gestures: two parameters, room for 7. Peaks: six bins and all
  spectra of four levels. HostEvents: up to four events in and out of a block
  of 2. Transport: window 8, kernel of 4 taps, sources of 0, 5 and 13 frames,
  48 frames of output, each block compared with itself cut at every frame,
  with the events on the cut on either side.
  Config: every limit of the audio side from both sides, all backends with two
  shapes of audio. ResearchPv: a FIFO of 24 for windows of 8, the smallest
  that ResearchSizes allows with a hop of 3 and harder than the real one, so that
  push and flush overflow and positions pile up behind it; the caller then
  pulls. The ratio may go from one end to the other and half way back. Fft: 16
  numbers, budgets of 1 to 9 that cut every short cut. Medians: five bands,
  radius 2, history 3, so windows are cut at both edges. FrameSteps: 2,880
  engines with the smallest and the largest window. Editor: two backends with
  different limits, so that a value may fall out of range under the mouse;
  automation leaves the targets in any combination between events, and inside
  an event stores before any one of its first four looks, or none
  (`Meanwhile`).

Deadlock checking is off where a system may stop: in `stuck`, whose host has no
call left; in `plugin`, `plugin_pending`, `pv` and `components`, whose bounds on
input and edits end behaviours.

### What the violated runs show

* **stuck.** Frames accepted at a low time ratio earn little output time; the
  stretcher runs at the ratio of the moment at which its lookahead is complete. A
  host that alternates ratios legally can so fill the intermediate ring with
  frames that are not paid for. Then the stretcher has no room, the resampler no
  budget, the input fills, push accepts nothing, and since only accepted input
  earns budget, nothing moves until flush or reset. A C++ program with this
  schedule stops after about 1500 frames. docs/SDK_PREVIEW.md and two tests
  state that draining the output cures back-pressure. The schedule is fixed
  (MCWsolaEngine!Tease), because it needs some thousand calls.
* **latency.** `realtime_latency` is window + search + half a window. A hop made
  at a low pitch ratio takes in much input and makes samples for all of it at
  once, more than are paid for yet; if the pitch goes up before these are
  resampled they make fewer, and the output falls behind by more than the
  declared latency. A C++ program with the default configuration that
  alternates two octaves down and unison returns REALTIME_UNDERRUN from frame
  3008 on. The search is narrowed in the run because each candidate is a branch;
  `safety` shows that the latency is enough as long as the
  pitch stays. (It is not for the very smallest windows: the formula leaves
  out the resampler's lookahead of 20 taps over the pitch ratio, which half a
  window has to make up for; with window 128 at two octaves down it does not.)
* **setter.** The comment in process_realtime says that the losing setter reports
  UNSUPPORTED_MODE. If it looked at the mode before the audio owner entered
  it, it has already returned OK.
* **output.** The documented promise does not hold on the early returns.
* **plugin_pending.** A comment in Processor::process() says that automation
  leaves the targets valid. In VST3 a block is judged against the running
  configuration only: while another one waits for its restart, a formant that
  is fine for the running engine is stored beside a backend that has none. The
  set that results can be neither saved nor activated. In CLAP, which judges the
  targets, it cannot happen without overlap (`SettledValid` in `plugin`).

## Fairness

* Engine: WF of each internal step (a call that runs goes on), and SF of pull,
  for a host that keeps asking for output. Nothing is assumed of pushes,
  flushes or setters.
* Queue: WF of the GUI thread's and of the audio thread's steps (the editor's
  calls end, the host keeps calling process or flush, which gui_edit requests),
  and SF of Accept: a host that refuses one event for ever is outside the
  promise. Nothing is assumed of the user.
* Plugin: none. That a restart comes is up to the host; what the code owes is
  that it was asked for, and `RestartAsked` says so as an invariant.
* Phase vocoder, transport: none. Their loops are functions here, and what
  would be their liveness is that a flush delivers its exact length (a fault if
  it does not) and that a transport that has ended was heard to its end.

## Proofs

All proofs are for every value of the constants that the named assumptions
allow. `EngineAssumption` is weaker than valid_config (any even window, a search
shorter than half of it, any ring size), `HandleAssumption`,
`GestureAssumption` and `PluginAssumption` state types only, `PeaksAssumption`
that there are bins, `SpectralSizes` what the backend's tables and validate_config() make sure of (below),
`TransportSizes` that windows are of four hops and a kernel
reaches less than two of them ahead (the code: 512 frames and 32 taps),
`EventTypes` that no automatable parameter is structural and types,
`ResearchSizes` that the research engine's rings and guard are large enough for the
moves of the ratio (below), `ConfigTypes` and `EditorLimits` state types only, the latter that what the audio
thread stores inside an event are values of their controls (ASSUMEs
in MCComponents have TLC confirm these five of the instances). `QueueAssumption` asks for three slots (a Begin keeps room
for two more events) and for counters that wrap at a multiple of the ring's
size, which the code has as 1024 divides 2^32.

**Engine.** RingsWellFormed, NoHopLost and the two liveness-of-reads properties are
not inductive: whether a read is live depends on how far earlier calls have
discarded. `IInv` adds

* ReclaimBehind: the read cursor of the input never passes the expected
  position of the next search (nor 0 before the first frame),
* TapsBehind: that of the intermediate ring never passes the oldest tap
  kept for the next sample,
* WithinBudget: the samples produced are the write cursor of the output, within what is earned, and
  a flushed stream's target is the rounded sum.

`Invariance` proves Spec => []IInv with one lemma per action; lemmas on Grow,
DiscardBefore, Pop and on rounding carry the arithmetic. From it follow
TypeCorrect, RingsSafe, HopsArrive, FramesLive, SamplesLive, DrainExact. The
last theorem, `Refinement`, proves Spec => ExactStream: each step maps to a step of
Stream or to none, which needs WithinBudget for Make and the rings for Take.

`LoopsDone` says what each place in a call has already done: behind the loop of
hops none is possible any more, and behind the loop of samples none of these
either. `CallsExhaust` (CallLeavesNothing) follows. `Pace` adds, for streams whose
ratios have not changed since the reset, how far hops, samples and the search
have come by the numbers: the hops' analysis positions and the resampler's
centre are then linear in their counts. `RoomMade` concludes that when push has
no room there is output to pull, and `LatencyKept` that the lag stays within
realtime_latency(). Their hypotheses are part of the theorems: ExactAdvance (the
analysis hop is a whole number of quarter frames, since the model rounds where the
code keeps doubles), RoomyRings (two windows and the taps, far below the eight
windows of valid_config), and for the latency KernelCovered (at the pitch p,
p * Hop reaches four times the taps; the default window has 512 against 40 at
two octaves down). Without the last one the declared latency is indeed too short.

**Handle.** `IInv` adds what a call's position says about the mode (ModeFits),
that lists under way are valid (ListsFit), that the history flag is honest
(CalmQuiet), half-finished synchronisations (SyncSoFar) and that the cursor is
what has been written (WrittenSoFar). From `Invariance` follow TypeCorrect, ContractKept,
UnityKept, SyncKept, OutputKept, SilenceKept.

**Gestures.** `GestureInv` is inductive by itself: Bracketed for the events in
the queue, Closes for the end of the queue and RoomToEnd for the reserves.

**UiQueue.** `QueueInv` relates the two counters, which wrap, to the slots: the
number of published slots is their difference modulo Wrap and never above Size,
what the editor has still to do is in step with its gesture (TodoFits), the room
that gui_edit found stays until it is used and a gesture under way has room to
end (RoomHeld), and output_ui offers no more than is published (OfferHeld).
`SlotsPrivate` follows by arithmetic on remainders: the slot at `write` differs from
every slot between `read` and `write`. `QueueKeepsPromise` maps the ring to a
sequence and proves that each step is a step of Gestures or none, so that
`BracketsDelivered` needs no argument of its own. `ToldEverything` needs to know,
for each parameter, that the last value for it in the queue, or what the host
was told if there is none, is the processor's target (ToldSoFar), except while
the processor has a value that gui_edit has yet to queue.

**Plugin.** `PluginTypes` fixes what a call can be at each place. `Alone` is what a
host whose calls do not overlap buys: one call is under way, what it has read
is still there, and a reset that goes on has found the engine's configuration.
`EngineFits` holds for both kinds of host: the engine's values are valid, its
setters take them, they are of its configuration unless a reset of an overlapping
CLAP host was `split`, and the groups that a block has still to apply are valid
on what it works with; in VST3 this is what the engine has, and the groups
leave the configuration alone. From it follow `AudioStaysUsable` and
`GroupsNeverRefused`. `Settled` (the targets are valid but while a set is being
stored, and valid with the rest of that set then) gives `TargetsSettle`. `Owed`
gives `RestartIsAsked`: for every parameter of the configuration that differs from
the engine's there is a request, or a call that will still look at it or has
just seen it (WillSee), so of two threads that store and check in any order
the last to store looks after it stored. What is excused (Excused) is a CLAP block
whose engine fails after it published a configuration: process() of the adapter
returns an error before it looks, and nobody has asked until the audio thread
looks again. `LatencyKnown` rests on the announced
latency being what the host was told.

What a list of groups does to values is a recursive function, and lists have any
length here. The library's induction theorems take operators, which the provers
cannot instantiate, but the least element of a set of numbers can be had from
the well-foundedness of Nat as a fact about sets (LeastOf, SetInduction);
AfterIs, AfterTail and RestValid are proved with it.

**Peaks.** A bin in the middle of the pass has no owner yet that one could
argue about. `Halfway` says of the bins before `begin` that they have their
nearest peak, and of the peaks already served that none is nearer to a later
bin than the next one; with that, PeaksOwned holds for every number of bins and
every course of spectra.

**FrameSteps.** `StepsBounded` compares the loops of a frame with the allowance
pool by pool: those of a channel, of the envelope and those shared. All terms
of the transforms cancel. The shared pool by itself is too small when phases
are predicted for all channels at once; the surplus of each channel, which then
predicts none of its own, pays for it (ChannelSurplus), and there is at least
one channel. `FramesInTime` adds that rounding up the steps per input loses none.
It is proved for all even windows from 16 frames on, where the run tries
2,880 engines. (The code keeps the bound in 32 bits, which it reaches for no
window that can be made.)

**Transport.** `Good` is inductive over output frames, and so over blocks of any
length. `Own` says that the last lap of finished samples is in the ring, each
in its slot; `Paced` that synthesis is between three samples late and a hop
ahead before an output frame, as pitch moves the kernel by at most four samples;
`Heard` bounds how far source audio reaches (Reached): it falls behind as the
tail is counted, at one quarter of a sample a frame in the worst case, which is
why a tail of four windows is enough two octaves down. Two synthesis frames
then always suffice (FewDue), the taps are between the ends of the ring, and
at the end nothing audible is in it or in the overlap buffer. That a block may be
cut is proved along the two courses of controls and samples (TwoParts,
SplitFollows). `SoundTransport` puts these together.

**Config.** `SoundConfig` is about pure functions: for every shape and backend
configuration whatever, the checks of validation are compared one by one with
those of the spectral constructors, before and after the engine's sizes are
scaled with the rate (EngineValid, ExtrasValid), with what the WSOLA profiles
make of the windows (Transient, Efficient) and with what is advertised.
`TakenSettingsHold` needs an invariant: SettingsReach speaks of the current
settings only, and StateRestores says nothing of handles whose time is
continuous, so `HandleFits` keeps for all handles that the configuration was valid
and that each setting lies in the limits, reaches the engine and, in a realtime
handle, leaves the time at one. TLC tries 4,000 configurations, the theorems cover all.

**Editor.** An event is a chain of small functions of the values and the gesture
(Ended, Begun, Valued, Clicked), each with looks between which the audio thread
may store. Each has a lemma that it keeps `Fit`: every value one of its control,
though they need not be valid together, a gesture of which the host agrees that
it is open, nothing sent out of order. `ClampValid` is where the ranges count:
what range() leaves is valid with the other values as they are, whichever limit
binds, if the control is enabled, any value of it is valid with the others
(HasRoom) and request() sees what value() saw. Between events `Settled` adds that
what is open belongs to a slider and that typing implies a gesture. EditorSound by itself is not inductive: that a
window never appears without its timer needs to know that a CLAP editor is
created with it (LifeOK).

**ResearchPv.** The surplus (Surplus) is what the input so far and the padding up to the
next window are worth at the present ratio, past what is synthesised. A frame of
input, a frame synthesised and a drain leave it as it is, as all of them are
counted with one ratio; set_ratio shifts it by what the ratio moves times the frames to
the next window, at most half a window of them. `Near` bounds it by the moves so
far, so the wanted length is never far from what has been synthesised: the
positions in the overlap-add ring stay within it (NotLapped), and the zeros that
flush feeds are enough. `Fuel`, what is left of the guard less what is still to be
synthesised, is a constant of flush's loop; the loop ends by completion while it
is above one hop. `Backlog` says that what is due and not handed on is at most a
hop's worth unless the FIFO is full, so a flush that ends without an overflow has
delivered all. `ResearchStaysExact` follows for every window, hop and ring that
ResearchSizes allows, for a caller that pulls the FIFO empty after an overflow
(the guard of Push). Its bound on the moves is real and no artefact of the proof:
a stream that is always stretched at the frame that completes a window and
compressed in between synthesises positions that its input does not pay for;
they wait in the ring and after enough windows lap it (TLC finds this with a
ring of 40 and no bound on the moves, and none with a bound of 15). With the code's
sizes, a window of 2048 and a hop of 256, the theorem covers moves of 94 quarters
in all, six times from end to end. Nothing the repository says speaks about
ratios that move more often in one stream, so this is no finding, but the
next user of set_ratio there should know.

**Spectral.** `Keeping` is inductive, and has four parts.

* The engine's frame is in its map (Running, InMap): while no call has failed,
  the input frame that the next analysis frame starts with is one of the last
  Nodes points of the timeline. Every place where the code reads a point by
  index rests on it, as a ring answers for any index.
* The plan is the engine's (Planned): the targets of its two ramps are the
  ratios that the engine was last given, and the time of an engine that does
  not vary it never moves.
* The plan is Safe: the higher ends of pitch and time multiply to two at most.
* The pitch that waits in the mailbox is one the engine may take (Settable).

StretchBounded by itself is not inductive, as a value on its way says nothing of
where its ramp leads. With a batch it is not even kept by each ramp: between two
ramps of one offset the product may be above two (Driven is Fit without that part).
What counts is where frames are pushed, and how far: a FIFO that fills cuts the batch
after any frame. `PushFramesFit` says that the plan after k accepted frames
is that of `Leads`, which validate_ramps() went through, at the last ramp before
k (Cut), and as many ticks later; `CutIsSafe` that such a plan is safe wherever
the push is cut, as a ramp moves between its ends (AfterIsSafe); and
`FollowedKeeps` that the mailbox then holds the pitch of the last ramp that took
effect, which a next call will glide to, and no other. The lemmas about what
each operator of the engine keeps (Delivers, Keeps, Fed, Grown) carry this
through frames made at once or in slices, both resamplers, the loop of a flush
and the chunks of a realtime call. `StretchIsBounded` follows for any engine of
any size, and any batches: SpectralSizes asks only for ratios between a half and
two with a product of two at most, for time that ramps in streams alone
(boiledegg_validate_backend_config and enable_time_automation see to both), for a hop
of half a window at most and for types.

`RefusalIsClean` is an action property. A push with ramps reports no frame accepted
and a full FIFO only from the look before the mailbox is read; that the look inside
the loop cannot report it as well is FullAccepts (setting a ratio changes
nothing that CanAccept reads, so the first frame is taken).

**Events.** `FormatsAgree` is for lists of any length, any parameters and any
room. The state is what both readers made of one list, so it is all about
operators, which are loops written as recursive functions (`LoopRuns`, `LoopIs`:
a loop whose steps stay in a set has one course). What a list means is the
last event of a parameter up to an offset (ValueAt). `ClapValues`: parse() keeps of
each parameter what its queue would hold. `CollectedValues`: reading the queues
one after the other does so too, since each parameter has one (`OrderHolds`).
`SortedKeeps` is the point of the stable sort: an event is placed behind all that
are not later, and the collected list is in order within each parameter
(`CollectedStable`), so the events behind it are of other parameters and it counts
as the last of its own. With `<` for `<=` in Place this fails, which is the mutant.
`ClapTakes` counts: the queues' lengths add up to the events of the plugin's
parameters (`CollectedAll`), so parse() does not run out of room either.

Only model-checked. NeverFaults, NeverLate and RingsHold: these are numerical, the
sizes of the rings against the frames that wait in each, for a pitch that moves in
the meantime. WorkSliced, whose modules (Fft, Medians) compute over data by folds
and recursion. Liveness (CallsReturn, FlushDrains, GestureEnds)
is out of reach of TLAPS's backends.

## Not modelled

* What samples, spectra and phases are: correlation, resampling kernels, the
  formants' gains, transient detection, the classes of fuzzy_phase. No cursor
  depends on them; Medians and Peaks keep the bookkeeping in front of them.
* The setters of an engine without a timeline while it runs (pv_rt.cpp:229),
  which SpectralBackend refuses, and the flush of a scheduled engine.
* The formant mailbox, CONTINUOUS flags and set_backend_parameter_state in
  Handle's interleavings (Config judges their values).
* Drawing, pixel mapping, text, structure sizes and versions.
* The C++ wrapper, which keeps no state, and the experiments, measurement tools
  and applications, which are drivers around the library.

Hazards that were seen and have no property, as no document promises either
outcome: a batch of two ratios is stored one at a time (boiled_egg.cpp:103);
set_parameter_state has stored the pitch of a state it refuses (:439); zeros
that replace missing frames delay the stream for good (:279); activate() drops
a fault (pitch_processor.cpp:31); request() on the editor's thread clears the
message that a reset is required while the fault stays (:7).

## Plan

1. The sliced transform (WorkSliced) with its recursion as functions.
2. RingsHold, NeverLate and NeverFaults for the sizes that the backend's tables
   give, on top of Keeping: what waits in each ring as a sum, as in ResearchPv.
3. Handle over either engine, with the chunks of a realtime call and the
   delay as a refinement of a delayed stream.
