------------------------------- MODULE Plugin -------------------------------
(***************************************************************************)
(* The plugin around the library: Processor (adapters/common/              *)
(* pitch_processor.cpp, its Targets in pitch_controls.hpp) and the         *)
(* life cycle of the CLAP and VST3 adapters.                               *)
(*                                                                         *)
(* The host's main thread (which is also the editor's) and its audio       *)
(* thread share the targets, one atomic per parameter: a snapshot and a    *)
(* store of a set of values take one step per parameter.  Everything else  *)
(* a call does is local to its thread.                                     *)
(*                                                                         *)
(* Three parameters stand for the twelve: Formant, Backend (1: spectral)   *)
(* and Policy, in the order of enum Param.  Backend and Policy are the     *)
(* configuration (Quality is like Policy): they take effect when the host  *)
(* restarts the plugin.                                                    *)
(***************************************************************************)
EXTENDS Integers, Sequences, FiniteSets

CONSTANTS
  Lives,     (* the adapters: live_configuration is TRUE in CLAP, FALSE in *)
             (* VST3                                                       *)
  Overlaps,  (* whether calls of the two threads may overlap               *)
  Batches,   (* the event lists of a block: groups of one offset each      *)
  MaxEdits   (* bound: calls of the main thread that change a target       *)

Params == <<"Formant", "Backend", "Policy">>
Config == <<"Backend", "Policy">>

Values == [Formant : {0, 1}, Backend : {0, 1}, Policy : {0, 1}]

Defaults == [Formant |-> 0, Backend |-> 0, Policy |-> 0]

(* What a backend can do, of a build with the spectral one: WSOLA has no   *)
(* formants, the spectral one has them unless its policy is Off.           *)
Valid(v) ==
  /\ v.Formant = 0 \/ v.Policy # 0
  /\ v.Policy = 0 \/ v.Backend = 1

SameConfiguration(a, b) == a.Backend = b.Backend /\ a.Policy = b.Policy

ASSUME PluginAssumption ==
  /\ Lives \subseteq BOOLEAN /\ Overlaps \subseteq BOOLEAN
  /\ \A groups \in Batches :
       groups \in Seq([at : Nat, changes : Seq([index : DOMAIN Defaults,
                                               value : {0, 1}])])

VARIABLES
  live, overlap,   (* which adapter and which host this is                 *)
  targets,         (* Processor::targets                                   *)
  active, fault, processing,
  configuration,   (* Processor::configuration_: what the engine was built *)
                   (* for                                                  *)
  audio,           (* Processor::audio_: what the engine was last given    *)
  known, announced,  (* CLAP: latency_known, announced_latency             *)
  told,              (* the latency the host works with, 0 if it has none  *)
  callback, restart, (* the host was asked for a callback, for a restart   *)
  call,              (* the call each thread is in                         *)
  edits,             (* calls of the main thread so far                    *)
  lapsed,            (* history: a CLAP block failed before it looked      *)
                     (* whether a restart is needed, and none has since    *)
  split              (* history: the last reset() took values of a         *)
                     (* configuration that its first look had not seen     *)

lifecycle == <<active, processing, configuration, known, announced, told>>
kind == <<live, overlap>>
history == <<lapsed, split>>
vars == <<kind, targets, lifecycle, fault, audio, callback, restart, call,
          edits, history>>

Threads == {"main", "audio"}
Idle == [op |-> "none", pc |-> "idle", left |-> <<>>, values |-> Defaults,
         todo |-> <<>>]

IsIdle(t) == call[t].pc = "idle"
May(t) == IsIdle(t) /\ (overlap \/ \A other \in Threads : IsIdle(other))
At(t, op, pc) == call[t].op = op /\ call[t].pc = pc /\ call[t].left = <<>>

(* A thread goes on to read, or to store, the parameters listed. *)
Reads(t, op, list, todo) ==
  call' = [call EXCEPT ![t] = [op |-> op, pc |-> "load", left |-> list,
                               values |-> Defaults, todo |-> todo]]
Stores(t, op, list, v, todo) ==
  call' = [call EXCEPT ![t] = [op |-> op, pc |-> "store", left |-> list,
                               values |-> v, todo |-> todo]]
Returns(t) == call' = [call EXCEPT ![t] = Idle]

(* One value of Targets::snapshot(). *)
Load(t) ==
  /\ call[t].pc = "load" /\ call[t].left # <<>>
  /\ LET p == Head(call[t].left) IN
       call' = [call EXCEPT ![t].left = Tail(@), ![t].values[p] = targets[p]]
  /\ UNCHANGED <<kind, targets, lifecycle, fault, audio, callback, restart,
                 edits, history>>

(* One value of Targets::store(). *)
Store(t) ==
  /\ call[t].pc = "store" /\ call[t].left # <<>>
  /\ LET p == Head(call[t].left) IN
       /\ targets' = [targets EXCEPT ![p] = call[t].values[p]]
       /\ call' = [call EXCEPT ![t].left = Tail(@)]
  /\ UNCHANGED <<kind, lifecycle, fault, audio, callback, restart, edits,
                 history>>

-----------------------------------------------------------------------------
(* The values with the changes of a group, the later ones last. *)
With(v, changes) ==
  [p \in DOMAIN v |->
     LET of == {k \in DOMAIN changes : changes[k].index = p} IN
       IF of = {} THEN v[p]
       ELSE changes[CHOOSE k \in of : \A j \in of : j <= k].value]

Names(changes) == [k \in DOMAIN changes |-> changes[k].index]

(* The values after the first n groups. *)
After(v, groups, n) ==
  LET at[k \in 0..n] == IF k = 0 THEN v
                        ELSE With(at[k-1], groups[k].changes)
  IN  at[n]

GroupsValid(v, groups) ==
  \A n \in 1..Len(groups) : Valid(After(v, groups, n))

Automatable(groups) ==
  \A n \in DOMAIN groups : \A k \in DOMAIN groups[n].changes :
    groups[n].changes[k].index \notin {"Backend", "Policy"}

(* Whether the setters of the running engine take the values. *)
Accepts(v) == Valid([v EXCEPT !.Backend = configuration.Backend,
                              !.Policy = configuration.Policy])

(* Mutant: only the first group is checked before it is applied. *)
AcceptedFirst(base, groups) ==
  /\ groups = <<>> \/ Valid(After(base, groups, 1))
  /\ live \/ Automatable(groups)

(* process() looks at every group before it applies one. *)
Accepted(base, groups) ==
  GroupsValid(base, groups) /\ (live \/ Automatable(groups))

NeedsRestart == active /\ ~SameConfiguration(targets, configuration)

LatencyOf(v) == v.Backend + 1

-----------------------------------------------------------------------------
(* The host's and the user's calls on the main thread. *)

Counts == edits < MaxEdits /\ edits' = edits + 1

Unshared == UNCHANGED <<kind, targets, lifecycle, fault, audio, history>>

(* gui_edit() or setParamNormalized(): request(i, v) reads all targets,    *)
(* then stores one.                                                        *)
Edit ==
  /\ May("main") /\ Counts
  /\ \E i \in DOMAIN Defaults : \E v \in {0, 1} :
       Reads("main", "edit", Params,
             <<[at |-> 0, changes |-> <<[index |-> i, value |-> v]>>]>>)
  /\ Unshared /\ UNCHANGED <<callback, restart>>

(* state_load() or setState(): request(v) stores every target. *)
Restore ==
  /\ May("main") /\ Counts
  /\ \E v \in Values : Valid(v) /\ Stores("main", "restore", Params, v, <<>>)
  /\ Unshared /\ UNCHANGED <<callback, restart>>

(* CLAP: param_flush() or a block without frames, on the audio thread      *)
(* while active: apply_controls() reads all targets and stores all.        *)
FlushCall(t) ==
  /\ live /\ (active <=> t = "audio") /\ May(t)
  /\ IF t = "main" THEN Counts ELSE UNCHANGED edits
  /\ \E groups \in Batches : Reads(t, "flush", Params, groups)
  /\ Unshared /\ UNCHANGED <<callback, restart>>

(* Mutant: a single value is stored whatever it goes with. *)
RequestUnchecked(t) ==
  /\ At(t, "edit", "load") \/ At(t, "flush", "load")
  /\ LET next == After(call[t].values, call[t].todo, Len(call[t].todo)) IN
       IF call[t].op = "edit"
       THEN Stores(t, "edit", Names(call[t].todo[1].changes), next, <<>>)
       ELSE Stores(t, "flush", Params, next, <<>>)
  /\ Unshared /\ UNCHANGED <<callback, restart, edits>>

(* request(): nothing is stored unless the whole is valid. *)
Request(t) ==
  /\ At(t, "edit", "load") \/ At(t, "flush", "load")
  /\ LET next == After(call[t].values, call[t].todo, Len(call[t].todo)) IN
       IF ~Valid(next) THEN Returns(t)
       ELSE IF call[t].op = "edit"
       THEN Stores(t, "edit", Names(call[t].todo[1].changes), next, <<>>)
       ELSE Stores(t, "flush", Params, next, <<>>)
  /\ Unshared /\ UNCHANGED <<callback, restart, edits>>

(* Mutant: no restart is asked for. *)
StoredSilently(t) ==
  /\ \E op \in {"edit", "restore", "flush"} : At(t, op, "store")
  /\ Returns(t)
  /\ Unshared /\ UNCHANGED <<callback, restart, edits>>

(* request_restart() begins, or requestRestart(). *)
Stored(t) ==
  /\ \E op \in {"edit", "restore", "flush"} : At(t, op, "store")
  /\ IF active THEN Reads(t, "check", Config, <<>>) ELSE Returns(t)
  /\ Unshared /\ UNCHANGED <<callback, restart, edits>>

(* needs_restart() is known: CLAP asks for a callback on the main thread,  *)
(* VST3 for the restart itself.                                            *)
Checked(t) ==
  /\ At(t, "check", "load") \/ At(t, "callback", "load")
  /\ Returns(t)
  /\ LET needs == ~SameConfiguration(call[t].values, configuration) IN
       /\ callback' = (callback \/ (needs /\ live /\ call[t].op = "check"))
       /\ restart' = (restart \/ (needs /\ (live => call[t].op = "callback")))
  /\ lapsed' = (lapsed /\ t = "main")
  /\ UNCHANGED <<kind, targets, lifecycle, fault, audio, edits, split>>

(* main_thread(): the callback the host was asked for. *)
Callback ==
  /\ callback /\ May("main")
  /\ callback' = FALSE
  /\ IF active THEN Reads("main", "callback", Config, <<>>)
               ELSE UNCHANGED call
  /\ Unshared /\ UNCHANGED <<restart, edits>>

Quiet == \A t \in Threads : IsIdle(t)

(* Mutant: the latency is announced once. *)
ActivateAnnouncedOnce ==
  /\ ~active /\ Quiet /\ Valid(targets)
  /\ active' = TRUE /\ configuration' = targets /\ audio' = targets
  /\ fault' = FALSE
  /\ announced' = LatencyOf(targets) /\ known' = TRUE
  /\ told' = IF ~known THEN LatencyOf(targets) ELSE told
  /\ lapsed' = FALSE /\ split' = FALSE
  /\ UNCHANGED <<kind, targets, processing, callback, restart, call, edits>>

(* The CLAP adapter announces a latency that changed; VST3 hosts ask for   *)
(* it when they activate the plugin.                                       *)
AnnounceLatency ==
  LET samples == LatencyOf(targets) IN
    IF live THEN /\ announced' = samples /\ known' = TRUE
                 /\ told' = IF ~known \/ announced # samples THEN samples
                            ELSE told
            ELSE told' = samples /\ UNCHANGED <<announced, known>>

(* activate() or setActive(): the engine is built for the targets. *)
Activate ==
  /\ ~active /\ Quiet /\ Valid(targets)
  /\ active' = TRUE /\ configuration' = targets /\ audio' = targets
  /\ fault' = FALSE
  /\ AnnounceLatency
  /\ lapsed' = FALSE /\ split' = FALSE
  /\ UNCHANGED <<kind, targets, processing, callback, restart, call, edits>>

(* deactivate(), by its own decision or for the restart it was asked for. *)
Deactivate ==
  /\ active /\ Quiet
  /\ active' = FALSE /\ processing' = FALSE /\ fault' = FALSE
  /\ restart' = FALSE
  /\ UNCHANGED <<kind, targets, configuration, audio, known, announced, told,
                 callback, call, edits, history>>

(* start(), stop() or setProcessing(). *)
Processing ==
  /\ May("audio") /\ processing' = (active /\ ~processing)
  /\ UNCHANGED <<kind, targets, active, configuration, known, announced, told,
                 fault, audio, callback, restart, call, edits, history>>

-----------------------------------------------------------------------------
(* The audio thread's calls. *)

Same == UNCHANGED <<kind, lifecycle, callback, restart, edits, history>>

(* process() begins with a snapshot. *)
Process(groups) ==
  /\ May("audio") /\ active /\ processing /\ ~fault
  /\ Reads("audio", "process", Params, groups)
  /\ Same /\ UNCHANGED <<targets, fault, audio>>

(* The snapshot, or what the engine has when the snapshot is not valid. *)
Requested == IF Valid(call["audio"].values) THEN call["audio"].values
             ELSE audio

(* Mutant: values of another configuration reach the running engine. *)
StartAny(v) == v

Start(v) == IF SameConfiguration(v, configuration) THEN v ELSE audio

(* The groups are validated together, on what they will be applied to; a   *)
(* refusal changes nothing.  Then the start values are applied.            *)
Decide ==
  /\ At("audio", "process", "load")
  /\ LET start == Start(Requested)
         base == IF live THEN Requested ELSE start
         groups == call["audio"].todo
     IN IF Accepted(base, groups) /\ Accepts(start)
        THEN /\ audio' = start
             /\ call' = [call EXCEPT !["audio"].pc = "run",
                                     !["audio"].values = base]
        ELSE Returns("audio") /\ UNCHANGED audio
  /\ Same /\ UNCHANGED <<targets, fault>>

(* segment(): the engine fails, and the call with it. *)
SegmentFails ==
  /\ At("audio", "process", "run")
  /\ \A n \in DOMAIN call["audio"].todo : call["audio"].todo[n].at > 0
  /\ fault' = TRUE /\ Returns("audio")
  /\ lapsed' = (lapsed \/ live)
  /\ UNCHANGED <<kind, targets, lifecycle, audio, callback, restart, edits,
                 split>>

(* The samples before the group are done: the group is applied if the      *)
(* engine may have it, and published.                                      *)
Group ==
  /\ At("audio", "process", "run") /\ call["audio"].todo # <<>>
  /\ LET group == Head(call["audio"].todo)
         next == With(IF live THEN call["audio"].values ELSE audio,
                      group.changes)
     IN /\ audio' = IF ~live \/ SameConfiguration(next, configuration)
                    THEN next ELSE audio
        /\ Stores("audio", "process", Names(group.changes), next,
                  Tail(call["audio"].todo))
  /\ Same /\ UNCHANGED <<targets, fault>>

(* The group is published. *)
GroupDone ==
  /\ At("audio", "process", "store")
  /\ call' = [call EXCEPT !["audio"].pc = "run"]
  /\ Same /\ UNCHANGED <<targets, fault, audio>>

(* The last samples are done; CLAP looks whether a restart is needed. *)
ProcessEnds ==
  /\ At("audio", "process", "run") /\ call["audio"].todo = <<>>
  /\ IF live THEN Reads("audio", "check", Config, <<>>) ELSE Returns("audio")
  /\ Same /\ UNCHANGED <<targets, fault, audio>>

(* CLAP: reset() asks needs_restart() first ...                            *)
Reset ==
  /\ live /\ May("audio") /\ active
  /\ Reads("audio", "reset", Config, <<>>)
  /\ Same /\ UNCHANGED <<targets, fault, audio>>

(* ... and takes a second snapshot when the configuration was the same:    *)
(* another thread's stores in between may show it a different one.         *)
ResetReads ==
  /\ At("audio", "reset", "load") /\ call["audio"].todo = <<>>
  /\ LET staged == ~SameConfiguration(call["audio"].values, configuration) IN
       IF staged
       THEN Returns("audio") /\ fault' = (fault /\ ~Accepts(audio))
       ELSE /\ Reads("audio", "reset", Params,
                     <<[at |-> 0, changes |-> <<>>]>>)
            /\ UNCHANGED fault
  /\ Same /\ UNCHANGED <<targets, audio>>

ResetApplies ==
  /\ At("audio", "reset", "load") /\ call["audio"].todo # <<>>
  /\ LET v == call["audio"].values IN
       IF Valid(v) /\ Accepts(v)
       THEN /\ audio' = v /\ fault' = FALSE
            /\ split' = ~SameConfiguration(v, configuration)
       ELSE UNCHANGED <<audio, fault, split>>
  /\ Returns("audio")
  /\ UNCHANGED <<kind, targets, lifecycle, callback, restart, edits, lapsed>>

-----------------------------------------------------------------------------
Init ==
  /\ live \in Lives /\ overlap \in Overlaps
  /\ targets = Defaults /\ audio = Defaults /\ configuration = Defaults
  /\ active = FALSE /\ fault = FALSE /\ processing = FALSE
  /\ known = FALSE /\ announced = 0 /\ told = 0
  /\ callback = FALSE /\ restart = FALSE
  /\ call = [t \in Threads |-> Idle] /\ edits = 0
  /\ lapsed = FALSE /\ split = FALSE

Step(t) == Load(t) \/ Store(t) \/ Request(t) \/ Stored(t) \/ Checked(t)

AudioStep == Decide \/ Group \/ GroupDone \/ ProcessEnds
               \/ ResetReads \/ ResetApplies

Host == Edit \/ Restore \/ FlushCall("main") \/ FlushCall("audio")
          \/ Callback \/ Activate \/ Deactivate \/ Processing
          \/ (\E groups \in Batches : Process(groups)) \/ Reset \/ SegmentFails

Next == Host \/ AudioStep \/ \E t \in Threads : Step(t)

Spec == Init /\ [][Next]_vars

-----------------------------------------------------------------------------
(* Whatever a snapshot shows of a set that is being stored, and whenever    *)
(* the engine is reset: what it was last given is valid, and its setters   *)
(* take it, so that process() can always fall back on it.  It is of the    *)
(* configuration the engine was built for as well, unless another thread   *)
(* stored values while a reset() looked at them twice.                     *)
AudioUsable ==
  /\ active => Valid(audio) /\ Accepts(audio)
               /\ (SameConfiguration(audio, configuration) \/ split)
  /\ split => live /\ overlap

(* Once process() has begun to publish, no group of the call is refused:   *)
(* what is left of it is valid on top of what was published.               *)
GroupsStayValid ==
  call["audio"].op = "process" /\ call["audio"].pc \in {"run", "store"} =>
    GroupsValid(call["audio"].values, call["audio"].todo)

(* An active plugin's host works with the latency of the engine that runs, *)
(* through every sequence of restarts.                                     *)
HostKnowsLatency == active => told = LatencyOf(configuration)

(* Between calls that do not overlap the targets are valid together, so    *)
(* that the state can be saved and the plugin activated (CLAP; VST3 see    *)
(* SettledAny).                                                            *)
SettledValid == Quiet /\ live /\ ~overlap => Valid(targets)

(* What the comment in process() promises of both adapters. *)
SettledAny == Quiet => Valid(targets)

(* Whichever thread staged a configuration, however the checks of the two  *)
(* threads overlapped and whatever reset() forgave, somebody asked for the *)
(* restart, unless the block that staged it failed before it looked and no *)
(* later call of the audio thread has looked.                              *)
RestartAsked == Quiet /\ NeedsRestart /\ ~lapsed => callback \/ restart
=============================================================================
