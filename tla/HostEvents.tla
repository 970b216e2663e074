----------------------------- MODULE HostEvents -----------------------------
(***************************************************************************)
(* How the adapters read a block's parameter events: parse() of            *)
(* boiled_egg_clap.cpp takes one list in time order, process() of          *)
(* boiled_egg_vst3.cpp one queue per parameter and sorts their points.     *)
(* Both hand Processor::process() one list, or refuse the block.           *)
(***************************************************************************)
EXTENDS Integers, SequencesExt

CONSTANTS
  Lists,       (* the blocks' events in the order the host made them       *)
  Automatable, Structural,  (* the parameters, those that take no events   *)
  Foreign,     (* ids that are not the plugin's                            *)
  Frames,      (* the length of the block                                  *)
  Cap          (* events.size(), 256                                       *)

(* An event is [kind, time, index, value, valid]; kind is "param", "note"  *)
(* or "short" (a header too small), valid whether its value is in range.   *)
Known == Automatable \cup Structural

EventTypes ==
  /\ Frames \in Nat /\ Cap \in Nat /\ Automatable \cap Structural = {}
  /\ Lists \subseteq Seq([kind : {"param", "note", "short"}, time : Nat,
                          index : Known \cup Foreign, value : Int, valid : BOOLEAN])

Refused == [ok |-> FALSE, events |-> <<>>]
Parsed(events) == [ok |-> TRUE, events |-> events]

Point(e) == [offset |-> e.time, index |-> e.index, value |-> e.value]
Changes(e, p) == e.kind = "param" /\ e.index = p

(* The offsets a block may have, zero alone when it has no frames. *)
InBlock(time, previous) ==
  (IF Frames = 0 THEN time = 0 ELSE time < Frames) /\ time >= previous

(* parse(): other events are skipped, anything else wrong refuses all. *)
Latest(events) == IF events = <<>> THEN 0 ELSE events[Len(events)].offset
Heeded(result, e) ==
  IF Len(result.events) < Cap /\ e.valid /\ InBlock(e.time, Latest(result.events))
  THEN Parsed(Append(result.events, Point(e)))
  ELSE Refused
ClapNext(result, e) ==
  IF ~result.ok \/ e.kind = "short" THEN Refused
  ELSE IF e.kind = "param" /\ e.index \in Known THEN Heeded(result, e)
  ELSE result
ClapParse(events) ==
  LET read[i \in 0..Len(events)] ==
        IF i = 0 THEN Parsed(<<>>) ELSE ClapNext(read[i - 1], events[i])
  IN  read[Len(events)]

(* The same events as a VST3 host sends them: a queue for each parameter,  *)
(* in the order of their first points.                                     *)
QueueOf(events, p) ==
  LET queue[i \in 0..Len(events)] ==
        IF i = 0 THEN <<>>
        ELSE IF Changes(events[i], p) THEN Append(queue[i - 1], events[i])
        ELSE queue[i - 1]
  IN  queue[Len(events)]
First(events, i) ==
  /\ events[i].kind = "param"
  /\ \A j \in 1..i - 1 : ~Changes(events[j], events[i].index)
Order(events) ==
  LET order[i \in 0..Len(events)] ==
        IF i = 0 THEN <<>>
        ELSE IF First(events, i) THEN Append(order[i - 1], events[i].index)
        ELSE order[i - 1]
  IN  order[Len(events)]

(* A queue of a structural parameter, too long or out of order refuses the *)
(* block.                                                                  *)
Usable(queue, p, count) ==
  /\ p \in Automatable /\ Len(queue) <= Cap - count
  /\ \A j \in DOMAIN queue :
       /\ queue[j].valid
       /\ InBlock(queue[j].time, IF j = 1 THEN 0 ELSE queue[j - 1].time)

(* Every queue is read into the list, one after the other. *)
Points(queue) == [j \in DOMAIN queue |-> Point(queue[j])]
Gathered(result, queue, p) ==
  IF ~result.ok THEN Refused
  ELSE IF p \notin Known THEN result
  ELSE IF Usable(queue, p, Len(result.events)) THEN Parsed(result.events \o Points(queue))
  ELSE Refused
Collect(events, order) ==
  LET read[q \in 0..Len(order)] ==
        IF q = 0 THEN Parsed(<<>>)
        ELSE Gathered(read[q - 1], QueueOf(events, order[q]), order[q])
  IN  read[Len(order)]

(* Mutant: an event goes before those of its own offset. *)
PlaceUnstable(sorted, e) ==
  LET before == {k \in DOMAIN sorted : sorted[k].offset < e.offset}
  IN  IF before = {} THEN 1 ELSE Max(before) + 1

(* Where the insertion sort leaves an event: behind the last that is not   *)
(* later.                                                                  *)
Place(sorted, e) ==
  LET before == {k \in DOMAIN sorted : sorted[k].offset <= e.offset}
  IN  IF before = {} THEN 1 ELSE Max(before) + 1

Sorted(events) ==
  LET sorted[i \in 0..Len(events)] ==
        IF i = 0 THEN <<>>
        ELSE InsertAt(sorted[i - 1], Place(sorted[i - 1], events[i]), events[i])
  IN  sorted[Len(events)]

SortedResult(result) == IF result.ok THEN Parsed(Sorted(result.events)) ELSE Refused
Vst3Parse(events) == SortedResult(Collect(events, Order(events)))

-----------------------------------------------------------------------------
VARIABLES list, clap, vst3

eventVars == <<list, clap, vst3>>

EventsInit == list \in Lists /\ clap = Refused /\ vst3 = Refused

EventsNext == clap' = ClapParse(list) /\ vst3' = Vst3Parse(list) /\ UNCHANGED list

EventsSpec == EventsInit /\ [][EventsNext]_eventVars

(* The value a parameter has after the events up to an offset. *)
ValueAt(events, p, offset) ==
  LET upTo == {k \in DOMAIN events : events[k].index = p /\ events[k].offset <= offset}
  IN  IF upTo = {} THEN -1 ELSE events[Max(upTo)].value

(* Processor::process() finds the events of both adapters in order and in  *)
(* the block, whatever a host sent.                                        *)
Ordered(events) ==
  \A k \in DOMAIN events :
    InBlock(events[k].offset, IF k = 1 THEN 0 ELSE events[k - 1].offset)

(* The same automation means the same in both formats: at every frame each *)
(* parameter has the same value, also where it got several at one offset.  *)
SameValues ==
  clap.ok /\ vst3.ok =>
    \A p \in Automatable, offset \in 0..Frames :
      ValueAt(clap.events, p, offset) = ValueAt(vst3.events, p, offset)

(* A block that VST3 accepts is one that CLAP accepts when its events come *)
(* in the order of their times.                                            *)
InTime == \A k \in 2..Len(list) : list[k - 1].time <= list[k].time
SameBlocks ==
  vst3.ok /\ InTime /\ (\A k \in DOMAIN list : list[k].kind = "param") => clap.ok

(* What reaches Processor::process() is in order and in the block, and     *)
(* means the same in both plugin formats (boiled_egg_vst3.cpp:150).        *)
AdaptersAgree ==
  Ordered(clap.events) /\ Ordered(vst3.events) /\ SameValues /\ SameBlocks
=============================================================================
