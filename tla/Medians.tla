-------------------------------- MODULE Medians --------------------------------
(***************************************************************************)
(* The medians by which fuzzy_phase (experimental/pv/fuzzy_phase.hpp, and  *)
(* its slices in fuzzy_execution.inc) tells tones from transients: of a    *)
(* bin over the last frames and of a frame over the neighbouring bins.     *)
(* Windows are sorted once; from then on each step evicts one value from a *)
(* window and inserts another, so that a wrong one would stay for good.    *)
(***************************************************************************)
EXTENDS Integers, SequencesExt

CONSTANTS
  Bands,     (* bins_                                                      *)
  Radius,    (* radius_                                                    *)
  History,   (* history_size                                               *)
  Frames     (* the magnitudes a frame may have, sequences of length Bands *)

VARIABLES
  m,      (* fuzzy_phase: the last frames (a ring), of each bin its values *)
          (* in order, the slot of the oldest frame, and the medians that  *)
          (* classify() is given                                           *)
  past    (* the last frames, the first one repeated before it came        *)

medianVars == <<m, past>>

Band == 1..Bands
Lines == 2 * Radius + 1

Below(window, value) ==
  Cardinality({i \in DOMAIN window : window[i] < value})

(* median() of a window sorts it.                                          *)
Sorted(window) == SortSeq(window, <)
Middle(window) == window[Len(window) \div 2 + 1]

(* replace_sorted(): the first entry that is not below the outgoing value  *)
(* goes, or else the last; the incoming value comes in its order.          *)
Place(below, size) == IF below = size THEN size ELSE below + 1
Evicted(window, outgoing) ==
  RemoveAt(window, Place(Below(window, outgoing), Len(window)))
Inserted(window, incoming) ==
  InsertAt(window, Below(window, incoming) + 1, incoming)
replace_sorted(window, outgoing, incoming) ==
  Inserted(Evicted(window, outgoing), incoming)

Clamp(k) == IF k < 1 THEN 1 ELSE IF k > Bands THEN Bands ELSE k

(* The bins that leave and enter the window when it moves to bin k.        *)
Outgoing(k) == IF k - 1 > Radius THEN k - Radius - 1 ELSE 1
Incoming(k) == IF k + Radius < Bands THEN k + Radius ELSE Bands

(* The windows of a frame, each made from the one before.                  *)
Windows(linked) ==
  LET window[k \in Band] ==
        IF k = 1 THEN Sorted([j \in 1..Lines |-> linked[Clamp(j - Radius)]])
        ELSE replace_sorted(window[k - 1], linked[Outgoing(k)], linked[Incoming(k)])
  IN  window

-----------------------------------------------------------------------------
Forgotten ==
  [frames |-> [f \in 0..History - 1 |-> [k \in Band |-> 0]],
   sorted |-> [k \in Band |-> [i \in 1..History |-> 0]],
   slot |-> 0, populated |-> FALSE,
   horizontal |-> [k \in Band |-> 0], vertical |-> [k \in Band |-> 0]]

MediansInit == m = Forgotten /\ past = <<>>

(* The first frame stands for those before it, instead of silence.         *)
Populated(linked) ==
  IF m.populated THEN m
  ELSE [m EXCEPT !.frames = [f \in 0..History - 1 |-> linked],
                 !.sorted = [k \in Band |-> [i \in 1..History |-> linked[k]]],
                 !.populated = TRUE]

(* analyze()                                                               *)
Analyze(linked) ==
  \E before \in {Populated(linked)} :
  \E windows \in {Windows(linked)} :
  \E sorted \in {[k \in Band |-> replace_sorted(before.sorted[k],
                                   before.frames[before.slot][k], linked[k])]} :
    /\ m' = [before EXCEPT
               !.frames[before.slot] = linked, !.sorted = sorted,
               !.slot = (@ + 1) % History,
               !.horizontal = [k \in Band |-> Middle(sorted[k])],
               !.vertical = [k \in Band |-> Middle(windows[k])]]
    /\ past' = Append(IF m.populated THEN Tail(past)
                      ELSE [f \in 1..History - 1 |-> linked], linked)

Forget == m.populated /\ m' = Forgotten /\ past' = <<>>

MediansNext == Forget \/ \E linked \in Frames : Analyze(linked)

-----------------------------------------------------------------------------
(* The value with at most half of the others below it, at most half above. *)
IsMedian(value, values) ==
  /\ \E i \in DOMAIN values : values[i] = value
  /\ 2 * Below(values, value) < Len(values)
  /\ 2 * Cardinality({i \in DOMAIN values : values[i] > value}) < Len(values)

(* The medians are those of the last frames and of the bins around, edges  *)
(* repeated, whatever came before and however often values repeat          *)
(* (fuzzy_phase.hpp:75-79).                                                *)
MediansExact ==
  m.populated => \A k \in Band :
    /\ IsMedian(m.horizontal[k], [f \in 1..History |-> past[f][k]])
    /\ IsMedian(m.vertical[k],
                [j \in 1..Lines |-> past[History][Clamp(k + j - 1 - Radius)]])
================================================================================
