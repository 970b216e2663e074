----------------------------- MODULE PlanarRing -----------------------------
(***************************************************************************)
(* The FIFO of src/src/engine.hpp: a ring addressed by absolute frame      *)
(* indices.  The live frames are start .. end - 1; both cursors only grow  *)
(* until a reset.  Sample values are abstracted away: what the engine can  *)
(* get wrong is which absolute frame it asks for and how many it writes,   *)
(* never the float stored there.                                           *)
(***************************************************************************)
EXTENDS Integers

CONSTANT Fifo      (* capacity_ of every ring of one engine *)

ASSUME FifoAssumption == Fifo \in Nat \ {0}

MinOf(a, b) == IF a <= b THEN a ELSE b
MaxOf(a, b) == IF a >= b THEN a ELSE b

Ring == [start : Nat, end : Nat]
EmptyRing == [start |-> 0, end |-> 0]

Size(r) == r.end - r.start
Free(r) == Fifo - Size(r)

(* A push of more frames than fit is refused and leaves the ring as it is. *)
Grow(r, n) == IF n > Free(r) THEN r ELSE [r EXCEPT !.end = @ + n]

(* Mutant: the write cursor is forgotten. *)
DiscardUnclamped(r, index) ==
  IF index <= r.start THEN r ELSE [r EXCEPT !.start = index]

(* Never moves the read cursor backwards, nor past the write cursor. *)
DiscardBefore(r, index) ==
  IF index <= r.start THEN r ELSE [r EXCEPT !.start = MinOf(index, r.end)]

Popped(r, frames) == MinOf(frames, Size(r))
Pop(r, frames) == DiscardBefore(r, r.start + Popped(r, frames))

(* get() answers with the stored frame for the indices first .. last, and  *)
(* not with the silent zero it has for every other.                        *)
LiveSpan(r, first, last) == r.start <= first /\ last < r.end

(* What every caller relies on. *)
WellFormed(r) == r.start <= r.end /\ Size(r) <= Fifo
=============================================================================
