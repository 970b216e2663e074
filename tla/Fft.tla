---------------------------------- MODULE Fft ----------------------------------
(***************************************************************************)
(* The Fourier transform of the phase vocoder (experimental/pv/fft.cpp):   *)
(* transform() does it at once, start() and advance() in slices of at most *)
(* a budget of permutations, butterflies and scalings, from a cursor that  *)
(* the caller keeps.  advance() has a path of its own for blocks of two    *)
(* and for whole blocks of four.                                           *)
(*                                                                         *)
(* Numbers are residues of a prime of which Root has the order Points: what  *)
(* the exact transform computes, without the rounding.  Lanes of SIMD are  *)
(* not told apart.                                                         *)
(***************************************************************************)
EXTENDS Integers, SequencesExt

CONSTANTS
  Bits, Prime, Root,   (* size_ is 2^Bits; roots_[1]                       *)
  Batch,               (* the butterflies of one round, 256                *)
  Inputs, Budgets      (* what is transformed, what advance() is given     *)

Points == 2^Bits
Index == 0..Points - 1

VARIABLES
  data,                          (* the caller's array                     *)
  inverse, step, position, length, base, column,   (* fft_plan::cursor     *)
  budget,                        (* what this call of advance() may do yet *)
  spent,                         (* what all calls did                     *)
  original                       (* data when the transform was started    *)

cursor == <<inverse, step, position, length, base, column>>
fftVars == <<data, cursor, budget, spent, original>>

(* The permutation and the two tables of roots.                            *)
Reversed ==
  LET rev[b \in 0..Bits] ==
        [i \in 0..2^b - 1 |->
           IF b = 0 THEN 0
           ELSE (i % 2) * 2^(b - 1) + rev[b - 1][i \div 2]]
  IN  rev[Bits]
Roots == [k \in 0..Points - 1 |-> Root^k % Prime]
StageRoots ==
  [at \in 1..Points - 1 |->
     LET half == CHOOSE h \in {2^b : b \in 0..Bits - 1} : h <= at /\ at < 2 * h
     IN  Roots[(at - half) * (Points \div (2 * half))]]

(* std::conj of a root, and the inverse of n.                              *)
Conj(root) == CHOOSE r \in 1..Prime - 1 : r * root % Prime = 1
Used(root, inv) == IF inv THEN Conj(root) ELSE root

(* The butterflies whose even entries are given, in blocks of len.         *)
Turned(d, len, evens, inv, roots) ==
  LET half == len \div 2
  IN  [i \in Index |->
         CASE i \in evens -> (d[i] + d[i + half] * Used(roots[i % len], inv)) % Prime
           [] i - half \in evens ->
                (d[i - half] + (Prime - d[i]) * Used(roots[i % half], inv)) % Prime
           [] OTHER -> d[i]]

Swapped(d) == [i \in Index |-> d[Reversed[i]]]
Scaled(d, entries) ==
  [i \in Index |-> IF i \in entries THEN d[i] * Conj(Points % Prime) % Prime ELSE d[i]]

(* transform()                                                             *)
Pass(d, len, inv) ==
  Turned(d, len, {i \in Index : i % len < len \div 2}, inv,
         [j \in 0..len \div 2 - 1 |-> Roots[j * (Points \div len)]])
transform(d, inv) ==
  LET turned == FoldLeft(LAMBDA x, b : Pass(x, 2^b, inv), Swapped(d),
                         [b \in 1..Bits |-> b])
  IN  IF inv THEN Scaled(turned, Index) ELSE turned

-----------------------------------------------------------------------------
FftInit ==
  /\ data \in Inputs /\ original = data
  /\ inverse = FALSE /\ step = 0 /\ position = 0 /\ length = 2 /\ base = 0
  /\ column = 0 /\ budget = 0 /\ spent = 0

Done == step = 3

(* start(): back, on what has been transformed.                            *)
Start ==
  /\ Done /\ ~inverse
  /\ inverse' = TRUE /\ step' = 0 /\ position' = 0 /\ length' = 2 /\ base' = 0
  /\ column' = 0 /\ budget' = 0 /\ spent' = 0
  /\ original' = data
  /\ UNCHANGED data

(* advance() is called; it comes back when the budget is gone or it is     *)
(* done.                                                                   *)
Call ==
  /\ ~Done /\ budget = 0
  /\ budget' \in Budgets
  /\ UNCHANGED <<data, cursor, spent, original>>

Lesser(a, b) == IF a < b THEN a ELSE b

Uses(n) ==
  /\ budget' = budget - n /\ spent' = spent + n
  /\ UNCHANGED <<inverse, original>>

(* A round of the loop in stage 0, the permutation.                        *)
Permute ==
  /\ budget > 0 /\ step = 0
  /\ \E end \in {Lesser(Points, position + budget)} :
       /\ Uses(end - position)
       /\ data' = [i \in Index |->
                     LET low == Lesser(i, Reversed[i])
                     IN  IF low \in position..end - 1 THEN data[Reversed[i]]
                         ELSE data[i]]
       /\ IF end = Points THEN step' = 1 /\ position' = 0
                        ELSE position' = end /\ UNCHANGED step
  /\ UNCHANGED <<length, base, column>>

(* Where the cursor is after a round at a length.                          *)
Block(at) == IF at = Points THEN 0 ELSE at
Longer(at) == IF at = Points THEN 2 * length ELSE length
Moved(at) ==
  /\ base' = Block(at) /\ length' = Longer(at)
  /\ IF length' > Points THEN step' = (IF inverse THEN 2 ELSE 3) /\ position' = 0
                       ELSE UNCHANGED <<step, position>>

Butterflies(evens) ==
  data' = Turned(data, length, evens, inverse,
                 [j \in 0..length \div 2 - 1 |-> StageRoots[length \div 2 + j]])

(* Blocks of two.                                                          *)
Pairs ==
  /\ budget > 0 /\ step = 1 /\ length = 2
  /\ \E count \in {Lesser((Points - base) \div 2, budget)} :
       /\ Butterflies({base + 2 * j : j \in 0..count - 1})
       /\ Uses(count) /\ Moved(base + 2 * count)
  /\ UNCHANGED column

(* Mutant: a block that has been begun is taken for a whole one. *)
WholeFoursBegun == length = 4 /\ budget >= 2

(* Whole blocks of four.                                                   *)
WholeFours == length = 4 /\ column = 0 /\ budget >= 2

Fours ==
  /\ budget > 0 /\ step = 1 /\ WholeFours
  /\ \E blocks \in {Lesser((Points - base) \div 4, budget \div 2)} :
       /\ Butterflies({base + 4 * k + j : k \in 0..blocks - 1, j \in {0, 1}})
       /\ Uses(2 * blocks) /\ Moved(base + 4 * blocks)
  /\ UNCHANGED column

(* Part of a block, or one that is longer.                                 *)
Columns ==
  /\ budget > 0 /\ step = 1 /\ length > 2 /\ ~WholeFours
  /\ \E half \in {length \div 2} :
     \E count \in {Lesser(Lesser(half - column, budget), Batch)} :
       /\ Butterflies({base + j : j \in column..column + count - 1})
       /\ Uses(count)
       /\ column' = (column + count) % half
       /\ Moved(IF column + count = half THEN base + length ELSE base)

(* Stage 2, the scaling of an inverse transform.                           *)
Scale ==
  /\ budget > 0 /\ step = 2
  /\ \E end \in {Lesser(Points, position + budget)} :
       /\ data' = Scaled(data, position..end - 1)
       /\ Uses(end - position) /\ position' = end
       /\ step' = IF end = Points THEN 3 ELSE 2
  /\ UNCHANGED <<length, base, column>>

(* What is left of the budget is not used once it is done.                 *)
FftNext ==
  \/ Start \/ Call \/ Permute \/ Pairs \/ Fours \/ Columns \/ Scale

-----------------------------------------------------------------------------
(* The sum that defines the transform.                                     *)
Sum(f, inv, k) ==
  FoldLeft(LAMBDA x, j : (x + f[j - 1] * Used(Roots[(j - 1) * k % Points], inv)) % Prime,
           0, [j \in 1..Points |-> j])
Transformed(d, inv) ==
  [k \in Index |-> (IF inv THEN Conj(Points % Prime) ELSE 1) * Sum(d, inv, k) % Prime]

(* However the work is cut, the slices compute the transform, as           *)
(* transform() does, and are charged for it once: the permutation, half a  *)
(* butterfly a bin and level, the scaling.                                 *)
FftExact ==
  Done =>
    /\ data = Transformed(original, inverse)
    /\ data = transform(original, inverse)
    /\ spent = Points + Bits * (Points \div 2) + (IF inverse THEN Points ELSE 0)
================================================================================
