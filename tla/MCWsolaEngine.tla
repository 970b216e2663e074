--------------------------- MODULE MCWsolaEngine ---------------------------
(***************************************************************************)
(* Instances of the WSOLA engine for TLC, and one host of which a single   *)
(* schedule is of interest.                                                *)
(***************************************************************************)
EXTENDS WsolaEngine

(* A host that drains the output after every frame it pushes, and that     *)
(* raises the time ratio for exactly the frames that complete the lookahead*)
(* of the stretcher: each of its calls is one a host may make.             *)
Completes ==
  LET need == IF have_prev THEN Expected + Search + Window
              ELSE input.start + Window + Search
  IN need <= input.end + 1 /\ Free(inter) + 6 >= Hop

Wanted == IF Completes THEN 16 ELSE 1

Tease ==
  \/ Step
  \/ Size(output) > 0 /\ \E n \in Pulls : Pull(n)
  \/ Size(output) = 0 /\ time # Wanted /\ SetTimeRatio(Wanted)
  \/ Size(output) = 0 /\ time = Wanted /\ \E n \in Blocks : Push(n)

TeasedSpec == Init /\ [][Tease]_vars
=============================================================================
