----------------------------- MODULE MCSpectral -----------------------------
(* A small phase vocoder: frames of 8 with a hop of 2, as 4 : 1 as the      *)
(* code's 1024 : 256, resampler taps 2 to each side.                        *)
EXTENDS Spectral

K(scheduled, timeline, variable, time, pitch) ==
  [scheduled |-> scheduled, timeline |-> timeline, variable |-> variable,
   time |-> time, pitch |-> pitch]

(* Streams of every way an engine is made, the ends of its stretch and of   *)
(* its time among them.                                                     *)
MCKinds ==
  {K(FALSE, FALSE, FALSE, 2, 2), K(FALSE, FALSE, FALSE, 8, 4),
   K(FALSE, FALSE, FALSE, 4, 6),
   K(FALSE, TRUE, FALSE, 2, 4), K(FALSE, TRUE, TRUE, 4, 4),
   K(FALSE, TRUE, TRUE, 8, 2),
   K(TRUE, FALSE, FALSE, 4, 2), K(TRUE, FALSE, FALSE, 4, 8),
   K(TRUE, TRUE, FALSE, 4, 4)}

MCInputLimit == [k \in MCKinds |-> IF k.time = 8 THEN 35
                                  ELSE IF k.timeline /\ ~k.scheduled THEN 24 ELSE 42]
(* Larger blocks fill the FIFO sooner where every frame makes two.          *)
MCBlocks == [k \in MCKinds |-> IF k.time = 8 THEN {7} ELSE {3}]

MCMaxChanges == [k \in MCKinds |-> 2]

At0(of, to, over) == [at |-> 0, of |-> of, to |-> to, over |-> over]
MCBatches ==
  {<<At0("pitch", 8, 6)>>, <<At0("pitch", 2, 3)>>,
   <<At0("time", 2, 6), [At0("pitch", 8, 0) EXCEPT !.at = 2]>>,
   <<At0("pitch", 2, 1), At0("time", 8, 5)>>}
=============================================================================
