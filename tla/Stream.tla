------------------------------- MODULE Stream -------------------------------
(***************************************************************************)
(* What a push/pull stream promises, whatever the engine does inside: the  *)
(* output is paid for by accepted input alone, it is handed out once and   *)
(* in order, and the end of the input fixes its exact length.              *)
(* Sources: boiled_egg.h's push/pull/flush contract, and the output budget  *)
(* of Engine::process_resampler().                                         *)
(***************************************************************************)
EXTENDS Integers

CONSTANTS Ratios,      (* time ratios, in quarters                         *)
          Transfers    (* frames one call may accept or hand out           *)

VARIABLES
  earned,        (* output time paid for by accepted input, in quarters    *)
  made, taken,   (* frames produced, and frames handed to the host         *)
  ended, length  (* whether the input has ended, and the length it fixed   *)

streamVars == <<earned, made, taken, ended, length>>

Budget == IF ended THEN length ELSE earned \div 4

StreamInit == earned = 0 /\ made = 0 /\ taken = 0 /\ ended = FALSE /\ length = 0

Accept ==
  /\ ~ended
  /\ \E n \in Transfers, r \in Ratios : earned' = earned + n * r
  /\ UNCHANGED <<made, taken, ended, length>>

Make ==
  /\ made < Budget
  /\ made' = made + 1
  /\ UNCHANGED <<earned, taken, ended, length>>

Take ==
  /\ \E n \in Transfers : taken + n <= made /\ taken' = taken + n
  /\ UNCHANGED <<earned, made, ended, length>>

End ==
  /\ ~ended
  /\ ended' = TRUE /\ length' = (earned + 2) \div 4
  /\ UNCHANGED <<earned, made, taken>>

Restart == StreamInit'

StreamNext == Accept \/ Make \/ Take \/ End \/ Restart

StreamSpec == StreamInit /\ [][StreamNext]_streamVars
=============================================================================
