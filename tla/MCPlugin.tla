------------------------------ MODULE MCPlugin ------------------------------
(***************************************************************************)
(* Instances of the plugin for TLC.                                        *)
(***************************************************************************)
EXTENDS Plugin

G(at, list) == [at |-> at, changes |-> list]
C(index, value) == [index |-> index, value |-> value]

ToSpectral == <<C("Backend", 1), C("Policy", 1)>>
ToWsola == <<C("Policy", 0), C("Formant", 0), C("Backend", 0)>>

(* No event; a formant; a change of configuration and back; a group that   *)
(* makes a later one valid; a list whose last group is at fault.           *)
MCBatches ==
  {<<>>, <<G(1, <<C("Formant", 1)>>)>>,
   <<G(0, ToSpectral), G(1, <<C("Formant", 1)>>)>>,
   <<G(0, ToWsola)>>,
   <<G(0, ToSpectral), G(1, ToWsola \o <<C("Policy", 1)>>)>>}

MCFormants == {<<>>, <<G(0, <<C("Formant", 1)>>)>>}
=============================================================================
