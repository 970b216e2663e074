------------------------------ MODULE MCHandle ------------------------------
(***************************************************************************)
(* Instances of the handle for TLC.                                        *)
(***************************************************************************)
EXTENDS Handle

E(at, id, value) == [at |-> at, id |-> id, value |-> value]

(* Every setter, with values inside and outside the range, and batches     *)
(* whose first or last event is the one at fault.                          *)
MCCommands ==
  {[kind |-> "set", events |-> <<E(0, "time", v)>>] : v \in {4, 8}}
    \cup {[kind |-> "set", events |-> <<E(0, "pitch", 2)>>],
          [kind |-> "state", events |-> <<E(0, "time", 8), E(0, "pitch", 2)>>],
          [kind |-> "batch", events |-> <<E(0, "pitch", 2), E(0, "time", 8)>>],
          [kind |-> "batch", events |-> <<E(0, "time", 8), E(0, "pitch", 99)>>]}

MCSetters == {c \in MCCommands : c.kind = "set"}

MCAutomations ==
  {<<>>, <<E(1, "pitch", 8)>>, <<E(0, "pitch", 8), E(2, "time", 4)>>,
   <<E(2, "pitch", 8), E(0, "pitch", 2)>>,
   <<E(3, "pitch", 8)>>, <<E(1, "time", 8)>>}

(* Lists that no block refuses. *)
MCValidAutomations == {a \in MCAutomations : AcceptedAll(a)}

MCFlushes == {<<E(0, "time", 8), E(0, "pitch", 2)>>, <<E(0, "pitch", 99)>>}
=============================================================================
