---------------------------- MODULE MCDiagnostics -----------------------------
(***************************************************************************)
(* Handles that are told apart by nothing, under several loads: many       *)
(* handles at one instant, or few while time passes and reads come short.  *)
(***************************************************************************)
EXTENDS Diagnostics, TLC

VARIABLE load

Loads == {[reads |-> 3, clocks |-> {0}, retries |-> 0], [reads |-> 2, clocks |-> {0, 3}, retries |-> 0],
          [reads |-> 1, clocks |-> 0..3, retries |-> 1]}

WithinLoad ==
  /\ Cardinality({r \in Reads : pc'[r] # "new"}) <= load.reads
  /\ clock' \in load.clocks
  /\ \A r \in Reads : trace'[r].retries <= load.retries

MCInit == Init /\ load \in Loads

MCNext == Next /\ WithinLoad /\ UNCHANGED load

MCSpec == MCInit /\ [][MCNext]_<<vars, load>>

Symmetry == Permutations(Reads)
===============================================================================
