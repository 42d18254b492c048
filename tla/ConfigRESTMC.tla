---------------------------- MODULE ConfigRESTMC ----------------------------
(* Model checking of ConfigREST.                                           *)
EXTENDS ConfigREST, TLC

CONSTANTS t1, t2, b1

\* The labels of b1 name the target t2, those of every other value t1.
Labels == [v \in Value |-> IF v = b1 THEN t2 ELSE t1]

Symmetry ==
  Permutations(Notifier) \cup Permutations(DataServer) \cup Permutations(Value \ {b1})
=============================================================================
