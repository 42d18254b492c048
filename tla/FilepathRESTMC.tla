--------------------------- MODULE FilepathRESTMC ---------------------------
(* Model checking of FilepathREST.                                         *)
EXTENDS FilepathREST, TLC

\* Requests and values are alike; keys are ordered, and one client stops.
Symmetry == Permutations(Notifier) \cup Permutations(Value)
=============================================================================
