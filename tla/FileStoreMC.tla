---------------------------- MODULE FileStoreMC ----------------------------
(* Model checking of FileStore.                                            *)
EXTENDS FileStore, TLC

\* Operations and values are alike; keys and clients are not.
Symmetry == Permutations(Notifier) \cup Permutations(Value)
=============================================================================
