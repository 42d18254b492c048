----------------------------- MODULE Finalizers -----------------------------
(***************************************************************************)
(* Lists of finalizers, pkg/reconcilers/resource/finalizer.go, which the   *)
(* controllers of an object share.                                         *)
(***************************************************************************)
EXTENDS Naturals, Sequences, FiniteSets, SequencesExt

CONSTANTS
  Finalizer,
  MaxFinalizers    \* bound on the length of the lists an object starts with

Panic == "panic"

ASSUME FinalizersAssumption == MaxFinalizers \in Nat /\ Panic \notin Finalizer

\* Mutant: without looking.
AppendFinalizer(f, finalizer) == Append(f, finalizer)

AddFinalizer(f, finalizer) ==
  IF finalizer \in ToSet(f) THEN f ELSE Append(f, finalizer)

\* Mutant: the last element takes the place of the one that goes.
SwapRemove(f, finalizer) ==
  LET at == {i \in DOMAIN f : f[i] = finalizer} IN
  IF at = {} THEN f ELSE [i \in 1..(Len(f) - 1) |-> IF i \in at THEN f[Len(f)] ELSE f[i]]

\* One turn of the loop of RemoveFinalizer, at place i of the slice it started
\* with: append moves the tail in the array below that slice, and f[:i] and
\* f[i+1:] are cut from what is left.
RemoveTurn(f, finalizer, state, i) ==
  CASE state.array[i] # finalizer \/ state.panic -> state
    [] state.array[i] = finalizer /\ ~state.panic /\ i > state.len ->
         [state EXCEPT !.panic = TRUE]
    [] OTHER ->
         [array |-> [j \in DOMAIN f |->
                       IF j \in i..(state.len - 1) THEN state.array[j + 1] ELSE state.array[j]],
          len |-> state.len - 1, panic |-> FALSE]

RemoveFinalizer(f, finalizer) ==
  LET loop[i \in 0..Len(f)] ==
        IF i = 0 THEN [array |-> f, len |-> Len(f), panic |-> FALSE]
        ELSE RemoveTurn(f, finalizer, loop[i - 1], i)
      end == loop[Len(f)]
  IN IF end.panic THEN <<Panic>> ELSE SubSeq(end.array, 1, end.len)

-----------------------------------------------------------------------------
(* The list of an object *)

VARIABLE finalizers

Distinct(f) == \A i, j \in DOMAIN f : i # j => f[i] # f[j]

\* A user may have given the object any list.
FinalizersInit ==
  finalizers \in UNION {[1..n -> Finalizer] : n \in 0..MaxFinalizers}

\* A controller adds its finalizer or removes it.  A panic ends the process.
Finalize ==
  /\ finalizers # <<Panic>>
  /\ \E x \in Finalizer : finalizers' \in {AddFinalizer(finalizers, x), RemoveFinalizer(finalizers, x)}

FinalizersSpec == FinalizersInit /\ [][Finalize]_finalizers

\* A finalizer that is there once is removed and the others keep their places:
\* the loop goes on over an array whose tail it has moved, and neither skips nor
\* meets it again (RemoveFinalizer; with the same finalizer twice it may panic).
RemovalIsExact ==
  \A x \in Finalizer :
    LET at == {i \in DOMAIN finalizers : finalizers[i] = x} IN
    /\ at = {} => RemoveFinalizer(finalizers, x) = finalizers
    /\ \A i \in at :
         at = {i} => RemoveFinalizer(finalizers, x) = RemoveAt(finalizers, i)

\* Controllers that add and remove never make a list with a finalizer twice of
\* one without, so no call of theirs ever fails on it (AddFinalizer).
DistinctStaysDistinct ==
  [][Distinct(finalizers) => Distinct(finalizers') /\ finalizers' # <<Panic>>]_finalizers
=============================================================================
