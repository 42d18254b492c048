------------------------------ MODULE ValuesMC ------------------------------
(***************************************************************************)
(* The parts of the code that compute on values: paths, conditions, lists  *)
(* of finalizers and copies of API objects.  A behaviour takes one part.   *)
(***************************************************************************)
EXTENDS Paths, Conditions, Finalizers, APIObjects

VARIABLE part
vars == <<part, pvars, cvars, finalizers, ovars>>

Seeds == {<<>>, <<"a", "[", "a", "=">>, <<"/", "a", "[", "b", "=", "a", "]">>}
Origins == {<<>>, <<"b">>}

Names == {<<"a">>, <<"a", ":">>, <<"b", "\\", "[">>}
Values == {<<"[">>, <<"a", "/", "]">>, <<"=", ":">>}
Keys == UNION {[ks -> Values] : ks \in SUBSET {<<"a">>, <<"b", "]">>}}
Elems == [name : Names, key : Keys]
PrefixElems == [name : {<<"a">>}, key : [{<<"a">>} -> {<<"=", ":">>}]]

Init ==
  /\ part \in {"input", "paths", "conditions", "finalizers", "objects"}
  /\ IF part = "input" THEN PathsInit ELSE input = <<>> /\ prefix = NoPath /\ path = NoPath
  /\ ConditionsInit
  /\ IF part = "finalizers" THEN FinalizersInit ELSE finalizers = <<>>
  /\ IF part = "objects" THEN ObjectsInit
     ELSE root = "Config" /\ filled = {} /\ common = NoCopy /\ written = <<>> /\ dirty = {}

Next ==
  \/ /\ part = "input" /\ Type
     /\ UNCHANGED <<part, cvars, finalizers, ovars>>
  \/ /\ part = "paths" /\ Choose
     /\ UNCHANGED <<part, cvars, finalizers, ovars>>
  \/ /\ part = "conditions" /\ Set
     /\ UNCHANGED <<part, pvars, finalizers, ovars>>
  \/ /\ part = "finalizers" /\ Finalize
     /\ UNCHANGED <<part, pvars, cvars, ovars>>
  \/ /\ part = "objects" /\ ObjectsNext
     /\ UNCHANGED <<part, pvars, cvars, finalizers>>

Spec == Init /\ [][Next]_vars
=============================================================================
