--------------------------- MODULE TargetLifecycle ---------------------------
(***************************************************************************)
(* What the target controller promises to the rest of the program: to the  *)
(* REST storage of Config objects, which finds a target's data server in   *)
(* targetStore, and to users, who wait for a deleted Target to disappear.  *)
(* TargetReconciler implements it.                                         *)
(***************************************************************************)
CONSTANTS Target, DataServer, NoCtx

VARIABLES
  phase,        \* whether the object holds the finalizer, and is to be deleted
  targetStore,  \* the context of a target: its client, and whether its
                \* datastore is recorded, which target.Context.Validate asks
  present       \* <<d, t>> when data server d has a datastore for t

lvars == <<phase, targetStore, present>>

Bound(t, d) == targetStore[t] # NoCtx /\ targetStore[t].client = d

TypeOK ==
  /\ phase \in [Target -> {"free", "held", "leaving"}]
  /\ targetStore \in
       [Target -> [client : DataServer, datastore : BOOLEAN] \cup {NoCtx}]
  /\ present \subseteq DataServer \X Target

Init ==
  /\ phase = [t \in Target |-> "free"]
  /\ targetStore = [t \in Target |-> NoCtx]
  /\ present = {}

-----------------------------------------------------------------------------
Hold(t) ==
  /\ phase[t] = "free"
  /\ phase' = [phase EXCEPT ![t] = "held"]
  /\ UNCHANGED <<targetStore, present>>

Leave(t) ==
  /\ phase[t] = "held"
  /\ phase' = [phase EXCEPT ![t] = "leaving"]
  /\ UNCHANGED <<targetStore, present>>

Free(t) ==
  /\ phase[t] = "leaving" /\ targetStore[t] = NoCtx
  /\ phase' = [phase EXCEPT ![t] = "free"]
  /\ UNCHANGED <<targetStore, present>>

\* A target that is leaving can still be bound: the controller's cache lags.
Bind(t, d) ==
  /\ phase[t] # "free" /\ targetStore[t] = NoCtx
  /\ targetStore' = [targetStore EXCEPT ![t] = [client |-> d, datastore |-> FALSE]]
  /\ UNCHANGED <<phase, present>>

CreateDataStore(t, d) ==
  /\ Bound(t, d)
  /\ present' = present \cup {<<d, t>>}
  /\ UNCHANGED <<phase, targetStore>>

RecordDataStore(t, d) ==
  /\ Bound(t, d) /\ <<d, t>> \in present
  /\ targetStore' = [targetStore EXCEPT ![t] = [client |-> d, datastore |-> TRUE]]
  /\ UNCHANGED <<phase, present>>

DeleteDataStore(t, d) ==
  /\ Bound(t, d)
  /\ present' = present \ {<<d, t>>}
  /\ UNCHANGED <<phase, targetStore>>

\* A datastore that is recorded is gone before its target is forgotten.
Unbind(t, d) ==
  /\ phase[t] = "leaving" /\ Bound(t, d)
  /\ targetStore[t].datastore => <<d, t>> \notin present
  /\ targetStore' = [targetStore EXCEPT ![t] = NoCtx]
  /\ UNCHANGED <<phase, present>>

Restart ==
  /\ targetStore' = [t \in Target |-> NoCtx]
  /\ UNCHANGED <<phase, present>>

Next ==
  \/ \E t \in Target : Hold(t) \/ Leave(t) \/ Free(t)
  \/ \E t \in Target, d \in DataServer :
        \/ Bind(t, d) \/ Unbind(t, d)
        \/ CreateDataStore(t, d) \/ RecordDataStore(t, d) \/ DeleteDataStore(t, d)
  \/ Restart

Spec == Init /\ [][Next]_lvars
=============================================================================
