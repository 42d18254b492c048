------------------------- MODULE TargetReconcilerMC -------------------------
(* Model checking of TargetReconciler: the fairness its scheduling         *)
(* justifies, the liveness properties, and what the code says and does not *)
(* do.                                                                     *)
EXTENDS TargetReconciler, FiniteSets, TLC

Symmetry == Permutations(Target) \cup Permutations(DataServer)

-----------------------------------------------------------------------------
(* Liveness *)

\* The worker's goroutine runs, the informers deliver, and the work queue is
\* first in first out, so that no key waits for ever while others are taken.
FairSpec ==
  /\ Spec
  /\ WF_vars(WorkerStep)
  /\ \A t \in Target : WF_vars(Informer(t)) /\ SF_vars(Reconcile(t))

\* A Target marked for deletion does disappear, whatever finite number of calls
\* fail, versions conflict and restarts happen on the way (the deletion branch
\* of Reconcile); also while more targets than data servers, or one without an
\* address, crash the process again and again (SelectPanics, AddressPanics).
DeletionCompletes ==
  \A t \in Target : Current(t).state = "deleting" ~> Current(t).state = "absent"

\* The datastore on the data server a live target is bound to
Reflects(t, s, c) ==
  /\ targetStore[t] # NoCtx
  /\ LET ds == datastores[targetStore[t].client][t] IN
       ds # NoReq /\ ds.spec = s /\ ds.conn = c

WithinCapacity ==
  Cardinality({t \in Target : Current(t).state # "absent"}) <= Cardinality(DataServer)

Addressed ==
  \A t \in Target : Current(t).state = "live" => Current(t).spec \notin Unaddressed

\* Once a live target and its connection profile are left alone, and there are
\* no more targets than data servers and none without an address, it is bound to a data server whose
\* datastore has their contents, and stays so (updateDataStore,
\* isDataStoreChanged and the events that enqueue a target).  What a crash loop
\* or a failed call left behind does not stand in the way.
Converges ==
  \A t \in Target, s \in TargetSpec, c \in ConnProfile :
    <>[](/\ Current(t).state = "live" /\ Current(t).spec = s
         /\ connProfile = c /\ WithinCapacity /\ Addressed)
      => <>[]Reflects(t, s, c)

-----------------------------------------------------------------------------
(* What comments of the code say and the code does not do *)

\* reconciler.go says of a deleted target "1. delete the datastore from the
\* dataserver 2. delete the finalizer": a target without the finalizer has no
\* datastore left.
DatastoreDeletedBeforeFinalizer ==
  \A t \in Target, d \in DataServer : datastores[d][t] # NoReq => Current(t).fin

\* The verdict of target.Context.Validate, "datastore for target does not
\* exist", is true of a target the controller has nothing left to do for.  (It is
\* not after a restart, or after a CreateDataStore whose answer was lost.)
Settled(t) == cur # t /\ t \notin queue /\ Len(history[t]) = 1

ValidateIsTruthful ==
  \A t \in Target :
    Settled(t) /\ targetStore[t] # NoCtx /\ targetStore[t].datastore = NoReq
      => datastores[targetStore[t].client][t] = NoReq

\* selectDataServerContext "selects a dataserver for a particular target based
\* on least amount of targets assigned to a dataserver": there is always one.
SelectionSucceeds ==
  pc = "assign" /\ targetStore[cur] = NoCtx => Selectable # {}
=============================================================================
