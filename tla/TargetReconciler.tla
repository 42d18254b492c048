-------------------------- MODULE TargetReconciler --------------------------
(***************************************************************************)
(* The target controller: pkg/reconcilers/target, with the parts of        *)
(* pkg/reconcilers/resource, pkg/store and cmd/apiserver it runs on.       *)
(*                                                                         *)
(* Two worlds are kept in step by one worker.  The Kubernetes API holds    *)
(* Target objects, which the worker reads through an informer cache that   *)
(* may lag; the data servers hold datastores, reached by RPCs that may     *)
(* fail.  Between them the process keeps two stores in memory, which a     *)
(* restart empties.  One step of the worker is one call that leaves the    *)
(* process; accesses to the in-memory stores between two such calls belong *)
(* to the step, because the only writer of those stores is this worker.    *)
(***************************************************************************)
EXTENDS Naturals, Sequences

CONSTANTS
  Target,        \* keys of Target objects ("namespace.name")
  DataServer,    \* keys of the data servers in dataServerStore
  TargetSpec,         \* what a Target itself gives a request: address and schema
  Unaddressed,   \* the members of TargetSpec whose optional address is missing
  ConnProfile,   \* contents of the connection profile (the protocol)
  SyncProfile,   \* contents of the sync profile
  NoTarget, NoSpec, NoCtx, NoReq,
  MaxEdits,      \* bound on the writes of users
  MaxFaults      \* bound on crashes and failed calls

ASSUME ConstantsAssumption ==
  /\ Unaddressed \subseteq TargetSpec
  /\ NoTarget \notin Target
  /\ MaxEdits \in Nat /\ MaxFaults \in Nat

-----------------------------------------------------------------------------
(* Data *)

\* A version of a Target object.  An "absent" version records a removal, so
\* that every change of the object has a resource version of its own.
Object == [rv    : Nat,
           state : {"absent", "live", "deleting"},
           fin   : BOOLEAN,
           spec  : TargetSpec \cup {NoSpec}]

NoObject == [rv |-> 0, state |-> "absent", fin |-> FALSE, spec |-> NoSpec]

\* A CreateDataStoreRequest, and equally the datastore it creates.
Request == [spec : TargetSpec, conn : ConnProfile, sync : SyncProfile]

\* A target.Context: the client of a data server, and the request that made
\* the datastore once it is known to exist.
Context == [client : DataServer, datastore : Request \cup {NoReq}]

ASSUME NullsAssumption ==
  /\ NoReq \notin Request
  /\ NoCtx \notin Context \cup [client : DataServer, datastore : BOOLEAN]

DeletePC == {"lookup", "deleteDataStore", "forget", "removeFinalizer"}
UpdatePC == {"addFinalizer", "assign", "request", "getDataStore",
             "replaceDataStore", "createDataStore", "record"}

VARIABLES
  history,      \* versions of each object: the informer's first, the API's last
  connProfile,  \* the connection profile as the informer holds it
  syncProfile,  \* the sync profile as the informer holds it
  queue,        \* the controller's work queue, which holds a key at most once
  pc, cur,      \* the worker: its next step and the key it works on
  cr,           \* ... its copy of the Target object
  tctx, req,    \* ... its copy of the target context, and its request
  targetStore,  \* the memory store of target contexts
  dsTargets,    \* dsctx.Context.Targets of each entry of dataServerStore
  datastores,   \* the datastores that exist on each data server
  edits, faults,\* writes of users and faults so far
  lossy         \* a restart, or a create that took effect but reported an error

api     == <<history, connProfile, syncProfile>>
worker  == <<pc, cur, cr, tctx, req>>
memory  == <<targetStore, dsTargets>>
bounds  == <<edits, faults, lossy>>
vars    == <<api, queue, worker, memory, datastores, bounds>>

Current(t) == history[t][Len(history[t])]
Cached(t)  == Head(history[t])

TypeOK ==
  /\ history \in [Target -> Seq(Object)]
  /\ \A t \in Target : history[t] # <<>>
  /\ connProfile \in ConnProfile /\ syncProfile \in SyncProfile
  /\ queue \subseteq Target
  /\ pc \in {"idle"} \cup DeletePC \cup UpdatePC
  /\ cur \in Target \cup {NoTarget} /\ (pc # "idle" => cur \in Target)
  /\ cr \in Object
  /\ tctx \in Context \cup {NoCtx}
  /\ req \in Request \cup {NoReq}
  /\ targetStore \in [Target -> Context \cup {NoCtx}]
  /\ dsTargets \in [DataServer -> SUBSET Target]
  /\ datastores \in [DataServer -> [Target -> Request \cup {NoReq}]]
  /\ edits \in 0..MaxEdits /\ faults \in 0..MaxFaults
  /\ lossy \in BOOLEAN

Init ==
  /\ history = [t \in Target |-> <<NoObject>>]
  /\ connProfile \in ConnProfile /\ syncProfile \in SyncProfile
  /\ queue = {}
  /\ pc = "idle" /\ cur = NoTarget
  /\ cr = NoObject /\ tctx = NoCtx /\ req = NoReq
  /\ targetStore = [t \in Target |-> NoCtx]
  /\ dsTargets = [d \in DataServer |-> {}]
  /\ datastores = [d \in DataServer |-> [t \in Target |-> NoReq]]
  /\ edits = 0 /\ faults = 0 /\ lossy = FALSE

-----------------------------------------------------------------------------
(* Users and the informers *)

Edit == edits < MaxEdits /\ edits' = edits + 1

\* The API server stores a new version of t.
Write(t, state, fin, spec) ==
  history' = [history EXCEPT ![t] =
                Append(@, [rv |-> Current(t).rv + 1,
                           state |-> state, fin |-> fin, spec |-> spec])]

Untouched == UNCHANGED <<connProfile, syncProfile, worker, memory, datastores,
                         faults, lossy>>

CreateTarget(t) ==
  /\ Edit
  /\ Current(t).state = "absent"
  /\ \E s \in TargetSpec : Write(t, "live", FALSE, s)
  /\ UNCHANGED queue /\ Untouched

EditTarget(t) ==
  /\ Edit
  /\ Current(t).state # "absent"
  /\ \E s \in TargetSpec \ {Current(t).spec} :
        Write(t, Current(t).state, Current(t).fin, s)
  /\ UNCHANGED queue /\ Untouched

\* An object that holds a finalizer is only marked; any other is removed.
DeleteTarget(t) ==
  /\ Edit
  /\ Current(t).state = "live"
  /\ IF Current(t).fin THEN Write(t, "deleting", TRUE, Current(t).spec)
                       ELSE Write(t, "absent", FALSE, NoSpec)
  /\ UNCHANGED queue /\ Untouched

\* The informer delivers the next version of t and the controller enqueues it.
Informer(t) ==
  /\ Len(history[t]) > 1
  /\ history' = [history EXCEPT ![t] = Tail(@)]
  /\ queue' = queue \cup {t}
  /\ UNCHANGED edits /\ Untouched

\* targetConnProfileEventHandler and targetSyncProfileEventHandler: a profile
\* changes in its informer, and the targets that reference it are enqueued.
Referencing == {t \in Target : Cached(t).state # "absent"}

ConnProfileEvent ==
  /\ Edit
  /\ connProfile' \in ConnProfile \ {connProfile}
  /\ queue' = queue \cup Referencing
  /\ UNCHANGED <<history, syncProfile, worker, memory, datastores, faults, lossy>>

SyncProfileEvent ==
  /\ Edit
  /\ syncProfile' \in SyncProfile \ {syncProfile}
  /\ queue' = queue \cup Referencing
  /\ UNCHANGED <<history, connProfile, worker, memory, datastores, faults, lossy>>

-----------------------------------------------------------------------------
(* The worker *)

Fault == faults < MaxFaults /\ faults' = faults + 1
NoFault == UNCHANGED faults

\* The worker lets go of the key: on an error the key is queued again.
Release == /\ pc' = "idle" /\ cur' = NoTarget
           /\ cr' = NoObject /\ tctx' = NoCtx /\ req' = NoReq
Done  == Release /\ UNCHANGED queue

\* Mutant: the key is queued again when the worker has let go of it.
RetryLate == Release /\ queue' = queue \cup {cur'}

Retry == Release /\ queue' = queue \cup {cur}

Goto(next) == pc' = next /\ UNCHANGED <<cur, queue>>

\* Reconcile, first part: take a key and read the object from the cache.
Reconcile(t) ==
  /\ pc = "idle" /\ t \in queue
  /\ queue' = queue \ {t}
  /\ IF Cached(t).state = "absent"
     THEN UNCHANGED worker
     ELSE /\ cur' = t /\ cr' = Cached(t)
          /\ pc' = IF Cached(t).state = "deleting" THEN "lookup" ELSE "addFinalizer"
          /\ UNCHANGED <<tctx, req>>
  /\ UNCHANGED <<api, memory, datastores, bounds>>

\* Mutant: the update is forced, whatever the version.
UpdateForced == Current(cur).state # "absent"

\* client.Update of the worker's copy: the API server takes it only when the
\* copy is of the current version.
UpToDate == Current(cur).state # "absent" /\ Current(cur).rv = cr.rv

AddFinalizer ==
  /\ pc = "addFinalizer"
  /\ \/ /\ cr.fin /\ NoFault
        /\ Goto("assign")
        /\ UNCHANGED <<history, cr, tctx, req>>
     \/ /\ ~cr.fin /\ UpToDate /\ NoFault
        /\ Write(cur, cr.state, TRUE, cr.spec)
        /\ cr' = [cr EXCEPT !.fin = TRUE, !.rv = @ + 1]
        /\ Goto("assign")
        /\ UNCHANGED <<tctx, req>>
     \/ /\ ~cr.fin /\ ~UpToDate /\ NoFault
        /\ Retry
        /\ UNCHANGED history
     \/ /\ ~cr.fin /\ Fault       \* the call fails, before or after it took effect
        /\ \/ UNCHANGED history
           \/ UpToDate /\ Write(cur, cr.state, TRUE, cr.spec)
        /\ Retry
  /\ UNCHANGED <<connProfile, syncProfile, memory, datastores, edits, lossy>>

AddTargetToDataServer(t, d) == dsTargets' = [dsTargets EXCEPT ![d] = @ \cup {t}]

\* Mutant: the set of the data server is copied and the copy is changed.
KeepTargetOnDataServer(t, d) == UNCHANGED dsTargets

DeleteTargetFromDataServer(t, d) == dsTargets' = [dsTargets EXCEPT ![d] = @ \ {t}]

\* Mutant: every data server is a candidate.
SelectAny == DataServer

\* selectDataServerContext: the condition of its loop only ever accepts data
\* servers without targets; which of them depends on the order of a Go map.
Selectable == {d \in DataServer : dsTargets[d] = {}}

\* The process starts again: memory is lost, and the informers list every
\* object.  What they list may be as old as the view that was lost, not older.
Restart ==
  /\ targetStore' = [t \in Target |-> NoCtx]
  /\ dsTargets' = [d \in DataServer |-> {}]
  /\ Release
  /\ queue' = Referencing
  /\ lossy' = TRUE
  /\ UNCHANGED <<api, datastores, edits>>

AssignDataServer ==
  /\ pc = "assign"
  /\ \/ /\ targetStore[cur] = NoCtx
        /\ \E d \in Selectable :
              /\ AddTargetToDataServer(cur, d)
              /\ targetStore' = [targetStore EXCEPT
                                   ![cur] = [client |-> d, datastore |-> NoReq]]
     \/ /\ targetStore[cur] # NoCtx
        /\ AddTargetToDataServer(cur, targetStore[cur].client)
        /\ UNCHANGED targetStore
  /\ Goto("request")
  /\ UNCHANGED <<api, cr, tctx, req, datastores, bounds>>

\* No data server is selected: the nil pointer is dereferenced.
SelectPanics ==
  /\ pc = "assign"
  /\ targetStore[cur] = NoCtx /\ Selectable = {}
  /\ Restart /\ NoFault

\* getCreateDataStoreRequest and the lookup of the context that follows it.
BuildRequest ==
  /\ pc = "request"
  /\ \/ /\ cr.spec \notin Unaddressed /\ NoFault
        /\ req' = [spec |-> cr.spec, conn |-> connProfile, sync |-> syncProfile]
        /\ tctx' = targetStore[cur]
        /\ Goto("getDataStore")
        /\ UNCHANGED cr
     \/ Fault /\ Retry            \* a secret is missing, or a read fails
  /\ UNCHANGED <<api, memory, datastores, edits, lossy>>

\* The target has no address: the nil pointer is dereferenced.
AddressPanics ==
  /\ pc = "request"
  /\ cr.spec \in Unaddressed
  /\ Restart /\ NoFault

Existing == datastores[tctx.client][cur]
SetDataStore(r) == datastores' = [datastores EXCEPT ![tctx.client][cur] = r]

\* Mutant: the connection profile is not compared.
IsSpecChanged(new, old) == new.spec # old.spec

\* isDataStoreChanged looks at the address, the schema and the protocol only.
IsDataStoreChanged(new, old) == new.spec # old.spec \/ new.conn # old.conn

GetDataStore ==
  /\ pc = "getDataStore"
  /\ \/ /\ Existing = NoReq /\ NoFault
        /\ Goto("createDataStore") /\ UNCHANGED <<cr, tctx, req>>
     \/ /\ Existing # NoReq /\ IsDataStoreChanged(req, Existing) /\ NoFault
        /\ Goto("replaceDataStore") /\ UNCHANGED <<cr, tctx, req>>
     \/ /\ Existing # NoReq /\ ~IsDataStoreChanged(req, Existing) /\ NoFault
        /\ Done
     \/ Fault /\ Retry
  /\ UNCHANGED <<api, memory, datastores, edits, lossy>>

\* DeleteDataStore: "unknown datastore" counts as success.
DeleteDataStore(next) ==
  /\ \/ /\ SetDataStore(NoReq) /\ NoFault
        /\ Goto(next) /\ UNCHANGED <<cr, tctx, req>>
     \/ /\ Fault /\ Retry
        /\ SetDataStore(NoReq) \/ UNCHANGED datastores
  /\ UNCHANGED <<api, memory, edits, lossy>>

ReplaceDataStore == pc = "replaceDataStore" /\ DeleteDataStore("createDataStore")

CreateDataStore ==
  /\ pc = "createDataStore"
  /\ \/ /\ SetDataStore(req) /\ NoFault
        /\ tctx' = [tctx EXCEPT !.datastore = req]
        /\ Goto("record") /\ UNCHANGED <<cr, req, lossy>>
     \/ /\ Fault /\ Retry
        /\ \/ UNCHANGED <<datastores, lossy>>
           \/ SetDataStore(req) /\ lossy' = TRUE
  /\ UNCHANGED <<api, memory, edits>>

RecordDataStore ==
  /\ pc = "record"
  /\ targetStore' = [targetStore EXCEPT ![cur] = tctx]
  /\ Done
  /\ UNCHANGED <<api, dsTargets, datastores, bounds>>

\* The branch of Reconcile for an object with a deletion timestamp.
LookupDeleted ==
  /\ pc = "lookup"
  /\ \/ /\ targetStore[cur] = NoCtx
        /\ Goto("removeFinalizer")
        /\ UNCHANGED <<tctx, dsTargets>>
     \/ /\ targetStore[cur] # NoCtx
        /\ tctx' = targetStore[cur]
        /\ DeleteTargetFromDataServer(cur, targetStore[cur].client)
        /\ Goto(IF targetStore[cur].datastore = NoReq THEN "forget"
                                                      ELSE "deleteDataStore")
  /\ UNCHANGED <<api, cr, req, targetStore, datastores, bounds>>

\* Mutant: the datastore is left on the data server.
LeaveDataStore ==
  /\ pc = "deleteDataStore"
  /\ Goto("forget")
  /\ UNCHANGED <<api, cr, tctx, req, memory, datastores, bounds>>

DropDataStore == pc = "deleteDataStore" /\ DeleteDataStore("forget")

\* Mutant: the finalizer goes first, the context stays.
RememberTarget ==
  /\ pc = "forget"
  /\ Goto("removeFinalizer")
  /\ UNCHANGED <<api, cr, tctx, req, memory, datastores, bounds>>

ForgetTarget ==
  /\ pc = "forget"
  /\ targetStore' = [targetStore EXCEPT ![cur] = NoCtx]
  /\ Goto("removeFinalizer")
  /\ UNCHANGED <<api, cr, tctx, req, dsTargets, datastores, bounds>>

\* An object marked for deletion holds the finalizer (it is the only one that
\* is modelled), and removing it removes the object.  An
\* object that is gone is no error, a newer version is.
RemoveFinalizer ==
  /\ pc = "removeFinalizer"
  /\ \/ /\ UpToDate /\ NoFault
        /\ Write(cur, "absent", FALSE, NoSpec)
        /\ Done
     \/ /\ Current(cur).state = "absent" /\ NoFault
        /\ Done
        /\ UNCHANGED history
     \/ /\ Current(cur).state # "absent" /\ ~UpToDate /\ NoFault
        /\ Retry
        /\ UNCHANGED history
     \/ /\ Fault
        /\ \/ UNCHANGED history
           \/ UpToDate /\ Write(cur, "absent", FALSE, NoSpec)
        /\ Retry
  /\ UNCHANGED <<connProfile, syncProfile, memory, datastores, edits, lossy>>

Crash == Fault /\ Restart

-----------------------------------------------------------------------------
WorkerStep ==
  \/ AddFinalizer \/ AssignDataServer \/ SelectPanics
  \/ BuildRequest \/ AddressPanics \/ GetDataStore
  \/ ReplaceDataStore \/ CreateDataStore \/ RecordDataStore
  \/ LookupDeleted \/ DropDataStore \/ ForgetTarget \/ RemoveFinalizer

Environment ==
  \/ \E t \in Target : CreateTarget(t) \/ EditTarget(t) \/ DeleteTarget(t)
                       \/ Informer(t)
  \/ ConnProfileEvent \/ SyncProfileEvent
  \/ Crash

Next ==
  \/ \E t \in Target : Reconcile(t)
  \/ WorkerStep
  \/ Environment

Spec == Init /\ [][Next]_vars

-----------------------------------------------------------------------------
(* Safety *)

\* A target the process holds a context for still holds the finalizer, so its
\* deletion cannot complete behind the controller's back; stale cache reads,
\* restarts and failed calls included.  (Reconcile: AddFinalizer before the
\* context is created, targetStore.Delete before RemoveFinalizer.)
BoundHoldsFinalizer ==
  \A t \in Target : targetStore[t] # NoCtx => Current(t).fin

\* The two stores agree: a data server counts only targets whose context names
\* it, and a context that is not counted belongs to a target whose deletion
\* has started and whose DeleteDataStore failed at least once or is under way.
StoresAgree ==
  \A t \in Target, d \in DataServer :
    /\ t \in dsTargets[d] => targetStore[t] # NoCtx /\ targetStore[t].client = d
    /\ /\ targetStore[t] # NoCtx /\ targetStore[t].client = d
       /\ t \notin dsTargets[d]
       => Current(t).state = "deleting"

\* selectDataServerContext accepts empty data servers only, so that no sequence
\* of assignments, restarts and "safety" re-insertions puts two targets on one.
\* This is what the code does; its comments (reconciler.go:111, 122, 204) speak of
\* several targets per data server, see SelectionSucceeds.
OneTargetPerServer ==
  \A d \in DataServer : \A t, u \in dsTargets[d] : t = u

\* As long as the process has not restarted and no create reported an error
\* after it took effect, a datastore exists only on the data server its target
\* is bound to: deletions, replacements and failed calls leak nothing.
NoLeak ==
  \A t \in Target, d \in DataServer :
    datastores[d][t] # NoReq /\ ~lossy
      => targetStore[t] # NoCtx /\ targetStore[t].client = d

-----------------------------------------------------------------------------
(* The invariant that carries the safety properties from step to step *)

\* Versions of an object are ordered, and only a version that was in use is
\* marked for deletion.  A version that holds the finalizer, or that is marked,
\* constrains the current one however far the cache lags behind it.
HistoryInv ==
  \A t \in Target :
    LET h == history[t] IN
    /\ \A i, j \in 1..Len(h) : i < j => h[i].rv < h[j].rv
    /\ \A i \in 1..Len(h) : /\ h[i].state = "absent" => ~h[i].fin
                            /\ h[i].state = "deleting" => h[i].fin
                            /\ h[i].state # "absent" => h[i].spec \in TargetSpec
    /\ \A i \in 1..Len(h) : h[i].state = "live" /\ h[i].fin => Current(t).fin
    /\ \A i, j \in 1..Len(h) :
         i <= j /\ h[i].state = "deleting" /\ Current(t).fin
           => h[j].state = "deleting"

\* The worker's copy of the object: a version no newer than the cache, until
\* AddFinalizer refreshes it.
CopyInv ==
  /\ pc = "addFinalizer" => cr.state = "live"
  /\ pc \in DeletePC => cr.state = "deleting"
  /\ pc \in UpdatePC => cr.spec \in TargetSpec
  /\ pc \in DeletePC \cup {"addFinalizer"} =>
       \A i \in 1..Len(history[cur]) :
         /\ cr.rv <= history[cur][i].rv
         /\ cr.rv = history[cur][i].rv => cr = history[cur][i]

\* The informer has seen that t is marked, and t was not removed since.
AllDeleting(t) ==
  \A i \in 1..Len(history[t]) : history[t][i].state = "deleting"

\* What the worker may rely on about the current version.
WorkInv ==
  /\ pc \in UpdatePC /\ (pc = "addFinalizer" => cr.fin) => Current(cur).fin
  /\ pc \in DeletePC /\ Current(cur).fin => AllDeleting(cur)

\* The worker's copies of the context and the request.
ContextInv ==
  /\ pc = "request" => targetStore[cur] # NoCtx
  /\ pc \in {"getDataStore", "replaceDataStore", "createDataStore", "record"} =>
       /\ targetStore[cur] # NoCtx /\ tctx # NoCtx /\ req # NoReq
       /\ tctx.client = targetStore[cur].client
  /\ pc \in {"deleteDataStore", "forget"} =>
       targetStore[cur] # NoCtx /\ tctx = targetStore[cur]
  /\ pc = "record" => tctx.datastore # NoReq /\ Existing # NoReq
  /\ pc = "forget" /\ tctx.datastore # NoReq => Existing = NoReq
  /\ pc = "removeFinalizer" => targetStore[cur] = NoCtx
  /\ pc \in {"deleteDataStore", "forget", "removeFinalizer"} =>
       \A d \in DataServer : cur \notin dsTargets[d]

\* A bound target that its data server no longer counts is seen as marked, so
\* that Reconcile will not put it back where another target may be by now.
UncountedInv ==
  \A t \in Target :
    targetStore[t] # NoCtx /\ t \notin dsTargets[targetStore[t].client]
      => AllDeleting(t) /\ (cur = t => pc \notin UpdatePC)

\* Where a datastore exists, its target is bound and knows of it, but for the
\* moment between CreateDataStore and targetStore.Update.
RecordInv ==
  \A t \in Target, d \in DataServer :
    datastores[d][t] # NoReq /\ ~lossy =>
      /\ targetStore[t] # NoCtx /\ targetStore[t].client = d
      /\ targetStore[t].datastore # NoReq \/ (pc = "record" /\ cur = t)

\* TLC checks on small instances that every reachable state satisfies it, the
\* proofs that every step preserves it.
InductiveInv ==
  /\ TypeOK
  /\ HistoryInv /\ CopyInv /\ WorkInv /\ ContextInv /\ UncountedInv /\ RecordInv
  /\ BoundHoldsFinalizer /\ StoresAgree /\ OneTargetPerServer

-----------------------------------------------------------------------------
(* The lifecycle it implements *)

\* The refinement mapping.
PhaseOf(t) == IF ~Current(t).fin THEN "free"
              ELSE IF Current(t).state = "deleting" THEN "leaving" ELSE "held"

ContextOf(t) ==
  IF targetStore[t] = NoCtx THEN NoCtx
  ELSE [client |-> targetStore[t].client,
        datastore |-> targetStore[t].datastore # NoReq]

Phases   == [t \in Target |-> PhaseOf(t)]
Contexts == [t \in Target |-> ContextOf(t)]
Present  == {p \in DataServer \X Target : datastores[p[1]][p[2]] # NoReq}

Lifecycle == INSTANCE TargetLifecycle WITH
  phase <- Phases, targetStore <- Contexts, present <- Present

\* The controller does what the rest of the program relies on: contexts come
\* and go with the finalizer, a recorded datastore exists when it is recorded
\* and is gone before its target is forgotten.
ImplementsLifecycle == Lifecycle!Spec
=============================================================================
