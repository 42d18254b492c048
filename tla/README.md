# A formal model of apiserver-runtime-example

The program is one process (`cmd/apiserver`) that serves `Config` objects from
memory and runs a controller for `Target` objects.  A Target is a network
device; a *data server*, reached over gRPC, keeps a *datastore* per target and
in it the *intents* of the Configs for that target.  This directory holds TLA+
modules of the parts that keep state and of the algorithms on values they rest
on, the TLC configurations that check them, and TLAPS proofs of their safety for
every value of the constants: of targets, data servers, requests, clients, faults,
lists and strings without a bound.

```
tlc -workers 2 -config TargetSafety.cfg TargetReconcilerMC
tlapm TargetReconcilerProofs.tla
```

## The system

| Part | State | Operations | Talks to |
|---|---|---|---|
| target controller, `pkg/reconcilers/target` | none of its own: works on `targetStore` and `dataServerStore`, and on the Target objects' finalizer | `Reconcile` with its deletion branch, `updateDataStore`, `selectDataServerContext`; handlers that enqueue a target when it or one of its profiles changes | Kubernetes API (through a cache that lags), both stores, data servers |
| memory store, `pkg/store/memory` | a map behind a lock, a registry of watchers | Get, List, Create, Update, Delete, Watch | watchers |
| watcher registry, `pkg/store/watch` and its twin in `pkg/config` | ids free and in use, one channel per watcher | Add, Del (from Stop), NotifyWatchers | clients of Watch |
| Config REST storage, `pkg/config` | `configStore`, its own registry | Get, List, Create, Update, Delete, DeleteCollection, Watch; a goroutine that watches `targetStore` | `targetStore`, data servers, its watchers |
| target context, `pkg/target` | a client, and the request of the datastore once it is recorded | Validate, SetIntent, DeleteIntent, ParsePath | data server |
| file-backed REST storage, `pkg/filepath` | a directory of JSON files, a map of watches | Get, List, Create, Update, Delete, DeleteCollection, Watch | the file system, its watchers; `main.go:121` has it commented out |
| file store, `pkg/store/file` | a directory of JSON files, the registry | Get, List, Create, Update, Delete, Watch | the file system, watchers; no caller yet |
| paths, `pkg/target/util.go` | | ParsePath, ToXPath, ToStrings, CompletePath | target context |
| conditions, `apis/*/v1alpha1/condition.go` | the conditions of a status | SetConditions, GetCondition, Equal, one constructor per condition | reconcilers |
| finalizers, `pkg/reconcilers/resource` | the finalizers of an object | AddFinalizer, RemoveFinalizer | target controller |
| API types, `apis/config`, `apis/inv`, `apis/generated/openapi` | | DeepCopy, published schemas | cache, API server, clients |
| process, `cmd/apiserver` | creates the three stores and the only data server's entry | start, crash | all of them |

Everything the process keeps is memory: a restart loses `configStore`,
`targetStore` and the assignments in `dataServerStore`, while the Target
objects, the datastores and the intents survive outside.  That is where most of
what is hard about this program comes from:

* **stale reads**: Reconcile reads objects from a cache, and its updates meet
  conflicts; a REST request works with a copy of a target's context;
* **failed calls** between two steps of a handler, some of which took effect;
* **restarts** at every point, two of them caused by nil dereferences
  (`selectedDSctx`, `Spec.Address`);
* **interleavings**: REST requests run concurrently and no lock spans the data
  server, the store and the notification; Watch lists, pushes and registers in
  three steps; a notifier holds the registry's lock while it waits for a slow
  client;
* **bounds**: channels of ten events, a bounded allocator of ids;
* **torn files**: the file-backed parts write a file in two system calls, lock
  none, and a crash keeps what is half done;
* **descriptions that must agree**: structs, generated copies, published schemas;
  two scanners of one path.

What makes each part correct, and the hazards at their lines, are in
`PROJECT.json`; the properties are listed with the runs below.

Not modelled, or only in part: see [Not modelled](#not-modelled).

## Modules

| Module | Models | Uses |
|---|---|---|
| `TargetReconciler` | the target controller, the informer cache and the work queue around it, and the data servers' datastores | |
| `TargetReconcilerMC` | fairness, liveness, what comments promise | `TargetReconciler` |
| `TargetLifecycle` | what the controller promises to others: the abstract specification | |
| `TargetReconcilerProofs` | the inductive invariant, the safety theorems, the refinement | `TargetReconciler`, `TargetLifecycle` |
| `Watchers` | registry, ids, channels, the steps of Watch and of its client | |
| `WatchersProofs` | lemmas about the registry, the channels and what a client will know | `Watchers` |
| `MemStore`, `MemStoreMC` | the memory store; its fairness and liveness | `Watchers` |
| `ConfigREST`, `ConfigRESTMC` | the Config storage, composed with the targets and the data server | `Watchers`, `TargetLifecycle` |
| `JSONFiles` | objects in files: writing as two system calls, removal under a writer | |
| `FilepathREST`, `FilepathRESTMC` | the file-backed REST storage | `JSONFiles`, `Watchers` |
| `FileStore`, `FileStoreMC` | the file store | `JSONFiles`, `Watchers` |
| `Paths`, `Conditions`, `Finalizers`, `APIObjects` | the algorithms on values, each beside a definition of what it should compute | |
| `ValuesMC` | the inputs for these four | the four |
| `MemStoreProofs`, `ConfigRESTProofs`, `FileStoreProofs`, `FilepathRESTProofs` | the inductive invariant of each and the safety theorems | the module, `WatchersProofs` |
| `ValuesProofs` | theorems about conditions and finalizers | `Conditions`, `Finalizers` |
| `PathsProofs` | theorems about parsing, printing and completing paths | `Paths`, lemmas of `ValuesProofs` |

### TargetReconciler

`history[t]` is the sequence of versions of Target *t* that the cache has not
passed yet: its head is what the cache holds, its last element what the API
server holds.  `Write` appends (users, finalizer updates), `Informer` drops the
head and enqueues.  `queue` is the work queue, a set since it holds a key once.
The one worker (`MaxConcurrentReconciles` is 1) is `pc`, `cur` and its local
variables `cr`, `tctx` and `req`.  One action is one call that leaves the
process, with the accesses to the in-memory stores that go with it; this is
sound because no other goroutine writes these stores.

| Code | Action |
|---|---|
| `Reconcile`: `r.Get`, the check of the deletion timestamp | `Reconcile` |
| `finalizer.AddFinalizer` | `AddFinalizer`: already held, written, conflict, failed with and without effect |
| `targetStore.Get` / `selectDataServerContext` / `addTargetToDataServer` / `targetStore.Create` | `AssignDataServer`, `SelectPanics` |
| `getCreateDataStoreRequest` | `BuildRequest`, `AddressPanics` |
| `GetDataStore`, `isDataStoreChanged` | `GetDataStore` |
| `DeleteDataStore` of a changed datastore | `ReplaceDataStore` |
| `CreateDataStore` | `CreateDataStore` |
| `targetStore.Update` | `RecordDataStore` |
| the deletion branch | `LookupDeleted`, `DropDataStore`, `ForgetTarget`, `RemoveFinalizer` |
| the two nil dereferences, or a kill | `Restart`, as part of `SelectPanics`, `AddressPanics`, `Crash` |

A panic ends the process because controller-runtime's `RecoverPanic` is off.

### TargetLifecycle

A target is *free*, *held* by the finalizer or *leaving*; it is bound to a data
server by its context in `targetStore`, in which the datastore may be recorded;
and data servers have datastores or not.  The promises: only a held target is
bound, a binding is dropped only while the target leaves and not before its
recorded datastore is gone, a datastore is recorded only when it exists, and the
finalizer goes last.  `TargetReconciler!Lifecycle` is the refinement mapping
(`Phases`, `Contexts`, `Present`).  ConfigREST is built on this specification,
so that whatever holds there holds with any controller that implements it.

### Watchers, MemStore

`stage[c]` says where client *c* is in `Watch` (`list`, `push`) or after it.
`Push` blocks on a full channel, as the code does; `Add` and `Del` need
`notifying = {}`, the write lock.  `Notify`, `Send` and `EndNotify` are the loop
of NotifyWatchers, in any order of ids (a Go map).  `view[c]` is what the client
makes of the events.  In `MemStore` every access to the map is a step of its
own, since the lock spans no more, and a Delete notifies first and deletes then.

### ConfigREST

A request is a goroutine (`Notifier`) with a `pc`, a copy of the target's client
(`server`) and the event it will send.  Create goes `createIntent` (SetIntent),
`check` (duplicate), `write`, `notify`; Update `target`, `updateIntent`,
`write`, `notify`; Delete `target`, `deleteIntent`, `remove`, `notify`.  The
targets move by the actions of `TargetLifecycle`; a datastore that is deleted
takes its intents with it.  Get, List and DeleteCollection (which lists and
deletes nothing) change no state.  An update that may create when there is no
object never does: the assertion at `config.go:325` fails for the nil object
that branch has, before anything is written.

### JSONFiles, FilepathREST, FileStore

A file is absent, holds a value, or holds what does not decode: `Empty` after the
truncation, `Mixed` when a shorter document lies over a longer one.  `linked`
says which goroutine has the file opened that a name stands for now: after a
removal the writer goes on writing to a file without a name.

| Code | `FilepathREST` | `FileStore` |
|---|---|---|
| the checks of Create, Update, Delete | `Create`, `Update`, `Delete` | `Create`, `Update`, `Delete` |
| `os.WriteFile` | `OpenForWrite`, `Fill` or `WriteFails` | the same, or `OpenFails` when the directory is missing; errors are ignored |
| `os.Remove` | `Remove` | `Remove`, after the watchers were told |
| `notifyWatchers` | `NotifyWatchers`, `SendEvent`, `Notified` | the same |
| DeleteCollection: `filepath.Walk` | `DeleteCollection`, `SweepRead`, `SweepRemove` | |
| Watch: id, list, push, register | `StartWatch`, `ListNames`, `ReadNext`, `Push`, `Register` | `StartWatch`, `WatchList`, `Add` |
| Stop | `Unregister` | `Del` |
| kill and start | `Crash` | `Crash` |

In `FilepathREST` a watch has the number of watches for its id, read without the
lock, so the registry is a map two watches may meet in; in `FileStore` it is the
registry and the allocator of `Watchers`.  `Listed` is empty since `visitDir`
gives up at the first file (`util.go:95`).  Keys with a namespace (`Nested`) are
in a directory nobody creates.

### Paths, Conditions, Finalizers, APIObjects

These are functions, and their modules have the code's next to a reference that
does not compute the same way.  `Paths` has the two scanners as functions over
the positions of a string, each a loop whose turn is an operator (`KeysTurn`,
`ElemsTurn`), and `WellFormed`, which counts brackets instead of scanning.  Its
actions type one more character of a string and choose two paths.  `Conditions`
has every condition the two groups can make and two statuses that are set and
compared.  `Finalizers` has the removal as the loop runs: over the array it
moves the tail of.

`APIObjects` has three tables of the API types: the fields of each struct
(`Fields`), what the generated copy function of a type does with each of them
(`DeepCopyInto`), and the published schemas (`GetOpenAPIDefinitions`).
`InCommon` follows a copy through the structs and says which of its memory is
the original's; `Accepts` follows the JSON of an object through the schemas.
The actions are those of a reader of the cache, which gets a copy and changes it
at any place.

## Runs

| Run | Instance | Shows |
|---|---|---|
| `target_safety` | 2 targets, 2 data servers, 2 contents of a target of which one has no address, 2 connection and 2 sync profiles, 4 edits, 1 fault | `TypeOK`, `BoundHoldsFinalizer`, `StoresAgree`, `OneTargetPerServer`, `NoLeak`, the inductive invariant itself, and `ImplementsLifecycle` |
| `target_live` | 2 targets, 1 data server, 2 contents of a target of which one has no address, 2 connection profiles, 3 edits, 1 fault | `DeletionCompletes`, `Converges` |
| `target_leak` | | **violated** `DatastoreDeletedBeforeFinalizer` |
| `target_validate` | | **violated** `ValidateIsTruthful` |
| `target_select` | 2 targets, 1 data server | **violated** `SelectionSucceeds` |
| `memstore` | 2 clients of which one stops, 2 goroutines, 2 keys, 2 values, 1 id, channels of 1, 2 operations | `MemStoreTypeOK`, `IDsPartitioned`, `NeverSendsOnClosed`, `ViewsConverge`; `OperationReturns`, `WatchReturns`, `StopReturns` |
| `memstore_stop` | a client that stops | **violated** `StopReleases` |
| `config_intents` | 2 goroutines, 2 targets, 1 data server, 2 values that name different targets, 3 requests, 1 fault | `ConfigTypeOK`, `InSync` |
| `config_watch` | 2 goroutines, 1 target, 2 data servers, a client, 2 values of one target, 2 requests, 1 fault | `ViewsConverge`, `InSync` |
| `filepath` | 2 goroutines, 2 clients of which one stops, 2 keys, 2 values, channels of 1, 2 requests, 1 fault | `FilepathTypeOK`, `FilesWhole`, `DeafOnlyAfterStop`, `ViewsConverge` |
| `filestore` | 2 goroutines, 2 clients of which one stops, 2 keys of which one has a namespace, 2 values, 1 id, 3 operations, 1 fault | `FileStoreTypeOK`, `FilesWhole`, `ViewsConverge` |
| `values` | strings of up to 5 characters after each of three beginnings; paths of 2 elements; 2 calls of SetConditions; lists of 3 finalizers; every object with any of its optional parts | `AcceptsWellFormed`, `PrintsBack`, `RoundTrip`, `CompletesToJoin`; `OnePerType`, `EqualIsSameSet`, `TransitionsKept`; `RemovalIsExact`, `DistinctStaysDistinct`; `CacheUntouched`, `SchemaAccepts` |

### Why the bounds are enough

* `target_safety` has two data servers, between which assignments can differ:
  with one, at most one target is bound, and forgetting it looks like a restart,
  which forgets all.  Two targets make both servers taken, and the assignment
  after a restart need not be the one before.  Four edits are a creation of each
  and a mark or a change of each; one fault may be a restart, a conflict in disguise (a
  write that took effect but failed) or a failed call, and the two nil
  dereferences restart the process without using it up.
* `target_live` has more targets than data servers, so that the second target
  crashes the process as long as both exist: the crash loop.  A target without an
  address is the other one.  Three edits are a creation of each and what ends or
  disturbs it: a mark, a change of the address or of the connection profile.
* One id for two clients makes one of them reuse the other's, or be refused at
  `Add` after the first check let it through.  A channel of one event is full
  most of the time; ten would only delay it.
* Two requests overlap in every order.  The third (`config_intents`,
  `filestore`) follows two that overlapped, or a restart.
* A fault between the two system calls of a write tears a file; a second one
  only tears another.  In `filepath` two watches share an id when their calls
  overlapped.  That a third takes the id of a second after the first has stopped
  needs three, more than the run can have beside the rest; `DeafOnlyAfterStop` is
  proved for any number (`PlacesKept`).
* The beginnings of strings (nothing, an opened key, a complete element) put all
  combinations of five characters where the scanners are in each of their
  states.  Two calls of SetConditions are one that makes a list and one that
  meets it; each may name two conditions.
* The check for deadlock is off where the system may stop: users, requests and
  faults are bounded, and a client that no longer receives blocks its notifier.

### Fairness

* `target_live`: the worker's goroutine runs (weak), informers deliver (weak),
  and a key that is queued is taken (strong: the work queue of
  controller-runtime is first in first out, so another target cannot starve it,
  and a restart queues every target again).  Users and faults have no fairness;
  faults are finite, since a call that fails for ever refutes any convergence.
  The crashes by nil dereference are not: `DeletionCompletes` holds through the
  crash loops, and `Converges` speaks of the time when there are no more targets
  than data servers (`WithinCapacity`) and none without an address (`Addressed`).
* `memstore` and `memstore_stop`: some goroutine that can run does (weak fairness of `Progress`,
  which no goroutine or client is singled out in).  Operations and watches are
  bounded, so this is enough for each to return, and nothing is assumed of the
  lock.  The three properties of `memstore` leave out the two ways to hang: a
  client that stops (`Stuck`), which `memstore_stop` shows, and more entries than
  the channel of a new watch holds (`WatchReturns`).  Both happen in the run.

### What the violated runs show

1. `target_leak`: after a restart, a marked target whose context is not in
   memory loses its finalizer and leaves its datastore on the data server
   (`reconciler.go:112-121`), against the comment at lines 84-86.
2. `target_validate`: a datastore that was not recorded, because the process
   restarted or because the answer of CreateDataStore was lost (the shortest
   trace), is found unchanged and not recorded then either
   (`reconciler.go:275-277`), so that `Validate` denies its existence
   and every Config for the target is refused, for ever if nothing changes.
3. `target_select`: `minTargets` starts at -1, so the second target of a single
   data server finds none (`reconciler.go:210-218`) and the process crashes.
   `OneTargetPerServer` is the same fact as an invariant: it describes what the
   code does, while its comments (lines 111, 122, 204-205) expect several targets
   per data server.
4. `memstore_stop`: Stop and a notifier wait for each other when the client's
   channel is full (`watchers.go:68-90`).

What the models contain and no property reports, because it is exempted or the
code never does it:

* a change of a sync profile enqueues its targets, but `isDataStoreChanged`
  (`reconciler.go:296-337`) does not compare it, nor credentials and TLS, so the
  datastore goes on as before; `Converges` asks for what is compared;
* Watch of the memory store sends what it listed before anybody can receive
  (`memory.go:165-170`), so with more entries than the ten of the channel
  (`watchers.go:41`) it never returns; `WatchReturns` exempts this case;
* a Target without address crashes the process whenever it is handled
  (`reconciler.go:400`).  `DeletionCompletes` and `Converges` say that this ends
  with its deletion or with an address.

### What the exemptions of InSync, ViewsConverge and FilesWhole say

`InSync` relates the store of Configs and the intents on the data servers, for
every name that no request is working on.  It cannot hold without exemptions,
and the value of the run is that the list in its comment is complete: whatever
else happens in any order, they agree.  The model's `upset` collects a name at
exactly these events:
an update that names another target (the old intent stays), a Create refused as a
duplicate (after SetIntent), a call that fails after it took effect, a datastore
that is deleted or replaced (nothing applies the Configs again), a target that
is forgotten during a request, a restart.  `raced` collects the names two
requests overlapped on, and `gap` what changed during a subscription; the views
of clients are exempt from these two only.

The files are the same: `raced` as above, `spoilt` the keys whose file a failed
write or a crash left half-written, until it is written again, and `untold` what
a watch cannot know, because it changed during the call of Watch, was not listed
(`visitDir`), or went by DeleteCollection, which tells nobody.

`DeafOnlyAfterStop` says when a watch of `FilepathREST` loses its place to
another: only when two calls of Watch overlapped or a watch had stopped.  Then
it may hear nothing more, and the Stop of one removes the other.

### What modelling the values showed

Where a property is about less than all inputs, this is the rest:

* `ToXPath` prints keys and values without the escapes `ParsePath` took from
  them, and an origin without the slash that would let it be read as one; so
  `PrintsBack` is about the paths without either.
* Text between or after the keys of an element is dropped without an error; an
  element that begins with a bracket is all name; and a value that ends in a
  backslash escapes the bracket that should close it.
* A colon inside a key, as in `a[k=:/x]`, makes `a[k=` an origin, so the string
  is refused or read as another path.
* `RemoveFinalizer` panics on a list with the finalizer twice, or leaves one of
  them behind (`finalizer.go:75-79`); the controllers never make such a list.
* `TargetSpec.parametersRef` points to a schema `GetOpenAPIDefinitions` does not
  have; only `Config` is served, so nothing fails today.

## Proofs

All safety invariants and action properties of the runs but two are theorems (see
[Only model-checked](#only-model-checked)), for every set of targets, data
servers, keys, values, clients and goroutines, lists and strings of any length,
and every bound.

| Module | Theorems, each `Spec => ...` |
|---|---|
| `TargetReconcilerProofs` | `Invariance`, and from it `TypeCorrect`, `BoundIsHeld`, `StoresConsistent`, `ServerCapacity`, `NothingLeaks`, and the refinement, `Implementation` |
| `MemStoreProofs` | `MemStoreInvariant`; `MemStoreTypes`, `IDsStayPartitioned`, `OpenChannels`, `ViewsAgree` |
| `ConfigRESTProofs` | `ConfigInvariant`; `ConfigTypes`, `IntentsInSync`, `ViewsAgree` |
| `FileStoreProofs` | `FileStoreInvariant`; `FileStoreTypes`, `FilesStayWhole`, `ViewsAgree`, `RegistryStaysSound` |
| `FilepathRESTProofs` | `FilepathInvariant`; `FilepathTypes`, `FilesStayWhole`, `PlacesKept`, `ViewsAgree` |
| `ValuesProofs` | `OneOfEachType`, `TransitionsStay`, `EqualityIsSameSet` (of `ConditionsSpec`); `RemovalsAreExact`, `DistinctStays` (of `FinalizersSpec`) |
| `PathsProofs` | `TakenAreWellFormed`, `ParsedComesBack`, `WrittenComesBack`, `CompletionJoins` (of `PathsSpec`) |

The assumptions on the constants are named in the modules and evaluated by TLC:
null values differ from the values they stand beside (`NoCtx`, `NoServer`,
`NoClient`, `Absent`, `Empty`, `Mixed`, `Panic`), bounds are natural numbers, a
channel holds at least one event (the code makes them for ten), in
`FilepathREST` the clients are finitely many, since an id counts them, and in
`Paths` origins and elements are such as can be written at all (`IsOrigin`,
`IsElem`: a name without slash and open bracket, keys without an equal sign,
values that do not end in a backslash).

### The target controller

None of its safety properties is inductive.  `BoundHoldsFinalizer`, say, depends
on what a cache that lags may still show: `InductiveInv` adds `HistoryInv` (versions
grow; a live version with the finalizer means the current one has it; once marked,
an object with the finalizer stays marked), `CopyInv` (the worker's copy is a
version of the history, so a write that is accepted is of the current one),
`WorkInv` (past AddFinalizer the object holds the finalizer; in the deletion
branch the cache has no other version), `ContextInv` and `RecordInv` (the
worker's copies agree with the stores), and `UncountedInv` (a context that no data
server counts is one whose deletion has begun).  TLC checks the same
`InductiveInv` in `target_safety`.  The proof has a lemma for each way a
conjunct may be disturbed: writes (`WriteKeepsHistory`, `WriteKeepsCopy`,
`WriteKeepsWork`), deliveries (`InformerKeeps...`), and the effects of each step
of the worker; the step lemmas `TypeNext`, `HistoryNext`, `ContextNext`, `StoresNext`,
`UncountedNext`, `RecordNext` go over the actions, and `InductiveNext` puts them
together.  The refinement has one lemma per action that does not stutter.

### Registry and views

`WatchersProofs` has what the four stores share.  `RegistryInv` adds to
`IDsPartitioned` that a closed channel belongs to a client that has left for good,
and that a notifier under the lock has only ids in use: this is why it never
sends on a closed channel.

`ViewsConverge` is about moments when nothing is under way for a client, so it
says nothing of the steps in between.  `Expects(c, k, x)` says what a client will
take for the value of *k* once it has received everything it was sent: the last
event about *k* in its channel, or else its view; before it is registered, what
it listed counts as well.  The inductive invariant (`KnowledgeInv`) follows each
operation: with none on *k*, a client expects what the store holds (`Settled`);
with one, `InFlight` says for each of its steps what a client it has yet to
notify expects, what one it has notified expects, and what the store holds.  Two
operations on one key would need more, but then the key is raced (`AloneInv`).
An operation that overlaps a Watch between list and registration can be missed
by it, and `KnowledgeInv` needs just this: `stage[c] # "push"`, or the pair is in
`gap` (`untold` for the files).

### Intents

`InSync` speaks of names no request works on.  `SyncInv` adds what the data
servers hold of a name at every step of a request: `Agree(k, db[k])` before the
call of SetIntent or DeleteIntent, `Agree(k, event.value)` from then until the
entry is written, and that the target has meanwhile neither moved nor lost its
datastore (`Valid`, `Bound`), or the name is in `upset`.  `HousedInv` says that
an intent has its datastore, so that a target that is bound anew has none of
before.  The targets move by `TargetLifecycle`, of which the proof uses the
actions alone: with `Implementation`, it is about the controller as well.

### Files

`TornInv` and `AloneInv` say who is writing a file that does not decode, and that
the file of a writer that is alone on its key is still the one it opened
(`linked`): it is *n*'s own, truncated, until *n* fills it.  A crash or a failed write
ends that and puts the key in `spoilt`, where it stays as long as the file does
not decode.  In `FilepathREST`, `PlacesInv` is the reason ids that are counts work
at first: without a stop or an overlap the ids in use are those below their
count, and a watch on its way in has the count.

The invariants of `FileStore` and `FilepathREST` use the lemmas of
`WatchersProofs` through instances (`WP`), with the variables these modules do
not have instantiated by constants.

### Conditions and finalizers

The two loops are functions of the number of turns.  `SetInduction` is induction
over the natural numbers stated for a set, so that no operator has to be passed
to a theorem of the library; it follows from the well-foundedness of `<`.  With
it, `LoopExists` and `SetExists` show that the recursive definitions define what
they say, `LoopShifts` what the array and the length are after every turn of
RemoveFinalizer when the finalizer is there at most once, and `SetSoFar` what
each type's condition is after every turn of SetConditions.

`EqualityIsSameSet` is about lists that are sorted before they are compared.
`ListExists` gives every finite set of types its sequence in order, `SortedIs`
shows that `Sorted` is the list of a status in that order, and `AscendingAgree`,
by induction along the lists, that two of them are the same where their sets are.

### Paths

`LoopDefined` gives a recursive definition its function once, for both scanners;
`ElemsLoop` and `KeysLoop` cite it.  What a scan has done after each turn is then
an invariant of its states, by induction on the turn.

* `TakenAreWellFormed`.  `BracketsScanned`: the scan of elements goes on as long
  as the brackets alternate, and is inside a key where an odd number of them is
  behind it.  `KeysTaken`: on an element whose brackets open and close in turn
  (`Flips`) the scan of keys fails at the first pair that does not hold a key and
  a value; its invariant `KeysSoFar` says where the open bracket is.
  `ElemTaken` puts the exception for an element that begins with a bracket on
  top.  `TakenAlways` brings them together: the elements that were cut off so far
  are taken exactly when all keys up to the last separating slash are in order
  (`GoodElems`), which needs that a key closed in an element was opened in it
  (`OpensWithin`) and that the element's own brackets and keys are those of the
  string (`CutIs`).  `BodyIs` says that `WellFormed`, with its counts and least
  and greatest places, is the same.
* `WrittenComesBack`.  `Render` puts parts in a row.  `Cuts` says where each part
  of such a row begins and ends, `EscapeIs` that escaping is undone by `Unescape`
  and leaves no bracket unescaped, `KeyScanned` and `ElemScanned` what one key and
  one element do to the two scans, and `KeysScanned` and `ElemsScanned`, by
  induction on the number of parts, what all of them do.
* `ParsedComesBack`.  What was parsed is made of elements that can be written
  (`ElemsFound`, `ElemsParsed`, `PrintedReads`); those that begin with a bracket
  are names (`IsBare`).  What `ToXPath` prints of them is such a row, in whatever
  order the keys come out, so the same lemmas read it back.
* `CompletionJoins`.  `Less` orders the keys (`LessTransitive`), so that each
  element has one sequence of values, and the strings of a joined path are those
  of its parts in a row (`FlattenConcat`).

### Only model-checked

* liveness under fairness: `DeletionCompletes`, `Converges`, `OperationReturns`,
  `WatchReturns`, `StopReturns`, which are out of the prover's reach, and the
  four runs that show a violation;
* `CacheUntouched` and `SchemaAccepts`: they follow types recursively through
  the tables of `APIObjects`, which are fixed.  That module has no constants, so
  the run `values` goes through every state it has, and a theorem would say no
  more.

## Not modelled

* the data server client (`pkg/dataserver`): a pass-through, modelled by its
  answers, failures and lost answers;
* store keys: members of a set; that `namespace.name` is not injective is left out;
* the reconciler registry: a map that is filled before `main` starts;
* conversions and defaults of profiles and the getters of the API types:
  stateless.  `GetItems` (`target_interfaces.go:38`) appends the address of its
  loop variable, which with the Go of `go.mod` makes every element the last one;
  it has no caller;
* contents of requests beyond what `isDataStoreChanged` compares and the sync
  profile, which it does not; secrets, which no event announces, are part of
  what `BuildRequest` reads;
* the contents of a Config: Create logs `Spec.Config[0]` and panics for an empty
  list, which the API server recovers;
* generated clients, informers and listers, which the program does not use (the
  controller's are those of controller-runtime, modelled from their use); the
  schemas of k8s.io, of which only the existence is used; the code generator;
* tracing, logging, tables, the wait of five seconds at start.

## Plan

Done: the target controller with its contract and proofs, and its crash loop;
the memory store and the watchers with their liveness; the Config storage
composed with both; the two file-backed storages; the algorithms on values and
the API types; proofs of the safety of all of these but the copies and schemas.

What could follow: a second Stop of a watch, should a caller ever make one (`Del`
releases whatever id it is given, `watch.go:61`); and the fields of a path that
`ParsePath` never sets, should a caller ever set them.
