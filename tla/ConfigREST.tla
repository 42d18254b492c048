----------------------------- MODULE ConfigREST -----------------------------
(***************************************************************************)
(* The REST storage of Config objects: pkg/config, with SetIntent and      *)
(* DeleteIntent of pkg/target.  A request changes three things one after   *)
(* the other: the intent on the target's data server, the entry of the     *)
(* memory store, and what watchers are told.  Nothing holds the three      *)
(* together: other requests, the target controller (TargetLifecycle is all *)
(* that is seen of it), failed calls and restarts come in between.         *)
(*                                                                         *)
(* A Key is the name of a Config and a Value its contents, with the labels *)
(* that name its target.  A Notifier is the goroutine of a request.        *)
(***************************************************************************)
EXTENDS Watchers

CONSTANTS
  Target, DataServer, NoCtx,
  TargetOf,     \* the target that the labels of a value name (getTargetKey)
  NoServer,
  MaxOps,       \* bound on requests
  MaxFaults     \* bound on failed calls and restarts

ASSUME ConfigAssumption ==
  /\ TargetOf \in [Value -> Target]
  /\ NoServer \notin DataServer
  /\ NoCtx \notin [client : DataServer, datastore : BOOLEAN]
  /\ MaxOps \in Nat /\ MaxFaults \in Nat

VARIABLES
  phase, targetStore, present,  \* the targets, see TargetLifecycle
  intents,     \* the intents in each datastore of a data server
  db,          \* configStore
  pc,          \* the next step of each request
  server,      \* ... and the client in its copy of the target's context
  ops, faults, \* requests, and failed calls and restarts so far
  upset,       \* the names that met one of the events listed at InSync
  raced, gap   \* see MemStore: requests overlapped each other, or a subscription

targets == <<phase, targetStore, present>>
bounds  == <<ops, faults>>
blurred == <<upset, raced, gap>>
vars    == <<wvars, targets, intents, db, pc, server, bounds, blurred>>

Lifecycle == INSTANCE TargetLifecycle

Calling == {"createIntent", "updateIntent", "deleteIntent"}

Steps == {"idle", "assert", "target", "createIntent", "updateIntent", "deleteIntent",
          "check", "write", "remove", "notify", "notifying"}

ConfigTypeOK ==
  /\ WatchersTypeOK
  /\ Lifecycle!TypeOK
  /\ intents \in [DataServer -> [Target -> [Key -> Value \cup {Absent}]]]
  /\ db \in [Key -> Value \cup {Absent}]
  /\ pc \in [Notifier -> Steps]
  /\ server \in [Notifier -> DataServer \cup {NoServer}]
  /\ \A n \in Notifier : pc[n] \in Calling => server[n] # NoServer
  /\ ops \in 0..MaxOps /\ faults \in 0..MaxFaults
  /\ upset \subseteq Key /\ raced \subseteq Key /\ gap \subseteq Client \X Key

Init ==
  /\ WatchersInit
  /\ Lifecycle!Init
  /\ intents = [d \in DataServer |-> [t \in Target |-> [k \in Key |-> Absent]]]
  /\ db = [k \in Key |-> Absent]
  /\ pc = [n \in Notifier |-> "idle"]
  /\ server = [n \in Notifier |-> NoServer]
  /\ ops = 0 /\ faults = 0 /\ upset = {} /\ raced = {} /\ gap = {}

\* target.Context.Validate, of the context in the store
Valid(t) == targetStore[t] # NoCtx /\ targetStore[t].datastore

Busy(k) == \E n \in Notifier : pc[n] # "idle" /\ event[n].key = k

Fault == faults < MaxFaults /\ faults' = faults + 1

-----------------------------------------------------------------------------
(* A request, up to the call of the data server *)

Goto(n, step) == pc' = [pc EXCEPT ![n] = step] /\ UNCHANGED <<event, server>>

\* The request ends, with a result or an error.
Return(n) == /\ pc' = [pc EXCEPT ![n] = "idle"]
             /\ event' = [event EXCEPT ![n] = NoEvent]
             /\ server' = [server EXCEPT ![n] = NoServer]

\* The goroutine starts to work on k; its event is what it will tell watchers.
Begin(n, step, type, k, v) ==
  /\ pc[n] = "idle"
  /\ ops < MaxOps /\ ops' = ops + 1
  /\ pc' = [pc EXCEPT ![n] = step]
  /\ event' = [event EXCEPT ![n] = [type |-> type, key |-> k, value |-> v]]
  /\ raced' = IF Busy(k) THEN raced \cup {k} ELSE raced
  /\ gap' = gap \cup {<<c, k>> : c \in {c \in Client : stage[c] = "push"}}
  /\ UNCHANGED <<clients, channel, closed, registry, lock, targets, intents, db, faults>>

Upset(ks) == upset' = upset \cup ks

\* Mutant: the target is not looked up.
CreateBlindly(n, k, v) ==
  /\ Begin(n, "createIntent", "Added", k, v)
  /\ UNCHANGED <<server, upset>>

\* Create looks the target up before anything else; an error changes nothing.
Create(n, k, v) ==
  /\ Valid(TargetOf[v])
  /\ Begin(n, "createIntent", "Added", k, v)
  /\ server' = [server EXCEPT ![n] = targetStore[TargetOf[v]].client]
  /\ UNCHANGED upset

\* Update reads the old object first; it tells watchers "Added".  The new
\* object may name another target.
Update(n, k, v) ==
  /\ db[k] # Absent
  /\ Begin(n, "target", "Added", k, v)
  /\ Upset(IF TargetOf[v] # TargetOf[db[k]] THEN {k} ELSE {})
  /\ UNCHANGED server

\* Update of a name that does not exist, with forceAllowCreate: isCreate is set.
Apply(n, k, v) ==
  /\ db[k] = Absent
  /\ Begin(n, "assert", "Modified", k, v)
  /\ UNCHANGED <<server, upset>>

Delete(n, k) ==
  /\ db[k] # Absent
  /\ Begin(n, "target", "Deleted", k, db[k])
  /\ UNCHANGED <<server, upset>>

\* The type assertion on the old object, which is nil here: a bad request.
AssertOld(n) ==
  /\ pc[n] = "assert"
  /\ Return(n)
  /\ UNCHANGED <<clients, channel, closed, registry, lock, targets, intents, db,
                 bounds, blurred>>

\* targetStore.Get returns a copy of the context, and SetIntent validates it.
GetTarget(n) ==
  /\ pc[n] = "target"
  /\ LET t == TargetOf[event[n].value] IN
     \/ /\ Valid(t)
        /\ pc' = [pc EXCEPT ![n] = IF event[n].type = "Deleted" THEN "deleteIntent"
                                                                 ELSE "updateIntent"]
        /\ server' = [server EXCEPT ![n] = targetStore[t].client]
        /\ UNCHANGED event
     \/ ~Valid(t) /\ Return(n)
  /\ UNCHANGED <<clients, channel, closed, registry, lock, targets, intents, db,
                 bounds, blurred>>

-----------------------------------------------------------------------------
(* The call of the data server, and what follows it *)

FollowedBy(step) == CASE step = "createIntent" -> "check"
                      [] step = "updateIntent" -> "write"
                      [] step = "deleteIntent" -> "remove"

HasDataStore(n) == <<server[n], TargetOf[event[n].value]>> \in present

\* Mutant: the delete flag of the request is not set.
SetOnly(n) ==
  intents' = [intents EXCEPT ![server[n]][TargetOf[event[n].value]][event[n].key] =
                event[n].value]

\* The data server sets the intent, or deletes it.
TakeIntent(n) ==
  intents' = [intents EXCEPT ![server[n]][TargetOf[event[n].value]][event[n].key] =
                IF pc[n] = "deleteIntent" THEN Absent ELSE event[n].value]

CallDataServer(n) ==
  /\ pc[n] \in Calling
  /\ \/ /\ HasDataStore(n) /\ TakeIntent(n)
        /\ Goto(n, FollowedBy(pc[n]))
        /\ UNCHANGED <<faults, upset>>
     \/ /\ ~HasDataStore(n)
        /\ Return(n)
        /\ UNCHANGED <<intents, faults, upset>>
     \/ /\ Fault /\ Return(n)     \* the call fails, before or after it took effect
        /\ \/ UNCHANGED <<intents, upset>>
           \/ HasDataStore(n) /\ TakeIntent(n) /\ Upset({event[n].key})
  /\ UNCHANGED <<clients, channel, closed, registry, lock, targets, db, ops, raced, gap>>

\* The duplicate check of store.Create comes when the intent is set already.
CheckEntry(n) ==
  /\ pc[n] = "check"
  /\ \/ db[event[n].key] = Absent /\ Goto(n, "write") /\ UNCHANGED upset
     \/ db[event[n].key] # Absent /\ Return(n) /\ Upset({event[n].key})
  /\ UNCHANGED <<clients, channel, closed, registry, lock, targets, intents, db,
                 bounds, raced, gap>>

WriteEntry(n) ==
  /\ pc[n] = "write"
  /\ db' = [db EXCEPT ![event[n].key] = event[n].value]
  /\ Goto(n, "notify")
  /\ UNCHANGED <<clients, channel, closed, registry, lock, targets, intents,
                 bounds, blurred>>

\* Mutant: only the intent is deleted.
KeepEntry(n) ==
  /\ pc[n] = "remove"
  /\ Goto(n, "notify")
  /\ UNCHANGED <<clients, channel, closed, registry, lock, targets, intents, db,
                 bounds, blurred>>

RemoveEntry(n) ==
  /\ pc[n] = "remove"
  /\ db' = [db EXCEPT ![event[n].key] = Absent]
  /\ Goto(n, "notify")
  /\ UNCHANGED <<clients, channel, closed, registry, lock, targets, intents,
                 bounds, blurred>>

NotifyWatchers(n) ==
  /\ pc[n] = "notify"
  /\ Notify(n)
  /\ pc' = [pc EXCEPT ![n] = "notifying"]
  /\ UNCHANGED <<server, targets, intents, db, bounds, blurred>>

SendEvent(n) ==
  Send(n) /\ UNCHANGED <<pc, server, targets, intents, db, bounds, blurred>>

Notified(n) ==
  /\ pc[n] = "notifying"
  /\ EndNotify(n)
  /\ Return(n)
  /\ UNCHANGED <<targets, intents, db, bounds, blurred>>

Request(n) ==
  \/ AssertOld(n) \/ GetTarget(n) \/ CallDataServer(n)
  \/ CheckEntry(n) \/ WriteEntry(n) \/ RemoveEntry(n)
  \/ NotifyWatchers(n) \/ SendEvent(n) \/ Notified(n)

-----------------------------------------------------------------------------
(* Watches *)

WatchList(c) ==
  /\ List(c, db)
  /\ gap' = gap \cup {<<c, k>> : k \in {k \in Key : Busy(k)}}
  /\ UNCHANGED <<pc, server, targets, intents, db, bounds, upset, raced>>

Watching(c) ==
  /\ StartWatch(c) \/ Push(c) \/ Add(c) \/ Receive(c) \/ Stop(c) \/ Del(c)
  /\ UNCHANGED <<pc, server, targets, intents, db, bounds, blurred>>

-----------------------------------------------------------------------------
(* The target controller, and the process *)

ControllerStep ==
  /\ \/ \E t \in Target :
          \/ Lifecycle!Hold(t) \/ Lifecycle!Leave(t) \/ Lifecycle!Free(t)
     \/ \E t \in Target, d \in DataServer :
          \/ Lifecycle!Bind(t, d)
          \/ Lifecycle!CreateDataStore(t, d) \/ Lifecycle!RecordDataStore(t, d)
  /\ UNCHANGED <<wvars, intents, db, pc, server, bounds, blurred>>

\* A datastore takes its intents with it.  targetWatcher sees the change of the
\* target, and does nothing ("TODO apply the config").
DataStoreDeleted(t, d) ==
  /\ <<d, t>> \in present
  /\ Lifecycle!DeleteDataStore(t, d)
  /\ intents' = [intents EXCEPT ![d][t] = [k \in Key |-> Absent]]
  /\ Upset({k \in Key : intents[d][t][k] # Absent})
  /\ UNCHANGED <<wvars, db, pc, server, bounds, raced, gap>>

\* Requests go on with their copy of the context.
TargetForgotten(t, d) ==
  /\ Lifecycle!Unbind(t, d)
  /\ Upset({event[n].key : n \in {n \in Notifier : pc[n] # "idle" /\ TargetOf[event[n].value] = t}})
  /\ UNCHANGED <<wvars, intents, db, pc, server, bounds, raced, gap>>

\* All the process knows is lost; the data servers keep what they have.
Restart ==
  /\ Fault
  /\ Lifecycle!Restart
  /\ stage' = [c \in Client |-> "new"] /\ items' = [c \in Client |-> {}]
  /\ channel' = [c \in Client |-> <<>>] /\ closed' = {}
  /\ view' = [c \in Client |-> [k \in Key |-> Absent]]
  /\ id' = [c \in Client |-> 0] /\ watchers' = [i \in ID |-> NoClient]
  /\ availableIDs' = [i \in 1..(MaxID + 1) |-> i - 1] /\ allocatedIDs' = {}
  /\ notifying' = {} /\ toNotify' = [n \in Notifier |-> {}]
  /\ event' = [n \in Notifier |-> NoEvent]
  /\ db' = [k \in Key |-> Absent]
  /\ pc' = [n \in Notifier |-> "idle"] /\ server' = [n \in Notifier |-> NoServer]
  /\ Upset({k \in Key : \E d \in DataServer, t \in Target : intents[d][t][k] # Absent})
  /\ raced' = {} /\ gap' = {}
  /\ UNCHANGED <<intents, ops>>

Next ==
  \/ \E n \in Notifier, k \in Key :
        \/ Delete(n, k)
        \/ \E v \in Value : Create(n, k, v) \/ Update(n, k, v) \/ Apply(n, k, v)
  \/ \E n \in Notifier : Request(n)
  \/ \E c \in Client : WatchList(c) \/ Watching(c)
  \/ ControllerStep
  \/ \E t \in Target, d \in DataServer : DataStoreDeleted(t, d) \/ TargetForgotten(t, d)
  \/ Restart

Spec == Init /\ [][Next]_vars

-----------------------------------------------------------------------------
(* Safety *)

\* What a data server has to hold of k for target t
Wanted(t, d, k) ==
  IF /\ db[k] # Absent /\ TargetOf[db[k]] = t
     /\ Lifecycle!Bound(t, d)
  THEN db[k] ELSE Absent

\* When no request works on a Config, the data servers hold exactly its intent,
\* on the data server its target is bound to and nowhere else; unless one of
\* these happened to it: two requests overlapped, an update named another
\* target, a duplicate was created, a call failed after it took effect, its
\* datastore was deleted or replaced, its target was forgotten in the middle of
\* a request, the process restarted.  (Create, Update and Delete each change the
\* intent, then the entry.)
InSync ==
  \A k \in Key \ (upset \cup raced) : ~Busy(k) =>
    \A d \in DataServer, t \in Target : intents[d][t][k] = Wanted(t, d, k)

\* A client that watches Configs ends up with what the store holds, but for
\* those that requests overlapped on or changed while it subscribed.
ViewsConverge ==
  \A c \in Client, k \in Key :
    Informed(c, k) /\ <<c, k>> \notin gap /\ k \notin raced /\ ~Busy(k)
      => view[c][k] = db[k]
=============================================================================
