------------------------------ MODULE Watchers ------------------------------
(***************************************************************************)
(* The registry of watchers: pkg/store/watch, which the memory store uses, *)
(* and its twin in pkg/config, which the REST storage uses.  A watcher has *)
(* an id of a bounded allocator and a channel of bounded capacity.         *)
(* NotifyWatchers sends to every channel while it holds the registry's     *)
(* read lock, and Add and Del need the write lock.                         *)
(*                                                                         *)
(* MemStore and ConfigREST extend this module with the store behind it.    *)
(***************************************************************************)
EXTENDS Naturals, Sequences, FiniteSets

CONSTANTS
  Client,    \* calls of Watch; each has a channel of its own
  Stopper,   \* the clients that stop watching
  Notifier,  \* goroutines that change the store and notify
  Key, Value,
  Absent,    \* the value of a key that is not in the store
  NoClient,  \* an id that is not in use
  MaxID,     \* maxWatchers of NewWatchers; its allocator starts at zero
  Capacity,  \* of a channel
  Closing    \* whether Del closes the channel: pkg/store/watch does

ASSUME WatchersAssumption ==
  /\ Stopper \subseteq Client /\ NoClient \notin Client
  /\ Absent \notin Value
  /\ MaxID \in Nat /\ Capacity \in Nat \ {0} /\ Closing \in BOOLEAN

ID    == 0..MaxID
Event == [type : {"Added", "Modified", "Deleted"}, key : Key, value : Value]
NoEvent == [type |-> "None"]

Stage == {"new", "list", "push", "watching", "stopping", "stopped", "failed"}

VARIABLES
  stage,         \* of each client: where its goroutine is in Watch, or after it
  items,         \* the events Watch has yet to push for what it listed
  channel,       \* ResultCh
  closed,        \* the clients whose channel is closed
  view,          \* the store as the client knows it from the events it received
  id,            \* WatchCtx.id
  watchers,      \* the client registered under each id
  availableIDs,  \* the allocator's queue of free ids
  allocatedIDs,  \* ... and its set of ids in use
  notifying,     \* the notifiers that hold the read lock
  toNotify,      \* ... and the ids they have yet to send to
  event          \* the event of each notifier

clients  == <<stage, items, view>>
registry == <<id, watchers, availableIDs, allocatedIDs>>
lock     == <<notifying, toNotify>>
wvars    == <<clients, channel, closed, registry, lock, event>>

WatchersTypeOK ==
  /\ stage \in [Client -> Stage]
  /\ items \in [Client -> SUBSET Event]
  /\ channel \in [Client -> Seq(Event)]
  /\ \A c \in Client : Len(channel[c]) <= Capacity
  /\ closed \subseteq Client
  /\ view \in [Client -> [Key -> Value \cup {Absent}]]
  /\ id \in [Client -> ID]
  /\ watchers \in [ID -> Client \cup {NoClient}]
  /\ availableIDs \in Seq(ID) /\ allocatedIDs \subseteq ID
  /\ notifying \subseteq Notifier
  /\ toNotify \in [Notifier -> SUBSET ID]
  /\ event \in [Notifier -> Event \cup {NoEvent}]

\* newIDAllocator hands out 0..maxID, one id more than maxWatchers.
WatchersInit ==
  /\ stage = [c \in Client |-> "new"]
  /\ items = [c \in Client |-> {}]
  /\ channel = [c \in Client |-> <<>>] /\ closed = {}
  /\ view = [c \in Client |-> [k \in Key |-> Absent]]
  /\ id = [c \in Client |-> 0]
  /\ watchers = [i \in ID |-> NoClient]
  /\ availableIDs = [i \in 1..(MaxID + 1) |-> i - 1] /\ allocatedIDs = {}
  /\ notifying = {} /\ toNotify = [n \in Notifier |-> {}]
  /\ event = [n \in Notifier |-> NoEvent]

-----------------------------------------------------------------------------
(* Watch *)

Enter(c, s) == stage' = [stage EXCEPT ![c] = s]

\* An id is looked for first, but reserved only at the end.
StartWatch(c) ==
  /\ stage[c] = "new"
  /\ Enter(c, IF availableIDs = <<>> THEN "failed" ELSE "list")
  /\ UNCHANGED <<items, view, channel, closed, registry, lock, event>>

\* The store is listed under its own read lock.
List(c, db) ==
  /\ stage[c] = "list"
  /\ Enter(c, "push")
  /\ items' = [items EXCEPT ![c] =
                 {[type |-> "Added", key |-> k, value |-> db[k]] :
                     k \in {k \in Key : db[k] # Absent}}]
  /\ UNCHANGED <<view, channel, closed, registry, lock, event>>

\* Mutant: a channel without bound.
PushFreely(c) ==
  /\ stage[c] = "push"
  /\ \E e \in items[c] :
        /\ items' = [items EXCEPT ![c] = @ \ {e}]
        /\ channel' = [channel EXCEPT ![c] = Append(@, e)]
  /\ UNCHANGED <<stage, view, closed, registry, lock, event>>

\* Nobody receives yet: beyond the channel's capacity the call never returns.
Push(c) ==
  /\ stage[c] = "push"
  /\ Len(channel[c]) < Capacity
  /\ \E e \in items[c] :
        /\ items' = [items EXCEPT ![c] = @ \ {e}]
        /\ channel' = [channel EXCEPT ![c] = Append(@, e)]
  /\ UNCHANGED <<stage, view, closed, registry, lock, event>>

\* Mutant: the id is not taken off the queue.
ShareID(c) ==
  /\ id' = [id EXCEPT ![c] = Head(availableIDs)]
  /\ watchers' = [watchers EXCEPT ![Head(availableIDs)] = c]
  /\ allocatedIDs' = allocatedIDs \cup {Head(availableIDs)}
  /\ UNCHANGED availableIDs

\* AllocateID takes the first free id, for the caller to register under it.
AllocateID(c) ==
  /\ id' = [id EXCEPT ![c] = Head(availableIDs)]
  /\ watchers' = [watchers EXCEPT ![Head(availableIDs)] = c]
  /\ availableIDs' = Tail(availableIDs)
  /\ allocatedIDs' = allocatedIDs \cup {Head(availableIDs)}

\* Mutant: registration before the push.
AddEarly(c) ==
  /\ stage[c] = "push" /\ notifying = {}
  /\ availableIDs # <<>> /\ AllocateID(c) /\ Enter(c, "watching")
  /\ UNCHANGED <<items, view, channel, closed, lock, event>>

Add(c) ==
  /\ stage[c] = "push" /\ items[c] = {}
  /\ notifying = {}
  /\ \/ availableIDs # <<>> /\ AllocateID(c) /\ Enter(c, "watching")
     \/ availableIDs = <<>> /\ UNCHANGED registry /\ Enter(c, "failed")
  /\ UNCHANGED <<items, view, channel, closed, lock, event>>

-----------------------------------------------------------------------------
(* The client of a watch *)

Learn(c, e) ==
  view' = [view EXCEPT ![c][e.key] = IF e.type = "Deleted" THEN Absent ELSE e.value]

\* Mutant: the goroutine returns after an event, and does not call Stop.
ReceiveAndReturn(c) ==
  /\ stage[c] = "watching" /\ channel[c] # <<>>
  /\ channel' = [channel EXCEPT ![c] = Tail(@)]
  /\ Learn(c, Head(channel[c]))
  /\ Enter(c, "stopped")
  /\ UNCHANGED <<items, closed, registry, lock, event>>

Receive(c) ==
  /\ stage[c] = "watching" /\ channel[c] # <<>>
  /\ channel' = [channel EXCEPT ![c] = Tail(@)]
  /\ Learn(c, Head(channel[c]))
  /\ UNCHANGED <<stage, items, closed, registry, lock, event>>

\* From here on the client receives no more.
Stop(c) ==
  /\ stage[c] = "watching" /\ c \in Stopper
  /\ Enter(c, "stopping")
  /\ UNCHANGED <<items, view, channel, closed, registry, lock, event>>

ReleaseID(i) ==
  /\ availableIDs' = IF i \in allocatedIDs THEN Append(availableIDs, i) ELSE availableIDs
  /\ allocatedIDs' = allocatedIDs \ {i}

\* What Del does under the write lock; what is left in the channel is dropped.
Unregister(c) ==
  /\ stage[c] = "stopping"
  /\ ReleaseID(id[c])
  /\ watchers' = [watchers EXCEPT ![id[c]] = NoClient]
  /\ closed' = IF Closing THEN closed \cup {c} ELSE closed
  /\ channel' = [channel EXCEPT ![c] = <<>>]
  /\ Enter(c, "stopped")
  /\ UNCHANGED <<id, items, view, lock, event>>

\* Mutant: without the lock.
DelUnlocked(c) == Unregister(c)

Del(c) == notifying = {} /\ Unregister(c)

-----------------------------------------------------------------------------
(* NotifyWatchers *)

Registered == {i \in ID : watchers[i] # NoClient}

Notify(n) ==
  /\ notifying' = notifying \cup {n}
  /\ toNotify' = [toNotify EXCEPT ![n] = Registered]
  /\ UNCHANGED <<clients, channel, closed, registry, event>>

\* A full channel blocks the notifier, and the lock stays held.
Send(n) ==
  /\ n \in notifying
  /\ \E i \in toNotify[n] :
       LET c == watchers[i] IN
       /\ Len(channel[c]) < Capacity
       /\ channel' = [channel EXCEPT ![c] = Append(@, event[n])]
       /\ toNotify' = [toNotify EXCEPT ![n] = @ \ {i}]
  /\ UNCHANGED <<clients, closed, registry, notifying, event>>

\* Mutant: the read lock is not released.
KeepLock(n) ==
  /\ n \in notifying /\ toNotify[n] = {}
  /\ UNCHANGED <<clients, channel, closed, registry, lock>>

EndNotify(n) ==
  /\ n \in notifying /\ toNotify[n] = {}
  /\ notifying' = notifying \ {n}
  /\ UNCHANGED <<clients, channel, closed, registry, toNotify>>

-----------------------------------------------------------------------------
(* Properties of the registry *)

\* The client has received what was sent to it about k.
Informed(c, k) ==
  /\ stage[c] = "watching"
  /\ \A i \in 1..Len(channel[c]) : channel[c][i].key # k

\* The free ids and the ids in use partition the range, no id is free twice,
\* and the registry, the allocator and the clients agree on who has which:
\* no two watches ever share an id, whatever the order of Add and Del
\* (idAllocator, Watchers.Add and Del).
IDsPartitioned ==
  /\ \A i, j \in DOMAIN availableIDs : i # j => availableIDs[i] # availableIDs[j]
  /\ \A i \in ID : i \in allocatedIDs <=> \A j \in DOMAIN availableIDs : availableIDs[j] # i
  /\ \A i \in ID : i \in allocatedIDs <=> watchers[i] # NoClient
  /\ \A i \in ID : watchers[i] # NoClient =>
       /\ id[watchers[i]] = i
       /\ stage[watchers[i]] \in {"watching", "stopping"}
  /\ \A c \in Client : stage[c] \in {"watching", "stopping"} => watchers[id[c]] = c

\* A notifier only ever sends to a channel that is open, although the client
\* may stop at any moment of NotifyWatchers ("close safely since the client
\* will not get info any longer after the delete").
NeverSendsOnClosed ==
  \A n \in notifying : \A i \in toNotify[n] :
    watchers[i] # NoClient /\ watchers[i] \notin closed
=============================================================================
