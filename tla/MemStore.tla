------------------------------ MODULE MemStore ------------------------------
(***************************************************************************)
(* The memory store, pkg/store/memory, with its watchers.  Every access to *)
(* the map is a critical section of the store's lock, and so a step; an    *)
(* operation is several such steps and a notification, with nothing to     *)
(* hold them together.                                                     *)
(***************************************************************************)
EXTENDS Watchers

CONSTANT MaxOps      \* bound on the operations that are started

ASSUME MemStoreAssumption == MaxOps \in Nat

VARIABLES
  db,      \* the map
  pc,      \* the next step of each goroutine that changes it
  ops,     \* operations so far
  raced,   \* the keys two operations on which overlapped
  gap      \* <<c, k>> when an operation on k overlapped the part of Watch
           \* from its list to its registration

vars == <<wvars, db, pc, ops, raced, gap>>

MemStoreTypeOK ==
  /\ WatchersTypeOK
  /\ db \in [Key -> Value \cup {Absent}]
  /\ pc \in [Notifier -> {"idle", "write", "rewrite", "notify", "notifying", "delete"}]
  /\ ops \in 0..MaxOps
  /\ raced \subseteq Key /\ gap \subseteq Client \X Key

Init ==
  /\ WatchersInit
  /\ db = [k \in Key |-> Absent]
  /\ pc = [n \in Notifier |-> "idle"]
  /\ ops = 0 /\ raced = {} /\ gap = {}

Goto(n, step) == pc' = [pc EXCEPT ![n] = step]

\* A notifier's event names the key it works on, from its first step on.
Busy(k) == \E n \in Notifier : pc[n] # "idle" /\ event[n].key = k

\* Between its list and its registration
Subscribing(c) == stage[c] = "push"

-----------------------------------------------------------------------------
(* The operations *)

\* The first step of an operation reads the map.
Begin(n, step, type, k, v) ==
  /\ pc[n] = "idle" /\ ops < MaxOps
  /\ ops' = ops + 1
  /\ Goto(n, step)
  /\ event' = [event EXCEPT ![n] = [type |-> type, key |-> k, value |-> v]]
  /\ raced' = IF Busy(k) THEN raced \cup {k} ELSE raced
  /\ gap' = gap \cup {<<c, k>> : c \in {c \in Client : Subscribing(c)}}
  /\ UNCHANGED <<clients, channel, closed, registry, lock, db>>

\* A key that exists is an error, and nothing changes.
Create(n, k, v) ==
  /\ db[k] = Absent
  /\ Begin(n, "write", "Added", k, v)

\* An equal value is written, too, but the watchers are not told.
Update(n, k, v) ==
  \/ db[k] = Absent /\ Begin(n, "write", "Added", k, v)
  \/ db[k] \notin {Absent, v} /\ Begin(n, "write", "Modified", k, v)
  \/ db[k] = v /\ Begin(n, "rewrite", "Modified", k, v)

\* The watchers are told before the key is deleted.
Delete(n, k) ==
  /\ db[k] # Absent
  /\ Begin(n, "notify", "Deleted", k, db[k])

\* The goroutine has nothing more to do, or a next step.
Finish(n) == Goto(n, "idle") /\ event' = [event EXCEPT ![n] = NoEvent]
Continue(n, step) == Goto(n, step) /\ UNCHANGED event

\* Mutant: the watchers are told, the map is not written.
SkipWrite(n) ==
  /\ \/ pc[n] = "write" /\ Continue(n, "notify")
     \/ pc[n] = "rewrite" /\ Finish(n)
  /\ UNCHANGED <<clients, channel, closed, registry, lock, db, ops, raced, gap>>

WriteMap(n) ==
  /\ pc[n] \in {"write", "rewrite"}
  /\ db' = [db EXCEPT ![event[n].key] = event[n].value]
  /\ \/ pc[n] = "write" /\ Continue(n, "notify")
     \/ pc[n] = "rewrite" /\ Finish(n)
  /\ UNCHANGED <<clients, channel, closed, registry, lock, ops, raced, gap>>

NotifyWatchers(n) ==
  /\ pc[n] = "notify"
  /\ Goto(n, "notifying")
  /\ Notify(n)
  /\ UNCHANGED <<db, ops, raced, gap>>

SendEvent(n) == Send(n) /\ UNCHANGED <<db, pc, ops, raced, gap>>

Notified(n) ==
  /\ pc[n] = "notifying"
  /\ EndNotify(n)
  /\ IF event[n].type = "Deleted" THEN Continue(n, "delete") ELSE Finish(n)
  /\ UNCHANGED <<db, ops, raced, gap>>

DeleteFromMap(n) ==
  /\ pc[n] = "delete"
  /\ db' = [db EXCEPT ![event[n].key] = Absent]
  /\ Finish(n)
  /\ UNCHANGED <<clients, channel, closed, registry, lock, ops, raced, gap>>

-----------------------------------------------------------------------------
(* The watchers *)

\* Watch lists the map: an operation that is under way may be missed.
WatchList(c) ==
  /\ List(c, db)
  /\ gap' = gap \cup {<<c, k>> : k \in {k \in Key : Busy(k)}}
  /\ UNCHANGED <<db, pc, ops, raced>>

Watching(c) ==
  /\ StartWatch(c) \/ Push(c) \/ Add(c) \/ Receive(c) \/ Stop(c) \/ Del(c)
  /\ UNCHANGED <<db, pc, ops, raced, gap>>

Operation(n) ==
  \/ WriteMap(n) \/ NotifyWatchers(n) \/ SendEvent(n) \/ Notified(n)
  \/ DeleteFromMap(n)

Next ==
  \/ \E n \in Notifier, k \in Key :
        Delete(n, k) \/ \E v \in Value : Create(n, k, v) \/ Update(n, k, v)
  \/ \E n \in Notifier : Operation(n)
  \/ \E c \in Client : WatchList(c) \/ Watching(c)

Spec == Init /\ [][Next]_vars

-----------------------------------------------------------------------------
(* Safety *)

\* What a watcher has learnt, once it has received what was sent to it, is what
\* is in the store, for every key but two kinds: one that two operations
\* changed at the same time, and one that an operation changed between the
\* list and the registration of Watch.  (Create, Update and Delete each notify
\* apart from the change of the map; Watch lists, pushes and only then adds.)
ViewsConverge ==
  \A c \in Client, k \in Key :
    Informed(c, k) /\ <<c, k>> \notin gap /\ k \notin raced /\ ~Busy(k)
      => view[c][k] = db[k]
=============================================================================
