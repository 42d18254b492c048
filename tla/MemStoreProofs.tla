--------------------------- MODULE MemStoreProofs ---------------------------
(***************************************************************************)
(* Proofs about MemStore: its types, the partition of the ids, that no     *)
(* notifier sends to a closed channel, and that the view of every watcher  *)
(* converges to the store.                                                 *)
(***************************************************************************)
EXTENDS MemStore, WatchersProofs

-----------------------------------------------------------------------------
(* The inductive invariant *)

\* The notifiers that hold the lock are those that notify, and an operation
\* that is under way has its event.
OperationsInv ==
  \A n \in Notifier :
    /\ n \in notifying <=> pc[n] = "notifying"
    /\ pc[n] # "idle" => event[n] \in Event
    /\ pc[n] \in {"write", "rewrite"} => event[n].type # "Deleted"
    /\ pc[n] = "delete" => event[n].type = "Deleted"

\* Two operations on a key make it a raced one.
AloneInv ==
  \A m, n \in Notifier :
    /\ pc[m] # "idle" /\ pc[n] # "idle" /\ event[m].key = event[n].key
    /\ event[m].key \notin raced
    => m = n

\* While nothing happens to k, a client is to know what the store holds.
Settled(c, k) == ~Busy(k) => Expects(c, k, db[k])

\* What it is to know while n's operation on k is under way, step by step:
\* until the event is sent nothing, unless the value is the old one; from then
\* on the event.  It is not between its list and its registration.
InFlight(n, c, k) ==
  /\ stage[c] # "push"
  /\ pc[n] = "rewrite" => Expects(c, k, event[n].value)
  /\ pc[n] \in {"notify", "notifying"} =>
       event[n].type = "Deleted" \/ db[k] = event[n].value
  /\ pc[n] = "notifying" /\ stage[c] = "watching" /\ id[c] \notin toNotify[n] =>
       Knows(c, k, Outcome(event[n]))
  /\ pc[n] = "delete" => Expects(c, k, Absent)

KnowledgeInv ==
  \A c \in Client, k \in Key : <<c, k>> \notin gap /\ k \notin raced =>
    /\ Settled(c, k)
    /\ \A n \in Notifier :
         pc[n] # "idle" /\ event[n].key = k => InFlight(n, c, k)

IInv ==
  /\ MemStoreTypeOK
  /\ RegistryInv
  /\ FreshInv
  /\ OperationsInv
  /\ AloneInv
  /\ KnowledgeInv

\* The store starts empty, with nobody at work and nobody watching.
LEMMA MemStoreInit == Init => IInv
<1> SUFFICES ASSUME Init PROVE IInv
  OBVIOUS
<1>1. WatchersInit
  BY DEF Init
<1>2. WatchersTypeOK /\ RegistryInv /\ FreshInv
  BY <1>1, WatchersTypeInit, RegistryInit, FreshInit
<1>3. MemStoreTypeOK
  BY <1>2, MemStoreAssumption DEF Init, MemStoreTypeOK
<1>4. OperationsInv /\ AloneInv
  BY <1>1 DEF Init, WatchersInit, OperationsInv, AloneInv
<1>5. KnowledgeInv
  <2> SUFFICES ASSUME NEW c \in Client, NEW k \in Key
               PROVE  Expects(c, k, db[k])
    BY DEF KnowledgeInv, Settled, Init
  <2> QED
    BY <1>1 DEF Init, WatchersInit, Expects
<1> QED
  BY <1>2, <1>3, <1>4, <1>5 DEF IInv

\* What an operation under way promises of a client stays true while the client
\* and the operation stay where they are.
LEMMA InFlightKept ==
  ASSUME NEW n \in Notifier, NEW c \in Client, NEW k \in Key, InFlight(n, c, k),
         UNCHANGED <<pc[n], event[n], toNotify[n], db[k]>>,
         stage'[c] # "push",
         stage'[c] = "watching" => stage[c] = "watching" /\ id'[c] = id[c],
         \A x : Expects(c, k, x) => Expects(c, k, x)'
  PROVE  InFlight(n, c, k)'
<1>1. stage'[c] = "watching" => \A x : Knows(c, k, x) => Knows(c, k, x)'
  BY DEF Expects
<1>2. pc'[n] = "rewrite" => Expects(c, k, event[n].value)'
  <2> SUFFICES ASSUME pc[n] = "rewrite" PROVE Expects(c, k, event[n].value)'
    OBVIOUS
  <2>1. PICK x : x = event[n].value
    OBVIOUS
  <2>2. Expects(c, k, x)'
    BY <2>1 DEF InFlight
  <2> QED
    BY <2>1, <2>2
<1>3. pc'[n] = "notifying" /\ stage'[c] = "watching" /\ id'[c] \notin toNotify'[n] =>
        Knows(c, k, Outcome(event[n]))'
  <2> SUFFICES ASSUME pc[n] = "notifying", stage[c] = "watching", id[c] \notin toNotify[n],
                      stage'[c] = "watching"
               PROVE  Knows(c, k, Outcome(event[n]))'
    OBVIOUS
  <2>1. PICK x : x = Outcome(event[n])
    OBVIOUS
  <2>2. Knows(c, k, x)'
    BY <1>1, <2>1 DEF InFlight
  <2>3. Outcome(event[n])' = x
    BY <2>1 DEF Outcome
  <2> QED
    BY <2>2, <2>3
<1>4. pc'[n] = "delete" => Expects(c, k, Absent)'
  BY DEF InFlight
<1>5. pc'[n] \in {"notify", "notifying"} => event'[n].type = "Deleted" \/ db'[k] = event'[n].value
  BY DEF InFlight
<1> QED
  BY <1>2, <1>3, <1>4, <1>5 DEF InFlight

-----------------------------------------------------------------------------
(* The operations *)

\* An operation begins on a key nothing happens to, or the key is raced.
LEMMA BeginKeeps ==
  ASSUME IInv, NEW n \in Notifier, NEW k \in Key, NEW v \in Value,
         NEW step \in {"write", "rewrite", "notify"},
         NEW type \in {"Added", "Modified", "Deleted"},
         step \in {"write", "rewrite"} => type # "Deleted",
         step = "rewrite" => db[k] = v,
         step = "notify" => type = "Deleted",
         Begin(n, step, type, k, v)
  PROVE  IInv'
<1> USE DEF clients, registry, lock
<1>1. /\ MemStoreTypeOK /\ RegistryInv /\ FreshInv /\ OperationsInv /\ AloneInv
      /\ KnowledgeInv /\ WatchersTypeOK
  BY DEF IInv, MemStoreTypeOK
<1> DEFINE e == [type |-> type, key |-> k, value |-> v]
<1>2. /\ pc[n] = "idle" /\ event' = [event EXCEPT ![n] = e]
      /\ pc' = [pc EXCEPT ![n] = step]
      /\ raced' = IF Busy(k) THEN raced \cup {k} ELSE raced
      /\ gap' = gap \cup {<<c, k>> : c \in {c \in Client : Subscribing(c)}}
      /\ UNCHANGED <<clients, channel, closed, registry, lock, db>>
  BY DEF Begin, Goto
<1>3. /\ e \in Event /\ e.key = k /\ e.type = type /\ e.value = v
      /\ event \in [Notifier -> Event \cup {NoEvent}] /\ DOMAIN pc = Notifier
  BY <1>1 DEF Event, MemStoreTypeOK, WatchersTypeOK
<1> HIDE DEF e
<1>4. pc'[n] = step /\ event'[n] = e /\ \A m \in Notifier : m # n => pc'[m] = pc[m] /\ event'[m] = event[m]
  BY <1>2, <1>3
<1>5. MemStoreTypeOK'
  <2>1. WatchersTypeOK'
    BY <1>1, <1>2, <1>3 DEF WatchersTypeOK
  <2>2. ops' \in 0..MaxOps
    BY <1>1, MemStoreAssumption DEF Begin, MemStoreTypeOK
  <2>3. raced' \subseteq Key /\ gap' \subseteq Client \X Key
    BY <1>1, <1>2 DEF MemStoreTypeOK
  <2> QED
    BY <1>1, <1>2, <2>1, <2>2, <2>3 DEF MemStoreTypeOK
<1>6. RegistryInv'
  <2>1. n \notin notifying /\ notifying \subseteq Notifier
    BY <1>1, <1>2 DEF OperationsInv, WatchersTypeOK
  <2> QED
    BY <1>1, <1>2, <1>4, <2>1 DEF RegistryInv, IDsPartitioned, Registered
<1>7. FreshInv'
  BY <1>1, <1>2 DEF FreshInv
<1>8. OperationsInv'
  BY <1>1, <1>2, <1>3, <1>4 DEF OperationsInv
<1>9. k \notin raced' => ~Busy(k)
  BY <1>2
<1>10. AloneInv'
  <2> SUFFICES ASSUME NEW l \in Notifier, NEW m \in Notifier, pc'[l] # "idle", pc'[m] # "idle",
                      event'[l].key = event'[m].key, event'[l].key \notin raced'
               PROVE  l = m
    BY DEF AloneInv
  <2>1. CASE l # n /\ m # n
    BY <2>1, <1>1, <1>2, <1>4 DEF AloneInv
  <2>2. CASE l = n \/ m = n
    BY <2>2, <1>3, <1>4, <1>9 DEF Busy
  <2> QED
    BY <2>1, <2>2
<1>11. KnowledgeInv'
  <2> SUFFICES ASSUME NEW c \in Client, NEW l \in Key, <<c, l>> \notin gap', l \notin raced'
               PROVE  /\ Settled(c, l)'
                      /\ \A m \in Notifier : pc'[m] # "idle" /\ event'[m].key = l => InFlight(m, c, l)'
    BY DEF KnowledgeInv
  <2>1. <<c, l>> \notin gap /\ l \notin raced
    BY <1>2
  <2>2. \A x : Expects(c, l, x) => Expects(c, l, x)'
    BY <1>2, ExpectsUnchanged
  <2>3. Settled(c, l)'
    <3> SUFFICES ASSUME ~Busy(l)' PROVE Expects(c, l, db[l])'
      BY DEF Settled
    <3>1. ~Busy(l)
      <4> SUFFICES ASSUME NEW m \in Notifier, pc[m] # "idle", event[m].key = l PROVE FALSE
        BY DEF Busy
      <4> QED
        BY <1>2, <1>4 DEF Busy
    <3>2. PICK x : x = db[l]
      OBVIOUS
    <3>3. Expects(c, l, x)'
      BY <2>1, <2>2, <3>1, <3>2, <1>1 DEF KnowledgeInv, Settled
    <3> QED
      BY <3>2, <3>3, <1>2
  <2>4. ASSUME NEW m \in Notifier, m # n, pc'[m] # "idle", event'[m].key = l
        PROVE  InFlight(m, c, l)'
    <3>1. InFlight(m, c, l)
      BY <1>1, <1>4, <2>1, <2>4 DEF KnowledgeInv
    <3> QED
      BY <1>2, <1>4, <2>2, <2>4, <3>1, InFlightKept DEF InFlight
  <2>5. ASSUME l = k PROVE InFlight(n, c, k)'
    <3>1. stage[c] # "push"
      BY <1>2, <2>5 DEF Subscribing
    <3>2. Expects(c, k, db[k])
      BY <1>1, <1>9, <2>1, <2>5 DEF KnowledgeInv, Settled
    <3>3. step = "rewrite" => Expects(c, k, v)'
      BY <2>2, <2>5, <3>2
    <3>4. event'[n].value = v /\ event'[n].type = type
      BY <1>3, <1>4
    <3> QED
      BY <1>2, <1>4, <3>1, <3>3, <3>4 DEF InFlight
  <2> QED
    BY <2>3, <2>4, <2>5, <1>3, <1>4
<1> QED
  BY <1>5, <1>6, <1>7, <1>8, <1>10, <1>11 DEF IInv

\* An operation that begins promises a client nothing yet; it makes the key a raced
\* one if it is not alone on it, and a gap for a client between list and Add.
LEMMA StartKeeps ==
  ASSUME IInv, NEW n \in Notifier, NEW k \in Key, NEW v \in Value,
         Create(n, k, v) \/ Update(n, k, v) \/ Delete(n, k)
  PROVE  IInv'
<1>1. CASE Begin(n, "write", "Added", k, v) \/ Begin(n, "write", "Modified", k, v)
  BY <1>1, BeginKeeps
<1>2. CASE db[k] = v /\ Begin(n, "rewrite", "Modified", k, v)
  BY <1>2, BeginKeeps
<1>3. CASE db[k] # Absent /\ Begin(n, "notify", "Deleted", k, db[k])
  <2>1. PICK x : x = db[k]
    OBVIOUS
  <2>2. x \in Value
    BY <1>3, <2>1 DEF IInv, MemStoreTypeOK
  <2> QED
    BY <1>3, <2>1, <2>2, BeginKeeps
<1> QED
  BY <1>1, <1>2, <1>3 DEF Create, Update, Delete

\* A step of the operation of n on k concerns no other key, and of the clients
\* only those that n keeps its promise to.
LEMMA StepKnowledge ==
  ASSUME AloneInv, KnowledgeInv, NEW n \in Notifier, NEW k \in Key,
         pc[n] # "idle", event[n].key = k,
         UNCHANGED <<clients, channel, id, raced, gap>>,
         \A m \in Notifier : m # n => UNCHANGED <<pc[m], event[m], toNotify[m]>>,
         pc'[n] = "idle" \/ event'[n] = event[n],
         \A l \in Key : l # k => UNCHANGED db[l],
         \A c \in Client : InFlight(n, c, k) =>
           /\ pc'[n] = "idle" => Expects(c, k, db[k])'
           /\ pc'[n] # "idle" => InFlight(n, c, k)'
  PROVE  AloneInv' /\ KnowledgeInv'
<1>1. AloneInv'
  BY DEF AloneInv
<1>2. KnowledgeInv'
  <2> SUFFICES ASSUME NEW c \in Client, NEW l \in Key, <<c, l>> \notin gap, l \notin raced
               PROVE  /\ Settled(c, l)'
                      /\ \A m \in Notifier : pc'[m] # "idle" /\ event'[m].key = l => InFlight(m, c, l)'
    BY DEF KnowledgeInv
  <2>1. \A x : Expects(c, l, x) => Expects(c, l, x)'
    BY ExpectsUnchanged DEF clients
  <2>2. CASE l # k
    <3>1. Settled(c, l)'
      <4> SUFFICES ASSUME ~Busy(l)' PROVE Expects(c, l, db[l])'
        BY DEF Settled
      <4>1. ~Busy(l)
        BY <2>2 DEF Busy
      <4>2. PICK x : x = db[l]
        OBVIOUS
      <4>3. Expects(c, l, x)'
        BY <2>1, <4>1, <4>2 DEF KnowledgeInv, Settled
      <4> QED
        BY <2>2, <4>2, <4>3
    <3>2. ASSUME NEW m \in Notifier, pc'[m] # "idle", event'[m].key = l
          PROVE  InFlight(m, c, l)'
      <4>1. m # n
        BY <2>2, <3>2
      <4>2. InFlight(m, c, l)
        BY <3>2, <4>1 DEF KnowledgeInv
      <4> QED
        BY <2>1, <2>2, <4>1, <4>2, InFlightKept DEF InFlight, clients
    <3> QED
      BY <3>1, <3>2
  <2>3. CASE l = k
    <3>1. InFlight(n, c, k)
      BY <2>3 DEF KnowledgeInv
    <3>2. \A m \in Notifier : pc[m] # "idle" /\ event[m].key = k => m = n
      BY <2>3 DEF AloneInv
    <3>3. CASE pc'[n] = "idle"
      <4>1. Expects(c, k, db[k])'
        BY <3>1, <3>3
      <4>2. Settled(c, k)'
        BY <4>1 DEF Settled
      <4>3. ~ \E m \in Notifier : pc'[m] # "idle" /\ event'[m].key = k
        BY <3>2, <3>3
      <4> QED
        BY <2>3, <4>2, <4>3
    <3>4. CASE pc'[n] # "idle"
      <4>1. InFlight(n, c, k)' /\ event'[n] = event[n]
        BY <3>1, <3>4
      <4>2. Settled(c, k)'
        BY <3>4, <4>1 DEF Settled, Busy
      <4>3. \A m \in Notifier : pc'[m] # "idle" /\ event'[m].key = k => m = n
        BY <3>2
      <4> QED
        BY <2>3, <4>1, <4>2, <4>3
    <3> QED
      BY <3>3, <3>4
  <2> QED
    BY <2>2, <2>3
<1> QED
  BY <1>1, <1>2

\* The step of an operation names the key it works on.
LEMMA BusyEvent ==
  ASSUME IInv, NEW n \in Notifier, pc[n] # "idle"
  PROVE  event[n] \in Event /\ event[n].key \in Key /\ event[n].value \in Value
BY DEF IInv, OperationsInv, Event

\* Writing makes the value of the event that of the store.
LEMMA WriteMapKeeps ==
  ASSUME IInv, NEW n \in Notifier, WriteMap(n)
  PROVE  IInv'
<1> USE DEF clients, registry, lock
<1>1. /\ MemStoreTypeOK /\ WatchersTypeOK /\ RegistryInv /\ FreshInv /\ OperationsInv
      /\ AloneInv /\ KnowledgeInv
  BY DEF IInv, MemStoreTypeOK
<1>2. PICK k \in Key : event[n].key = k
  BY BusyEvent DEF WriteMap
<1>3. event[n] \in Event /\ event[n].value \in Value
  BY BusyEvent DEF WriteMap
<1>4. /\ db' = [db EXCEPT ![k] = event[n].value]
      /\ \/ pc[n] = "write" /\ pc' = [pc EXCEPT ![n] = "notify"] /\ event' = event
         \/ pc[n] = "rewrite" /\ pc' = [pc EXCEPT ![n] = "idle"]
            /\ event' = [event EXCEPT ![n] = NoEvent]
      /\ UNCHANGED <<clients, channel, closed, registry, lock, ops, raced, gap>>
  BY <1>2 DEF WriteMap, Continue, Finish, Goto
<1>5. /\ \A m \in Notifier : m # n => UNCHANGED <<pc[m], event[m], toNotify[m]>>
      /\ pc[n] = "write" => pc'[n] = "notify" /\ event'[n] = event[n]
      /\ pc[n] = "rewrite" => pc'[n] = "idle"
      /\ db'[k] = event[n].value
      /\ \A l \in Key : l # k => UNCHANGED db[l]
  BY <1>1, <1>4 DEF MemStoreTypeOK, WatchersTypeOK
<1>6. MemStoreTypeOK'
  BY <1>1, <1>3, <1>4 DEF MemStoreTypeOK, WatchersTypeOK
<1>7. n \notin notifying
  BY <1>1, <1>4 DEF OperationsInv
<1>8. RegistryInv'
  BY <1>1, <1>4, <1>5, <1>7 DEF RegistryInv, IDsPartitioned, Registered, WatchersTypeOK
<1>9. FreshInv' /\ OperationsInv'
  BY <1>1, <1>4, <1>5 DEF FreshInv, OperationsInv
<1>10. ASSUME NEW c \in Client, InFlight(n, c, k)
       PROVE  /\ pc'[n] = "idle" => Expects(c, k, db[k])'
              /\ pc'[n] # "idle" => InFlight(n, c, k)'
  <2>1. CASE pc[n] = "rewrite"
    <3>1. PICK x : x = event[n].value
      OBVIOUS
    <3>2. Expects(c, k, x)
      BY <1>10, <2>1, <3>1 DEF InFlight
    <3>3. Expects(c, k, x)'
      BY <1>4, <3>2, ExpectsUnchanged
    <3> QED
      BY <1>5, <2>1, <3>1, <3>3
  <2>2. CASE pc[n] = "write"
    BY <1>4, <1>5, <1>10, <2>2 DEF InFlight
  <2> QED
    BY <1>4, <2>1, <2>2
<1>11. AloneInv' /\ KnowledgeInv'
  BY <1>1, <1>2, <1>4, <1>5, <1>10, StepKnowledge
<1> QED
  BY <1>6, <1>8, <1>9, <1>11 DEF IInv

\* A notifier that takes the lock has yet to send to every client that is registered.
LEMMA NotifyWatchersKeeps ==
  ASSUME IInv, NEW n \in Notifier, NotifyWatchers(n)
  PROVE  IInv'
<1> USE DEF clients, registry, lock
<1>1. /\ MemStoreTypeOK /\ WatchersTypeOK /\ RegistryInv /\ FreshInv /\ OperationsInv
      /\ AloneInv /\ KnowledgeInv
  BY DEF IInv, MemStoreTypeOK
<1>2. PICK k \in Key : event[n].key = k
  BY BusyEvent DEF NotifyWatchers
<1>3. event[n] \in Event
  BY BusyEvent DEF NotifyWatchers
<1>4. /\ pc[n] = "notify" /\ pc' = [pc EXCEPT ![n] = "notifying"]
      /\ notifying' = notifying \cup {n} /\ toNotify' = [toNotify EXCEPT ![n] = Registered]
      /\ UNCHANGED <<clients, channel, closed, registry, event, db, ops, raced, gap>>
  BY DEF NotifyWatchers, Notify, Goto
<1>5. /\ \A m \in Notifier : m # n => UNCHANGED <<pc[m], event[m], toNotify[m]>>
      /\ pc'[n] = "notifying" /\ toNotify'[n] = Registered
  BY <1>1, <1>4 DEF MemStoreTypeOK, WatchersTypeOK
<1>6. MemStoreTypeOK'
  BY <1>1, <1>4, NotifyType DEF NotifyWatchers, MemStoreTypeOK
<1>7. RegistryInv'
  BY <1>1, <1>3, LockRegistry DEF NotifyWatchers
<1>8. FreshInv' /\ OperationsInv'
  BY <1>1, <1>4, <1>5 DEF FreshInv, OperationsInv
<1>9. ASSUME NEW c \in Client, InFlight(n, c, k)
      PROVE  /\ pc'[n] = "idle" => Expects(c, k, db[k])'
             /\ pc'[n] # "idle" => InFlight(n, c, k)'
  <2>1. stage[c] = "watching" => id[c] \in Registered
    BY <1>1, WatchersAssumption DEF RegistryInv, IDsPartitioned, Registered, WatchersTypeOK
  <2> QED
    BY <1>4, <1>5, <1>9, <2>1 DEF InFlight
<1>10. AloneInv' /\ KnowledgeInv'
  BY <1>1, <1>2, <1>4, <1>5, <1>9, StepKnowledge
<1> QED
  BY <1>6, <1>7, <1>8, <1>10 DEF IInv

\* When the loop is over every client has been sent the event.
LEMMA NotifiedKeeps ==
  ASSUME IInv, NEW n \in Notifier, Notified(n)
  PROVE  IInv'
<1> USE DEF clients, registry, lock
<1>1. /\ MemStoreTypeOK /\ WatchersTypeOK /\ RegistryInv /\ FreshInv /\ OperationsInv
      /\ AloneInv /\ KnowledgeInv
  BY DEF IInv, MemStoreTypeOK
<1>2. PICK k \in Key : event[n].key = k
  BY BusyEvent DEF Notified
<1>3. event[n] \in Event
  BY BusyEvent DEF Notified
<1>4. /\ pc[n] = "notifying" /\ toNotify[n] = {} /\ notifying' = notifying \ {n}
      /\ \/ event[n].type = "Deleted" /\ pc' = [pc EXCEPT ![n] = "delete"] /\ event' = event
         \/ event[n].type # "Deleted" /\ pc' = [pc EXCEPT ![n] = "idle"]
            /\ event' = [event EXCEPT ![n] = NoEvent]
      /\ UNCHANGED <<clients, channel, closed, registry, toNotify, db, ops, raced, gap>>
  BY DEF Notified, EndNotify, Continue, Finish, Goto
<1>5. /\ \A m \in Notifier : m # n => UNCHANGED <<pc[m], event[m], toNotify[m]>>
      /\ event[n].type = "Deleted" => pc'[n] = "delete" /\ event'[n] = event[n]
      /\ event[n].type # "Deleted" => pc'[n] = "idle"
  BY <1>1, <1>4 DEF MemStoreTypeOK, WatchersTypeOK
<1>6. event' \in [Notifier -> Event \cup {NoEvent}]
  BY <1>1, <1>4 DEF WatchersTypeOK
<1>7. MemStoreTypeOK'
  BY <1>1, <1>4, <1>6, EndNotifyType DEF Notified, MemStoreTypeOK
<1>8. \A m \in notifying : m # n => event'[m] = event[m]
  BY <1>1, <1>5 DEF WatchersTypeOK
<1>9. RegistryInv'
  BY <1>1, <1>8, LockRegistry DEF Notified
<1>10. FreshInv' /\ OperationsInv'
  BY <1>1, <1>4, <1>5 DEF FreshInv, OperationsInv
<1>11. ASSUME NEW c \in Client, InFlight(n, c, k)
       PROVE  /\ pc'[n] = "idle" => Expects(c, k, db[k])'
              /\ pc'[n] # "idle" => InFlight(n, c, k)'
  <2>1. PICK x : x = Outcome(event[n])
    OBVIOUS
  <2>2. Expects(c, k, x)
    BY <1>4, <1>11, <2>1 DEF InFlight, Expects
  <2>3. Expects(c, k, x)'
    BY <1>4, <2>2, ExpectsUnchanged
  <2>4. CASE event[n].type = "Deleted"
    BY <1>4, <1>5, <1>11, <2>1, <2>3, <2>4 DEF InFlight, Outcome
  <2>5. CASE event[n].type # "Deleted"
    <3>1. db'[k] = x
      BY <1>4, <1>11, <2>1, <2>5 DEF InFlight, Outcome
    <3> QED
      BY <1>5, <2>3, <2>5, <3>1
  <2> QED
    BY <2>4, <2>5
<1>12. AloneInv' /\ KnowledgeInv'
  BY <1>1, <1>2, <1>4, <1>5, <1>11, StepKnowledge
<1> QED
  BY <1>7, <1>9, <1>10, <1>12 DEF IInv

\* A Delete makes true what it told the watchers before.
LEMMA DeleteFromMapKeeps ==
  ASSUME IInv, NEW n \in Notifier, DeleteFromMap(n)
  PROVE  IInv'
<1> USE DEF clients, registry, lock
<1>1. /\ MemStoreTypeOK /\ WatchersTypeOK /\ RegistryInv /\ FreshInv /\ OperationsInv
      /\ AloneInv /\ KnowledgeInv
  BY DEF IInv, MemStoreTypeOK
<1>2. PICK k \in Key : event[n].key = k
  BY BusyEvent DEF DeleteFromMap
<1>3. /\ pc[n] = "delete" /\ db' = [db EXCEPT ![k] = Absent]
      /\ pc' = [pc EXCEPT ![n] = "idle"] /\ event' = [event EXCEPT ![n] = NoEvent]
      /\ UNCHANGED <<clients, channel, closed, registry, lock, ops, raced, gap>>
  BY <1>2 DEF DeleteFromMap, Finish, Goto
<1>4. /\ \A m \in Notifier : m # n => UNCHANGED <<pc[m], event[m], toNotify[m]>>
      /\ pc'[n] = "idle" /\ db'[k] = Absent
      /\ \A l \in Key : l # k => UNCHANGED db[l]
  BY <1>1, <1>3 DEF MemStoreTypeOK, WatchersTypeOK
<1>5. MemStoreTypeOK'
  BY <1>1, <1>3 DEF MemStoreTypeOK, WatchersTypeOK
<1>6. n \notin notifying
  BY <1>1, <1>3 DEF OperationsInv
<1>7. RegistryInv'
  BY <1>1, <1>3, <1>4, <1>6 DEF RegistryInv, IDsPartitioned, Registered, WatchersTypeOK
<1>8. FreshInv' /\ OperationsInv'
  BY <1>1, <1>3, <1>4 DEF FreshInv, OperationsInv
<1>9. ASSUME NEW c \in Client, InFlight(n, c, k) PROVE Expects(c, k, db[k])'
  <2>1. Expects(c, k, Absent)
    BY <1>3, <1>9 DEF InFlight
  <2>2. Expects(c, k, Absent)'
    BY <1>3, <2>1, ExpectsUnchanged
  <2> QED
    BY <1>4, <2>2
<1>10. AloneInv' /\ KnowledgeInv'
  BY <1>1, <1>2, <1>3, <1>4, <1>9, StepKnowledge
<1> QED
  BY <1>5, <1>7, <1>8, <1>10 DEF IInv

\* A client that has been sent the event of n will know it.
LEMMA SendEventKeeps ==
  ASSUME IInv, NEW n \in Notifier, SendEvent(n)
  PROVE  IInv'
<1>1. /\ MemStoreTypeOK /\ WatchersTypeOK /\ RegistryInv /\ FreshInv /\ OperationsInv
      /\ AloneInv /\ KnowledgeInv
  BY DEF IInv, MemStoreTypeOK
<1>2. PICK i \in toNotify[n] :
        /\ i \in ID /\ watchers[i] \in Client
        /\ stage[watchers[i]] \in {"watching", "stopping"} /\ id[watchers[i]] = i
        /\ event[n] \in Event
        /\ channel' = [channel EXCEPT ![watchers[i]] = Append(@, event[n])]
        /\ toNotify' = [toNotify EXCEPT ![n] = @ \ {i}]
  BY <1>1, SendTo DEF SendEvent
<1>3. UNCHANGED <<clients, closed, registry, notifying, event, db, pc, ops, raced, gap>>
  BY DEF SendEvent, Send
<1>4. WatchersTypeOK' /\ RegistryInv'
  BY <1>1, SendType DEF SendEvent
<1>5. MemStoreTypeOK'
  BY <1>1, <1>3, <1>4 DEF MemStoreTypeOK
<1>6. PICK c : c = watchers[i]
  OBVIOUS
<1>7. PICK e : e = event[n]
  OBVIOUS
<1>8. /\ c \in Client /\ e \in Event /\ e.key \in Key
      /\ stage[c] \in {"watching", "stopping"} /\ id[c] = i
      /\ channel' = [channel EXCEPT ![c] = Append(@, e)] /\ UNCHANGED clients
  BY <1>2, <1>3, <1>6, <1>7 DEF Event
<1>9. FreshInv'
  BY <1>1, <1>8, SendFresh
<1>10. OperationsInv' /\ AloneInv'
  BY <1>1, <1>3 DEF OperationsInv, AloneInv
<1>11. /\ Knows(c, e.key, Outcome(e))'
       /\ \A d \in Client, k \in Key : \A x :
            /\ (d # c \/ k # e.key) /\ Expects(d, k, x) => Expects(d, k, x)'
            /\ (d # c \/ k # e.key) /\ Knows(d, k, x) => Knows(d, k, x)'
  BY <1>1, <1>8, SendExpects
<1>12. pc[n] = "notifying"
  BY <1>1 DEF OperationsInv, SendEvent, Send
<1>13. KnowledgeInv'
  <2> SUFFICES ASSUME NEW d \in Client, NEW k \in Key, <<d, k>> \notin gap, k \notin raced
               PROVE  /\ Settled(d, k)'
                      /\ \A m \in Notifier : pc[m] # "idle" /\ event[m].key = k => InFlight(m, d, k)'
    BY <1>3 DEF KnowledgeInv
  <2>1. CASE k # e.key
    <3>1. \A x : Expects(d, k, x) => Expects(d, k, x)'
      BY <1>11, <2>1
    <3>2. Settled(d, k)'
      <4> SUFFICES ASSUME ~Busy(k)' PROVE Expects(d, k, db[k])'
        BY DEF Settled
      <4>1. ~Busy(k)
        BY <1>3 DEF Busy
      <4>2. PICK x : x = db[k]
        OBVIOUS
      <4>3. Expects(d, k, x)'
        BY <1>1, <3>1, <4>1, <4>2 DEF KnowledgeInv, Settled
      <4> QED
        BY <1>3, <4>2, <4>3
    <3>3. ASSUME NEW m \in Notifier, pc[m] # "idle", event[m].key = k
          PROVE  InFlight(m, d, k)'
      <4>1. m # n
        BY <1>7, <2>1, <3>3
      <4>2. InFlight(m, d, k)
        BY <1>1, <3>3 DEF KnowledgeInv
      <4>3. toNotify'[m] = toNotify[m]
        BY <1>1, <1>2, <4>1 DEF WatchersTypeOK
      <4>4. stage'[d] # "push" /\ stage'[d] = stage[d] /\ id'[d] = id[d]
        BY <1>3, <4>2 DEF InFlight, clients, registry
      <4> QED
        BY <1>3, <3>1, <4>2, <4>3, <4>4, InFlightKept
    <3> QED
      BY <3>2, <3>3
  <2>2. CASE k = e.key
    <3>1. InFlight(n, d, k)
      BY <1>1, <1>7, <1>12, <2>2 DEF KnowledgeInv
    <3>2. \A m \in Notifier : pc[m] # "idle" /\ event[m].key = k => m = n
      BY <1>1, <1>7, <1>12, <2>2 DEF AloneInv
    <3>3. Settled(d, k)'
      BY <1>3, <1>7, <1>12, <2>2 DEF Settled, Busy
    <3>4. ASSUME stage[d] = "watching", id[d] \notin toNotify'[n] PROVE Knows(d, k, Outcome(e))'
      <4>1. CASE d = c
        BY <1>11, <2>2, <4>1
      <4>2. CASE d # c
        <5>1. watchers[id[d]] = d /\ id[d] \in ID
          BY <1>1, <3>4 DEF RegistryInv, IDsPartitioned, WatchersTypeOK
        <5>2. id[d] # i
          BY <1>6, <4>2, <5>1
        <5>3. id[d] \notin toNotify[n]
          BY <1>1, <1>2, <3>4, <5>2 DEF WatchersTypeOK
        <5>4. Knows(d, k, Outcome(e))
          BY <1>7, <1>12, <3>1, <3>4, <5>3 DEF InFlight
        <5>5. PICK x : x = Outcome(e)
          OBVIOUS
        <5> QED
          BY <1>11, <4>2, <5>4, <5>5 DEF Outcome
      <4> QED
        BY <4>1, <4>2
    <3>5. stage'[d] = stage[d] /\ id'[d] = id[d] /\ pc'[n] = "notifying" /\ event'[n] = e
      BY <1>3, <1>7, <1>12 DEF clients, registry
    <3>6. Outcome(event[n])' = Outcome(e)
      BY <3>5 DEF Outcome
    <3>7. pc'[n] = "notifying" /\ stage'[d] = "watching" /\ id'[d] \notin toNotify'[n] =>
            Knows(d, k, Outcome(event[n]))'
      BY <3>4, <3>5, <3>6
    <3>8. InFlight(n, d, k)'
      BY <1>3, <1>12, <3>1, <3>5, <3>7 DEF InFlight
    <3> QED
      BY <3>2, <3>3, <3>8
  <2> QED
    BY <2>1, <2>2
<1> QED
  BY <1>4, <1>5, <1>9, <1>10, <1>13 DEF IInv

-----------------------------------------------------------------------------
(* The watchers *)

\* A client that lists the store while something happens to a key has a gap.
LEMMA WatchListKeeps ==
  ASSUME IInv, NEW c \in Client, WatchList(c)
  PROVE  IInv'
<1>1. /\ MemStoreTypeOK /\ WatchersTypeOK /\ RegistryInv /\ FreshInv /\ OperationsInv
      /\ AloneInv /\ KnowledgeInv /\ db \in [Key -> Value \cup {Absent}]
  BY DEF IInv, MemStoreTypeOK
<1>2. PICK s \in [Key -> Value \cup {Absent}] : s = db
  BY <1>1
<1>3. /\ List(c, s)
      /\ gap' = gap \cup {<<c, k>> : k \in {k \in Key : Busy(k)}}
      /\ UNCHANGED <<db, pc, ops, raced, channel, closed, registry, lock, event>>
  BY <1>2 DEF WatchList, List
<1>4. WatchersTypeOK' /\ RegistryInv' /\ FreshInv'
  BY <1>1, <1>3, ListType, ListRegistry, WatchingFresh
<1>5. MemStoreTypeOK'
  BY <1>1, <1>3, <1>4 DEF MemStoreTypeOK
<1>6. OperationsInv' /\ AloneInv'
  BY <1>1, <1>3 DEF OperationsInv, AloneInv, lock
<1>7. KnowledgeInv'
  <2> SUFFICES ASSUME NEW d \in Client, NEW k \in Key, <<d, k>> \notin gap', k \notin raced
               PROVE  /\ Settled(d, k)'
                      /\ \A m \in Notifier : pc[m] # "idle" /\ event[m].key = k => InFlight(m, d, k)'
    BY <1>3 DEF KnowledgeInv
  <2>1. <<d, k>> \notin gap
    BY <1>3
  <2>2. Busy(k)' <=> Busy(k)
    BY <1>3 DEF Busy
  <2>3. CASE d = c
    <3>1. ~Busy(k)
      BY <1>3, <2>3
    <3>2. PICK x : x = s[k]
      OBVIOUS
    <3>3. Expects(c, k, s[k])'
      BY <1>1, <1>3, ListExpects
    <3>4. Settled(d, k)'
      BY <1>2, <1>3, <2>3, <3>3 DEF Settled
    <3> QED
      BY <3>1, <3>4 DEF Busy
  <2>4. CASE d # c
    <3>1. \A x : Expects(d, k, x) => Expects(d, k, x)'
      BY <1>1, <1>3, <2>4, ListOthers
    <3>2. Settled(d, k)'
      <4> SUFFICES ASSUME ~Busy(k) PROVE Expects(d, k, db[k])'
        BY <2>2 DEF Settled
      <4>1. PICK x : x = db[k]
        OBVIOUS
      <4>2. Expects(d, k, x)'
        BY <1>1, <2>1, <3>1, <4>1 DEF KnowledgeInv, Settled
      <4> QED
        BY <1>3, <4>1, <4>2
    <3>3. ASSUME NEW m \in Notifier, pc[m] # "idle", event[m].key = k
          PROVE  InFlight(m, d, k)'
      <4>1. InFlight(m, d, k)
        BY <1>1, <2>1, <3>3 DEF KnowledgeInv
      <4>2. stage'[d] = stage[d] /\ stage'[d] # "push"
        BY <1>1, <1>3, <2>4, <4>1 DEF List, Enter, InFlight, WatchersTypeOK
      <4> QED
        BY <1>3, <3>1, <4>1, <4>2, InFlightKept DEF registry, lock
    <3> QED
      BY <3>2, <3>3
  <2> QED
    BY <2>3, <2>4
<1> QED
  BY <1>4, <1>5, <1>6, <1>7 DEF IInv

\* What clients do leaves the store alone and brings no view further from it.
LEMMA WatchingKeeps ==
  ASSUME IInv, NEW c \in Client, Watching(c)
  PROVE  IInv'
<1>1. /\ MemStoreTypeOK /\ WatchersTypeOK /\ RegistryInv /\ FreshInv /\ OperationsInv
      /\ AloneInv /\ KnowledgeInv
  BY DEF IInv, MemStoreTypeOK
<1>2. /\ StartWatch(c) \/ Push(c) \/ Add(c) \/ Receive(c) \/ Stop(c) \/ Del(c)
      /\ UNCHANGED <<db, pc, ops, raced, gap>>
  BY DEF Watching
<1>3. UNCHANGED <<lock, event>>
  BY <1>2 DEF StartWatch, Push, Add, Receive, Stop, Del, Unregister
<1>4. WatchersTypeOK' /\ RegistryInv' /\ FreshInv'
  BY <1>1, <1>2, WatchingType, WatchingRegistry, WatchingFresh
<1>5. MemStoreTypeOK' /\ OperationsInv' /\ AloneInv'
  BY <1>1, <1>2, <1>3, <1>4 DEF MemStoreTypeOK, OperationsInv, AloneInv, lock
<1>6. \A d \in Client, k \in Key : \A x : Expects(d, k, x) => Expects(d, k, x)'
  BY <1>1, <1>2, WatchingExpects
<1>7. \A d \in Client : stage[d] # "push" =>
        /\ stage'[d] # "push"
        /\ stage'[d] = "watching" => stage[d] = "watching" /\ id'[d] = id[d]
  BY <1>1, <1>2 DEF StartWatch, Push, Add, Receive, Stop, Del, Unregister, Enter,
     AllocateID, registry, WatchersTypeOK
<1>8. KnowledgeInv'
  <2> SUFFICES ASSUME NEW d \in Client, NEW k \in Key, <<d, k>> \notin gap, k \notin raced
               PROVE  /\ Settled(d, k)'
                      /\ \A m \in Notifier : pc[m] # "idle" /\ event[m].key = k => InFlight(m, d, k)'
    BY <1>2, <1>3 DEF KnowledgeInv
  <2>1. Settled(d, k)'
    <3> SUFFICES ASSUME ~Busy(k) PROVE Expects(d, k, db[k])'
      BY <1>2, <1>3 DEF Settled, Busy
    <3>1. PICK x : x = db[k]
      OBVIOUS
    <3>2. Expects(d, k, x)'
      BY <1>1, <1>6, <3>1 DEF KnowledgeInv, Settled
    <3> QED
      BY <1>2, <3>1, <3>2
  <2>2. ASSUME NEW m \in Notifier, pc[m] # "idle", event[m].key = k
        PROVE  InFlight(m, d, k)'
    <3>1. InFlight(m, d, k)
      BY <1>1, <2>2 DEF KnowledgeInv
    <3>2. stage[d] # "push"
      BY <3>1 DEF InFlight
    <3> QED
      BY <1>2, <1>3, <1>6, <1>7, <3>1, <3>2, InFlightKept DEF lock
  <2> QED
    BY <2>1, <2>2
<1> QED
  BY <1>4, <1>5, <1>8 DEF IInv

-----------------------------------------------------------------------------
(* The theorems *)

\* The inductive invariant holds of every behaviour of the memory store.
THEOREM MemStoreInvariant == Spec => []IInv
<1>1. IInv /\ [Next]_vars => IInv'
  <2> SUFFICES ASSUME IInv, [Next]_vars PROVE IInv'
    OBVIOUS
  <2>1. ASSUME NEW n \in Notifier, NEW k \in Key, Delete(n, k) PROVE IInv'
    <3>1. db[k] \in Value
      BY <2>1 DEF Delete, IInv, MemStoreTypeOK
    <3> QED
      BY <2>1, <3>1, StartKeeps
  <2>2. ASSUME NEW n \in Notifier, NEW k \in Key, NEW v \in Value, Create(n, k, v) \/ Update(n, k, v)
        PROVE  IInv'
    BY <2>2, StartKeeps
  <2>3. ASSUME NEW n \in Notifier, Operation(n) PROVE IInv'
    BY <2>3, WriteMapKeeps, NotifyWatchersKeeps, SendEventKeeps, NotifiedKeeps,
       DeleteFromMapKeeps DEF Operation
  <2>4. ASSUME NEW c \in Client, WatchList(c) \/ Watching(c) PROVE IInv'
    BY <2>4, WatchListKeeps, WatchingKeeps
  <2>5. CASE UNCHANGED vars
    <3> USE <2>5 DEF vars, wvars, clients, registry, lock
    <3>1. MemStoreTypeOK' /\ RegistryInv' /\ FreshInv'
      BY DEF IInv, MemStoreTypeOK, WatchersTypeOK, RegistryInv, IDsPartitioned, Registered, FreshInv
    <3>2. OperationsInv' /\ AloneInv'
      BY DEF IInv, OperationsInv, AloneInv
    <3>3. KnowledgeInv'
      <4>1. \A c \in Client, k \in Key : \A x :
              /\ Expects(c, k, x)' <=> Expects(c, k, x)
              /\ Knows(c, k, x)' <=> Knows(c, k, x)
        BY DEF Expects, Lists, Knows, Outcome
      <4> QED
        BY <4>1 DEF IInv, KnowledgeInv, Settled, Busy, InFlight, Outcome
    <3> QED
      BY <3>1, <3>2, <3>3 DEF IInv
  <2> QED
    BY <2>1, <2>2, <2>3, <2>4, <2>5 DEF Next
<1> QED
  BY MemStoreInit, <1>1, PTL DEF Spec

\* Every variable of the memory store and of its registry keeps its type.
THEOREM MemStoreTypes == Spec => []MemStoreTypeOK
<1>1. IInv => MemStoreTypeOK
  BY DEF IInv
<1> QED
  BY <1>1, MemStoreInvariant, PTL

\* Free ids and ids in use partition the range, and the registry, the
\* allocator and the clients agree on who has which, for any number of
\* watchers, ids and goroutines (watchers.go, id.go).
THEOREM IDsStayPartitioned == Spec => []IDsPartitioned
<1>1. IInv => IDsPartitioned
  BY DEF IInv, RegistryInv
<1> QED
  BY <1>1, MemStoreInvariant, PTL

\* No notifier of the memory store ever sends on a closed channel, which would
\* end the process, however Stop and NotifyWatchers interleave.
THEOREM OpenChannels == Spec => []NeverSendsOnClosed
<1>1. IInv => NeverSendsOnClosed
  BY RegistrySends DEF IInv, MemStoreTypeOK
<1> QED
  BY <1>1, MemStoreInvariant, PTL

\* A watcher that has received what it was sent has the store's value of every
\* key that was never raced and that no operation changed in its gap, for any
\* number of keys, values, operations and watchers.
THEOREM ViewsAgree == Spec => []ViewsConverge
<1>1. IInv => ViewsConverge
  <2> SUFFICES ASSUME IInv, NEW c \in Client, NEW k \in Key, Informed(c, k),
                      <<c, k>> \notin gap, k \notin raced, ~Busy(k)
               PROVE  view[c][k] = db[k]
    BY DEF ViewsConverge
  <2>1. Expects(c, k, db[k])
    BY DEF IInv, KnowledgeInv, Settled
  <2> QED
    BY <2>1, InformedKnows
<1> QED
  BY <1>1, MemStoreInvariant, PTL
=============================================================================
