-------------------------- MODULE ConfigRESTProofs --------------------------
(***************************************************************************)
(* Proofs about ConfigREST: its types, that the data servers hold what the *)
(* store holds, and that the view of every watcher converges to the store. *)
(***************************************************************************)
EXTENDS ConfigREST, WatchersProofs

-----------------------------------------------------------------------------
(* The inductive invariant *)

Notifying == {"notify", "notifying"}

\* The requests that hold the lock are those that notify, a request has its
\* event until it returns, and its step is one of its operation's.
RequestsInv ==
  \A n \in Notifier :
    /\ n \in notifying <=> pc[n] = "notifying"
    /\ pc[n] # "idle" => event[n] \in Event
    /\ pc[n] \in {"createIntent", "updateIntent", "check", "write"} => event[n].type # "Deleted"
    /\ pc[n] \in {"deleteIntent", "remove"} => event[n].type = "Deleted"

\* Two requests on a name make it a raced one.
AloneInv ==
  \A m, n \in Notifier :
    /\ pc[m] # "idle" /\ pc[n] # "idle" /\ event[m].key = event[n].key
    /\ event[m].key \notin raced
    => m = n

\* While nothing happens to k, a client is to know what the store holds; ...
Settled(c, k) == ~Busy(k) => Expects(c, k, db[k])

\* ... and while n works on k it is, too, until n has changed the store.
InFlight(n, c, k) ==
  /\ stage[c] # "push"
  /\ pc[n] \notin Notifying => Expects(c, k, db[k])
  /\ pc[n] \in Notifying => db[k] = Outcome(event[n])
  /\ pc[n] = "notifying" /\ stage[c] = "watching" /\ id[c] \notin toNotify[n] =>
       Knows(c, k, Outcome(event[n]))

KnowledgeInv ==
  \A c \in Client, k \in Key : <<c, k>> \notin gap /\ k \notin raced =>
    /\ Settled(c, k)
    /\ \A n \in Notifier :
         pc[n] # "idle" /\ event[n].key = k => InFlight(n, c, k)

\* What d is to hold for t when the contents of a Config is x
Intended(t, d, x) ==
  IF x # Absent /\ TargetOf[x] = t /\ Lifecycle!Bound(t, d) THEN x ELSE Absent

\* The data servers hold x for k, and they can: its target has a datastore.
Agree(k, x) ==
  /\ \A d \in DataServer, t \in Target : intents[d][t][k] = Intended(t, d, x)
  /\ x # Absent => Valid(TargetOf[x])

\* What they hold of k while n works on it, step by step.  The intent is changed
\* before the entry, on the data server that the target is bound to.
Syncing(n, k) ==
  /\ pc[n] \in {"assert", "target"} \cup Calling \cup Notifying => Agree(k, db[k])
  /\ pc[n] = "check" /\ db[k] = Absent => Agree(k, event[n].value)
  /\ pc[n] = "write" => Agree(k, event[n].value)
  /\ pc[n] = "remove" => Agree(k, Absent)
  /\ pc[n] \in {"target", "updateIntent", "deleteIntent"} =>
       db[k] # Absent /\ TargetOf[db[k]] = TargetOf[event[n].value]
  /\ pc[n] \in Calling =>
       /\ Valid(TargetOf[event[n].value])
       /\ Lifecycle!Bound(TargetOf[event[n].value], server[n])

SyncInv ==
  \A k \in Key \ (upset \cup raced) :
    /\ ~Busy(k) => Agree(k, db[k])
    /\ \A n \in Notifier : pc[n] # "idle" /\ event[n].key = k => Syncing(n, k)

\* There is no intent without its datastore.
HousedInv ==
  \A d \in DataServer, t \in Target, k \in Key :
    intents[d][t][k] # Absent => <<d, t>> \in present

\* The part that concerns the watchers, and the part that concerns the targets
WatchInv == RegistryInv /\ FreshInv /\ RequestsInv /\ AloneInv /\ KnowledgeInv
TargetInv == HousedInv /\ SyncInv

IInv == ConfigTypeOK /\ WatchInv /\ TargetInv

-----------------------------------------------------------------------------
(* Types *)

\* The variables start with their types.
LEMMA ConfigTypeInit == Init => ConfigTypeOK
<1> SUFFICES ASSUME Init PROVE ConfigTypeOK
  OBVIOUS
<1>1. WatchersTypeOK
  BY WatchersTypeInit DEF Init
<1>2. Lifecycle!TypeOK
  BY DEF Init, Lifecycle!Init, Lifecycle!TypeOK
<1> QED
  BY <1>1, <1>2, ConfigAssumption DEF Init, ConfigTypeOK, Steps, Calling

\* A request that is under way has its event.
LEMMA BusyEvent ==
  ASSUME RequestsInv, NEW n \in Notifier, pc[n] # "idle"
  PROVE  /\ event[n] \in Event /\ event[n].key \in Key /\ event[n].value \in Value
         /\ TargetOf[event[n].value] \in Target
BY ConfigAssumption DEF RequestsInv, Event

\* The client in a context that is valid is a data server.
LEMMA ValidClient ==
  ASSUME ConfigTypeOK, NEW t \in Target, Valid(t)
  PROVE  targetStore[t].client \in DataServer /\ Lifecycle!Bound(t, targetStore[t].client)
BY DEF ConfigTypeOK, Lifecycle!TypeOK, Valid, Lifecycle!Bound

\* A request begins with an event, and with a data server if it calls one.
LEMMA BeginType ==
  ASSUME ConfigTypeOK, RequestsInv, NEW n \in Notifier, NEW k \in Key, NEW v \in Value,
         NEW step \in Steps, NEW type \in {"Added", "Modified", "Deleted"},
         Begin(n, step, type, k, v),
         server' \in [Notifier -> DataServer \cup {NoServer}],
         \A m \in Notifier : m # n => server'[m] = server[m],
         step \in Calling => server'[n] # NoServer,
         upset' \subseteq Key
  PROVE  ConfigTypeOK'
<1> USE DEF clients, registry, lock, targets
<1>1. [type |-> type, key |-> k, value |-> v] \in Event
  BY DEF Event
<1>2. WatchersTypeOK'
  BY <1>1 DEF Begin, ConfigTypeOK, WatchersTypeOK
<1>3. ops' \in 0..MaxOps /\ faults' \in 0..MaxFaults
  BY ConfigAssumption DEF Begin, ConfigTypeOK
<1>4. raced' \subseteq Key /\ gap' \subseteq Client \X Key
  BY DEF Begin, ConfigTypeOK
<1>5. pc' \in [Notifier -> Steps] /\ \A m \in Notifier : pc'[m] \in Calling => server'[m] # NoServer
  BY DEF Begin, ConfigTypeOK
<1>6. Lifecycle!TypeOK' /\ intents' = intents /\ db' = db
  BY DEF Begin, ConfigTypeOK, Lifecycle!TypeOK
<1> QED
  BY <1>2, <1>3, <1>4, <1>5, <1>6 DEF ConfigTypeOK

\* A request that returns has no event and no data server, ...
LEMMA ReturnType ==
  ASSUME ConfigTypeOK, NEW n \in Notifier, Return(n)
  PROVE  /\ event' \in [Notifier -> Event \cup {NoEvent}]
         /\ pc' \in [Notifier -> Steps]
         /\ server' \in [Notifier -> DataServer \cup {NoServer}]
         /\ \A m \in Notifier : pc'[m] \in Calling => server'[m] # NoServer
BY DEF ConfigTypeOK, WatchersTypeOK, Return, Steps, Calling

\* ... and one that goes on without a call needs none.
LEMMA GotoType ==
  ASSUME ConfigTypeOK, NEW n \in Notifier, NEW step \in Steps \ Calling, Goto(n, step)
  PROVE  /\ event' \in [Notifier -> Event \cup {NoEvent}]
         /\ pc' \in [Notifier -> Steps]
         /\ server' \in [Notifier -> DataServer \cup {NoServer}]
         /\ \A m \in Notifier : pc'[m] \in Calling => server'[m] # NoServer
BY DEF ConfigTypeOK, WatchersTypeOK, Goto

\* A call of the data server changes one intent.
LEMMA TakeIntentType ==
  ASSUME ConfigTypeOK, RequestsInv, NEW n \in Notifier, pc[n] \in Calling, TakeIntent(n)
  PROVE  intents' \in [DataServer -> [Target -> [Key -> Value \cup {Absent}]]]
<1>1. event[n].key \in Key /\ event[n].value \in Value /\ TargetOf[event[n].value] \in Target
  BY BusyEvent DEF Calling
<1>2. server[n] \in DataServer
  BY DEF ConfigTypeOK
<1> QED
  BY <1>1, <1>2 DEF ConfigTypeOK, TakeIntent

\* The steps of a request up to its notification
Local(n) ==
  AssertOld(n) \/ GetTarget(n) \/ CallDataServer(n) \/ CheckEntry(n) \/ WriteEntry(n) \/ RemoveEntry(n)

\* They leave the watchers, the targets and the other requests alone.
LEMMA LocalFrame ==
  ASSUME ConfigTypeOK, RequestsInv, NEW n \in Notifier, Local(n)
  PROVE  /\ UNCHANGED <<clients, channel, closed, registry, lock, targets, ops, raced, gap>>
         /\ pc[n] \notin Notifying \cup {"idle"}
         /\ \A m \in Notifier : m # n => UNCHANGED <<pc[m], event[m], server[m]>>
         /\ \/ pc'[n] = "idle" /\ Return(n)
            \/ pc'[n] \in Steps \ {"idle", "notifying"} /\ UNCHANGED event
<1>1. /\ pc \in [Notifier -> Steps] /\ event \in [Notifier -> Event \cup {NoEvent}]
      /\ server \in [Notifier -> DataServer \cup {NoServer}]
  BY DEF ConfigTypeOK, WatchersTypeOK
<1>2. /\ UNCHANGED <<clients, channel, closed, registry, lock, targets, ops, raced, gap>>
      /\ pc[n] \notin Notifying \cup {"idle"}
  BY DEF Local, AssertOld, GetTarget, CallDataServer, CheckEntry, WriteEntry, RemoveEntry,
         bounds, blurred, Notifying, Calling
<1>3. ASSUME Return(n)
      PROVE  pc'[n] = "idle" /\ \A m \in Notifier : m # n => UNCHANGED <<pc[m], event[m], server[m]>>
  BY <1>1, <1>3 DEF Return
<1>4. ASSUME NEW step, Goto(n, step)
      PROVE  /\ pc'[n] = step /\ event' = event
             /\ \A m \in Notifier : m # n => UNCHANGED <<pc[m], event[m], server[m]>>
  BY <1>1, <1>4 DEF Goto
<1>5. CASE AssertOld(n)
  BY <1>2, <1>3, <1>5 DEF AssertOld
<1>6. CASE GetTarget(n)
  BY <1>1, <1>2, <1>3, <1>6 DEF GetTarget, Steps
<1>7. CASE CallDataServer(n)
  BY <1>2, <1>3, <1>4, <1>7 DEF CallDataServer, FollowedBy, Calling, Steps
<1>8. CASE CheckEntry(n)
  BY <1>2, <1>3, <1>4, <1>8 DEF CheckEntry, Steps
<1>9. CASE WriteEntry(n) \/ RemoveEntry(n)
  BY <1>2, <1>4, <1>9 DEF WriteEntry, RemoveEntry, Steps
<1> QED
  BY <1>5, <1>6, <1>7, <1>8, <1>9 DEF Local

\* The steps of a request keep the types.
LEMMA LocalType ==
  ASSUME ConfigTypeOK, RequestsInv, NEW n \in Notifier, Local(n)
  PROVE  ConfigTypeOK'
<1>1. UNCHANGED <<clients, channel, closed, registry, lock, targets, ops, raced, gap>>
  BY LocalFrame
<1>2. pc[n] # "idle"
  BY LocalFrame
<1>3. event[n].key \in Key /\ event[n].value \in Value /\ TargetOf[event[n].value] \in Target
  BY <1>2, BusyEvent
<1>4. ops' \in 0..MaxOps /\ raced' \subseteq Key /\ gap' \subseteq Client \X Key /\ Lifecycle!TypeOK'
  BY <1>1 DEF ConfigTypeOK, Lifecycle!TypeOK, targets
<1>5. /\ event' \in [Notifier -> Event \cup {NoEvent}]
      /\ pc' \in [Notifier -> Steps]
      /\ server' \in [Notifier -> DataServer \cup {NoServer}]
      /\ \A m \in Notifier : pc'[m] \in Calling => server'[m] # NoServer
  <2>1. CASE Return(n)
    BY <2>1, ReturnType
  <2>2. ASSUME NEW step \in Steps \ Calling, Goto(n, step) PROVE <1>5!:
    BY <2>2, GotoType
  <2>3. CASE CallDataServer(n) /\ ~Return(n)
    <3>1. pc[n] \in Calling /\ Goto(n, FollowedBy(pc[n]))
      BY <2>3 DEF CallDataServer
    <3>2. PICK step : step = FollowedBy(pc[n])
      OBVIOUS
    <3>3. step \in Steps \ Calling
      BY <3>1, <3>2 DEF FollowedBy, Calling, Steps
    <3> QED
      BY <2>2, <3>1, <3>2, <3>3
  <2>4. CASE GetTarget(n) /\ ~Return(n)
    <3>1. PICK t \in Target : t = TargetOf[event[n].value]
      BY <1>3
    <3>2. /\ Valid(t) /\ server' = [server EXCEPT ![n] = targetStore[t].client]
          /\ event' = event
          /\ pc' = [pc EXCEPT ![n] = IF event[n].type = "Deleted" THEN "deleteIntent" ELSE "updateIntent"]
      BY <2>4, <3>1 DEF GetTarget
    <3>3. targetStore[t].client \in DataServer
      BY <3>2, ValidClient
    <3> QED
      BY <3>2, <3>3, ConfigAssumption DEF ConfigTypeOK, WatchersTypeOK, Steps, Calling
  <2>5. CASE CheckEntry(n) \/ WriteEntry(n) \/ RemoveEntry(n)
    BY <2>1, <2>2, <2>5 DEF CheckEntry, WriteEntry, RemoveEntry, Calling, Steps
  <2> QED
    BY <2>1, <2>3, <2>4, <2>5 DEF Local, AssertOld
<1>6. intents' \in [DataServer -> [Target -> [Key -> Value \cup {Absent}]]]
  <2>1. CASE intents' = intents
    BY <2>1 DEF ConfigTypeOK
  <2>2. CASE pc[n] \in Calling /\ TakeIntent(n)
    BY <2>2, TakeIntentType
  <2> QED
    BY <2>1, <2>2 DEF Local, AssertOld, GetTarget, CallDataServer, CheckEntry, WriteEntry, RemoveEntry
<1>7. db' \in [Key -> Value \cup {Absent}]
  BY <1>3 DEF Local, AssertOld, GetTarget, CallDataServer, CheckEntry, WriteEntry, RemoveEntry, ConfigTypeOK
<1>8. upset' \subseteq Key /\ faults' \in 0..MaxFaults
  BY <1>3, ConfigAssumption DEF Local, AssertOld, GetTarget, CallDataServer, CheckEntry, WriteEntry,
     RemoveEntry, Upset, Fault, bounds, blurred, ConfigTypeOK
<1>9. WatchersTypeOK'
  BY <1>1, <1>5 DEF ConfigTypeOK, WatchersTypeOK, clients, registry, lock
<1> QED
  BY <1>4, <1>5, <1>6, <1>7, <1>8, <1>9 DEF ConfigTypeOK

-----------------------------------------------------------------------------
(* The watchers *)

\* What a request under way promises of a client stays true while the client
\* and the request stay where they are.
LEMMA InFlightKept ==
  ASSUME NEW n \in Notifier, NEW c \in Client, NEW k \in Key, InFlight(n, c, k),
         UNCHANGED <<pc[n], event[n], toNotify[n], db[k]>>,
         stage'[c] # "push",
         stage'[c] = "watching" => stage[c] = "watching" /\ id'[c] = id[c],
         \A x : Expects(c, k, x) => Expects(c, k, x)'
  PROVE  InFlight(n, c, k)'
<1>1. stage'[c] = "watching" => \A x : Knows(c, k, x) => Knows(c, k, x)'
  BY DEF Expects
<1>2. pc'[n] \notin Notifying => Expects(c, k, db[k])'
  <2> SUFFICES ASSUME pc[n] \notin Notifying PROVE Expects(c, k, db[k])'
    OBVIOUS
  <2>1. PICK x : x = db[k]
    OBVIOUS
  <2> QED
    BY <2>1 DEF InFlight
<1>3. Outcome(event[n])' = Outcome(event[n])
  BY DEF Outcome
<1>4. pc'[n] = "notifying" /\ stage'[c] = "watching" /\ id'[c] \notin toNotify'[n] =>
        Knows(c, k, Outcome(event[n]))'
  <2> SUFFICES ASSUME pc[n] = "notifying", stage[c] = "watching", id[c] \notin toNotify[n],
                      stage'[c] = "watching"
               PROVE  Knows(c, k, Outcome(event[n]))'
    OBVIOUS
  <2>1. PICK x : x = Outcome(event[n])
    OBVIOUS
  <2> QED
    BY <1>1, <1>3, <2>1 DEF InFlight
<1>5. pc'[n] \in Notifying => db'[k] = Outcome(event[n])'
  BY <1>3 DEF InFlight
<1> QED
  BY <1>2, <1>4, <1>5 DEF InFlight

\* A step of the request of n on k concerns no other key, and of the clients
\* only those that n keeps its promise to.
LEMMA StepKnowledge ==
  ASSUME AloneInv, KnowledgeInv, NEW n \in Notifier, NEW k \in Key,
         pc[n] # "idle", event[n].key = k,
         UNCHANGED <<clients, channel, id, raced, gap>>,
         \A m \in Notifier : m # n => UNCHANGED <<pc[m], event[m], toNotify[m]>>,
         pc'[n] = "idle" \/ event'[n] = event[n],
         \A l \in Key : l # k => UNCHANGED db[l],
         \A c \in Client : InFlight(n, c, k) =>
           /\ pc'[n] = "idle" => Expects(c, k, db[k])'
           /\ pc'[n] # "idle" => InFlight(n, c, k)'
  PROVE  AloneInv' /\ KnowledgeInv'
<1>1. AloneInv'
  BY DEF AloneInv
<1>2. KnowledgeInv'
  <2> SUFFICES ASSUME NEW c \in Client, NEW l \in Key, <<c, l>> \notin gap, l \notin raced
               PROVE  /\ Settled(c, l)'
                      /\ \A m \in Notifier : pc'[m] # "idle" /\ event'[m].key = l => InFlight(m, c, l)'
    BY DEF KnowledgeInv
  <2>1. \A x : Expects(c, l, x) => Expects(c, l, x)'
    BY ExpectsUnchanged DEF clients
  <2>2. CASE l # k
    <3>1. Settled(c, l)'
      <4> SUFFICES ASSUME ~Busy(l)' PROVE Expects(c, l, db[l])'
        BY DEF Settled
      <4>1. ~Busy(l)
        BY <2>2 DEF Busy
      <4>2. PICK x : x = db[l]
        OBVIOUS
      <4>3. Expects(c, l, x)'
        BY <2>1, <4>1, <4>2 DEF KnowledgeInv, Settled
      <4> QED
        BY <2>2, <4>2, <4>3
    <3>2. ASSUME NEW m \in Notifier, pc'[m] # "idle", event'[m].key = l
          PROVE  InFlight(m, c, l)'
      <4>1. m # n
        BY <2>2, <3>2
      <4>2. InFlight(m, c, l)
        BY <3>2, <4>1 DEF KnowledgeInv
      <4> QED
        BY <2>1, <2>2, <4>1, <4>2, InFlightKept DEF InFlight, clients
    <3> QED
      BY <3>1, <3>2
  <2>3. CASE l = k
    <3>1. InFlight(n, c, k)
      BY <2>3 DEF KnowledgeInv
    <3>2. \A m \in Notifier : pc[m] # "idle" /\ event[m].key = k => m = n
      BY <2>3 DEF AloneInv
    <3>3. CASE pc'[n] = "idle"
      <4>1. Settled(c, k)'
        BY <3>1, <3>3 DEF Settled
      <4>2. ~ \E m \in Notifier : pc'[m] # "idle" /\ event'[m].key = k
        BY <3>2, <3>3
      <4> QED
        BY <2>3, <4>1, <4>2
    <3>4. CASE pc'[n] # "idle"
      <4>1. InFlight(n, c, k)' /\ event'[n] = event[n]
        BY <3>1, <3>4
      <4>2. Settled(c, k)'
        BY <3>4, <4>1 DEF Settled, Busy
      <4>3. \A m \in Notifier : pc'[m] # "idle" /\ event'[m].key = k => m = n
        BY <3>2
      <4> QED
        BY <2>3, <4>1, <4>2, <4>3
    <3> QED
      BY <3>3, <3>4
  <2> QED
    BY <2>2, <2>3
<1> QED
  BY <1>1, <1>2

\* A request begins on a name nothing happens to, or the name is raced.
LEMMA BeginWatch ==
  ASSUME ConfigTypeOK, WatchInv, NEW n \in Notifier, NEW k \in Key, NEW v \in Value,
         NEW step \in {"createIntent", "target", "assert"},
         NEW type \in {"Added", "Modified", "Deleted"},
         step = "createIntent" => type # "Deleted",
         Begin(n, step, type, k, v)
  PROVE  WatchInv'
<1> USE DEF clients, registry, lock
<1>1. RegistryInv /\ FreshInv /\ RequestsInv /\ AloneInv /\ KnowledgeInv /\ WatchersTypeOK
  BY DEF WatchInv, ConfigTypeOK
<1> DEFINE e == [type |-> type, key |-> k, value |-> v]
<1>2. /\ pc[n] = "idle" /\ event' = [event EXCEPT ![n] = e]
      /\ pc' = [pc EXCEPT ![n] = step]
      /\ raced' = IF Busy(k) THEN raced \cup {k} ELSE raced
      /\ gap' = gap \cup {<<c, k>> : c \in {c \in Client : stage[c] = "push"}}
      /\ UNCHANGED <<clients, channel, closed, registry, lock, targets, intents, db>>
  BY DEF Begin
<1>3. /\ e \in Event /\ e.key = k /\ e.type = type
      /\ event \in [Notifier -> Event \cup {NoEvent}] /\ DOMAIN pc = Notifier
  BY <1>1 DEF Event, ConfigTypeOK, WatchersTypeOK
<1> HIDE DEF e
<1>4. pc'[n] = step /\ event'[n] = e /\ \A m \in Notifier : m # n => UNCHANGED <<pc[m], event[m]>>
  BY <1>2, <1>3
<1>5. RegistryInv'
  <2>1. n \notin notifying /\ notifying \subseteq Notifier
    BY <1>1, <1>2 DEF RequestsInv, WatchersTypeOK
  <2> QED
    BY <1>1, <1>2, <1>4, <2>1 DEF RegistryInv, IDsPartitioned, Registered
<1>6. FreshInv' /\ RequestsInv'
  BY <1>1, <1>2, <1>3, <1>4 DEF FreshInv, RequestsInv
<1>7. k \notin raced' => ~Busy(k)
  BY <1>2
<1>8. AloneInv'
  <2> SUFFICES ASSUME NEW l \in Notifier, NEW m \in Notifier, pc'[l] # "idle", pc'[m] # "idle",
                      event'[l].key = event'[m].key, event'[l].key \notin raced'
               PROVE  l = m
    BY DEF AloneInv
  <2>1. CASE l # n /\ m # n
    BY <2>1, <1>1, <1>2, <1>4 DEF AloneInv
  <2>2. CASE l = n \/ m = n
    BY <2>2, <1>3, <1>4, <1>7 DEF Busy
  <2> QED
    BY <2>1, <2>2
<1>9. KnowledgeInv'
  <2> SUFFICES ASSUME NEW c \in Client, NEW l \in Key, <<c, l>> \notin gap', l \notin raced'
               PROVE  /\ Settled(c, l)'
                      /\ \A m \in Notifier : pc'[m] # "idle" /\ event'[m].key = l => InFlight(m, c, l)'
    BY DEF KnowledgeInv
  <2>1. <<c, l>> \notin gap /\ l \notin raced
    BY <1>2
  <2>2. \A x : Expects(c, l, x) => Expects(c, l, x)'
    BY <1>2, ExpectsUnchanged
  <2>3. ASSUME ~Busy(l) PROVE Expects(c, l, db[l])'
    <3>1. PICK x : x = db[l]
      OBVIOUS
    <3>2. Expects(c, l, x)'
      BY <1>1, <2>1, <2>2, <2>3, <3>1 DEF KnowledgeInv, Settled
    <3> QED
      BY <1>2, <3>1, <3>2
  <2>4. Settled(c, l)'
    <3> SUFFICES ASSUME ~Busy(l)' PROVE Expects(c, l, db[l])'
      BY DEF Settled
    <3>1. ~Busy(l)
      <4> SUFFICES ASSUME NEW m \in Notifier, pc[m] # "idle", event[m].key = l PROVE FALSE
        BY DEF Busy
      <4> QED
        BY <1>2, <1>4 DEF Busy
    <3> QED
      BY <2>3, <3>1
  <2>5. ASSUME NEW m \in Notifier, m # n, pc'[m] # "idle", event'[m].key = l
        PROVE  InFlight(m, c, l)'
    <3>1. InFlight(m, c, l)
      BY <1>1, <1>4, <2>1, <2>5 DEF KnowledgeInv
    <3> QED
      BY <1>2, <1>4, <2>2, <2>5, <3>1, InFlightKept DEF InFlight
  <2>6. ASSUME l = k PROVE InFlight(n, c, k)'
    <3>1. stage[c] # "push"
      BY <1>2, <2>6
    <3>2. Expects(c, k, db[k])'
      BY <1>7, <2>3, <2>6
    <3> QED
      BY <1>2, <1>4, <3>1, <3>2 DEF InFlight, Notifying
  <2> QED
    BY <2>4, <2>5, <2>6, <1>3, <1>4
<1> QED
  BY <1>5, <1>6, <1>8, <1>9 DEF WatchInv

\* Of the steps before the notification, only the last one changes the store: to
\* what the event says.
LEMMA LocalEffect ==
  ASSUME ConfigTypeOK, RequestsInv, NEW n \in Notifier, Local(n)
  PROVE  /\ \A l \in Key : l # event[n].key => UNCHANGED db[l]
         /\ pc'[n] = "notify" => db'[event[n].key] = Outcome(event[n])
         /\ pc'[n] # "notify" => UNCHANGED db
         /\ pc'[n] \in {"createIntent", "updateIntent", "check", "write"} => event[n].type # "Deleted"
         /\ pc'[n] \in {"deleteIntent", "remove"} => event[n].type = "Deleted"
<1>1. pc \in [Notifier -> Steps] /\ db \in [Key -> Value \cup {Absent}]
  BY DEF ConfigTypeOK
<1>2. event[n].key \in Key
  BY LocalFrame, BusyEvent
<1>3. ASSUME Return(n) PROVE pc'[n] = "idle"
  BY <1>1, <1>3 DEF Return
<1>4. ASSUME NEW step, Goto(n, step) PROVE pc'[n] = step
  BY <1>1, <1>4 DEF Goto
<1>5. CASE AssertOld(n)
  BY <1>3, <1>5 DEF AssertOld
<1>6. CASE GetTarget(n)
  BY <1>1, <1>3, <1>6 DEF GetTarget
<1>7. CASE CallDataServer(n)
  BY <1>3, <1>4, <1>7 DEF CallDataServer, FollowedBy, Calling, RequestsInv
<1>8. CASE CheckEntry(n)
  BY <1>3, <1>4, <1>8 DEF CheckEntry, RequestsInv
<1>9. CASE WriteEntry(n)
  BY <1>1, <1>2, <1>4, <1>9 DEF WriteEntry, RequestsInv, Outcome
<1>10. CASE RemoveEntry(n)
  BY <1>1, <1>2, <1>4, <1>10 DEF RemoveEntry, RequestsInv, Outcome
<1> QED
  BY <1>5, <1>6, <1>7, <1>8, <1>9, <1>10 DEF Local

\* The steps of a request up to its notification, for the watchers: it is alone on
\* its name, or the name is raced.
LEMMA LocalWatch ==
  ASSUME ConfigTypeOK, WatchInv, NEW n \in Notifier, Local(n)
  PROVE  WatchInv'
<1> USE DEF clients, registry, lock
<1>1. RegistryInv /\ FreshInv /\ RequestsInv /\ AloneInv /\ KnowledgeInv /\ WatchersTypeOK
  BY DEF WatchInv, ConfigTypeOK
<1>2. /\ UNCHANGED <<clients, channel, closed, registry, lock, targets, ops, raced, gap>>
      /\ pc[n] \notin Notifying \cup {"idle"}
      /\ \A m \in Notifier : m # n => UNCHANGED <<pc[m], event[m], server[m]>>
      /\ \/ pc'[n] = "idle" /\ Return(n)
         \/ pc'[n] \in Steps \ {"idle", "notifying"} /\ UNCHANGED event
  BY <1>1, LocalFrame
<1>3. PICK k \in Key : event[n].key = k
  BY <1>1, <1>2, BusyEvent
<1>4. /\ \A l \in Key : l # k => UNCHANGED db[l]
      /\ pc'[n] = "notify" => db'[k] = Outcome(event[n])
      /\ pc'[n] # "notify" => UNCHANGED db
      /\ pc'[n] \in {"createIntent", "updateIntent", "check", "write"} => event[n].type # "Deleted"
      /\ pc'[n] \in {"deleteIntent", "remove"} => event[n].type = "Deleted"
  BY <1>1, <1>3, LocalEffect
<1>5. n \notin notifying
  BY <1>1, <1>2 DEF RequestsInv, Notifying
<1>6. RegistryInv'
  <2>1. \A m \in notifying : event'[m] = event[m]
    BY <1>1, <1>2, <1>5 DEF WatchersTypeOK
  <2> QED
    BY <1>1, <1>2, <2>1 DEF RegistryInv, IDsPartitioned, Registered
<1>7. FreshInv' /\ RequestsInv'
  BY <1>1, <1>2, <1>4, <1>5 DEF FreshInv, RequestsInv
<1>8. ASSUME NEW c \in Client, InFlight(n, c, k)
      PROVE  /\ pc'[n] = "idle" => Expects(c, k, db[k])'
             /\ pc'[n] # "idle" => InFlight(n, c, k)'
  <2>1. CASE pc'[n] = "notify"
    <3>1. Outcome(event[n])' = Outcome(event[n])
      BY <1>2, <2>1 DEF Outcome
    <3> QED
      BY <1>2, <1>4, <1>8, <2>1, <3>1 DEF InFlight, Notifying
  <2>2. CASE pc'[n] # "notify"
    <3>1. PICK x : x = db[k]
      OBVIOUS
    <3>2. Expects(c, k, x)
      BY <1>2, <1>8, <3>1 DEF InFlight
    <3>3. Expects(c, k, x)'
      BY <1>2, <3>2, ExpectsUnchanged
    <3>4. db'[k] = x /\ pc'[n] \notin Notifying /\ stage'[c] # "push"
      BY <1>2, <1>4, <1>8, <2>2, <3>1 DEF InFlight, Notifying
    <3> QED
      BY <3>3, <3>4 DEF InFlight, Notifying
  <2> QED
    BY <2>1, <2>2
<1>9. AloneInv' /\ KnowledgeInv'
  BY <1>1, <1>2, <1>3, <1>4, <1>8, StepKnowledge
<1> QED
  BY <1>6, <1>7, <1>9 DEF WatchInv

\* A request that takes the lock has yet to send to every client that is registered.
LEMMA NotifyWatchersKeeps ==
  ASSUME ConfigTypeOK, WatchInv, NEW n \in Notifier, NotifyWatchers(n)
  PROVE  ConfigTypeOK' /\ WatchInv'
<1> USE DEF clients, registry, lock
<1>1. RegistryInv /\ FreshInv /\ RequestsInv /\ AloneInv /\ KnowledgeInv /\ WatchersTypeOK
  BY DEF WatchInv, ConfigTypeOK
<1>2. PICK k \in Key : event[n].key = k
  BY <1>1, BusyEvent DEF NotifyWatchers
<1>3. event[n] \in Event
  BY <1>1, BusyEvent DEF NotifyWatchers
<1>4. /\ pc[n] = "notify" /\ pc' = [pc EXCEPT ![n] = "notifying"]
      /\ notifying' = notifying \cup {n} /\ toNotify' = [toNotify EXCEPT ![n] = Registered]
      /\ UNCHANGED <<clients, channel, closed, registry, event, db, raced, gap>>
      /\ UNCHANGED <<server, targets, intents, ops, faults, upset>>
  BY DEF NotifyWatchers, Notify, bounds, blurred
<1>5. /\ \A m \in Notifier : m # n => UNCHANGED <<pc[m], event[m], toNotify[m]>>
      /\ pc'[n] = "notifying" /\ toNotify'[n] = Registered
  BY <1>1, <1>4 DEF ConfigTypeOK, WatchersTypeOK
<1>6. ConfigTypeOK'
  <2>1. WatchersTypeOK'
    BY <1>1, NotifyType DEF NotifyWatchers
  <2>2. Lifecycle!TypeOK'
    BY <1>4 DEF ConfigTypeOK, Lifecycle!TypeOK, targets
  <2> QED
    BY <1>4, <2>1, <2>2 DEF ConfigTypeOK, Steps, Calling
<1>7. RegistryInv'
  BY <1>1, <1>3, LockRegistry DEF NotifyWatchers
<1>8. FreshInv' /\ RequestsInv'
  BY <1>1, <1>4, <1>5 DEF FreshInv, RequestsInv
<1>9. ASSUME NEW c \in Client, InFlight(n, c, k)
      PROVE  /\ pc'[n] = "idle" => Expects(c, k, db[k])'
             /\ pc'[n] # "idle" => InFlight(n, c, k)'
  <2>1. stage[c] = "watching" => id[c] \in Registered
    BY <1>1, WatchersAssumption DEF RegistryInv, IDsPartitioned, Registered, WatchersTypeOK
  <2>2. Outcome(event[n])' = Outcome(event[n])
    BY <1>4 DEF Outcome
  <2> QED
    BY <1>4, <1>5, <1>9, <2>1, <2>2 DEF InFlight, Notifying
<1>10. AloneInv' /\ KnowledgeInv'
  BY <1>1, <1>2, <1>4, <1>5, <1>9, StepKnowledge
<1> QED
  BY <1>6, <1>7, <1>8, <1>10 DEF WatchInv

\* When the loop is over every client has been sent the event.
LEMMA NotifiedKeeps ==
  ASSUME ConfigTypeOK, WatchInv, NEW n \in Notifier, Notified(n)
  PROVE  ConfigTypeOK' /\ WatchInv'
<1> USE DEF clients, registry, lock
<1>1. RegistryInv /\ FreshInv /\ RequestsInv /\ AloneInv /\ KnowledgeInv /\ WatchersTypeOK
  BY DEF WatchInv, ConfigTypeOK
<1>2. PICK k \in Key : event[n].key = k
  BY <1>1, BusyEvent DEF Notified
<1>3. /\ pc[n] = "notifying" /\ toNotify[n] = {} /\ notifying' = notifying \ {n}
      /\ pc' = [pc EXCEPT ![n] = "idle"] /\ event' = [event EXCEPT ![n] = NoEvent]
      /\ UNCHANGED <<clients, channel, closed, registry, toNotify, db, raced, gap>>
      /\ UNCHANGED <<targets, intents, ops, faults, upset>>
  BY DEF Notified, EndNotify, Return, bounds, blurred
<1>4. pc'[n] = "idle" /\ \A m \in Notifier : m # n => UNCHANGED <<pc[m], event[m], toNotify[m]>>
  BY <1>1, <1>3 DEF ConfigTypeOK, WatchersTypeOK
<1>5. /\ event' \in [Notifier -> Event \cup {NoEvent}]
      /\ pc' \in [Notifier -> Steps]
      /\ server' \in [Notifier -> DataServer \cup {NoServer}]
      /\ \A m \in Notifier : pc'[m] \in Calling => server'[m] # NoServer
  BY ReturnType DEF Notified
<1>6. ConfigTypeOK'
  <2>1. WatchersTypeOK'
    BY <1>1, <1>5, EndNotifyType DEF Notified
  <2>2. Lifecycle!TypeOK'
    BY <1>3 DEF ConfigTypeOK, Lifecycle!TypeOK, targets
  <2> QED
    BY <1>3, <1>5, <2>1, <2>2 DEF ConfigTypeOK
<1>7. \A m \in notifying : m # n => event'[m] = event[m]
  BY <1>1, <1>4 DEF WatchersTypeOK
<1>8. RegistryInv'
  BY <1>1, <1>7, LockRegistry DEF Notified
<1>9. FreshInv' /\ RequestsInv'
  BY <1>1, <1>3, <1>4 DEF FreshInv, RequestsInv
<1>10. ASSUME NEW c \in Client, InFlight(n, c, k) PROVE Expects(c, k, db[k])'
  <2>1. PICK x : x = db[k]
    OBVIOUS
  <2>2. Expects(c, k, x)
    BY <1>3, <1>10, <2>1 DEF InFlight, Expects, Notifying
  <2>3. Expects(c, k, x)'
    BY <1>3, <2>2, ExpectsUnchanged
  <2> QED
    BY <1>3, <2>1, <2>3
<1>11. AloneInv' /\ KnowledgeInv'
  BY <1>1, <1>2, <1>3, <1>4, <1>10, StepKnowledge
<1> QED
  BY <1>6, <1>8, <1>9, <1>11 DEF WatchInv

\* A client that has been sent the event of n will know it.
LEMMA SendEventKeeps ==
  ASSUME ConfigTypeOK, WatchInv, NEW n \in Notifier, SendEvent(n)
  PROVE  ConfigTypeOK' /\ WatchInv'
<1>1. RegistryInv /\ FreshInv /\ RequestsInv /\ AloneInv /\ KnowledgeInv /\ WatchersTypeOK
  BY DEF WatchInv, ConfigTypeOK
<1>2. PICK i \in toNotify[n] :
        /\ i \in ID /\ watchers[i] \in Client
        /\ stage[watchers[i]] \in {"watching", "stopping"} /\ id[watchers[i]] = i
        /\ event[n] \in Event
        /\ channel' = [channel EXCEPT ![watchers[i]] = Append(@, event[n])]
        /\ toNotify' = [toNotify EXCEPT ![n] = @ \ {i}]
  BY <1>1, SendTo DEF SendEvent
<1>3. /\ UNCHANGED <<clients, closed, registry, notifying, event, db, pc, raced, gap>>
      /\ UNCHANGED <<server, targets, intents, ops, faults, upset>>
  BY DEF SendEvent, Send, bounds, blurred
<1>4. WatchersTypeOK' /\ RegistryInv'
  BY <1>1, SendType DEF SendEvent
<1>5. ConfigTypeOK'
  <2>1. Lifecycle!TypeOK'
    BY <1>3 DEF ConfigTypeOK, Lifecycle!TypeOK, targets
  <2> QED
    BY <1>3, <1>4, <2>1 DEF ConfigTypeOK
<1>6. PICK c : c = watchers[i]
  OBVIOUS
<1>7. PICK e : e = event[n]
  OBVIOUS
<1>8. /\ c \in Client /\ e \in Event /\ e.key \in Key
      /\ stage[c] \in {"watching", "stopping"} /\ id[c] = i
      /\ channel' = [channel EXCEPT ![c] = Append(@, e)] /\ UNCHANGED clients
  BY <1>2, <1>3, <1>6, <1>7 DEF Event
<1>9. FreshInv'
  BY <1>1, <1>8, SendFresh
<1>10. RequestsInv' /\ AloneInv'
  BY <1>1, <1>3 DEF RequestsInv, AloneInv
<1>11. /\ Knows(c, e.key, Outcome(e))'
       /\ \A d \in Client, k \in Key : \A x :
            /\ (d # c \/ k # e.key) /\ Expects(d, k, x) => Expects(d, k, x)'
            /\ (d # c \/ k # e.key) /\ Knows(d, k, x) => Knows(d, k, x)'
  BY <1>1, <1>8, SendExpects
<1>12. pc[n] = "notifying"
  BY <1>1 DEF RequestsInv, SendEvent, Send
<1>13. KnowledgeInv'
  <2> SUFFICES ASSUME NEW d \in Client, NEW k \in Key, <<d, k>> \notin gap, k \notin raced
               PROVE  /\ Settled(d, k)'
                      /\ \A m \in Notifier : pc[m] # "idle" /\ event[m].key = k => InFlight(m, d, k)'
    BY <1>3 DEF KnowledgeInv
  <2>1. CASE k # e.key
    <3>1. \A x : Expects(d, k, x) => Expects(d, k, x)'
      BY <1>11, <2>1
    <3>2. Settled(d, k)'
      <4> SUFFICES ASSUME ~Busy(k)' PROVE Expects(d, k, db[k])'
        BY DEF Settled
      <4>1. ~Busy(k)
        BY <1>3 DEF Busy
      <4>2. PICK x : x = db[k]
        OBVIOUS
      <4>3. Expects(d, k, x)'
        BY <1>1, <3>1, <4>1, <4>2 DEF KnowledgeInv, Settled
      <4> QED
        BY <1>3, <4>2, <4>3
    <3>3. ASSUME NEW m \in Notifier, pc[m] # "idle", event[m].key = k
          PROVE  InFlight(m, d, k)'
      <4>1. m # n
        BY <1>7, <2>1, <3>3
      <4>2. InFlight(m, d, k)
        BY <1>1, <3>3 DEF KnowledgeInv
      <4>3. toNotify'[m] = toNotify[m]
        BY <1>1, <1>2, <4>1 DEF WatchersTypeOK
      <4>4. stage'[d] # "push" /\ stage'[d] = stage[d] /\ id'[d] = id[d]
        BY <1>3, <4>2 DEF InFlight, clients, registry
      <4> QED
        BY <1>3, <3>1, <4>2, <4>3, <4>4, InFlightKept
    <3> QED
      BY <3>2, <3>3
  <2>2. CASE k = e.key
    <3>1. InFlight(n, d, k)
      BY <1>1, <1>7, <1>12, <2>2 DEF KnowledgeInv
    <3>2. \A m \in Notifier : pc[m] # "idle" /\ event[m].key = k => m = n
      BY <1>1, <1>7, <1>12, <2>2 DEF AloneInv
    <3>3. Settled(d, k)'
      BY <1>3, <1>7, <1>12, <2>2 DEF Settled, Busy
    <3>4. ASSUME stage[d] = "watching", id[d] \notin toNotify'[n] PROVE Knows(d, k, Outcome(e))'
      <4>1. CASE d = c
        BY <1>11, <2>2, <4>1
      <4>2. CASE d # c
        <5>1. watchers[id[d]] = d /\ id[d] \in ID
          BY <1>1, <3>4 DEF RegistryInv, IDsPartitioned, WatchersTypeOK
        <5>2. id[d] # i
          BY <1>6, <4>2, <5>1
        <5>3. id[d] \notin toNotify[n]
          BY <1>1, <1>2, <3>4, <5>2 DEF WatchersTypeOK
        <5>4. Knows(d, k, Outcome(e))
          BY <1>7, <1>12, <3>1, <3>4, <5>3 DEF InFlight
        <5>5. PICK x : x = Outcome(e)
          OBVIOUS
        <5> QED
          BY <1>11, <4>2, <5>4, <5>5 DEF Outcome
      <4> QED
        BY <4>1, <4>2
    <3>5. stage'[d] = stage[d] /\ id'[d] = id[d] /\ pc'[n] = "notifying" /\ event'[n] = e
      BY <1>3, <1>7, <1>12 DEF clients, registry
    <3>6. Outcome(event[n])' = Outcome(e)
      BY <3>5 DEF Outcome
    <3>7. pc'[n] = "notifying" /\ stage'[d] = "watching" /\ id'[d] \notin toNotify'[n] =>
            Knows(d, k, Outcome(event[n]))'
      BY <3>4, <3>5, <3>6
    <3>8. InFlight(n, d, k)'
      BY <1>3, <1>7, <1>12, <3>1, <3>5, <3>6, <3>7 DEF InFlight, Notifying
    <3> QED
      BY <3>2, <3>3, <3>8
  <2> QED
    BY <2>1, <2>2
<1> QED
  BY <1>4, <1>5, <1>9, <1>10, <1>13 DEF WatchInv

\* A client that lists the store while something happens to a key has a gap.
LEMMA WatchListKeeps ==
  ASSUME ConfigTypeOK, WatchInv, NEW c \in Client, WatchList(c)
  PROVE  ConfigTypeOK' /\ WatchInv'
<1>1. /\ RegistryInv /\ FreshInv /\ RequestsInv /\ AloneInv /\ KnowledgeInv
      /\ WatchersTypeOK /\ db \in [Key -> Value \cup {Absent}]
  BY DEF WatchInv, ConfigTypeOK
<1>2. PICK s \in [Key -> Value \cup {Absent}] : s = db
  BY <1>1
<1>3. /\ List(c, s)
      /\ gap' = gap \cup {<<c, k>> : k \in {k \in Key : Busy(k)}}
      /\ UNCHANGED <<db, pc, raced, channel, closed, registry, lock, event>>
      /\ UNCHANGED <<server, targets, intents, ops, faults, upset>>
  BY <1>2 DEF WatchList, List, bounds
<1>4. WatchersTypeOK' /\ RegistryInv' /\ FreshInv'
  BY <1>1, <1>3, ListType, ListRegistry, WatchingFresh
<1>5. ConfigTypeOK'
  <2>1. Lifecycle!TypeOK'
    BY <1>3 DEF ConfigTypeOK, Lifecycle!TypeOK, targets
  <2>2. gap' \subseteq Client \X Key
    BY <1>3 DEF ConfigTypeOK
  <2> QED
    BY <1>3, <1>4, <2>1, <2>2 DEF ConfigTypeOK
<1>6. RequestsInv' /\ AloneInv'
  BY <1>1, <1>3 DEF RequestsInv, AloneInv, lock
<1>7. KnowledgeInv'
  <2> SUFFICES ASSUME NEW d \in Client, NEW k \in Key, <<d, k>> \notin gap', k \notin raced
               PROVE  /\ Settled(d, k)'
                      /\ \A m \in Notifier : pc[m] # "idle" /\ event[m].key = k => InFlight(m, d, k)'
    BY <1>3 DEF KnowledgeInv
  <2>1. <<d, k>> \notin gap
    BY <1>3
  <2>2. Busy(k)' <=> Busy(k)
    BY <1>3 DEF Busy
  <2>3. CASE d = c
    <3>1. ~Busy(k)
      BY <1>3, <2>3
    <3>2. PICK x : x = s[k]
      OBVIOUS
    <3>3. Expects(c, k, s[k])'
      BY <1>1, <1>3, ListExpects
    <3>4. Settled(d, k)'
      BY <1>2, <1>3, <2>3, <3>3 DEF Settled
    <3> QED
      BY <3>1, <3>4 DEF Busy
  <2>4. CASE d # c
    <3>1. \A x : Expects(d, k, x) => Expects(d, k, x)'
      BY <1>1, <1>3, <2>4, ListOthers
    <3>2. Settled(d, k)'
      <4> SUFFICES ASSUME ~Busy(k) PROVE Expects(d, k, db[k])'
        BY <2>2 DEF Settled
      <4>1. PICK x : x = db[k]
        OBVIOUS
      <4>2. Expects(d, k, x)'
        BY <1>1, <2>1, <3>1, <4>1 DEF KnowledgeInv, Settled
      <4> QED
        BY <1>3, <4>1, <4>2
    <3>3. ASSUME NEW m \in Notifier, pc[m] # "idle", event[m].key = k
          PROVE  InFlight(m, d, k)'
      <4>1. InFlight(m, d, k)
        BY <1>1, <2>1, <3>3 DEF KnowledgeInv
      <4>2. stage'[d] = stage[d] /\ stage'[d] # "push"
        BY <1>1, <1>3, <2>4, <4>1 DEF List, Enter, InFlight, WatchersTypeOK
      <4> QED
        BY <1>3, <3>1, <4>1, <4>2, InFlightKept DEF registry, lock
    <3> QED
      BY <3>2, <3>3
  <2> QED
    BY <2>3, <2>4
<1> QED
  BY <1>4, <1>5, <1>6, <1>7 DEF WatchInv

\* What clients do brings no view further from the store.
LEMMA WatchingKeeps ==
  ASSUME ConfigTypeOK, WatchInv, NEW c \in Client, Watching(c)
  PROVE  ConfigTypeOK' /\ WatchInv'
<1>1. RegistryInv /\ FreshInv /\ RequestsInv /\ AloneInv /\ KnowledgeInv /\ WatchersTypeOK
  BY DEF WatchInv, ConfigTypeOK
<1>2. /\ StartWatch(c) \/ Push(c) \/ Add(c) \/ Receive(c) \/ Stop(c) \/ Del(c)
      /\ UNCHANGED <<db, pc, raced, gap>>
      /\ UNCHANGED <<server, targets, intents, ops, faults, upset>>
  BY DEF Watching, bounds, blurred
<1>3. UNCHANGED <<lock, event>>
  BY <1>2 DEF StartWatch, Push, Add, Receive, Stop, Del, Unregister
<1>4. WatchersTypeOK' /\ RegistryInv' /\ FreshInv'
  BY <1>1, <1>2, WatchingType, WatchingRegistry, WatchingFresh
<1>5. ConfigTypeOK'
  <2>1. Lifecycle!TypeOK'
    BY <1>2 DEF ConfigTypeOK, Lifecycle!TypeOK, targets
  <2> QED
    BY <1>2, <1>4, <2>1 DEF ConfigTypeOK
<1>6. \A d \in Client, k \in Key : \A x : Expects(d, k, x) => Expects(d, k, x)'
  BY <1>1, <1>2, WatchingExpects
<1>7. \A d \in Client : stage[d] # "push" =>
        /\ stage'[d] # "push"
        /\ stage'[d] = "watching" => stage[d] = "watching" /\ id'[d] = id[d]
  BY <1>1, <1>2 DEF StartWatch, Push, Add, Receive, Stop, Del, Unregister, Enter,
     AllocateID, registry, WatchersTypeOK
<1>8. KnowledgeInv'
  <2> SUFFICES ASSUME NEW d \in Client, NEW k \in Key, <<d, k>> \notin gap, k \notin raced
               PROVE  /\ Settled(d, k)'
                      /\ \A m \in Notifier : pc[m] # "idle" /\ event[m].key = k => InFlight(m, d, k)'
    BY <1>2, <1>3 DEF KnowledgeInv
  <2>1. Settled(d, k)'
    <3> SUFFICES ASSUME ~Busy(k) PROVE Expects(d, k, db[k])'
      BY <1>2, <1>3 DEF Settled, Busy
    <3>1. PICK x : x = db[k]
      OBVIOUS
    <3>2. Expects(d, k, x)'
      BY <1>1, <1>6, <3>1 DEF KnowledgeInv, Settled
    <3> QED
      BY <1>2, <3>1, <3>2
  <2>2. ASSUME NEW m \in Notifier, pc[m] # "idle", event[m].key = k
        PROVE  InFlight(m, d, k)'
    <3>1. InFlight(m, d, k)
      BY <1>1, <2>2 DEF KnowledgeInv
    <3>2. stage[d] # "push"
      BY <3>1 DEF InFlight
    <3> QED
      BY <1>2, <1>3, <1>6, <1>7, <3>1, <3>2, InFlightKept DEF lock
  <2> QED
    BY <2>1, <2>2
<1>9. RequestsInv' /\ AloneInv'
  BY <1>1, <1>2, <1>3 DEF RequestsInv, AloneInv, lock
<1> QED
  BY <1>4, <1>5, <1>8, <1>9 DEF WatchInv

\* What the controller does concerns neither the watchers nor the store.
LEMMA ElsewhereWatch ==
  ASSUME WatchInv, UNCHANGED <<wvars, db, pc, raced, gap>>
  PROVE  WatchInv'
<1> USE DEF wvars, clients, registry, lock
<1>1. RegistryInv' /\ FreshInv' /\ RequestsInv' /\ AloneInv'
  BY DEF WatchInv, RegistryInv, IDsPartitioned, Registered, FreshInv, RequestsInv, AloneInv
<1>2. \A c \in Client, k \in Key : \A x :
        /\ Expects(c, k, x)' <=> Expects(c, k, x)
        /\ Knows(c, k, x)' <=> Knows(c, k, x)
  BY DEF Expects, Lists, Knows, Outcome
<1>3. KnowledgeInv'
  BY <1>2 DEF WatchInv, KnowledgeInv, Settled, Busy, InFlight, Outcome
<1> QED
  BY <1>1, <1>3 DEF WatchInv

\* A process that starts has an empty registry, and its clients know nothing.
LEMMA StartOfProcess == WatchersInit' => WatchersTypeOK' /\ RegistryInv' /\ FreshInv'
BY WatchersTypeInit, RegistryInit, FreshInit, PTL

\* After a restart there are no requests and no watchers, and the store is empty.
LEMMA RestartKeeps ==
  ASSUME ConfigTypeOK, Restart
  PROVE  ConfigTypeOK' /\ WatchInv'
<1>1. WatchersInit'
  BY DEF Restart, WatchersInit
<1>2. WatchersTypeOK' /\ RegistryInv' /\ FreshInv'
  BY <1>1, StartOfProcess
<1>3. WatchInv'
  <2>1. RequestsInv' /\ AloneInv'
    BY DEF Restart, RequestsInv, AloneInv
  <2>2. \A c \in Client, k \in Key : Settled(c, k)'
    BY DEF Restart, Settled, Expects
  <2>3. \A n \in Notifier : pc'[n] = "idle"
    BY DEF Restart
  <2>4. KnowledgeInv'
    BY <2>2, <2>3 DEF KnowledgeInv
  <2> QED
    BY <1>2, <2>1, <2>4 DEF WatchInv
<1>4. Lifecycle!TypeOK'
  BY DEF Restart, Lifecycle!Restart, ConfigTypeOK, Lifecycle!TypeOK
<1>5. ops' \in 0..MaxOps /\ faults' \in 0..MaxFaults
  BY ConfigAssumption DEF Restart, Fault, ConfigTypeOK
<1>6. upset' \subseteq Key
  BY DEF Restart, Upset, ConfigTypeOK
<1> QED
  BY <1>2, <1>3, <1>4, <1>5, <1>6 DEF Restart, ConfigTypeOK, Steps, Calling

-----------------------------------------------------------------------------
(* The targets *)

\* The value a Config has stays agreed while its intents and the binding of its
\* own target stay.
LEMMA AgreeKept ==
  ASSUME NEW k \in Key, NEW x \in Value \cup {Absent}, Agree(k, x),
         \A d \in DataServer, t \in Target : intents'[d][t][k] = intents[d][t][k],
         x # Absent =>
           /\ Valid(TargetOf[x])'
           /\ \A d \in DataServer :
                Lifecycle!Bound(TargetOf[x], d)' <=> Lifecycle!Bound(TargetOf[x], d)
  PROVE  Agree(k, x)'
<1>1. \A d \in DataServer, t \in Target : Intended(t, d, x)' = Intended(t, d, x)
  BY DEF Intended
<1> QED
  BY <1>1 DEF Agree

\* What is promised of a name during a request stays, if the request does not move
\* and what the data servers agree on, and the target it calls, stay.
LEMMA SyncingKept ==
  ASSUME ConfigTypeOK, RequestsInv, NEW n \in Notifier, NEW k \in Key, pc[n] # "idle", Syncing(n, k),
         UNCHANGED <<pc[n], event[n], server[n], db[k]>>,
         \A x \in Value \cup {Absent} : Agree(k, x) => Agree(k, x)',
         pc[n] \in Calling /\ Valid(TargetOf[event[n].value]) =>
           /\ Valid(TargetOf[event[n].value])'
           /\ Lifecycle!Bound(TargetOf[event[n].value], server[n]) =>
                Lifecycle!Bound(TargetOf[event[n].value], server[n])'
  PROVE  Syncing(n, k)'
<1>1. db[k] \in Value \cup {Absent} /\ event[n].value \in Value
  BY BusyEvent DEF ConfigTypeOK
<1>2. /\ Agree(k, db[k]) => Agree(k, db[k])'
      /\ Agree(k, event[n].value) => Agree(k, event[n].value)'
      /\ Agree(k, Absent) => Agree(k, Absent)'
  BY <1>1
<1> QED
  BY <1>2 DEF Syncing

\* A step of the request of n on k concerns no other Config.
LEMMA StepSync ==
  ASSUME ConfigTypeOK, RequestsInv, AloneInv, SyncInv, NEW n \in Notifier, NEW k \in Key,
         pc[n] # "idle", event[n].key = k,
         UNCHANGED <<targets, raced>>, upset \subseteq upset',
         \A m \in Notifier : m # n => UNCHANGED <<pc[m], event[m], server[m]>>,
         pc'[n] = "idle" \/ event'[n] = event[n],
         \A l \in Key : l # k =>
           UNCHANGED db[l] /\ \A d \in DataServer, t \in Target : UNCHANGED intents[d][t][l],
         k \notin upset' /\ Syncing(n, k) =>
           /\ pc'[n] = "idle" => Agree(k, db[k])'
           /\ pc'[n] # "idle" => Syncing(n, k)'
  PROVE  SyncInv'
<1> SUFFICES ASSUME NEW l \in Key, l \notin upset', l \notin raced
             PROVE  /\ ~Busy(l)' => Agree(l, db[l])'
                    /\ \A m \in Notifier : pc'[m] # "idle" /\ event'[m].key = l => Syncing(m, l)'
  BY DEF SyncInv
<1>1. l \notin upset
  OBVIOUS
<1>2. CASE l # k
  <2>1. ASSUME NEW x \in Value \cup {Absent}, Agree(l, x) PROVE Agree(l, x)'
    BY <1>2, <2>1, AgreeKept DEF targets, Agree, Valid, Lifecycle!Bound
  <2>2. ~Busy(l)' => Agree(l, db[l])'
    <3> SUFFICES ASSUME ~Busy(l)' PROVE Agree(l, db[l])'
      OBVIOUS
    <3>1. ~Busy(l)
      BY <1>2 DEF Busy
    <3>2. PICK x \in Value \cup {Absent} : x = db[l]
      BY DEF ConfigTypeOK
    <3> QED
      BY <1>1, <1>2, <2>1, <3>1, <3>2 DEF SyncInv
  <2>3. ASSUME NEW m \in Notifier, pc'[m] # "idle", event'[m].key = l
        PROVE  Syncing(m, l)'
    <3>1. m # n
      BY <1>2, <2>3
    <3>2. pc[m] # "idle" /\ Syncing(m, l)
      BY <1>1, <2>3, <3>1 DEF SyncInv
    <3> QED
      BY <1>2, <2>1, <3>1, <3>2, SyncingKept DEF targets, Valid, Lifecycle!Bound
  <2> QED
    BY <2>2, <2>3
<1>3. CASE l = k
  <2>1. Syncing(n, k)
    BY <1>1, <1>3 DEF SyncInv
  <2>2. \A m \in Notifier : pc[m] # "idle" /\ event[m].key = k => m = n
    BY <1>3 DEF AloneInv
  <2>3. CASE pc'[n] = "idle"
    BY <1>3, <2>1, <2>2, <2>3
  <2>4. CASE pc'[n] # "idle"
    <3>1. Busy(k)'
      BY <2>4 DEF Busy
    <3> QED
      BY <1>3, <2>1, <2>2, <2>4, <3>1
  <2> QED
    BY <2>3, <2>4
<1> QED
  BY <1>2, <1>3

\* A request begins on a Config that the data servers agree on.
LEMMA BeginSync ==
  ASSUME ConfigTypeOK, RequestsInv, SyncInv, NEW n \in Notifier, NEW k \in Key,
         pc'[n] # "idle", event'[n].key = k, pc[n] = "idle",
         \A m \in Notifier : m # n => UNCHANGED <<pc[m], event[m], server[m]>>,
         k \notin raced' => ~Busy(k),
         raced \subseteq raced', upset \subseteq upset', UNCHANGED <<targets, intents, db>>,
         k \notin upset' /\ Agree(k, db[k])' => Syncing(n, k)'
  PROVE  SyncInv'
<1> SUFFICES ASSUME NEW l \in Key, l \notin upset', l \notin raced'
             PROVE  /\ ~Busy(l)' => Agree(l, db[l])'
                    /\ \A m \in Notifier : pc'[m] # "idle" /\ event'[m].key = l => Syncing(m, l)'
  BY DEF SyncInv
<1>1. l \notin upset /\ l \notin raced
  OBVIOUS
<1>2. ASSUME NEW x \in Value \cup {Absent}, Agree(l, x) PROVE Agree(l, x)'
  BY <1>2, AgreeKept DEF targets, Agree, Valid, Lifecycle!Bound
<1>3. ASSUME ~Busy(l) PROVE Agree(l, db[l])'
  <2>1. PICK x \in Value \cup {Absent} : x = db[l]
    BY DEF ConfigTypeOK
  <2> QED
    BY <1>1, <1>2, <1>3, <2>1 DEF SyncInv
<1>4. ~Busy(l)' => ~Busy(l)
  BY DEF Busy
<1>5. ASSUME NEW m \in Notifier, m # n, pc'[m] # "idle", event'[m].key = l
      PROVE  Syncing(m, l)'
  <2>1. pc[m] # "idle" /\ Syncing(m, l)
    BY <1>1, <1>5 DEF SyncInv
  <2> QED
    BY <1>2, <1>5, <2>1, SyncingKept DEF targets, Valid, Lifecycle!Bound
<1>6. ASSUME l = k PROVE Syncing(n, k)'
  BY <1>3, <1>6
<1> QED
  BY <1>3, <1>4, <1>5, <1>6

\* Intents stay in their datastores as long as neither moves.
LEMMA SameHoused ==
  ASSUME HousedInv, UNCHANGED <<targets, intents>>
  PROVE  HousedInv'
BY DEF HousedInv, targets

\* A request that begins has changed nothing, and its data server is that of the
\* target now.
LEMMA StartKeeps ==
  ASSUME IInv, NEW n \in Notifier, NEW k \in Key, NEW v \in Value,
         Create(n, k, v) \/ Update(n, k, v) \/ Apply(n, k, v) \/ (v = db[k] /\ Delete(n, k))
  PROVE  IInv'
<1>1. ConfigTypeOK /\ WatchInv /\ RequestsInv /\ AloneInv /\ HousedInv /\ SyncInv
  BY DEF IInv, WatchInv, TargetInv
<1>2. PICK step \in {"createIntent", "target", "assert"}, type \in {"Added", "Modified", "Deleted"} :
        /\ Begin(n, step, type, k, v)
        /\ step = "createIntent" =>
             /\ type # "Deleted" /\ Valid(TargetOf[v]) /\ UNCHANGED upset
             /\ server' = [server EXCEPT ![n] = targetStore[TargetOf[v]].client]
        /\ step # "createIntent" => UNCHANGED server
        /\ step = "target" =>
             /\ db[k] # Absent
             /\ upset' = upset \cup (IF TargetOf[v] # TargetOf[db[k]] THEN {k} ELSE {})
        /\ step = "assert" => UNCHANGED upset
  <2>1. CASE Create(n, k, v)
    BY <2>1 DEF Create
  <2>2. CASE Update(n, k, v)
    BY <2>2 DEF Update, Upset
  <2>3. CASE Apply(n, k, v)
    BY <2>3 DEF Apply
  <2>4. CASE v = db[k] /\ Delete(n, k)
    BY <2>4 DEF Delete
  <2> QED
    BY <2>1, <2>2, <2>3, <2>4
<1>3. /\ WatchInv'
      /\ pc'[n] = step /\ event'[n] = [type |-> type, key |-> k, value |-> v]
      /\ \A m \in Notifier : m # n => UNCHANGED <<pc[m], event[m]>>
      /\ k \notin raced' => ~Busy(k)
      /\ raced \subseteq raced' /\ UNCHANGED <<targets, intents, db>>
  <2>1. Begin(n, step, type, k, v) /\ (step = "createIntent" => type # "Deleted")
    BY <1>2
  <2>2. ConfigTypeOK /\ WatchInv
    BY <1>1
  <2>3. WatchInv'
    BY ONLY <2>1, <2>2, BeginWatch
  <2>4. pc \in [Notifier -> Steps] /\ event \in [Notifier -> Event \cup {NoEvent}]
    BY <2>2 DEF ConfigTypeOK, WatchersTypeOK
  <2>5. pc'[n] = step /\ event'[n] = [type |-> type, key |-> k, value |-> v]
    BY <2>1, <2>4 DEF Begin
  <2>6. \A m \in Notifier : m # n => UNCHANGED <<pc[m], event[m]>>
    BY <2>1, <2>4 DEF Begin
  <2>7. k \notin raced' => ~Busy(k)
    BY <2>1 DEF Begin
  <2>8. raced \subseteq raced' /\ UNCHANGED <<targets, intents, db>>
    BY <2>1 DEF Begin, targets
  <2> QED
    BY <2>3, <2>5, <2>6, <2>7, <2>8
<1>4. /\ TargetOf[v] \in Target /\ server \in [Notifier -> DataServer \cup {NoServer}]
      /\ upset \subseteq Key
  BY <1>1, ConfigAssumption DEF ConfigTypeOK
<1>5. step = "createIntent" =>
        /\ targetStore[TargetOf[v]].client \in DataServer
        /\ Lifecycle!Bound(TargetOf[v], targetStore[TargetOf[v]].client)
  BY <1>1, <1>2, <1>4, ValidClient
<1>6. \A m \in Notifier : m # n => server'[m] = server[m]
  BY <1>2, <1>4
<1>7. step = "createIntent" => server'[n] = targetStore[TargetOf[v]].client
  BY <1>2, <1>4
<1>8. ConfigTypeOK'
  <2>1. server' \in [Notifier -> DataServer \cup {NoServer}]
    BY <1>2, <1>4, <1>5
  <2>2. step \in Calling => server'[n] # NoServer
    BY <1>2, <1>5, <1>7, ConfigAssumption DEF Calling
  <2>3. upset' \subseteq Key
    BY <1>2, <1>4
  <2>4. step \in Steps
    BY DEF Steps
  <2> QED
    BY <1>1, <1>2, <1>6, <2>1, <2>2, <2>3, <2>4, BeginType
<1>9. k \notin upset' /\ Agree(k, db[k])' => Syncing(n, k)'
  <2> SUFFICES ASSUME k \notin upset', Agree(k, db[k])' PROVE Syncing(n, k)'
    OBVIOUS
  <2>1. event'[n].value = v
    BY <1>3
  <2>2. CASE step = "createIntent"
    <3>1. Valid(TargetOf[v])' /\ Lifecycle!Bound(TargetOf[v], server[n])'
      BY <1>2, <1>3, <1>5, <1>7, <2>2 DEF targets, Valid, Lifecycle!Bound
    <3> QED
      BY <1>3, <2>1, <2>2, <3>1 DEF Syncing
  <2>3. CASE step = "target"
    BY <1>2, <1>3, <2>1, <2>3 DEF Syncing, Calling
  <2>4. CASE step = "assert"
    BY <1>3, <2>4 DEF Syncing, Calling
  <2> QED
    BY <2>2, <2>3, <2>4
<1>10. SyncInv'
  <2>1. pc[n] = "idle" /\ pc'[n] # "idle" /\ event'[n].key = k
    BY <1>2, <1>3 DEF Begin
  <2>2. upset \subseteq upset'
    BY <1>2
  <2> QED
    BY <1>1, <1>3, <1>6, <1>9, <2>1, <2>2, BeginSync
<1> QED
  BY <1>1, <1>3, <1>8, <1>10, SameHoused DEF IInv, TargetInv

\* A call changes one intent, ...
LEMMA TakeIntentEffect ==
  ASSUME ConfigTypeOK, RequestsInv, NEW n \in Notifier, pc[n] \in Calling, TakeIntent(n),
         NEW d \in DataServer, NEW t \in Target, NEW k \in Key
  PROVE  intents'[d][t][k] =
           IF d = server[n] /\ t = TargetOf[event[n].value] /\ k = event[n].key
             THEN IF pc[n] = "deleteIntent" THEN Absent ELSE event[n].value
             ELSE intents[d][t][k]
<1>1. event[n].key \in Key /\ TargetOf[event[n].value] \in Target
  BY BusyEvent DEF Calling
<1>2. server[n] \in DataServer
  BY DEF ConfigTypeOK
<1> QED
  BY <1>1, <1>2 DEF ConfigTypeOK, TakeIntent

\* ... which brings the data servers to what the store will hold.
LEMMA CallAgrees ==
  ASSUME ConfigTypeOK, RequestsInv, NEW n \in Notifier, NEW k \in Key, pc[n] \in Calling,
         event[n].key = k, TakeIntent(n), UNCHANGED targets, Syncing(n, k)
  PROVE  /\ pc[n] = "createIntent" /\ db[k] = Absent => \A x : x = event[n].value => Agree(k, x)'
         /\ pc[n] = "updateIntent" => \A x : x = event[n].value => Agree(k, x)'
         /\ pc[n] = "deleteIntent" => Agree(k, Absent)'
<1>0. PICK v : v = event[n].value
  OBVIOUS
<1> DEFINE t0 == TargetOf[v]
<1>1. /\ Agree(k, db[k]) /\ Valid(t0) /\ Lifecycle!Bound(t0, server[n])
      /\ pc[n] \in {"updateIntent", "deleteIntent"} => db[k] # Absent /\ TargetOf[db[k]] = t0
  BY <1>0 DEF Syncing, Calling
<1>2. v \in Value /\ v # Absent /\ t0 \in Target
  BY <1>0, BusyEvent, WatchersAssumption DEF Calling
<1>3. \A t \in Target, d \in DataServer : Lifecycle!Bound(t, d)' <=> Lifecycle!Bound(t, d)
  BY DEF targets, Lifecycle!Bound
<1>4. \A d \in DataServer : Lifecycle!Bound(t0, d) <=> d = server[n]
  BY <1>1 DEF Lifecycle!Bound
<1>5. \A d \in DataServer, t \in Target :
        intents'[d][t][k] = IF d = server[n] /\ t = t0
                              THEN IF pc[n] = "deleteIntent" THEN Absent ELSE v
                              ELSE intents[d][t][k]
  BY <1>0, TakeIntentEffect
<1>6. \A d \in DataServer, t \in Target : intents[d][t][k] = Intended(t, d, db[k])
  BY <1>1 DEF Agree
<1>7. Valid(t0)'
  BY <1>1 DEF Valid, targets
<1> HIDE DEF t0
<1>8. ASSUME pc[n] # "deleteIntent", db[k] = Absent \/ TargetOf[db[k]] = t0, NEW x, x = v
      PROVE  Agree(k, x)'
  <2>1. \A d \in DataServer, t \in Target : intents'[d][t][k] = Intended(t, d, x)'
    BY <1>2, <1>3, <1>4, <1>5, <1>6, <1>8 DEF Intended, t0
  <2> QED
    BY <1>7, <1>8, <2>1 DEF Agree, t0
<1>9. ASSUME pc[n] = "deleteIntent"
      PROVE  Agree(k, Absent)'
  <2>1. \A d \in DataServer, t \in Target : intents'[d][t][k] = Absent
    BY <1>1, <1>4, <1>5, <1>6, <1>9 DEF Intended
  <2> QED
    BY <2>1 DEF Agree, Intended
<1> QED
  BY <1>0, <1>1, <1>8, <1>9

\* A data server takes an intent only into a datastore it has.
LEMMA LocalHoused ==
  ASSUME ConfigTypeOK, RequestsInv, HousedInv, NEW n \in Notifier, Local(n)
  PROVE  HousedInv'
<1>1. UNCHANGED targets
  BY LocalFrame
<1>2. CASE UNCHANGED intents
  BY <1>1, <1>2, SameHoused
<1>3. CASE pc[n] \in Calling /\ HasDataStore(n) /\ TakeIntent(n)
  <2> SUFFICES ASSUME NEW d \in DataServer, NEW t \in Target, NEW k \in Key,
                      intents'[d][t][k] # Absent
               PROVE  <<d, t>> \in present
    BY <1>1 DEF HousedInv, targets
  <2> QED
    BY <1>3, TakeIntentEffect DEF HousedInv, HasDataStore
<1> QED
  BY <1>2, <1>3 DEF Local, AssertOld, GetTarget, CallDataServer, CheckEntry, WriteEntry, RemoveEntry

\* What each step makes of what the data servers hold of its Config
LEMMA LocalSyncing ==
  ASSUME ConfigTypeOK, RequestsInv, NEW n \in Notifier, NEW k \in Key, Local(n),
         event[n].key = k, k \notin upset', Syncing(n, k)
  PROVE  /\ pc'[n] = "idle" => Agree(k, db[k])'
         /\ pc'[n] # "idle" => Syncing(n, k)'
<1>1. UNCHANGED targets
  BY LocalFrame
<1>2. /\ pc \in [Notifier -> Steps] /\ server \in [Notifier -> DataServer \cup {NoServer}]
      /\ event \in [Notifier -> Event \cup {NoEvent}] /\ db \in [Key -> Value \cup {Absent}]
  BY DEF ConfigTypeOK, WatchersTypeOK
<1>3. event[n].value \in Value /\ TargetOf[event[n].value] \in Target
  BY LocalFrame, BusyEvent
<1>4. ASSUME NEW x \in Value \cup {Absent}, Agree(k, x), UNCHANGED intents PROVE Agree(k, x)'
  BY <1>1, <1>4, AgreeKept DEF targets, Agree, Valid, Lifecycle!Bound
<1>5. ASSUME Agree(k, db[k]), UNCHANGED <<intents, db>> PROVE Agree(k, db[k])'
  <2>1. PICK x \in Value \cup {Absent} : x = db[k]
    BY <1>2
  <2> QED
    BY <1>4, <1>5, <2>1
<1>6. ASSUME Return(n) PROVE pc'[n] = "idle"
  BY <1>2, <1>6 DEF Return
<1>7. ASSUME NEW step, Goto(n, step)
      PROVE  pc'[n] = step /\ event' = event /\ server' = server
  BY <1>2, <1>7 DEF Goto
<1>8. PICK v \in Value : v = event[n].value
  BY <1>3
<1>9. CASE AssertOld(n)
  BY <1>5, <1>6, <1>9 DEF AssertOld, Syncing
<1>10. CASE GetTarget(n)
  <2>1. pc[n] = "target" /\ UNCHANGED <<intents, db>>
    BY <1>10 DEF GetTarget
  <2>2. Agree(k, db[k])' /\ db[k] # Absent /\ TargetOf[db[k]] = TargetOf[v]
    BY <1>5, <1>8, <2>1 DEF Syncing
  <2>3. CASE Return(n)
    BY <1>6, <2>2, <2>3
  <2>4. CASE ~Return(n)
    <3>1. PICK t \in Target : t = TargetOf[v]
      BY <1>3, <1>8
    <3>2. /\ Valid(t) /\ server' = [server EXCEPT ![n] = targetStore[t].client]
          /\ event' = event /\ pc'[n] \in {"updateIntent", "deleteIntent"}
      BY <1>2, <1>8, <1>10, <2>4, <3>1 DEF GetTarget
    <3>3. server'[n] = targetStore[t].client
      BY <1>2, <3>2
    <3>4. Valid(t)' /\ Lifecycle!Bound(t, server[n])'
      BY <1>1, <3>2, <3>3 DEF targets, Valid, Lifecycle!Bound
    <3> QED
      BY <1>8, <2>1, <2>2, <3>1, <3>2, <3>4 DEF Syncing, Calling, Notifying
  <2> QED
    BY <2>3, <2>4
<1>11. CASE CallDataServer(n)
  <2>1. pc[n] \in Calling /\ UNCHANGED db
    BY <1>11 DEF CallDataServer
  <2>2. CASE Return(n) /\ UNCHANGED intents
    BY <1>5, <1>6, <2>1, <2>2 DEF Syncing
  <2>3. CASE TakeIntent(n) /\ Goto(n, FollowedBy(pc[n]))
    <3>1. pc'[n] = FollowedBy(pc[n]) /\ event' = event
      BY <1>7, <2>3
    <3>2. /\ pc[n] = "createIntent" /\ db[k] = Absent => Agree(k, v)'
          /\ pc[n] = "updateIntent" => Agree(k, v)'
          /\ pc[n] = "deleteIntent" => Agree(k, Absent)'
      BY <1>1, <1>8, <2>1, <2>3, CallAgrees
    <3> QED
      BY <1>8, <2>1, <3>1, <3>2 DEF FollowedBy, Syncing, Calling, Notifying
  <2>4. CASE upset' = upset \cup {k}
    BY <2>4
  <2> QED
    BY <1>11, <2>2, <2>3, <2>4 DEF CallDataServer, Upset
<1>12. CASE CheckEntry(n)
  <2>1. pc[n] = "check" /\ UNCHANGED <<intents, db>> /\ db[k] = Absent /\ Goto(n, "write")
    BY <1>12 DEF CheckEntry, Upset
  <2>2. Agree(k, v)'
    BY <1>4, <1>8, <2>1 DEF Syncing
  <2>3. pc'[n] = "write" /\ event' = event
    BY <1>7, <2>1
  <2> QED
    BY <1>8, <2>2, <2>3 DEF Syncing, Calling, Notifying
<1>13. CASE WriteEntry(n) \/ RemoveEntry(n)
  <2>1. pc[n] \in {"write", "remove"} /\ UNCHANGED intents /\ Goto(n, "notify")
    BY <1>13 DEF WriteEntry, RemoveEntry
  <2>2. PICK x \in Value \cup {Absent} : x = IF pc[n] = "write" THEN v ELSE Absent
    OBVIOUS
  <2>3. Agree(k, x)'
    BY <1>4, <1>8, <2>1, <2>2 DEF Syncing
  <2>4. db'[k] = x
    BY <1>2, <1>8, <1>13, <2>2 DEF WriteEntry, RemoveEntry
  <2>5. pc'[n] = "notify"
    BY <1>7, <2>1
  <2> QED
    BY <2>3, <2>4, <2>5 DEF Syncing, Calling, Notifying
<1> QED
  BY <1>9, <1>10, <1>11, <1>12, <1>13 DEF Local

\* The steps of a request up to its notification, for the data servers, too.
LEMMA LocalKeeps ==
  ASSUME IInv, NEW n \in Notifier, Local(n)
  PROVE  IInv'
<1>1. ConfigTypeOK /\ WatchInv /\ RequestsInv /\ AloneInv /\ HousedInv /\ SyncInv
  BY DEF IInv, WatchInv, TargetInv
<1>2. ConfigTypeOK' /\ WatchInv' /\ HousedInv'
  BY <1>1, LocalType, LocalWatch, LocalHoused
<1>3. /\ UNCHANGED <<targets, raced>> /\ pc[n] # "idle"
      /\ \A m \in Notifier : m # n => UNCHANGED <<pc[m], event[m], server[m]>>
      /\ pc'[n] = "idle" \/ event'[n] = event[n]
  BY <1>1, LocalFrame
<1>4. PICK k \in Key : event[n].key = k
  BY <1>1, <1>3, BusyEvent
<1>5. \A l \in Key : l # k => UNCHANGED db[l]
  BY <1>1, <1>4, LocalEffect
<1>6. \A l \in Key : l # k => \A d \in DataServer, t \in Target : UNCHANGED intents[d][t][l]
  <2>1. CASE UNCHANGED intents
    BY <2>1
  <2>2. CASE pc[n] \in Calling /\ TakeIntent(n)
    BY <1>1, <1>4, <2>2, TakeIntentEffect
  <2> QED
    BY <2>1, <2>2 DEF Local, AssertOld, GetTarget, CallDataServer, CheckEntry, WriteEntry, RemoveEntry
<1>7. upset \subseteq upset'
  BY DEF Local, AssertOld, GetTarget, CallDataServer, CheckEntry, WriteEntry, RemoveEntry, Upset, blurred
<1>8. k \notin upset' /\ Syncing(n, k) =>
        /\ pc'[n] = "idle" => Agree(k, db[k])'
        /\ pc'[n] # "idle" => Syncing(n, k)'
  BY <1>1, <1>4, LocalSyncing
<1>9. SyncInv'
  BY <1>1, <1>3, <1>4, <1>5, <1>6, <1>7, <1>8, StepSync
<1> QED
  BY <1>2, <1>9 DEF IInv, TargetInv

\* Nothing that a request tells watchers changes what the data servers hold.
LEMMA NotifySync ==
  ASSUME ConfigTypeOK, WatchInv, TargetInv, NEW n \in Notifier, NotifyWatchers(n) \/ Notified(n)
  PROVE  TargetInv'
<1>1. RequestsInv /\ AloneInv /\ HousedInv /\ SyncInv
  BY DEF WatchInv, TargetInv
<1>2. /\ UNCHANGED <<targets, intents, db, upset, raced>> /\ pc[n] \in Notifying
      /\ \/ pc' = [pc EXCEPT ![n] = "notifying"] /\ UNCHANGED <<event, server>>
         \/ Return(n)
  BY DEF NotifyWatchers, Notify, Notified, blurred, Notifying
<1>3. /\ pc \in [Notifier -> Steps] /\ server \in [Notifier -> DataServer \cup {NoServer}]
      /\ event \in [Notifier -> Event \cup {NoEvent}] /\ db \in [Key -> Value \cup {Absent}]
  BY DEF ConfigTypeOK, WatchersTypeOK
<1>4. PICK k \in Key : event[n].key = k
  BY <1>1, <1>2, BusyEvent DEF Notifying
<1>5. pc[n] # "idle" /\ (pc'[n] = "idle" \/ (pc'[n] = "notifying" /\ event'[n] = event[n]))
  <2>1. pc[n] # "idle"
    BY <1>2 DEF Notifying
  <2>2. CASE pc' = [pc EXCEPT ![n] = "notifying"] /\ UNCHANGED <<event, server>>
    BY <1>3, <2>1, <2>2
  <2>3. CASE Return(n)
    BY <1>3, <2>1, <2>3 DEF Return
  <2> QED
    BY <1>2, <2>2, <2>3
<1>10. \A m \in Notifier : m # n => UNCHANGED <<pc[m], event[m], server[m]>>
  BY <1>2, <1>3 DEF Return
<1>6. ASSUME Syncing(n, k) PROVE Agree(k, db[k])'
  <2>1. PICK x \in Value \cup {Absent} : x = db[k]
    BY <1>3
  <2>2. Agree(k, x)'
    BY <1>2, <1>6, <2>1, AgreeKept DEF Syncing, targets, Agree, Valid, Lifecycle!Bound
  <2> QED
    BY <1>2, <2>1, <2>2
<1>7. k \notin upset' /\ Syncing(n, k) =>
        /\ pc'[n] = "idle" => Agree(k, db[k])'
        /\ pc'[n] # "idle" => Syncing(n, k)'
  BY <1>5, <1>6 DEF Syncing, Calling, Notifying
<1>8. /\ upset \subseteq upset'
      /\ \A l \in Key : l # k =>
           UNCHANGED db[l] /\ \A d \in DataServer, t \in Target : UNCHANGED intents[d][t][l]
  BY <1>2
<1>9. SyncInv'
  BY <1>1, <1>2, <1>4, <1>5, <1>7, <1>8, <1>10, StepSync
<1> QED
  BY <1>1, <1>2, <1>9, SameHoused DEF TargetInv

\* What the targets do leaves a Config alone, as long as the binding of its own
\* target stays.
LEMMA ElsewhereSync ==
  ASSUME ConfigTypeOK, RequestsInv, SyncInv, UNCHANGED <<pc, event, server, db, raced>>,
         upset \subseteq upset',
         \A k \in Key, x \in Value \cup {Absent} : k \notin upset' /\ Agree(k, x) => Agree(k, x)',
         \A n \in Notifier :
           /\ pc[n] \in Calling /\ event[n].key \notin upset' /\ Valid(TargetOf[event[n].value])
           /\ Lifecycle!Bound(TargetOf[event[n].value], server[n])
           => /\ Valid(TargetOf[event[n].value])'
              /\ Lifecycle!Bound(TargetOf[event[n].value], server[n])'
  PROVE  SyncInv'
<1> SUFFICES ASSUME NEW k \in Key, k \notin upset', k \notin raced
             PROVE  /\ ~Busy(k) => Agree(k, db[k])'
                    /\ \A n \in Notifier : pc[n] # "idle" /\ event[n].key = k => Syncing(n, k)'
  BY DEF SyncInv, Busy
<1>1. k \notin upset
  OBVIOUS
<1>2. ~Busy(k) => Agree(k, db[k])'
  <2>1. PICK x \in Value \cup {Absent} : x = db[k]
    BY DEF ConfigTypeOK
  <2> QED
    BY <1>1, <2>1 DEF SyncInv
<1>3. ASSUME NEW n \in Notifier, pc[n] # "idle", event[n].key = k PROVE Syncing(n, k)'
  <2>1. Syncing(n, k)
    BY <1>1, <1>3 DEF SyncInv
  <2>2. pc[n] \in Calling => Lifecycle!Bound(TargetOf[event[n].value], server[n])
    BY <2>1 DEF Syncing
  <2> QED
    BY <1>3, <2>1, <2>2, SyncingKept
<1> QED
  BY <1>2, <1>3

\* Notifications and clients do not concern the data servers.
LEMMA QuietSync ==
  ASSUME ConfigTypeOK, RequestsInv, TargetInv,
         UNCHANGED <<pc, event, server, targets, intents, db, upset, raced>>
  PROVE  TargetInv'
<1>1. \A k \in Key, x \in Value \cup {Absent} : Agree(k, x) => Agree(k, x)'
  BY AgreeKept DEF targets, Agree, Valid, Lifecycle!Bound
<1>2. SyncInv'
  BY <1>1, ElsewhereSync DEF TargetInv, targets, Valid, Lifecycle!Bound
<1> QED
  BY <1>2, SameHoused DEF TargetInv

\* The steps of the controller that do not take a binding or an intent away
LEMMA ControllerKeeps ==
  ASSUME IInv, ControllerStep
  PROVE  IInv'
<1>1. ConfigTypeOK /\ WatchInv /\ RequestsInv /\ HousedInv /\ SyncInv /\ Lifecycle!TypeOK
  BY DEF IInv, WatchInv, TargetInv, ConfigTypeOK
<1>2. UNCHANGED <<wvars, intents, db, pc, server, ops, faults, upset, raced, gap>>
  BY DEF ControllerStep, bounds, blurred
<1>3. UNCHANGED <<clients, channel, closed, registry, lock, event>>
  BY <1>2 DEF wvars
<1>4. WatchInv'
  BY <1>1, <1>2, ElsewhereWatch
<1>5. Lifecycle!TypeOK' /\ present \subseteq present'
  <2>1. CASE \E t \in Target : Lifecycle!Hold(t) \/ Lifecycle!Leave(t) \/ Lifecycle!Free(t)
    BY <1>1, <2>1 DEF Lifecycle!TypeOK, Lifecycle!Hold, Lifecycle!Leave, Lifecycle!Free
  <2>2. ASSUME NEW t \in Target, NEW d \in DataServer, NEW b \in BOOLEAN,
               targetStore' = [targetStore EXCEPT ![t] = [client |-> d, datastore |-> b]],
               UNCHANGED <<phase, present>>
        PROVE  Lifecycle!TypeOK' /\ present \subseteq present'
    BY <1>1, <2>2 DEF Lifecycle!TypeOK
  <2>3. CASE \E t \in Target, d \in DataServer : Lifecycle!Bind(t, d) \/ Lifecycle!RecordDataStore(t, d)
    BY <2>2, <2>3 DEF Lifecycle!Bind, Lifecycle!RecordDataStore
  <2>4. CASE \E t \in Target, d \in DataServer : Lifecycle!CreateDataStore(t, d)
    BY <1>1, <2>4 DEF Lifecycle!TypeOK, Lifecycle!CreateDataStore
  <2> QED
    BY <2>1, <2>3, <2>4 DEF ControllerStep
<1>6. ConfigTypeOK'
  <2>1. WatchersTypeOK'
    BY <1>1, <1>3 DEF ConfigTypeOK, WatchersTypeOK, clients, registry, lock
  <2> QED
    BY <1>1, <1>2, <1>3, <1>5, <2>1 DEF ConfigTypeOK
<1>7. \A t \in Target : Valid(t) =>
        Valid(t)' /\ \A d : Lifecycle!Bound(t, d)' <=> Lifecycle!Bound(t, d)
  <2>1. CASE \E t \in Target : Lifecycle!Hold(t) \/ Lifecycle!Leave(t) \/ Lifecycle!Free(t)
    BY <2>1 DEF Valid, Lifecycle!Bound, Lifecycle!Hold, Lifecycle!Leave, Lifecycle!Free
  <2>2. ASSUME NEW t \in Target, NEW d \in DataServer, Lifecycle!Bind(t, d)
        PROVE  \A u \in Target : Valid(u) => u # t /\ targetStore'[u] = targetStore[u]
    BY <1>1, <2>2 DEF Valid, Lifecycle!Bind, Lifecycle!TypeOK
  <2>3. CASE \E t \in Target, d \in DataServer : Lifecycle!CreateDataStore(t, d)
    BY <2>3 DEF Valid, Lifecycle!Bound, Lifecycle!CreateDataStore
  <2>4. ASSUME NEW t \in Target, NEW d \in DataServer, Lifecycle!RecordDataStore(t, d)
        PROVE  \A u \in Target : Valid(u) =>
                 Valid(u)' /\ \A e : Lifecycle!Bound(u, e)' <=> Lifecycle!Bound(u, e)
    <3> DEFINE x == [client |-> d, datastore |-> TRUE]
    <3>1. /\ targetStore[t].client = d /\ targetStore[t] # NoCtx
          /\ targetStore' = [targetStore EXCEPT ![t] = x]
      BY <2>4 DEF Lifecycle!RecordDataStore, Lifecycle!Bound
    <3>2. x # NoCtx /\ x.client = d /\ x.datastore
      <4>1. x \in [client : DataServer, datastore : BOOLEAN]
        OBVIOUS
      <4> QED
        BY <4>1, ConfigAssumption
    <3> HIDE DEF x
    <3>3. targetStore'[t] = x /\ \A u \in Target : u # t => targetStore'[u] = targetStore[u]
      BY <1>1, <3>1 DEF Lifecycle!TypeOK
    <3> QED
      BY <3>1, <3>2, <3>3 DEF Valid, Lifecycle!Bound
  <2> QED
    BY <2>1, <2>2, <2>3, <2>4 DEF ControllerStep, Valid, Lifecycle!Bound
<1>8. \A k \in Key, x \in Value \cup {Absent} : Agree(k, x) => Agree(k, x)'
  <2> SUFFICES ASSUME NEW k \in Key, NEW x \in Value \cup {Absent}, Agree(k, x) PROVE Agree(k, x)'
    OBVIOUS
  <2>1. x # Absent => TargetOf[x] \in Target /\ Valid(TargetOf[x])
    BY ConfigAssumption DEF Agree
  <2> QED
    BY <1>2, <1>7, <2>1, AgreeKept
<1>9. \A n \in Notifier : pc[n] \in Calling => TargetOf[event[n].value] \in Target
  BY <1>1, BusyEvent DEF Calling
<1>10. SyncInv'
  BY <1>1, <1>2, <1>3, <1>7, <1>8, <1>9, ElsewhereSync
<1>11. HousedInv'
  BY <1>1, <1>2, <1>5 DEF HousedInv
<1> QED
  BY <1>4, <1>6, <1>10, <1>11 DEF IInv, TargetInv

\* A datastore that is deleted upsets the Configs it held, and no other.
LEMMA DataStoreDeletedKeeps ==
  ASSUME IInv, NEW t \in Target, NEW d \in DataServer, DataStoreDeleted(t, d)
  PROVE  IInv'
<1>1. ConfigTypeOK /\ WatchInv /\ RequestsInv /\ HousedInv /\ SyncInv
  BY DEF IInv, WatchInv, TargetInv
<1>2. /\ UNCHANGED <<phase, targetStore, db, pc, server, ops, faults, raced, gap>>
      /\ UNCHANGED wvars
      /\ present' = present \ {<<d, t>>}
      /\ intents' = [intents EXCEPT ![d][t] = [k \in Key |-> Absent]]
      /\ upset' = upset \cup {k \in Key : intents[d][t][k] # Absent}
  BY DEF DataStoreDeleted, Lifecycle!DeleteDataStore, Upset, bounds
<1>3. UNCHANGED <<clients, channel, closed, registry, lock, event>>
  BY <1>2 DEF wvars
<1>4. intents \in [DataServer -> [Target -> [Key -> Value \cup {Absent}]]]
  BY <1>1 DEF ConfigTypeOK
<1>5. \A e \in DataServer, u \in Target, k \in Key :
        intents'[e][u][k] = IF e = d /\ u = t THEN Absent ELSE intents[e][u][k]
  BY <1>2, <1>4
<1>6. ConfigTypeOK'
  <2>1. WatchersTypeOK'
    BY <1>1, <1>3 DEF ConfigTypeOK, WatchersTypeOK, clients, registry, lock
  <2>2. Lifecycle!TypeOK'
    BY <1>1, <1>2 DEF ConfigTypeOK, Lifecycle!TypeOK
  <2>3. intents' \in [DataServer -> [Target -> [Key -> Value \cup {Absent}]]]
    BY <1>2, <1>4
  <2> QED
    BY <1>1, <1>2, <2>1, <2>2, <2>3 DEF ConfigTypeOK
<1>7. WatchInv'
  BY <1>1, <1>2, ElsewhereWatch
<1>8. HousedInv'
  BY <1>1, <1>2, <1>5 DEF HousedInv
<1>9. \A k \in Key, x \in Value \cup {Absent} : k \notin upset' /\ Agree(k, x) => Agree(k, x)'
  <2> SUFFICES ASSUME NEW k \in Key, NEW x \in Value \cup {Absent}, k \notin upset', Agree(k, x)
               PROVE  Agree(k, x)'
    OBVIOUS
  <2>1. \A e \in DataServer, u \in Target : intents'[e][u][k] = intents[e][u][k]
    BY <1>2, <1>5
  <2> QED
    BY <1>2, <2>1, AgreeKept DEF Agree, Valid, Lifecycle!Bound
<1>10. SyncInv'
  BY <1>1, <1>2, <1>3, <1>9, ElsewhereSync DEF Valid, Lifecycle!Bound
<1> QED
  BY <1>6, <1>7, <1>8, <1>10 DEF IInv, TargetInv

\* A target with a recorded datastore is forgotten when the datastore is gone:
\* no Config that the data servers agree on is left there.
LEMMA TargetForgottenKeeps ==
  ASSUME IInv, NEW t \in Target, NEW d \in DataServer, TargetForgotten(t, d)
  PROVE  IInv'
<1>1. ConfigTypeOK /\ WatchInv /\ RequestsInv /\ HousedInv /\ SyncInv
  BY DEF IInv, WatchInv, TargetInv
<1>2. /\ UNCHANGED <<phase, present, intents, db, pc, server, ops, faults, raced, gap>>
      /\ UNCHANGED wvars
      /\ Lifecycle!Bound(t, d) /\ (targetStore[t].datastore => <<d, t>> \notin present)
      /\ targetStore' = [targetStore EXCEPT ![t] = NoCtx]
      /\ upset' = upset \cup
           {event[n].key : n \in {n \in Notifier : pc[n] # "idle" /\ TargetOf[event[n].value] = t}}
  BY DEF TargetForgotten, Lifecycle!Unbind, Upset, bounds
<1>3. UNCHANGED <<clients, channel, closed, registry, lock, event>>
  BY <1>2 DEF wvars
<1>4. targetStore \in [Target -> [client : DataServer, datastore : BOOLEAN] \cup {NoCtx}]
  BY <1>1 DEF ConfigTypeOK, Lifecycle!TypeOK
<1>5. \A u \in Target : u # t => targetStore'[u] = targetStore[u]
  BY <1>2, <1>4
<1>6. ConfigTypeOK'
  <2>1. WatchersTypeOK'
    BY <1>1, <1>3 DEF ConfigTypeOK, WatchersTypeOK, clients, registry, lock
  <2>2. Lifecycle!TypeOK'
    BY <1>1, <1>2, <1>4 DEF ConfigTypeOK, Lifecycle!TypeOK
  <2>3. upset' \subseteq Key
    <3>1. \A n \in Notifier : pc[n] # "idle" => event[n].key \in Key
      BY <1>1, BusyEvent
    <3> QED
      BY <1>1, <1>2, <3>1 DEF ConfigTypeOK
  <2> QED
    BY <1>1, <1>2, <2>1, <2>2, <2>3 DEF ConfigTypeOK
<1>7. WatchInv'
  BY <1>1, <1>2, ElsewhereWatch
<1>8. HousedInv'
  BY <1>1, <1>2 DEF HousedInv
<1>9. \A k \in Key, x \in Value \cup {Absent} : Agree(k, x) => Agree(k, x)'
  <2> SUFFICES ASSUME NEW k \in Key, NEW x \in Value \cup {Absent}, Agree(k, x)
               PROVE  Agree(k, x)'
    OBVIOUS
  <2>1. x # Absent => TargetOf[x] \in Target /\ Valid(TargetOf[x])
    BY ConfigAssumption DEF Agree
  <2>2. x # Absent => TargetOf[x] # t
    <3> SUFFICES ASSUME x # Absent, TargetOf[x] = t PROVE FALSE
      OBVIOUS
    <3>1. <<d, t>> \notin present
      BY <1>2, <2>1 DEF Valid
    <3>2. intents[d][t][k] = x
      BY <1>2 DEF Agree, Intended
    <3> QED
      BY <1>1, <3>1, <3>2 DEF HousedInv
  <2> QED
    BY <1>2, <1>5, <2>1, <2>2, AgreeKept DEF Valid, Lifecycle!Bound
<1>10. \A n \in Notifier : pc[n] \in Calling /\ event[n].key \notin upset' =>
         TargetOf[event[n].value] \in Target /\ TargetOf[event[n].value] # t
  BY <1>1, <1>2, BusyEvent DEF Calling
<1>11. SyncInv'
  <2>1. ASSUME NEW n \in Notifier, pc[n] \in Calling, event[n].key \notin upset'
        PROVE  UNCHANGED targetStore[TargetOf[event[n].value]]
    <3>1. TargetOf[event'[n].value] = TargetOf[event[n].value]
      BY <1>3
    <3> QED
      BY <1>5, <1>10, <2>1, <3>1
  <2> QED
    BY <1>1, <1>2, <1>3, <1>9, <2>1, ElsewhereSync DEF Valid, Lifecycle!Bound
<1> QED
  BY <1>6, <1>7, <1>8, <1>11 DEF IInv, TargetInv

\* After a restart the store is empty, and whatever the data servers hold of a
\* Config upsets it.
LEMMA RestartSync ==
  ASSUME IInv, Restart
  PROVE  IInv'
<1>1. ConfigTypeOK /\ HousedInv
  BY DEF IInv, TargetInv
<1>2. ConfigTypeOK' /\ WatchInv'
  BY <1>1, RestartKeeps
<1>3. /\ UNCHANGED <<present, intents>> /\ targetStore' = [t \in Target |-> NoCtx]
      /\ db' = [k \in Key |-> Absent] /\ \A n \in Notifier : pc'[n] = "idle"
      /\ upset' = upset \cup
           {k \in Key : \E d \in DataServer, t \in Target : intents[d][t][k] # Absent}
  BY DEF Restart, Lifecycle!Restart, Upset
<1>4. HousedInv'
  BY <1>1, <1>3 DEF HousedInv
<1>5. SyncInv'
  <2> SUFFICES ASSUME NEW k \in Key, k \notin upset' PROVE Agree(k, db[k])'
    BY <1>3 DEF SyncInv
  <2>1. \A d \in DataServer, t \in Target : intents'[d][t][k] = Absent
    BY <1>3
  <2>2. db'[k] = Absent
    BY <1>3
  <2> QED
    BY <2>1, <2>2 DEF Agree, Intended
<1> QED
  BY <1>2, <1>4, <1>5 DEF IInv, TargetInv

-----------------------------------------------------------------------------
(* The theorems *)

\* Everything starts empty.
LEMMA ConfigInit == Init => IInv
<1> SUFFICES ASSUME Init PROVE IInv
  OBVIOUS
<1>1. ConfigTypeOK
  BY ConfigTypeInit
<1>2. WatchInv
  <2>1. RegistryInv /\ FreshInv
    BY RegistryInit, FreshInit DEF Init
  <2>2. RequestsInv /\ AloneInv
    BY DEF Init, WatchersInit, RequestsInv, AloneInv
  <2>3. KnowledgeInv
    BY DEF Init, WatchersInit, KnowledgeInv, Settled, Expects
  <2> QED
    BY <2>1, <2>2, <2>3 DEF WatchInv
<1>3. TargetInv
  BY DEF Init, TargetInv, HousedInv, SyncInv, Agree, Intended
<1> QED
  BY <1>1, <1>2, <1>3 DEF IInv

\* The inductive invariant holds of every behaviour of the storage.
THEOREM ConfigInvariant == Spec => []IInv
<1>1. IInv /\ [Next]_vars => IInv'
  <2> SUFFICES ASSUME IInv, [Next]_vars PROVE IInv'
    OBVIOUS
  <2>0. ConfigTypeOK /\ WatchInv /\ TargetInv /\ RequestsInv
    BY DEF IInv, WatchInv
  <2>1. ASSUME NEW n \in Notifier, NEW k \in Key, Delete(n, k) PROVE IInv'
    <3>1. PICK v : v = db[k]
      OBVIOUS
    <3>2. v \in Value
      BY <2>0, <2>1, <3>1 DEF Delete, ConfigTypeOK
    <3> QED
      BY <2>1, <3>1, <3>2, StartKeeps
  <2>2. ASSUME NEW n \in Notifier, NEW k \in Key, NEW v \in Value,
               Create(n, k, v) \/ Update(n, k, v) \/ Apply(n, k, v)
        PROVE  IInv'
    BY <2>2, StartKeeps
  <2>3. ASSUME NEW n \in Notifier, Local(n) PROVE IInv'
    BY <2>3, LocalKeeps
  <2>4. ASSUME NEW n \in Notifier, NotifyWatchers(n) PROVE IInv'
    BY <2>0, <2>4, NotifyWatchersKeeps, NotifySync DEF IInv
  <2>5. ASSUME NEW n \in Notifier, Notified(n) PROVE IInv'
    BY <2>0, <2>5, NotifiedKeeps, NotifySync DEF IInv
  <2>6. ASSUME NEW n \in Notifier, SendEvent(n) PROVE IInv'
    <3>1. ConfigTypeOK' /\ WatchInv'
      BY <2>0, <2>6, SendEventKeeps
    <3>2. TargetInv'
      BY <2>0, <2>6, QuietSync DEF SendEvent, Send, blurred
    <3> QED
      BY <3>1, <3>2 DEF IInv
  <2>7. ASSUME NEW c \in Client, WatchList(c) PROVE IInv'
    <3>1. ConfigTypeOK' /\ WatchInv'
      BY <2>0, <2>7, WatchListKeeps
    <3>2. TargetInv'
      BY <2>0, <2>7, QuietSync DEF WatchList, List
    <3> QED
      BY <3>1, <3>2 DEF IInv
  <2>8. ASSUME NEW c \in Client, Watching(c) PROVE IInv'
    <3>1. ConfigTypeOK' /\ WatchInv'
      BY <2>0, <2>8, WatchingKeeps
    <3>2. UNCHANGED <<pc, event, server, targets, intents, db, upset, raced>>
      BY <2>8 DEF Watching, StartWatch, Push, Add, Receive, Stop, Del, Unregister, blurred
    <3>3. TargetInv'
      BY <2>0, <3>2, QuietSync
    <3> QED
      BY <3>1, <3>3 DEF IInv
  <2>9. CASE UNCHANGED vars
    <3>1. UNCHANGED <<wvars, targets, intents, db, pc, server, ops, faults, upset, raced, gap>>
      BY <2>9 DEF vars, bounds, blurred
    <3>2. UNCHANGED <<clients, channel, closed, registry, lock, event>>
      BY <3>1 DEF wvars
    <3>3. ConfigTypeOK'
      BY <2>0, <3>1, <3>2 DEF ConfigTypeOK, WatchersTypeOK, Lifecycle!TypeOK, clients, registry,
         lock, targets
    <3>4. WatchInv'
      BY <2>0, <3>1, ElsewhereWatch
    <3>5. TargetInv'
      BY <2>0, <3>1, <3>2, QuietSync
    <3> QED
      BY <3>3, <3>4, <3>5 DEF IInv
  <2> QED
    BY <2>1, <2>2, <2>3, <2>4, <2>5, <2>6, <2>7, <2>8, <2>9, ControllerKeeps,
       DataStoreDeletedKeeps, TargetForgottenKeeps, RestartSync DEF Next, Request, Local
<1> QED
  BY ConfigInit, <1>1, PTL DEF Spec

\* Every variable of the storage, and of the targets it sees, keeps its type; a
\* request that calls a data server has one.
THEOREM ConfigTypes == Spec => []ConfigTypeOK
<1>1. IInv => ConfigTypeOK
  BY DEF IInv
<1> QED
  BY <1>1, ConfigInvariant, PTL

\* The data servers hold exactly the intents of the store, where its targets are
\* bound and nowhere else, of every Config that met none of the events listed at
\* InSync; for any number of names, requests, targets, data servers and faults.
THEOREM IntentsInSync == Spec => []InSync
<1>1. IInv => InSync
  <2> SUFFICES ASSUME IInv, NEW k \in Key, k \notin upset, k \notin raced, ~Busy(k),
                      NEW d \in DataServer, NEW t \in Target
               PROVE  intents[d][t][k] = Wanted(t, d, k)
    BY DEF InSync
  <2>1. Agree(k, db[k])
    BY DEF IInv, TargetInv, SyncInv
  <2> QED
    BY <2>1 DEF Agree, Intended, Wanted
<1> QED
  BY <1>1, ConfigInvariant, PTL

\* A watcher of Configs that has received what it was sent has the store's value
\* of every name that was never raced and that no request changed in its gap.
THEOREM ViewsAgree == Spec => []ViewsConverge
<1>1. IInv => ViewsConverge
  <2> SUFFICES ASSUME IInv, NEW c \in Client, NEW k \in Key, Informed(c, k),
                      <<c, k>> \notin gap, k \notin raced, ~Busy(k)
               PROVE  view[c][k] = db[k]
    BY DEF ViewsConverge
  <2>1. Expects(c, k, db[k])
    BY DEF IInv, WatchInv, KnowledgeInv, Settled
  <2> QED
    BY <2>1, InformedKnows
<1> QED
  BY <1>1, ConfigInvariant, PTL
=============================================================================
