--------------------------- MODULE WatchersProofs ---------------------------
(***************************************************************************)
(* Proofs about Watchers, for whatever store is behind it: what its steps  *)
(* do to the registry, and what they do to what a client will know.  The   *)
(* proofs about MemStore, ConfigREST, FileStore and FilepathREST rest on   *)
(* these lemmas.                                                           *)
(***************************************************************************)
EXTENDS Watchers, SequenceTheorems, TLAPS

-----------------------------------------------------------------------------
(* Types *)

ChannelsTypeOK ==
  /\ items \in [Client -> SUBSET Event]
  /\ channel \in [Client -> Seq(Event)]
  /\ view \in [Client -> [Key -> Value \cup {Absent}]]

\* The variables start with their types.
LEMMA WatchersTypeInit == WatchersInit => WatchersTypeOK
<1> SUFFICES ASSUME WatchersInit PROVE WatchersTypeOK
  OBVIOUS
<1>1. availableIDs \in Seq(ID)
  BY WatchersAssumption DEF WatchersInit, ID
<1>2. /\ channel \in [Client -> Seq(Event)]
      /\ \A c \in Client : Len(channel[c]) <= Capacity
  BY WatchersAssumption DEF WatchersInit
<1>3. 0 \in ID
  BY WatchersAssumption DEF ID
<1> QED
  BY <1>1, <1>2, <1>3 DEF WatchersInit, WatchersTypeOK, Stage

\* A channel with room for an event stays a channel with it.
LEMMA AppendType ==
  ASSUME WatchersTypeOK, NEW c \in Client, NEW e \in Event, Len(channel[c]) < Capacity
  PROVE  /\ Append(channel[c], e) \in Seq(Event)
         /\ Len(Append(channel[c], e)) <= Capacity
<1>1. channel[c] \in Seq(Event) /\ Len(channel[c]) \in Nat /\ Capacity \in Nat
  BY WatchersAssumption, LenProperties DEF WatchersTypeOK
<1> QED
  BY <1>1

\* A channel that is not empty has an event and stays a channel without it.
LEMMA TailType ==
  ASSUME WatchersTypeOK, NEW c \in Client, channel[c] # <<>>
  PROVE  /\ Head(channel[c]) \in Event
         /\ Tail(channel[c]) \in Seq(Event)
         /\ Len(Tail(channel[c])) <= Capacity
<1>1. /\ channel[c] \in Seq(Event) /\ Len(channel[c]) \in Nat /\ Capacity \in Nat
      /\ Len(channel[c]) <= Capacity
  BY WatchersAssumption, LenProperties DEF WatchersTypeOK
<1> QED
  BY <1>1, HeadTailProperties

\* The steps of a client and of Watch keep the types.
LEMMA WatchingType ==
  ASSUME WatchersTypeOK, NEW c \in Client,
         StartWatch(c) \/ Push(c) \/ Add(c) \/ Receive(c) \/ Stop(c) \/ Del(c)
  PROVE  WatchersTypeOK'
<1> USE DEF clients, registry, lock, Enter, Stage
<1>1. CASE StartWatch(c)
  BY <1>1 DEF StartWatch, WatchersTypeOK
<1>2. CASE Push(c)
  <2>1. PICK e \in items[c] :
          /\ items' = [items EXCEPT ![c] = @ \ {e}]
          /\ channel' = [channel EXCEPT ![c] = Append(@, e)]
    BY <1>2 DEF Push
  <2>2. e \in Event
    BY DEF WatchersTypeOK
  <2>3. channel' \in [Client -> Seq(Event)] /\ \A d \in Client : Len(channel'[d]) <= Capacity
    BY <1>2, <2>1, <2>2, AppendType DEF Push, WatchersTypeOK
  <2> QED
    BY <1>2, <2>1, <2>3 DEF Push, WatchersTypeOK
<1>3. CASE Add(c)
  <2>1. CASE availableIDs # <<>> /\ AllocateID(c) /\ Enter(c, "watching")
    <3>1. Head(availableIDs) \in ID /\ Tail(availableIDs) \in Seq(ID)
      BY <2>1, HeadTailProperties DEF WatchersTypeOK
    <3> QED
      BY <1>3, <2>1, <3>1 DEF Add, AllocateID, WatchersTypeOK
  <2>2. CASE UNCHANGED registry /\ Enter(c, "failed")
    BY <1>3, <2>2 DEF Add, WatchersTypeOK
  <2> QED
    BY <1>3, <2>1, <2>2 DEF Add
<1>4. CASE Receive(c)
  <2> DEFINE e == Head(channel[c])
  <2>1. e \in Event /\ Tail(channel[c]) \in Seq(Event) /\ Len(Tail(channel[c])) <= Capacity
    BY <1>4, TailType DEF Receive
  <2>2. view' \in [Client -> [Key -> Value \cup {Absent}]]
    <3>1. e.key \in Key /\ e.value \in Value
      BY <2>1 DEF Event
    <3> QED
      BY <1>4, <3>1 DEF Receive, Learn, WatchersTypeOK
  <2>3. channel' \in [Client -> Seq(Event)] /\ \A d \in Client : Len(channel'[d]) <= Capacity
    BY <1>4, <2>1 DEF Receive, WatchersTypeOK
  <2> QED
    BY <1>4, <2>2, <2>3 DEF Receive, WatchersTypeOK
<1>5. CASE Stop(c)
  BY <1>5 DEF Stop, WatchersTypeOK
<1>6. CASE Del(c)
  <2>1. id[c] \in ID /\ Append(availableIDs, id[c]) \in Seq(ID)
    BY DEF WatchersTypeOK
  <2>2. channel' \in [Client -> Seq(Event)] /\ \A d \in Client : Len(channel'[d]) <= Capacity
    BY <1>6, WatchersAssumption DEF Del, Unregister, WatchersTypeOK
  <2> QED
    BY <1>6, <2>1, <2>2 DEF Del, Unregister, ReleaseID, WatchersTypeOK
<1> QED
  BY <1>1, <1>2, <1>3, <1>4, <1>5, <1>6

\* A list is of events.
LEMMA ListType ==
  ASSUME WatchersTypeOK, NEW c \in Client, NEW db \in [Key -> Value \cup {Absent}],
         List(c, db)
  PROVE  WatchersTypeOK'
<1>1. \A k \in {k \in Key : db[k] # Absent} :
        [type |-> "Added", key |-> k, value |-> db[k]] \in Event
  BY DEF Event
<1>2. items' \in [Client -> SUBSET Event]
  BY <1>1 DEF List, WatchersTypeOK
<1> QED
  BY <1>2 DEF List, WatchersTypeOK, clients, registry, lock, Enter, Stage

\* A notifier starts with the ids in use.
LEMMA NotifyType ==
  ASSUME WatchersTypeOK, NEW n \in Notifier, Notify(n)
  PROVE  WatchersTypeOK'
BY DEF Notify, WatchersTypeOK, clients, registry, lock, Registered

\* A notifier that is done has an event, or none.
LEMMA EndNotifyType ==
  ASSUME WatchersTypeOK, NEW n \in Notifier, EndNotify(n),
         event' \in [Notifier -> Event \cup {NoEvent}]
  PROVE  WatchersTypeOK'
BY DEF EndNotify, WatchersTypeOK, clients, registry, lock

-----------------------------------------------------------------------------
(* The registry *)

\* What keeps the registry together.  A channel is closed when its client has
\* left the registry for good, and a notifier under the read lock has an event
\* and only ids that are in use.
RegistryInv ==
  /\ IDsPartitioned
  /\ \A c \in closed : stage[c] \in {"stopped", "failed"}
  /\ \A n \in notifying : event[n] \in Event /\ toNotify[n] \subseteq Registered

\* In a registry that nobody has entered everything agrees: the queue a new
\* allocator starts with holds every id once.
LEMMA EmptyRegistry ==
  ASSUME availableIDs = [i \in 1..(MaxID + 1) |-> i - 1], allocatedIDs = {},
         watchers = [i \in ID |-> NoClient],
         \A c \in Client : stage[c] \notin {"watching", "stopping"}
  PROVE  IDsPartitioned
<1>1. MaxID \in Nat
  BY WatchersAssumption
<1>2. DOMAIN availableIDs = 1..(MaxID + 1) /\ \A j \in 1..(MaxID + 1) : availableIDs[j] = j - 1
  OBVIOUS
<1>3. \A i \in ID : i + 1 \in DOMAIN availableIDs /\ availableIDs[i + 1] = i
  BY <1>1, <1>2 DEF ID
<1>4. /\ \A i, j \in DOMAIN availableIDs : i # j => availableIDs[i] # availableIDs[j]
      /\ \A i \in ID : ~ \A j \in DOMAIN availableIDs : availableIDs[j] # i
  BY <1>1, <1>2, <1>3
<1> QED
  BY <1>4 DEF IDsPartitioned

\* The registry starts empty.
LEMMA RegistryInit == WatchersInit => RegistryInv
<1> SUFFICES ASSUME WatchersInit PROVE RegistryInv
  OBVIOUS
<1>1. IDsPartitioned
  BY EmptyRegistry DEF WatchersInit
<1> QED
  BY <1>1 DEF WatchersInit, RegistryInv

\* A notifier never sends to a channel that is closed.
LEMMA RegistrySends == WatchersTypeOK /\ RegistryInv => NeverSendsOnClosed
<1> SUFFICES ASSUME WatchersTypeOK, RegistryInv, NEW n \in notifying, NEW i \in toNotify[n]
             PROVE  watchers[i] # NoClient /\ watchers[i] \notin closed
  BY DEF NeverSendsOnClosed
<1>1. i \in ID /\ watchers[i] # NoClient
  BY DEF RegistryInv, Registered
<1>2. stage[watchers[i]] \in {"watching", "stopping"}
  BY <1>1 DEF RegistryInv, IDsPartitioned
<1> QED
  BY <1>1, <1>2 DEF RegistryInv

\* A client that enters takes the id at the head of the queue from it.
LEMMA AllocateRegistry ==
  ASSUME WatchersTypeOK, IDsPartitioned, NEW c \in Client,
         stage[c] \notin {"watching", "stopping"},
         availableIDs # <<>>, AllocateID(c), Enter(c, "watching")
  PROVE  IDsPartitioned'
<1> DEFINE h == Head(availableIDs)
           t == Tail(availableIDs)
<1>1. availableIDs \in Seq(ID) /\ Len(availableIDs) \in Nat \ {0}
  BY EmptySeq DEF WatchersTypeOK
<1>2. /\ h \in ID /\ h = availableIDs[1]
      /\ t \in Seq(ID) /\ Len(t) = Len(availableIDs) - 1
      /\ \A j \in 1..Len(t) : t[j] = availableIDs[j + 1]
  BY <1>1, HeadTailProperties
<1>3. DOMAIN availableIDs = 1..Len(availableIDs) /\ DOMAIN t = 1..Len(t)
  BY <1>1, <1>2, LenProperties
<1>4. /\ availableIDs' = t /\ allocatedIDs' = allocatedIDs \cup {h}
      /\ watchers' = [watchers EXCEPT ![h] = c] /\ id' = [id EXCEPT ![c] = h]
      /\ stage' = [stage EXCEPT ![c] = "watching"]
  BY DEF AllocateID, Enter
<1> HIDE DEF h, t
<1>5. \A i, j \in DOMAIN t : i # j => t[i] # t[j]
  <2> SUFFICES ASSUME NEW i \in DOMAIN t, NEW j \in DOMAIN t, i # j PROVE t[i] # t[j]
    OBVIOUS
  <2>1. /\ i \in Nat /\ j \in Nat /\ i + 1 # j + 1
        /\ i + 1 \in DOMAIN availableIDs /\ j + 1 \in DOMAIN availableIDs
        /\ t[i] = availableIDs[i + 1] /\ t[j] = availableIDs[j + 1]
    BY <1>1, <1>2, <1>3
  <2> QED
    BY <2>1 DEF IDsPartitioned
<1>6. \A j \in DOMAIN t : t[j] # h
  BY <1>1, <1>2, <1>3 DEF IDsPartitioned
<1>7. \A i \in ID : i # h => ((\A j \in DOMAIN t : t[j] # i) <=> (\A j \in DOMAIN availableIDs : availableIDs[j] # i))
  <2> SUFFICES ASSUME NEW i \in ID, i # h
               PROVE  (\A j \in DOMAIN t : t[j] # i) <=> (\A j \in DOMAIN availableIDs : availableIDs[j] # i)
    OBVIOUS
  <2>1. ASSUME \A j \in DOMAIN t : t[j] # i, NEW j \in DOMAIN availableIDs
        PROVE  availableIDs[j] # i
    <3>1. CASE j = 1
      BY <3>1, <1>2
    <3>2. CASE j # 1
      <4>1. j - 1 \in DOMAIN t /\ t[j - 1] = availableIDs[j]
        BY <3>2, <1>1, <1>2, <1>3
      <4> QED
        BY <4>1, <2>1
    <3> QED
      BY <3>1, <3>2
  <2>2. ASSUME \A j \in DOMAIN availableIDs : availableIDs[j] # i, NEW j \in DOMAIN t
        PROVE  t[j] # i
    BY <2>2, <1>1, <1>2, <1>3
  <2> QED
    BY <2>1, <2>2
<1>8. h \notin allocatedIDs /\ watchers[h] = NoClient
  BY <1>1, <1>2, <1>3 DEF IDsPartitioned
<1>9. /\ watchers \in [ID -> Client \cup {NoClient}] /\ id \in [Client -> ID]
      /\ stage \in [Client -> Stage] /\ c # NoClient
  BY WatchersAssumption DEF WatchersTypeOK
<1>10. \A i \in ID : i \in allocatedIDs' <=> \A j \in DOMAIN availableIDs' : availableIDs'[j] # i
  BY <1>4, <1>6, <1>7, <1>2 DEF IDsPartitioned
<1>11. \A i \in ID : i \in allocatedIDs' <=> watchers'[i] # NoClient
  BY <1>4, <1>9, <1>2 DEF IDsPartitioned
<1>12. \A i \in ID : watchers'[i] # NoClient =>
         id'[watchers'[i]] = i /\ stage'[watchers'[i]] \in {"watching", "stopping"}
  BY <1>4, <1>9, <1>2 DEF IDsPartitioned
<1>13. \A d \in Client : stage'[d] \in {"watching", "stopping"} => watchers'[id'[d]] = d
  <2> SUFFICES ASSUME NEW d \in Client, d # c, stage[d] \in {"watching", "stopping"}
               PROVE  watchers'[id'[d]] = d
    BY <1>4, <1>9, <1>2
  <2>1. watchers[id[d]] = d /\ d # NoClient /\ id[d] \in ID
    BY <1>9, WatchersAssumption DEF IDsPartitioned
  <2> QED
    BY <2>1, <1>4, <1>8, <1>9
<1> QED
  BY <1>4, <1>5, <1>10, <1>11, <1>12, <1>13 DEF IDsPartitioned

\* A client that leaves gives its id back to the end of the queue.
LEMMA UnregisterRegistry ==
  ASSUME WatchersTypeOK, IDsPartitioned, NEW c \in Client, Unregister(c)
  PROVE  IDsPartitioned'
<1> DEFINE h == id[c]
           s == Append(availableIDs, h)
<1>1. /\ availableIDs \in Seq(ID) /\ Len(availableIDs) \in Nat /\ h \in ID
      /\ watchers \in [ID -> Client \cup {NoClient}] /\ id \in [Client -> ID]
      /\ stage \in [Client -> Stage] /\ c # NoClient
  BY WatchersAssumption, LenProperties DEF WatchersTypeOK
<1>2. watchers[h] = c /\ h \in allocatedIDs
  BY <1>1 DEF IDsPartitioned, Unregister
<1>3. /\ availableIDs' = s /\ allocatedIDs' = allocatedIDs \ {h}
      /\ watchers' = [watchers EXCEPT ![h] = NoClient] /\ id' = id
      /\ stage' = [stage EXCEPT ![c] = "stopped"]
  BY <1>2 DEF Unregister, ReleaseID, Enter
<1>4. /\ s \in Seq(ID) /\ Len(s) = Len(availableIDs) + 1 /\ s[Len(s)] = h
      /\ \A i \in 1..Len(availableIDs) : s[i] = availableIDs[i]
  BY <1>1, AppendProperties
<1>5. DOMAIN availableIDs = 1..Len(availableIDs) /\ DOMAIN s = 1..Len(s)
  BY <1>1, <1>4, LenProperties
<1> HIDE DEF s, h
<1>6. \A j \in DOMAIN availableIDs : availableIDs[j] # h
  BY <1>1, <1>2 DEF IDsPartitioned
<1>7. \A i, j \in DOMAIN s : i # j => s[i] # s[j]
  <2>1. \A i \in DOMAIN s : i \in DOMAIN availableIDs \/ i = Len(s)
    BY <1>1, <1>4, <1>5
  <2> QED
    BY <2>1, <1>1, <1>4, <1>5, <1>6 DEF IDsPartitioned
<1>8. \A i \in ID : i # h => ((\A j \in DOMAIN s : s[j] # i) <=> (\A j \in DOMAIN availableIDs : availableIDs[j] # i))
  <2>1. \A i \in DOMAIN s : i \in DOMAIN availableIDs \/ i = Len(s)
    BY <1>1, <1>4, <1>5
  <2>2. DOMAIN availableIDs \subseteq DOMAIN s
    BY <1>1, <1>4, <1>5
  <2> QED
    BY <2>1, <2>2, <1>4, <1>5
<1>9. Len(s) \in DOMAIN s
  BY <1>1, <1>4, <1>5
<1>10. \A i \in ID : i \in allocatedIDs' <=> \A j \in DOMAIN availableIDs' : availableIDs'[j] # i
  BY <1>3, <1>4, <1>8, <1>9 DEF IDsPartitioned
<1>11. \A i \in ID : i \in allocatedIDs' <=> watchers'[i] # NoClient
  BY <1>1, <1>3 DEF IDsPartitioned
<1>12. \A i \in ID : watchers'[i] # NoClient =>
         id'[watchers'[i]] = i /\ stage'[watchers'[i]] \in {"watching", "stopping"}
  BY <1>1, <1>2, <1>3 DEF IDsPartitioned
<1>13. \A d \in Client : stage'[d] \in {"watching", "stopping"} => watchers'[id'[d]] = d
  <2> SUFFICES ASSUME NEW d \in Client, d # c, stage[d] \in {"watching", "stopping"}
               PROVE  watchers'[id'[d]] = d
    BY <1>1, <1>3
  <2>1. watchers[id[d]] = d /\ id[d] \in ID
    BY <1>1 DEF IDsPartitioned
  <2> QED
    BY <2>1, <1>1, <1>2, <1>3
<1> QED
  BY <1>3, <1>7, <1>10, <1>11, <1>12, <1>13 DEF IDsPartitioned

\* Steps that leave ids and registry alone and do not take a client in or out
LEMMA StageRegistry ==
  ASSUME WatchersTypeOK, IDsPartitioned, NEW c \in Client, NEW s,
         Enter(c, s), UNCHANGED registry,
         stage[c] \in {"watching", "stopping"} <=> s \in {"watching", "stopping"}
  PROVE  IDsPartitioned'
<1>1. /\ watchers \in [ID -> Client \cup {NoClient}] /\ id \in [Client -> ID]
      /\ stage \in [Client -> Stage]
  BY DEF WatchersTypeOK
<1>2. \A d \in Client : stage'[d] \in {"watching", "stopping"} <=> stage[d] \in {"watching", "stopping"}
  BY <1>1 DEF Enter
<1> QED
  BY <1>1, <1>2 DEF IDsPartitioned, registry

\* What clients do keeps the registry together, ...
LEMMA WatchingRegistry ==
  ASSUME WatchersTypeOK, RegistryInv, NEW c \in Client,
         StartWatch(c) \/ Push(c) \/ Add(c) \/ Receive(c) \/ Stop(c) \/ Del(c)
  PROVE  RegistryInv'
<1> USE DEF clients, registry, lock
<1>0. IDsPartitioned /\ closed \subseteq Client /\ notifying \subseteq Notifier
  BY DEF RegistryInv, WatchersTypeOK
<1>1. IDsPartitioned'
  <2>1. CASE StartWatch(c)
    BY <2>1, <1>0, StageRegistry DEF StartWatch
  <2>2. CASE Push(c) \/ Receive(c)
    BY <2>2, <1>0 DEF Push, Receive, IDsPartitioned
  <2>3. CASE Add(c)
    BY <2>3, <1>0, StageRegistry, AllocateRegistry DEF Add
  <2>4. CASE Stop(c)
    BY <2>4, <1>0, StageRegistry DEF Stop
  <2>5. CASE Del(c)
    BY <2>5, <1>0, UnregisterRegistry DEF Del
  <2> QED
    BY <2>1, <2>2, <2>3, <2>4, <2>5
<1>2. \A d \in closed' : stage'[d] \in {"stopped", "failed"}
  <2>1. stage \in [Client -> Stage] /\ \A d \in closed : stage[d] \in {"stopped", "failed"}
    BY DEF WatchersTypeOK, RegistryInv
  <2>2. CASE Del(c)
    BY <2>1, <2>2, <1>0 DEF Del, Unregister, Enter
  <2>3. CASE ~Del(c)
    BY <2>1, <2>3, <1>0 DEF StartWatch, Push, Add, Receive, Stop, Enter
  <2> QED
    BY <2>2, <2>3
<1>3. \A n \in notifying' : event'[n] \in Event /\ toNotify'[n] \subseteq Registered'
  <2>1. notifying' = notifying /\ toNotify' = toNotify /\ event' = event
    BY DEF StartWatch, Push, Add, Receive, Stop, Del, Unregister
  <2>2. notifying = {} \/ Registered' = Registered
    BY DEF StartWatch, Push, Add, Receive, Stop, Del, Unregister, Registered
  <2> QED
    BY <2>1, <2>2 DEF RegistryInv
<1> QED
  BY <1>1, <1>2, <1>3 DEF RegistryInv

\* Listing the store, taking the lock and giving it back leave it alone.
LEMMA LockRegistry ==
  ASSUME WatchersTypeOK, RegistryInv, NEW n \in Notifier,
         \/ Notify(n) /\ event[n] \in Event
         \/ EndNotify(n) /\ \A m \in notifying : m # n => event'[m] = event[m]
  PROVE  RegistryInv'
<1>1. IDsPartitioned' /\ closed' = closed /\ stage' = stage /\ Registered' = Registered
  BY DEF RegistryInv, Notify, EndNotify, IDsPartitioned, Registered, clients, registry
<1>2. CASE Notify(n) /\ event[n] \in Event
  BY <1>1, <1>2 DEF RegistryInv, Notify, WatchersTypeOK
<1>3. CASE EndNotify(n) /\ \A m \in notifying : m # n => event'[m] = event[m]
  BY <1>1, <1>3 DEF RegistryInv, EndNotify
<1> QED
  BY <1>2, <1>3

\* ... and so does listing, whatever is listed.
LEMMA ListRegistry ==
  ASSUME WatchersTypeOK, RegistryInv, NEW c \in Client, NEW db, List(c, db)
  PROVE  RegistryInv'
<1>1. IDsPartitioned'
  BY StageRegistry DEF List, RegistryInv
<1>2. \A d \in closed' : stage'[d] \in {"stopped", "failed"}
  BY DEF List, RegistryInv, WatchersTypeOK, Enter
<1>3. \A n \in notifying' : event'[n] \in Event /\ toNotify'[n] \subseteq Registered'
  BY DEF List, RegistryInv, registry, lock, Registered
<1> QED
  BY <1>1, <1>2, <1>3 DEF RegistryInv

\* What Send does: one id less to send to, and one client has the event.
LEMMA SendTo ==
  ASSUME WatchersTypeOK, RegistryInv, NEW n \in Notifier, Send(n)
  PROVE  \E i \in toNotify[n] :
           /\ i \in ID /\ watchers[i] \in Client
           /\ stage[watchers[i]] \in {"watching", "stopping"} /\ id[watchers[i]] = i
           /\ event[n] \in Event
           /\ Len(channel[watchers[i]]) < Capacity
           /\ channel' = [channel EXCEPT ![watchers[i]] = Append(@, event[n])]
           /\ toNotify' = [toNotify EXCEPT ![n] = @ \ {i}]
<1>1. n \in notifying /\ event[n] \in Event /\ toNotify[n] \subseteq Registered
  BY DEF Send, RegistryInv
<1>2. \A i \in toNotify[n] :
        /\ i \in ID /\ watchers[i] \in Client
        /\ stage[watchers[i]] \in {"watching", "stopping"} /\ id[watchers[i]] = i
  BY <1>1 DEF Registered, RegistryInv, IDsPartitioned, WatchersTypeOK
<1> QED
  BY <1>1, <1>2 DEF Send

\* A notifier sends to a client that is registered, once.
LEMMA SendType ==
  ASSUME WatchersTypeOK, RegistryInv, NEW n \in Notifier, Send(n)
  PROVE  WatchersTypeOK' /\ RegistryInv'
<1>1. PICK i \in toNotify[n] :
        /\ i \in ID /\ watchers[i] \in Client /\ event[n] \in Event
        /\ Len(channel[watchers[i]]) < Capacity
        /\ channel' = [channel EXCEPT ![watchers[i]] = Append(@, event[n])]
        /\ toNotify' = [toNotify EXCEPT ![n] = @ \ {i}]
  BY SendTo
<1>2. channel' \in [Client -> Seq(Event)] /\ \A d \in Client : Len(channel'[d]) <= Capacity
  BY <1>1, AppendType DEF WatchersTypeOK
<1>3. UNCHANGED <<clients, closed, registry, notifying, event>>
  BY DEF Send
<1>4. WatchersTypeOK'
  BY <1>1, <1>2, <1>3 DEF WatchersTypeOK, clients, registry
<1>5. RegistryInv'
  BY <1>1, <1>3 DEF RegistryInv, IDsPartitioned, Registered, WatchersTypeOK, clients, registry
<1> QED
  BY <1>4, <1>5

-----------------------------------------------------------------------------
(* What a client will know *)

\* The value of its key after an event
Outcome(e) == IF e.type = "Deleted" THEN Absent ELSE e.value

\* Once c has received what is in its channel, it takes x for the value of k.
Knows(c, k, x) ==
  /\ (\A i \in 1..Len(channel[c]) : channel[c][i].key # k) => view[c][k] = x
  /\ \A i \in 1..Len(channel[c]) :
       /\ channel[c][i].key = k
       /\ \A j \in 1..Len(channel[c]) : j > i => channel[c][j].key # k
       => Outcome(channel[c][i]) = x

\* The same of a client whose Watch has still to push what it listed
Lists(c, k, x) ==
  /\ \A e \in items[c] : e.key = k => Outcome(e) = x
  /\ (\A e \in items[c] : e.key # k) => Knows(c, k, x)

\* If c is to follow the store, then it will take x for the value of k.
Expects(c, k, x) ==
  /\ stage[c] = "push" => Lists(c, k, x)
  /\ stage[c] = "watching" => Knows(c, k, x)

\* A client has heard nothing before it lists the store.
FreshInv ==
  \A c \in Client : stage[c] \in {"new", "list"} =>
    channel[c] = <<>> /\ \A k \in Key : view[c][k] = Absent

\* A client that has received what was sent to it about k has the value.
LEMMA InformedKnows ==
  ASSUME NEW c \in Client, NEW k \in Key, NEW x, Informed(c, k), Expects(c, k, x)
  PROVE  view[c][k] = x
BY DEF Informed, Expects, Knows

\* What a client knows depends on its channel and its view alone, ...
LEMMA KnowsUnchanged ==
  ASSUME NEW c \in Client, NEW k \in Key, NEW x,
         channel'[c] = channel[c], view'[c][k] = view[c][k]
  PROVE  Knows(c, k, x)' <=> Knows(c, k, x)
BY DEF Knows

\* ... and so does what it is to learn on the way there.
LEMMA ExpectsUnchanged ==
  ASSUME NEW c \in Client, NEW k \in Key, NEW x, Expects(c, k, x),
         UNCHANGED <<stage[c], items[c], channel[c], view[c]>>
  PROVE  Expects(c, k, x)'
BY KnowsUnchanged DEF Expects, Lists

\* ... an event on another key does not change it, ...
LEMMA KnowsOther ==
  ASSUME ChannelsTypeOK, NEW c \in Client, NEW k \in Key, NEW x, NEW e \in Event,
         channel'[c] = Append(channel[c], e), UNCHANGED view,
         e.key # k, Knows(c, k, x)
  PROVE  Knows(c, k, x)'
<1>1. channel[c] \in Seq(Event) /\ Len(channel[c]) \in Nat
  BY LenProperties DEF ChannelsTypeOK
<1>2. /\ Len(channel'[c]) = Len(channel[c]) + 1
      /\ \A i \in 1..Len(channel[c]) : channel'[c][i] = channel[c][i]
      /\ channel'[c][Len(channel[c]) + 1] = e
  BY <1>1, AppendProperties
<1>3. ASSUME \A i \in 1..Len(channel'[c]) : channel'[c][i].key # k
      PROVE  view'[c][k] = x
  BY <1>1, <1>2, <1>3 DEF Knows
<1>4. ASSUME NEW i \in 1..Len(channel'[c]), channel'[c][i].key = k,
             \A j \in 1..Len(channel'[c]) : j > i => channel'[c][j].key # k
      PROVE  Outcome(channel'[c][i]) = x
  <2>1. i \in 1..Len(channel[c]) /\ channel'[c][i] = channel[c][i]
    BY <1>1, <1>2, <1>4
  <2>2. \A j \in 1..Len(channel[c]) : j > i => channel[c][j].key # k
    BY <1>1, <1>2, <1>4
  <2> QED
    BY <1>4, <2>1, <2>2 DEF Knows
<1> QED
  BY <1>3, <1>4 DEF Knows, Outcome

\* ... and the last event on a key decides.
LEMMA KnowsEvent ==
  ASSUME ChannelsTypeOK, NEW c \in Client, NEW e \in Event,
         channel'[c] = Append(channel[c], e)
  PROVE  Knows(c, e.key, Outcome(e))'
<1> DEFINE k == e.key
<1>1. channel[c] \in Seq(Event) /\ Len(channel[c]) \in Nat
  BY LenProperties DEF ChannelsTypeOK
<1>2. /\ Len(channel'[c]) = Len(channel[c]) + 1
      /\ \A i \in 1..Len(channel[c]) : channel'[c][i] = channel[c][i]
      /\ channel'[c][Len(channel[c]) + 1] = e
  BY <1>1, AppendProperties
<1>3. Len(channel[c]) + 1 \in 1..Len(channel'[c])
  BY <1>1, <1>2
<1>4. ASSUME NEW i \in 1..Len(channel'[c]), channel'[c][i].key = k,
             \A j \in 1..Len(channel'[c]) : j > i => channel'[c][j].key # k
      PROVE  channel'[c][i] = e
  <2>1. ~(Len(channel[c]) + 1 > i)
    BY <1>2, <1>3, <1>4
  <2>2. i = Len(channel[c]) + 1
    BY <1>1, <1>2, <2>1
  <2> QED
    BY <1>2, <2>2
<1> QED
  BY <1>2, <1>3, <1>4 DEF Knows, Outcome

\* Receiving an event moves what is known from the channel to the view.
LEMMA KnowsReceived ==
  ASSUME ChannelsTypeOK, NEW c \in Client, NEW k \in Key, NEW x,
         channel[c] # <<>>, channel' = [channel EXCEPT ![c] = Tail(@)],
         Learn(c, Head(channel[c])), Knows(c, k, x)
  PROVE  Knows(c, k, x)'
<1> DEFINE h == Head(channel[c])
<1>1. channel[c] \in Seq(Event) /\ Len(channel[c]) \in Nat \ {0}
  BY LenProperties, EmptySeq DEF ChannelsTypeOK
<1>2. /\ h = channel[c][1] /\ h \in Event
      /\ channel'[c] = Tail(channel[c])
      /\ Len(channel'[c]) = Len(channel[c]) - 1
      /\ \A j \in 1..Len(channel'[c]) : channel'[c][j] = channel[c][j + 1]
  BY <1>1, HeadTailProperties DEF ChannelsTypeOK
<1>3. /\ h.key = k => view'[c][k] = Outcome(h)
      /\ h.key # k => view'[c][k] = view[c][k]
  BY <1>2 DEF Learn, Outcome, ChannelsTypeOK, Event
<1> HIDE DEF h
<1>4. ASSUME \A i \in 1..Len(channel'[c]) : channel'[c][i].key # k
      PROVE  view'[c][k] = x
  <2>1. \A i \in 1..Len(channel[c]) : i > 1 => channel[c][i].key # k
    <3> SUFFICES ASSUME NEW i \in 1..Len(channel[c]), i > 1 PROVE channel[c][i].key # k
      OBVIOUS
    <3>1. i - 1 \in 1..Len(channel'[c]) /\ (i - 1) + 1 = i
      BY <1>1, <1>2
    <3> QED
      BY <3>1, <1>2, <1>4
  <2>2. 1 \in 1..Len(channel[c])
    BY <1>1
  <2>3. CASE h.key = k
    BY <2>1, <2>2, <2>3, <1>2, <1>3 DEF Knows
  <2>4. CASE h.key # k
    <3>1. \A i \in 1..Len(channel[c]) : i = 1 \/ i > 1
      BY <1>1
    <3> QED
      BY <2>1, <2>4, <3>1, <1>2, <1>3 DEF Knows
  <2> QED
    BY <2>3, <2>4
<1>5. ASSUME NEW i \in 1..Len(channel'[c]), channel'[c][i].key = k,
             \A j \in 1..Len(channel'[c]) : j > i => channel'[c][j].key # k
      PROVE  Outcome(channel'[c][i]) = x
  <2>1. i + 1 \in 1..Len(channel[c]) /\ channel[c][i + 1] = channel'[c][i]
    BY <1>1, <1>2
  <2>2. ASSUME NEW j \in 1..Len(channel[c]), j > i + 1 PROVE channel[c][j].key # k
    <3>1. j - 1 \in 1..Len(channel'[c]) /\ (j - 1) + 1 = j /\ j - 1 > i
      BY <1>1, <1>2, <2>2
    <3> QED
      BY <3>1, <1>2, <1>5
  <2> QED
    BY <1>5, <2>1, <2>2 DEF Knows
<1> QED
  BY <1>4, <1>5 DEF Knows, Outcome

\* Pushing what was listed does not change what the client will know.
LEMMA PushKnows ==
  ASSUME ChannelsTypeOK, NEW c \in Client, NEW k \in Key, NEW x, NEW e \in items[c],
         items' = [items EXCEPT ![c] = @ \ {e}],
         channel' = [channel EXCEPT ![c] = Append(@, e)], UNCHANGED view,
         Lists(c, k, x)
  PROVE  Lists(c, k, x)'
<1>1. e \in Event /\ channel'[c] = Append(channel[c], e) /\ items'[c] = items[c] \ {e}
  BY DEF ChannelsTypeOK
<1>2. CASE e.key = k
  <2>1. Outcome(e) = x
    BY <1>2 DEF Lists
  <2>2. Knows(c, k, x)'
    BY <1>1, <1>2, <2>1, KnowsEvent
  <2> QED
    BY <1>1, <2>2 DEF Lists, Outcome
<1>3. CASE e.key # k
  <2>1. ASSUME \A f \in items'[c] : f.key # k PROVE Knows(c, k, x)'
    <3>1. \A f \in items[c] : f.key # k
      BY <1>1, <1>3, <2>1
    <3>2. Knows(c, k, x)
      BY <3>1 DEF Lists
    <3> QED
      BY <1>1, <1>3, <3>2, KnowsOther
  <2> QED
    BY <1>1, <2>1 DEF Lists, Outcome
<1> QED
  BY <1>2, <1>3

\* No step of a client or of Watch, but the list, changes what is expected.
LEMMA WatchingExpects ==
  ASSUME WatchersTypeOK, NEW c \in Client,
         StartWatch(c) \/ Push(c) \/ Add(c) \/ Receive(c) \/ Stop(c) \/ Del(c),
         NEW d \in Client, NEW k \in Key, NEW x, Expects(d, k, x)
  PROVE  Expects(d, k, x)'
<1> USE DEF clients
<1>0. ChannelsTypeOK /\ stage \in [Client -> Stage]
  BY DEF ChannelsTypeOK, WatchersTypeOK
<1>1. CASE d # c
  <2>1. UNCHANGED <<stage[d], items[d], channel[d], view[d]>>
    BY <1>0, <1>1 DEF StartWatch, Push, Add, Receive, Stop, Del, Unregister, Enter, Learn,
       ChannelsTypeOK
  <2> QED
    BY <2>1, ExpectsUnchanged
<1>2. CASE d = c /\ (StartWatch(c) \/ Stop(c) \/ Del(c))
  BY <1>0, <1>2 DEF StartWatch, Stop, Del, Unregister, Enter, Expects
<1>3. CASE d = c /\ Push(c)
  <2>1. PICK e \in items[c] :
          /\ items' = [items EXCEPT ![c] = @ \ {e}]
          /\ channel' = [channel EXCEPT ![c] = Append(@, e)]
    BY <1>3 DEF Push
  <2>2. stage[c] = "push" /\ stage'[c] = "push" /\ view' = view
    BY <1>3 DEF Push
  <2>3. Lists(c, k, x)'
    BY <1>0, <1>3, <2>1, <2>2, PushKnows DEF Expects
  <2> QED
    BY <1>3, <2>2, <2>3 DEF Expects
<1>4. CASE d = c /\ Add(c)
  <2>1. stage[c] = "push" /\ items[c] = {} /\ UNCHANGED <<items, view, channel>>
    BY <1>4 DEF Add
  <2>2. Knows(c, k, x)'
    <3>1. Knows(c, k, x)
      BY <1>4, <2>1 DEF Expects, Lists
    <3> QED
      BY <2>1, <3>1, KnowsUnchanged
  <2>3. stage'[c] # "push"
    BY <1>0, <1>4 DEF Add, Enter
  <2> QED
    BY <1>4, <2>2, <2>3 DEF Expects
<1>5. CASE d = c /\ Receive(c)
  <2>1. stage[c] = "watching" /\ stage'[c] = "watching"
    BY <1>5 DEF Receive
  <2>2. Knows(c, k, x)'
    BY <1>0, <1>5, <2>1, KnowsReceived DEF Receive, Expects
  <2> QED
    BY <1>5, <2>1, <2>2 DEF Expects
<1> QED
  BY <1>1, <1>2, <1>3, <1>4, <1>5

\* A list is what the store holds, ...
LEMMA ListExpects ==
  ASSUME WatchersTypeOK, FreshInv, NEW c \in Client, NEW k \in Key,
         NEW db \in [Key -> Value \cup {Absent}], List(c, db)
  PROVE  Expects(c, k, db[k])'
<1>1. /\ channel[c] = <<>> /\ view[c][k] = Absent
      /\ channel'[c] = <<>> /\ view'[c][k] = Absent
  BY DEF List, FreshInv
<1>2. stage'[c] = "push"
  BY DEF List, Enter, WatchersTypeOK
<1>3. items'[c] = {[type |-> "Added", key |-> l, value |-> db[l]] :
                      l \in {l \in Key : db[l] # Absent}}
  BY DEF List, WatchersTypeOK
<1>4. \A e \in items'[c] : e.key = k => Outcome(e) = db[k]
  BY <1>3 DEF Outcome
<1>5. ASSUME \A e \in items'[c] : e.key # k PROVE Knows(c, k, db[k])'
  <2>1. db[k] = Absent
    <3> SUFFICES ASSUME db[k] # Absent PROVE FALSE
      OBVIOUS
    <3> DEFINE e == [type |-> "Added", key |-> k, value |-> db[k]]
    <3>1. e \in items'[c] /\ e.key = k
      BY <1>3
    <3> QED
      BY <3>1, <1>5
  <2>2. Len(channel'[c]) = 0
    BY <1>1
  <2> QED
    BY <1>1, <2>1, <2>2 DEF Knows
<1> QED
  BY <1>2, <1>4, <1>5 DEF Expects, Lists, Outcome

\* ... and does not concern the other clients.
LEMMA ListOthers ==
  ASSUME WatchersTypeOK, NEW c \in Client, NEW db, List(c, db),
         NEW d \in Client, d # c, NEW k \in Key, NEW x, Expects(d, k, x)
  PROVE  Expects(d, k, x)'
<1>1. UNCHANGED <<stage[d], items[d], channel[d], view[d]>>
  BY DEF List, Enter, WatchersTypeOK
<1> QED
  BY <1>1, ExpectsUnchanged

\* Sending an event tells one client, of one key.
LEMMA SendExpects ==
  ASSUME WatchersTypeOK, NEW c \in Client, NEW e \in Event,
         stage[c] \in {"watching", "stopping"},
         channel' = [channel EXCEPT ![c] = Append(@, e)], UNCHANGED clients
  PROVE  /\ Knows(c, e.key, Outcome(e))'
         /\ \A d \in Client, k \in Key : \A x :
              /\ (d # c \/ k # e.key) /\ Expects(d, k, x) => Expects(d, k, x)'
              /\ (d # c \/ k # e.key) /\ Knows(d, k, x) => Knows(d, k, x)'
<1>1. ChannelsTypeOK /\ channel'[c] = Append(channel[c], e) /\ view' = view /\ stage' = stage
  BY DEF ChannelsTypeOK, WatchersTypeOK, clients
<1>2. Knows(c, e.key, Outcome(e))'
  BY <1>1, KnowsEvent
<1>3. ASSUME NEW d \in Client, NEW k \in Key, NEW x, d # c, Expects(d, k, x)
      PROVE  Expects(d, k, x)'
  <2>1. UNCHANGED <<stage[d], items[d], channel[d], view[d]>>
    BY <1>3 DEF WatchersTypeOK, clients
  <2> QED
    BY <1>3, <2>1, ExpectsUnchanged
<1>4. ASSUME NEW d \in Client, NEW k \in Key, NEW x, d # c, Knows(d, k, x)
      PROVE  Knows(d, k, x)'
  BY <1>1, <1>4, KnowsUnchanged DEF WatchersTypeOK
<1>5. ASSUME NEW k \in Key, NEW x, k # e.key, Knows(c, k, x)
      PROVE  Knows(c, k, x)'
  BY <1>1, <1>5, KnowsOther
<1>6. ASSUME NEW k \in Key, NEW x, k # e.key, Expects(c, k, x)
      PROVE  Expects(c, k, x)'
  BY <1>1, <1>5, <1>6 DEF Expects
<1> QED
  BY <1>2, <1>3, <1>4, <1>5, <1>6

\* A client that has not listed the store stays without knowledge.
LEMMA FreshInit == WatchersInit => FreshInv
BY DEF WatchersInit, FreshInv

\* A client lists before it hears anything.
LEMMA WatchingFresh ==
  ASSUME WatchersTypeOK, FreshInv, NEW c \in Client,
         \/ StartWatch(c) \/ Push(c) \/ Add(c) \/ Receive(c) \/ Stop(c) \/ Del(c)
         \/ \E db : List(c, db)
  PROVE  FreshInv'
<1> SUFFICES ASSUME NEW d \in Client, stage'[d] \in {"new", "list"}
             PROVE  channel'[d] = <<>> /\ \A k \in Key : view'[d][k] = Absent
  BY DEF FreshInv
<1>1. stage[d] \in {"new", "list"} /\ UNCHANGED <<channel[d], view[d]>>
  BY DEF StartWatch, Push, Add, Receive, Stop, Del, Unregister, List, Enter, Learn,
         WatchersTypeOK, clients
<1> QED
  BY <1>1 DEF FreshInv

\* An event goes to clients that are past their list.
LEMMA SendFresh ==
  ASSUME WatchersTypeOK, FreshInv, NEW c \in Client, NEW e \in Event,
         stage[c] \in {"watching", "stopping"},
         channel' = [channel EXCEPT ![c] = Append(@, e)], UNCHANGED clients
  PROVE  FreshInv'
BY DEF FreshInv, WatchersTypeOK, clients
=============================================================================
