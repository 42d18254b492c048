------------------------- MODULE FilepathRESTProofs -------------------------
(***************************************************************************)
(* Proofs about FilepathREST: the types, that a file which does not decode *)
(* has a cause, that a watch keeps its place until another has stopped or  *)
(* two have overlapped, and that views converge, for any number of         *)
(* requests, watches and keys and any number of crashes and failed writes. *)
(***************************************************************************)
EXTENDS FilepathREST, FiniteSetTheorems, WellFoundedInduction, TLAPS

WP == INSTANCE WatchersProofs
        WITH availableIDs <- <<>>, allocatedIDs <- {}, closed <- {},
             MaxID <- Cardinality(Client), Closing <- FALSE

-----------------------------------------------------------------------------
(* The inductive invariant *)

\* n has an event on k, and is in the middle of writing it.
On(n, k) == event[n] # W!NoEvent /\ event[n].key = k
Writes(n, k) == pc[n] = "fill" /\ On(n, k)

\* Whoever is registered has the id it is registered under.  Under the lock a
\* notifier has only ids that are in use.
RegistryInv ==
  /\ \A i \in W!ID : watchers[i] # NoClient =>
       id[watchers[i]] = i /\ stage[watchers[i]] \in {"watching", "stopping"}
  /\ \A n \in notifying : toNotify[n] \subseteq W!Registered

\* A client has heard nothing before it lists.
FreshInv ==
  \A c \in Client : stage[c] \in {"new", "list"} =>
    items[c] = {} /\ channel[c] = <<>> /\ \A k \in Key : view[c][k] = Absent

\* A request has an event, or keys to sweep.
OperationsInv ==
  \A n \in Notifier :
    /\ n \in notifying <=> pc[n] = "notifying"
    /\ pc[n] \in {"idle", "sweep", "sweepRemove"} <=> event[n] = W!NoEvent
    /\ sweep[n] # {} => pc[n] \in {"sweep", "sweepRemove"}
    /\ pc[n] = "sweepRemove" => sweep[n] # {}
    /\ pc[n] \in {"write", "fill"} => dir /\ event[n].type # "Deleted"
    /\ pc[n] = "remove" => event[n].type = "Deleted"

LinkedInv == \A w \in linked : Writes(w[1], w[2])

\* On a key without a race there is one request: the file it writes is its own
\* and still truncated, the one it removes is whole, and what it tells is true.
AloneInv ==
  \A k \in Key \ raced :
    /\ \A m, n \in Notifier : WorksOn(m, k) /\ WorksOn(n, k) => m = n
    /\ \A n \in Notifier : On(n, k) =>
         /\ pc[n] = "fill" => <<n, k>> \in linked /\ file[k] = Empty
         /\ pc[n] = "remove" => Decodes(k)
         /\ pc[n] \in {"notify", "notifying"} => file[k] = WP!Outcome(event[n])

\* A file that does not decode is being written or is known to be spoilt, and
\* what is spoilt does not decode.
TornInv ==
  \A k \in Key \ raced :
    /\ k \in spoilt => ~Decodes(k)
    /\ Exists(k) /\ ~Decodes(k) => k \in spoilt \/ \E n \in Notifier : Writes(n, k)

\* As long as no watch has stopped and none have overlapped, the ids in use are
\* those below their count, which is the id of the one watch on its way in.
PlacesInv ==
  ~overlapped /\ (\A c \in Client : stage[c] # "stopped") =>
    /\ \A c \in Client : stage[c] \in {"watching", "stopping"} => watchers[id[c]] = c
    /\ \A c, d \in InWatch : c = d
    /\ \E N \in Nat : W!Registered = 0..(N - 1) /\ \A c \in InWatch : id[c] = N

\* If c is to follow the files, then it will take x for the value of k.
Expects(c, k, x) ==
  /\ stage[c] = "read" => IF k \in toRead[c] THEN \A e \in items[c] : e.key # k
                                             ELSE WP!Lists(c, k, x)
  /\ stage[c] = "push" => WP!Lists(c, k, x)
  /\ stage[c] = "watching" /\ watchers[id[c]] = c => WP!Knows(c, k, x)

\* n has yet to send its event to c.
Awaits(c, n) == stage[c] = "watching" /\ watchers[id[c]] = c /\ id[c] \in toNotify[n]

\* What c is to learn of k is in the file while nobody has an event on k, ...
Settled(c, k) == (\A n \in Notifier : ~On(n, k)) => Expects(c, k, file[k])

\* ... and in the event from the moment it is sent.
InFlight(n, c, k) ==
  pc[n] = "notifying" /\ ~Awaits(c, n) => Expects(c, k, WP!Outcome(event[n]))

\* A client between its list and its registration is not promised what is under
\* way.
KnowledgeInv ==
  /\ \A c \in Subscribing, k \in Key : Busy(k) => <<c, k>> \in untold
  /\ \A c \in Client, k \in Key \ (raced \cup spoilt) : <<c, k>> \notin untold =>
       /\ Settled(c, k)
       /\ \A n \in Notifier : On(n, k) => InFlight(n, c, k)

IInv ==
  /\ FilepathTypeOK /\ RegistryInv /\ FreshInv /\ OperationsInv /\ LinkedInv
  /\ AloneInv /\ TornInv /\ PlacesInv /\ KnowledgeInv

-----------------------------------------------------------------------------
(* Lemmas *)

\* The lemmas about Watchers apply.
LEMMA Instance == WP!WatchersAssumption
<1>1. Cardinality(Client) \in Nat
  BY FilepathAssumption, FS_CardinalityType
<1> QED
  BY <1>1, FilepathAssumption, JSONFilesAssumption

\* The events and the channels of FilepathREST are those they are about.
LEMMA SameState ==
  /\ W!Event = WP!Event /\ W!NoEvent \notin W!Event
  /\ FilepathTypeOK => WP!ChannelsTypeOK
  /\ \A c \in Client, k \in Key : W!Informed(c, k) <=> WP!Informed(c, k)
BY DEF W!Event, WP!Event, W!NoEvent, FilepathTypeOK, WP!ChannelsTypeOK, W!Informed, WP!Informed

\* There is a next key.
LEMMA NextKeyIn ==
  ASSUME NEW keys, keys \subseteq Key, keys # {}
  PROVE  NextKey(keys) \in keys
<1>1. keys \subseteq Nat
  BY FilepathAssumption
<1>2. PICK k \in keys : \A l \in keys : ~(<<l, k>> \in OpToRel(<, Nat))
  BY <1>1, WFMin, NatLessThanWellFounded
<1>3. \A l \in keys : k <= l
  <2> SUFFICES ASSUME NEW l \in keys, l < k PROVE FALSE
    BY <1>1
  <2>1. <<l, k>> \in OpToRel(<, Nat)
    BY <1>1 DEF OpToRel
  <2> QED
    BY <1>2, <2>1
<1> QED
  BY <1>3 DEF NextKey

\* There are no more ids in use than clients.
LEMMA CountType ==
  ASSUME FilepathTypeOK, RegistryInv
  PROVE  Registered \in W!ID
<1> DEFINE I == {id[c] : c \in Client}
<1>1. IsFiniteSet(I) /\ Cardinality(I) <= Cardinality(Client)
  <2>1. id \in Surjection(Client, I)
    BY DEF FilepathTypeOK, Surjection
  <2> QED
    BY <2>1, FilepathAssumption, FS_Surjection
<1>2. W!Registered \subseteq I
  BY DEF RegistryInv, W!Registered, FilepathTypeOK
<1> HIDE DEF I
<1>3. IsFiniteSet(W!Registered) /\ Cardinality(W!Registered) <= Cardinality(I)
  BY <1>1, <1>2, FS_Subset
<1>4. Cardinality(W!Registered) \in Nat /\ Cardinality(I) \in Nat /\ Cardinality(Client) \in Nat
  BY <1>1, <1>3, FilepathAssumption, FS_CardinalityType
<1> QED
  BY <1>1, <1>3, <1>4 DEF Registered, W!ID

\* What a client is to learn depends on what it has, what it has yet to read, and
\* its place.
LEMMA ExpectsKept ==
  ASSUME NEW c \in Client, NEW k \in Key,
         UNCHANGED <<stage[c], items[c], view[c], channel[c], toRead[c], id[c]>>,
         watchers'[id[c]] = c => watchers[id[c]] = c
  PROVE  \A x : Expects(c, k, x) => Expects(c, k, x)'
<1>1. \A x : WP!Knows(c, k, x)' <=> WP!Knows(c, k, x)
  BY Instance, WP!KnowsUnchanged
<1> QED
  BY <1>1 DEF Expects, WP!Lists, WP!Outcome

\* What it is to learn of an event stays, if the event does, unless it is sent or
\* the client leaves.
LEMMA InFlightKept ==
  ASSUME NEW n \in Notifier, NEW c \in Client, NEW k \in Key, InFlight(n, c, k),
         UNCHANGED <<pc[n], event[n]>>,
         Awaits(c, n) /\ ~Awaits(c, n)' =>
           \/ stage'[c] \notin {"read", "push", "watching"}
           \/ stage'[c] = "watching" /\ watchers'[id'[c]] # c,
         \A x : Expects(c, k, x) => Expects(c, k, x)'
  PROVE  InFlight(n, c, k)'
<1>1. PICK o : o = WP!Outcome(event[n])
  OBVIOUS
<1>2. o = WP!Outcome(event[n])'
  BY <1>1 DEF WP!Outcome
<1>3. pc[n] = "notifying" /\ ~Awaits(c, n)' => Expects(c, k, o)'
  <2>1. CASE ~Awaits(c, n)
    BY <1>1, <2>1 DEF InFlight
  <2>2. CASE Awaits(c, n) /\ ~Awaits(c, n)'
    BY <2>2 DEF Expects
  <2> QED
    BY <2>1, <2>2
<1> QED
  BY <1>1, <1>2, <1>3 DEF InFlight

\* Steps that leave the watches alone
LEMMA WatchesKept ==
  ASSUME IInv, UNCHANGED <<wvars, toRead, overlapped>>
  PROVE  /\ RegistryInv' /\ FreshInv' /\ PlacesInv'
         /\ \A c \in Client, k \in Key : \A x : Expects(c, k, x) => Expects(c, k, x)'
<1> USE DEF wvars
<1>1. RegistryInv' /\ FreshInv' /\ PlacesInv'
  BY DEF IInv, RegistryInv, W!Registered, FreshInv, PlacesInv, InWatch
<1>2. \A c \in Client, k \in Key : \A x : Expects(c, k, x) => Expects(c, k, x)'
  BY ExpectsKept
<1> QED
  BY <1>1, <1>2

\* The step of a request names the key it works on.
LEMMA BusyEvent ==
  ASSUME IInv, NEW n \in Notifier, pc[n] \notin {"idle", "sweep", "sweepRemove"}
  PROVE  /\ event[n] \in W!Event /\ event[n].key \in Key /\ event[n].value \in Value
         /\ On(n, event[n].key) /\ sweep[n] = {}
<1>1. event[n] # W!NoEvent /\ sweep[n] = {}
  BY DEF IInv, OperationsInv
<1>2. event[n] \in W!Event
  BY <1>1 DEF IInv, FilepathTypeOK
<1> QED
  BY <1>1, <1>2 DEF W!Event, On

-----------------------------------------------------------------------------
(* The requests *)

\* A step of n's request on k concerns no other key.  On k it has to keep what
\* is said of a file without a race, and what n promises.
LEMMA LocalStep ==
  ASSUME IInv, NEW n \in Notifier, NEW k \in Key, On(n, k),
         UNCHANGED <<stage, items, view, channel, id, watchers, toRead, raced, untold>>,
         \A m \in Notifier \ {n} : UNCHANGED <<pc[m], event[m], toNotify[m]>>,
         \A m \in Notifier : UNCHANGED sweep[m],
         event'[n] = W!NoEvent \/ event'[n] = event[n],
         \A l \in Key \ {k} :
           /\ UNCHANGED file[l]
           /\ l \notin raced => (l \in spoilt' <=> l \in spoilt)
           /\ \A m \in Notifier : <<m, l>> \in linked => <<m, l>> \in linked',
         k \notin raced =>
           /\ On(n, k)' =>
                /\ pc'[n] = "fill" => <<n, k>> \in linked' /\ file'[k] = Empty
                /\ pc'[n] = "remove" => Decodes(k)'
                /\ pc'[n] \in {"notify", "notifying"} => file'[k] = WP!Outcome(event[n])
           /\ k \in spoilt' => ~Decodes(k)'
           /\ Exists(k)' /\ ~Decodes(k)' => k \in spoilt' \/ Writes(n, k)',
         k \notin raced \cup spoilt' =>
           \A c \in Client \ Subscribing : (k \notin spoilt => InFlight(n, c, k)) =>
             /\ event'[n] = W!NoEvent => Expects(c, k, file[k])'
             /\ event'[n] # W!NoEvent => InFlight(n, c, k)'
  PROVE  AloneInv' /\ TornInv' /\ KnowledgeInv'
<1>1. AloneInv /\ TornInv /\ KnowledgeInv
  BY DEF IInv
<1>2. \A l \in Key, m \in Notifier : (On(m, l)' => On(m, l)) /\ (WorksOn(m, l)' => WorksOn(m, l))
  BY DEF On, WorksOn
<1>3. \A l \in Key \ {k}, m \in Notifier :
        /\ On(m, l)' <=> On(m, l)
        /\ On(m, l) => m # n
        /\ Writes(m, l)' <=> Writes(m, l)
  BY DEF On, Writes
<1>4. k \notin raced => \A m \in Notifier : On(m, k)' => m = n
  BY <1>1, <1>2 DEF AloneInv, WorksOn, On
<1>5. AloneInv'
  <2> SUFFICES ASSUME NEW l \in Key \ raced
               PROVE  /\ \A i, j \in Notifier : WorksOn(i, l)' /\ WorksOn(j, l)' => i = j
                      /\ \A m \in Notifier : On(m, l)' =>
                           /\ pc'[m] = "fill" => <<m, l>> \in linked' /\ file'[l] = Empty
                           /\ pc'[m] = "remove" => Decodes(l)'
                           /\ pc'[m] \in {"notify", "notifying"} => file'[l] = WP!Outcome(event[m])'
    BY DEF AloneInv
  <2>1. \A i, j \in Notifier : WorksOn(i, l)' /\ WorksOn(j, l)' => i = j
    BY <1>1, <1>2 DEF AloneInv
  <2>2. \A m \in Notifier : On(m, l)' => WP!Outcome(event[m])' = WP!Outcome(event[m])
    BY DEF On, WP!Outcome
  <2>3. CASE l = k
    BY <1>4, <2>1, <2>2, <2>3
  <2>4. CASE l # k
    <3>1. ASSUME NEW m \in Notifier, On(m, l)'
          PROVE  /\ pc'[m] = "fill" => <<m, l>> \in linked' /\ file'[l] = Empty
                 /\ pc'[m] = "remove" => Decodes(l)'
                 /\ pc'[m] \in {"notify", "notifying"} => file'[l] = WP!Outcome(event[m])
      BY <1>1, <1>3, <2>4, <3>1 DEF AloneInv, Decodes
    <3> QED
      BY <2>1, <2>2, <3>1
  <2> QED
    BY <2>3, <2>4
<1>6. TornInv'
  <2> SUFFICES ASSUME NEW l \in Key \ raced
               PROVE  /\ l \in spoilt' => ~Decodes(l)'
                      /\ Exists(l)' /\ ~Decodes(l)' => l \in spoilt' \/ \E m \in Notifier : Writes(m, l)'
    BY DEF TornInv
  <2>1. CASE l = k
    BY <2>1
  <2>2. CASE l # k
    BY <1>1, <1>3, <2>2 DEF TornInv, Exists, Decodes
  <2> QED
    BY <2>1, <2>2
<1>7. \A c \in Subscribing', l \in Key : Busy(l)' => <<c, l>> \in untold'
  BY <1>1, <1>2 DEF KnowledgeInv, Busy, Subscribing
<1>8. ASSUME NEW c \in Client, NEW l \in Key \ (raced \cup spoilt'), <<c, l>> \notin untold
      PROVE  /\ Settled(c, l)'
             /\ \A m \in Notifier : On(m, l)' => InFlight(m, c, l)'
  <2>1. \A x : Expects(c, l, x) => Expects(c, l, x)'
    BY ExpectsKept
  <2>2. CASE l # k
    <3>1. Settled(c, l) /\ \A m \in Notifier : On(m, l) => InFlight(m, c, l)
      BY <1>1, <1>8, <2>2 DEF KnowledgeInv
    <3>2. Settled(c, l)'
      <4> SUFFICES ASSUME \A m \in Notifier : ~On(m, l)' PROVE Expects(c, l, file[l])'
        BY DEF Settled
      <4>1. PICK x : x = file[l]
        OBVIOUS
      <4>2. Expects(c, l, x)'
        BY <1>3, <2>1, <2>2, <3>1, <4>1 DEF Settled
      <4> QED
        BY <2>2, <4>1, <4>2
    <3>3. ASSUME NEW m \in Notifier, On(m, l)' PROVE InFlight(m, c, l)'
      <4>1. m # n /\ InFlight(m, c, l)
        BY <1>3, <2>2, <3>1, <3>3
      <4>2. Awaits(c, m) <=> Awaits(c, m)'
        BY <4>1 DEF Awaits
      <4> QED
        BY <2>1, <4>1, <4>2, InFlightKept
    <3> QED
      BY <3>2, <3>3
  <2>3. CASE l = k
    <3>1. Busy(k)
      BY DEF Busy, WorksOn, On
    <3>2. c \notin Subscribing /\ (k \notin spoilt => InFlight(n, c, k))
      BY <1>1, <1>8, <2>3, <3>1 DEF KnowledgeInv
    <3>3. CASE event'[n] = W!NoEvent
      <4>1. Expects(c, k, file[k])'
        BY <1>8, <2>3, <3>2, <3>3
      <4>2. \A m \in Notifier : ~On(m, k)'
        BY <1>4, <1>8, <2>3, <3>3 DEF On
      <4> QED
        BY <2>3, <4>1, <4>2 DEF Settled
    <3>4. CASE event'[n] # W!NoEvent
      <4>1. InFlight(n, c, k)'
        BY <1>8, <2>3, <3>2, <3>4
      <4>2. On(n, k)'
        BY <3>4 DEF On
      <4>3. \A m \in Notifier : On(m, k)' => m = n
        BY <1>4, <1>8, <2>3
      <4> QED
        BY <2>3, <4>1, <4>2, <4>3 DEF Settled
    <3> QED
      BY <3>3, <3>4
  <2> QED
    BY <2>2, <2>3
<1> QED
  BY <1>5, <1>6, <1>7, <1>8 DEF KnowledgeInv

\* Where n goes, and what it leaves alone
LEMMA Moves ==
  ASSUME IInv, NEW n \in Notifier, pc[n] \notin {"idle", "sweep", "sweepRemove"},
         NEW step \in Step \ {"sweep", "sweepRemove"},
         \/ step = "idle" /\ Finish(n)
         \/ step # "idle" /\ Continue(n, step)
  PROVE  /\ pc'[n] = step /\ (IF step = "idle" THEN event'[n] = W!NoEvent ELSE event'[n] = event[n])
         /\ event[n] # W!NoEvent
         /\ \A m \in Notifier \ {n} : UNCHANGED <<pc[m], event[m]>>
         /\ \A m \in Notifier : UNCHANGED sweep[m]
         /\ pc' \in [Notifier -> Step]
         /\ event' \in [Notifier -> W!Event \cup {W!NoEvent}]
         /\ sweep' \in [Notifier -> SUBSET Key]
         /\ \A m \in Notifier : pc'[m] = "idle" => sweep'[m] = {} /\ event'[m] = W!NoEvent
<1>1. /\ pc \in [Notifier -> Step] /\ event \in [Notifier -> W!Event \cup {W!NoEvent}]
      /\ sweep \in [Notifier -> SUBSET Key]
      /\ \A m \in Notifier : pc[m] = "idle" => sweep[m] = {} /\ event[m] = W!NoEvent
      /\ event[n] # W!NoEvent /\ sweep[n] = {}
  BY DEF IInv, FilepathTypeOK, OperationsInv
<1>2. CASE step = "idle" /\ Finish(n)
  BY <1>1, <1>2 DEF Finish, Goto, SetEvent
<1>3. CASE step # "idle" /\ Continue(n, step)
  BY <1>1, <1>3 DEF Continue, Goto
<1> QED
  BY <1>2, <1>3

\* The operations stay well-formed when n goes on with its request.
LEMMA OperationsKept ==
  ASSUME OperationsInv, NEW n \in Notifier, NEW step \in Step \ {"sweep", "sweepRemove"},
         event[n] # W!NoEvent,
         pc'[n] = step, IF step = "idle" THEN event'[n] = W!NoEvent ELSE event'[n] = event[n],
         \A m \in Notifier \ {n} : UNCHANGED <<pc[m], event[m]>>,
         \A m \in Notifier : UNCHANGED sweep[m],
         \A m \in Notifier \ {n} : m \in notifying' <=> m \in notifying,
         n \in notifying' <=> step = "notifying",
         UNCHANGED dir,
         step = "fill" => pc[n] = "write",
         step \notin {"write", "remove"}, pc[n] \notin {"idle", "sweep", "sweepRemove"}
  PROVE  OperationsInv'
<1> SUFFICES ASSUME NEW m \in Notifier
             PROVE  /\ m \in notifying' <=> pc'[m] = "notifying"
                    /\ pc'[m] \in {"idle", "sweep", "sweepRemove"} <=> event'[m] = W!NoEvent
                    /\ sweep'[m] # {} => pc'[m] \in {"sweep", "sweepRemove"}
                    /\ pc'[m] = "sweepRemove" => sweep'[m] # {}
                    /\ pc'[m] \in {"write", "fill"} => dir' /\ event'[m].type # "Deleted"
                    /\ pc'[m] = "remove" => event'[m].type = "Deleted"
  BY DEF OperationsInv
<1>1. CASE m = n
  BY <1>1 DEF OperationsInv, Step
<1>2. CASE m # n
  BY <1>2 DEF OperationsInv
<1> QED
  BY <1>1, <1>2

\* Opening truncates a file that is alone the request's, or the key is raced.
LEMMA OpenForWriteKeeps ==
  ASSUME IInv, NEW n \in Notifier, OpenForWrite(n)
  PROVE  IInv'
<1>1. /\ FilepathTypeOK /\ OperationsInv /\ LinkedInv /\ AloneInv /\ TornInv
  BY DEF IInv
<1>2. /\ pc[n] = "write" /\ OpenFile(n, event[n].key) /\ Continue(n, "fill")
      /\ UNCHANGED <<wvars, hvars, dir, toRead, ops, faults>>
  BY DEF OpenForWrite
<1>3. PICK k \in Key : k = event[n].key /\ On(n, k)
  BY <1>2, BusyEvent
<1>4. /\ pc'[n] = "fill" /\ event'[n] = event[n] /\ event[n] # W!NoEvent
      /\ \A m \in Notifier \ {n} : UNCHANGED <<pc[m], event[m]>>
      /\ \A m \in Notifier : UNCHANGED sweep[m]
      /\ pc' \in [Notifier -> Step]
      /\ event' \in [Notifier -> W!Event \cup {W!NoEvent}]
      /\ sweep' \in [Notifier -> SUBSET Key]
      /\ \A m \in Notifier : pc'[m] = "idle" => sweep'[m] = {} /\ event'[m] = W!NoEvent
  BY <1>2, Moves DEF Step
<1>5. RegistryInv' /\ FreshInv' /\ PlacesInv'
  BY <1>2, WatchesKept DEF hvars
<1>6. /\ file' = [file EXCEPT ![k] = Empty] /\ linked' = linked \cup {<<n, k>>}
      /\ file'[k] = Empty /\ \A l \in Key \ {k} : file'[l] = file[l]
  BY <1>1, <1>2, <1>3 DEF OpenFile, FilepathTypeOK, FilesTypeOK
<1>7. FilepathTypeOK'
  <2>1. FilesTypeOK'
    BY <1>1, <1>6 DEF FilepathTypeOK, FilesTypeOK
  <2>2. dir
    BY <1>1, <1>2 DEF OperationsInv
  <2> QED
    BY <1>1, <1>2, <1>4, <2>1, <2>2 DEF FilepathTypeOK, wvars, hvars
<1>8. OperationsInv'
  BY <1>1, <1>2, <1>4, OperationsKept DEF wvars, Step, OperationsInv
<1>9. LinkedInv'
  <2> SUFFICES ASSUME NEW w \in linked' PROVE Writes(w[1], w[2])'
    BY DEF LinkedInv
  <2>1. CASE w = <<n, k>>
    BY <1>3, <1>4, <2>1 DEF Writes, On
  <2>2. CASE w \in linked
    BY <1>1, <1>2, <1>4, <2>2 DEF LinkedInv, Writes, On, FilepathTypeOK, FilesTypeOK
  <2> QED
    BY <1>6, <2>1, <2>2
<1>10. AloneInv' /\ TornInv' /\ KnowledgeInv'
  <2>1. Writes(n, k)' /\ ~Decodes(k)'
    BY <1>3, <1>4, <1>6, JSONFilesAssumption DEF Writes, On, Decodes
  <2>2. \A c \in Client : InFlight(n, c, k)'
    BY <1>4 DEF InFlight
  <2>3. <<n, k>> \in linked' /\ \A l \in Key, m \in Notifier : <<m, l>> \in linked => <<m, l>> \in linked'
    BY <1>6
  <2> QED
    BY <1>2, <1>3, <1>4, <1>6, <2>1, <2>2, <2>3, LocalStep DEF wvars, hvars
<1> QED
  BY <1>5, <1>7, <1>8, <1>9, <1>10 DEF IInv

\* What n wrote is whole unless the key is raced, and spoils the key no longer.
LEMMA FillKeeps ==
  ASSUME IInv, NEW n \in Notifier, Fill(n)
  PROVE  IInv'
<1>1. /\ FilepathTypeOK /\ OperationsInv /\ LinkedInv /\ AloneInv /\ TornInv
  BY DEF IInv
<1>2. /\ pc[n] = "fill" /\ FillFile(n, event[n].key, event[n].value)
      /\ spoilt' = {k \in spoilt : file'[k] \notin Value}
      /\ Continue(n, "notify")
      /\ UNCHANGED <<wvars, raced, untold, overlapped, dir, toRead, ops, faults>>
  BY DEF Fill
<1>3. PICK k \in Key, v \in Value : k = event[n].key /\ v = event[n].value /\ On(n, k)
  BY <1>2, BusyEvent
<1>4. /\ pc'[n] = "notify" /\ event'[n] = event[n] /\ event[n] # W!NoEvent
      /\ \A m \in Notifier \ {n} : UNCHANGED <<pc[m], event[m]>>
      /\ \A m \in Notifier : UNCHANGED sweep[m]
      /\ pc' \in [Notifier -> Step]
      /\ event' \in [Notifier -> W!Event \cup {W!NoEvent}]
      /\ sweep' \in [Notifier -> SUBSET Key]
      /\ \A m \in Notifier : pc'[m] = "idle" => sweep'[m] = {} /\ event'[m] = W!NoEvent
  BY <1>2, Moves DEF Step
<1>5. RegistryInv' /\ FreshInv' /\ PlacesInv'
  BY <1>2, WatchesKept
<1>6. /\ linked' = linked \ {<<n, k>>}
      /\ \/ file' = file
         \/ \E content \in Value \cup {Mixed} : file' = [file EXCEPT ![k] = content]
      /\ <<n, k>> \in linked /\ file[k] = Empty => file' = [file EXCEPT ![k] = v]
  BY <1>2, <1>3 DEF FillFile
<1>7. /\ file' \in [Key -> Value \cup {Absent, Empty, Mixed}]
      /\ \A l \in Key \ {k} : file'[l] = file[l]
      /\ k \notin raced => file'[k] = v
  <2>1. k \notin raced => file' = [file EXCEPT ![k] = v]
    BY <1>1, <1>2, <1>3, <1>6 DEF AloneInv
  <2>2. file \in [Key -> Value \cup {Absent, Empty, Mixed}]
    BY <1>1 DEF FilepathTypeOK, FilesTypeOK
  <2>3. CASE file' = file
    BY <2>1, <2>2, <2>3
  <2>4. ASSUME NEW content \in Value \cup {Mixed}, file' = [file EXCEPT ![k] = content]
        PROVE  /\ file' \in [Key -> Value \cup {Absent, Empty, Mixed}]
               /\ \A l \in Key \ {k} : file'[l] = file[l]
    BY <2>2, <2>4
  <2>5. k \notin raced => file'[k] = v
    BY <2>1, <2>2
  <2> QED
    BY <1>6, <2>2, <2>3, <2>4, <2>5
<1>8. FilepathTypeOK'
  <2>1. FilesTypeOK'
    BY <1>1, <1>6, <1>7 DEF FilepathTypeOK, FilesTypeOK
  <2>2. dir
    BY <1>1, <1>2 DEF OperationsInv
  <2>3. spoilt' \subseteq spoilt
    BY <1>2
  <2> QED
    BY <1>1, <1>2, <1>4, <2>1, <2>2, <2>3 DEF FilepathTypeOK, wvars
<1>9. OperationsInv'
  BY <1>1, <1>2, <1>4, OperationsKept DEF wvars, Step, OperationsInv
<1>10. LinkedInv'
  <2> SUFFICES ASSUME NEW w \in linked' PROVE Writes(w[1], w[2])'
    BY DEF LinkedInv
  <2>1. w \in linked /\ w # <<n, k>> /\ w = <<w[1], w[2]>> /\ w[1] \in Notifier
    BY <1>1, <1>6 DEF FilepathTypeOK, FilesTypeOK
  <2>2. Writes(w[1], w[2])
    BY <1>1, <2>1 DEF LinkedInv
  <2>3. w[1] # n
    BY <1>3, <2>1, <2>2 DEF Writes, On
  <2> QED
    BY <1>4, <2>1, <2>2, <2>3 DEF Writes, On
<1>11. AloneInv' /\ TornInv' /\ KnowledgeInv'
  <2>1. \A l \in Key \ {k} :
          /\ UNCHANGED file[l]
          /\ l \notin raced => (l \in spoilt' <=> l \in spoilt)
          /\ \A m \in Notifier : <<m, l>> \in linked => <<m, l>> \in linked'
    BY <1>1, <1>2, <1>6, <1>7 DEF TornInv, Decodes
  <2>2. k \notin raced => Decodes(k)' /\ k \notin spoilt'
    BY <1>2, <1>7 DEF Decodes
  <2>3. k \notin raced => file'[k] = WP!Outcome(event[n])
    BY <1>1, <1>2, <1>3, <1>7 DEF OperationsInv, WP!Outcome
  <2>4. \A c \in Client : InFlight(n, c, k)'
    BY <1>4 DEF InFlight
  <2>5. UNCHANGED <<stage, items, view, channel, id, watchers, toRead, raced, untold, toNotify>>
    BY <1>2 DEF wvars
  <2>6. k \notin raced =>
          /\ On(n, k)' =>
               /\ pc'[n] = "fill" => <<n, k>> \in linked' /\ file'[k] = Empty
               /\ pc'[n] = "remove" => Decodes(k)'
               /\ pc'[n] \in {"notify", "notifying"} => file'[k] = WP!Outcome(event[n])
          /\ k \in spoilt' => ~Decodes(k)'
          /\ Exists(k)' /\ ~Decodes(k)' => k \in spoilt' \/ Writes(n, k)'
    BY <1>4, <2>2, <2>3
  <2> QED
    BY <1>3, <1>4, <2>1, <2>4, <2>5, <2>6, LocalStep
<1> QED
  BY <1>5, <1>8, <1>9, <1>10, <1>11 DEF IInv

\* A write that fails spoils the key.
LEMMA WriteFailsKeeps ==
  ASSUME IInv, NEW n \in Notifier, WriteFails(n)
  PROVE  IInv'
<1>1. /\ FilepathTypeOK /\ OperationsInv /\ LinkedInv /\ AloneInv /\ TornInv
  BY DEF IInv
<1>2. /\ pc[n] = "fill"
      /\ linked' = linked \ {<<n, event[n].key>>} /\ UNCHANGED file
      /\ spoilt' = spoilt \cup {event[n].key}
      /\ Finish(n)
      /\ UNCHANGED <<wvars, raced, untold, overlapped, dir, toRead, ops>>
  BY DEF WriteFails
<1>3. PICK k \in Key : k = event[n].key /\ On(n, k)
  BY <1>2, BusyEvent
<1>4. /\ pc'[n] = "idle" /\ event'[n] = W!NoEvent /\ event[n] # W!NoEvent
      /\ \A m \in Notifier \ {n} : UNCHANGED <<pc[m], event[m]>>
      /\ \A m \in Notifier : UNCHANGED sweep[m]
      /\ pc' \in [Notifier -> Step]
      /\ event' \in [Notifier -> W!Event \cup {W!NoEvent}]
      /\ sweep' \in [Notifier -> SUBSET Key]
      /\ \A m \in Notifier : pc'[m] = "idle" => sweep'[m] = {} /\ event'[m] = W!NoEvent
  BY <1>2, Moves DEF Step
<1>5. RegistryInv' /\ FreshInv' /\ PlacesInv'
  BY <1>2, WatchesKept
<1>6. FilepathTypeOK'
  <2>1. FilesTypeOK' /\ spoilt' \subseteq Key
    BY <1>1, <1>2, <1>3 DEF FilepathTypeOK, FilesTypeOK
  <2> QED
    BY <1>1, <1>2, <1>4, <2>1 DEF FilepathTypeOK, wvars, Exists
<1>7. OperationsInv'
  BY <1>1, <1>2, <1>4, OperationsKept DEF wvars, Step, OperationsInv
<1>8. LinkedInv'
  <2> SUFFICES ASSUME NEW w \in linked' PROVE Writes(w[1], w[2])'
    BY DEF LinkedInv
  <2>1. w \in linked /\ w # <<n, k>> /\ w = <<w[1], w[2]>> /\ w[1] \in Notifier
    BY <1>1, <1>2, <1>3 DEF FilepathTypeOK, FilesTypeOK
  <2>2. Writes(w[1], w[2])
    BY <1>1, <2>1 DEF LinkedInv
  <2>3. w[1] # n
    BY <1>3, <2>1, <2>2 DEF Writes, On
  <2> QED
    BY <1>4, <2>1, <2>2, <2>3 DEF Writes, On
<1>9. AloneInv' /\ TornInv' /\ KnowledgeInv'
  <2>1. \A l \in Key \ {k} :
          /\ UNCHANGED file[l]
          /\ l \notin raced => (l \in spoilt' <=> l \in spoilt)
          /\ \A m \in Notifier : <<m, l>> \in linked => <<m, l>> \in linked'
    BY <1>2, <1>3
  <2>2. k \in spoilt' /\ (k \notin raced => ~Decodes(k)')
    BY <1>1, <1>2, <1>3, JSONFilesAssumption DEF AloneInv, Decodes
  <2>3. ~On(n, k)'
    BY <1>4 DEF On
  <2>4. UNCHANGED <<stage, items, view, channel, id, watchers, toRead, raced, untold, toNotify>>
    BY <1>2 DEF wvars
  <2> QED
    BY <1>3, <1>4, <2>1, <2>2, <2>3, <2>4, LocalStep
<1> QED
  BY <1>5, <1>6, <1>7, <1>8, <1>9 DEF IInv

\* What n removed is gone; without a race it was there.
LEMMA RemoveKeeps ==
  ASSUME IInv, NEW n \in Notifier, Remove(n)
  PROVE  IInv'
<1>1. /\ FilepathTypeOK /\ OperationsInv /\ LinkedInv /\ AloneInv /\ TornInv
  BY DEF IInv
<1>2. /\ pc[n] = "remove"
      /\ UNCHANGED <<wvars, hvars, dir, toRead, ops, faults>>
  BY DEF Remove
<1>3. PICK k \in Key : k = event[n].key /\ On(n, k)
  BY <1>2, BusyEvent
<1>4. PICK step \in {"notify", "idle"} :
        \/ step # "idle" /\ Exists(k) /\ RemoveFile(k) /\ Continue(n, step)
        \/ step = "idle" /\ ~Exists(k) /\ UNCHANGED files /\ Finish(n)
  BY <1>3 DEF Remove
<1>5. /\ pc'[n] = step /\ (IF step = "idle" THEN event'[n] = W!NoEvent ELSE event'[n] = event[n])
      /\ event[n] # W!NoEvent
      /\ \A m \in Notifier \ {n} : UNCHANGED <<pc[m], event[m]>>
      /\ \A m \in Notifier : UNCHANGED sweep[m]
      /\ pc' \in [Notifier -> Step]
      /\ event' \in [Notifier -> W!Event \cup {W!NoEvent}]
      /\ sweep' \in [Notifier -> SUBSET Key]
      /\ \A m \in Notifier : pc'[m] = "idle" => sweep'[m] = {} /\ event'[m] = W!NoEvent
  <2>1. step \in Step \ {"sweep", "sweepRemove"}
    BY DEF Step
  <2>2. \/ step = "idle" /\ Finish(n)
        \/ step # "idle" /\ Continue(n, step)
    BY <1>4
  <2> QED
    BY <1>2, <2>1, <2>2, Moves
<1>6. RegistryInv' /\ FreshInv' /\ PlacesInv'
  BY <1>2, WatchesKept DEF hvars
<1>7. /\ file' \in [Key -> Value \cup {Absent, Empty, Mixed}]
      /\ file'[k] = Absent /\ \A l \in Key \ {k} : file'[l] = file[l]
      /\ linked' \subseteq linked
      /\ \A m \in Notifier, l \in Key \ {k} : <<m, l>> \in linked => <<m, l>> \in linked'
  <2>1. file \in [Key -> Value \cup {Absent, Empty, Mixed}]
    BY <1>1 DEF FilepathTypeOK, FilesTypeOK
  <2>2. CASE RemoveFile(k)
    BY <2>1, <2>2 DEF RemoveFile
  <2>3. CASE ~Exists(k) /\ UNCHANGED files
    BY <2>1, <2>3 DEF Exists, files
  <2> QED
    BY <1>4, <2>2, <2>3
<1>8. FilepathTypeOK'
  <2>1. FilesTypeOK' /\ (~dir => \A l \in Key : ~Exists(l)')
    BY <1>1, <1>7 DEF FilepathTypeOK, FilesTypeOK, Exists
  <2> QED
    BY <1>1, <1>2, <1>5, <2>1 DEF FilepathTypeOK, wvars, hvars
<1>9. OperationsInv'
  BY <1>1, <1>2, <1>5, OperationsKept DEF wvars, Step, OperationsInv
<1>10. LinkedInv'
  <2> SUFFICES ASSUME NEW w \in linked' PROVE Writes(w[1], w[2])'
    BY DEF LinkedInv
  <2>1. w[1] \in Notifier /\ Writes(w[1], w[2])
    BY <1>1, <1>7 DEF FilepathTypeOK, FilesTypeOK, LinkedInv
  <2>2. w[1] # n
    BY <1>2, <2>1 DEF Writes
  <2> QED
    BY <1>5, <2>1, <2>2 DEF Writes, On
<1>11. AloneInv' /\ TornInv' /\ KnowledgeInv'
  <2>1. k \notin raced => step = "notify" /\ Decodes(k) /\ event[n].type = "Deleted"
    BY <1>1, <1>2, <1>3, <1>4, JSONFilesAssumption DEF AloneInv, OperationsInv, Decodes, Exists
  <2>2. ~Exists(k)' /\ ~Decodes(k)'
    BY <1>7, JSONFilesAssumption DEF Exists, Decodes
  <2>3. UNCHANGED <<stage, items, view, channel, id, watchers, toRead, raced, spoilt, untold, toNotify>>
    BY <1>2 DEF wvars, hvars
  <2>4. k \notin raced => file'[k] = WP!Outcome(event[n])
    BY <1>7, <2>1 DEF WP!Outcome
  <2>5. k \notin raced \cup spoilt' =>
          \A c \in Client \ Subscribing : (k \notin spoilt => InFlight(n, c, k)) =>
            /\ event'[n] = W!NoEvent => Expects(c, k, file[k])'
            /\ event'[n] # W!NoEvent => InFlight(n, c, k)'
    BY <1>5, <2>1 DEF InFlight
  <2>6. k \notin raced =>
          /\ On(n, k)' =>
               /\ pc'[n] = "fill" => <<n, k>> \in linked' /\ file'[k] = Empty
               /\ pc'[n] = "remove" => Decodes(k)'
               /\ pc'[n] \in {"notify", "notifying"} => file'[k] = WP!Outcome(event[n])
          /\ k \in spoilt' => ~Decodes(k)'
          /\ Exists(k)' /\ ~Decodes(k)' => k \in spoilt' \/ Writes(n, k)'
    BY <1>5, <2>1, <2>2, <2>4
  <2>7. \A l \in Key \ {k} :
          /\ UNCHANGED file[l]
          /\ l \notin raced => (l \in spoilt' <=> l \in spoilt)
          /\ \A m \in Notifier : <<m, l>> \in linked => <<m, l>> \in linked'
    BY <1>7, <2>3
  <2>8. event'[n] = W!NoEvent \/ event'[n] = event[n]
    BY <1>5
  <2> QED
    BY <1>3, <1>5, <2>3, <2>5, <2>6, <2>7, <2>8, LocalStep
<1> QED
  BY <1>6, <1>8, <1>9, <1>10, <1>11 DEF IInv

\* Every client that is registered is told.
LEMMA NotifyWatchersKeeps ==
  ASSUME IInv, NEW n \in Notifier, NotifyWatchers(n)
  PROVE  IInv'
<1>1. FilepathTypeOK /\ RegistryInv /\ FreshInv /\ OperationsInv /\ LinkedInv /\ AloneInv /\ TornInv /\ PlacesInv
  BY DEF IInv
<1>2. /\ pc[n] = "notify" /\ Continue(n, "notifying")
      /\ notifying' = notifying \cup {n}
      /\ toNotify' = [toNotify EXCEPT ![n] = W!Registered]
      /\ UNCHANGED <<stage, items, view, channel, id, watchers, event>>
      /\ UNCHANGED <<hvars, files, dir, toRead, ops, faults>>
  BY DEF NotifyWatchers, W!Notify, W!clients, W!registry
<1>3. PICK k \in Key : k = event[n].key /\ On(n, k)
  BY <1>2, BusyEvent
<1>4. /\ pc'[n] = "notifying" /\ event'[n] = event[n] /\ event[n] # W!NoEvent
      /\ \A m \in Notifier \ {n} : UNCHANGED <<pc[m], event[m]>>
      /\ \A m \in Notifier : UNCHANGED sweep[m]
      /\ pc' \in [Notifier -> Step]
      /\ event' \in [Notifier -> W!Event \cup {W!NoEvent}]
      /\ sweep' \in [Notifier -> SUBSET Key]
      /\ \A m \in Notifier : pc'[m] = "idle" => sweep'[m] = {} /\ event'[m] = W!NoEvent
  BY <1>2, Moves DEF Step
<1>5. W!Registered \subseteq W!ID /\ UNCHANGED W!Registered
  BY <1>2 DEF W!Registered
<1>6. /\ toNotify' \in [Notifier -> SUBSET W!ID] /\ toNotify'[n] = W!Registered
      /\ \A m \in Notifier \ {n} : toNotify'[m] = toNotify[m]
  BY <1>1, <1>2, <1>5 DEF FilepathTypeOK
<1>7. RegistryInv' /\ FreshInv' /\ PlacesInv'
  <2>1. RegistryInv'
    BY <1>1, <1>2, <1>5, <1>6 DEF RegistryInv
  <2> QED
    BY <1>1, <1>2, <1>5, <2>1 DEF FreshInv, PlacesInv, InWatch, hvars
<1>8. FilepathTypeOK'
  BY <1>1, <1>2, <1>4, <1>6 DEF FilepathTypeOK, FilesTypeOK, files, hvars, Exists
<1>9. OperationsInv'
  BY <1>1, <1>2, <1>4, OperationsKept DEF Step, OperationsInv
<1>10. LinkedInv'
  <2> SUFFICES ASSUME NEW w \in linked PROVE Writes(w[1], w[2])'
    BY <1>2 DEF LinkedInv, files
  <2>1. w[1] \in Notifier /\ Writes(w[1], w[2])
    BY <1>1 DEF FilepathTypeOK, FilesTypeOK, LinkedInv
  <2>2. w[1] # n
    BY <1>2, <2>1 DEF Writes
  <2> QED
    BY <1>4, <2>1, <2>2 DEF Writes, On
<1>11. AloneInv' /\ TornInv' /\ KnowledgeInv'
  <2>1. \A c \in Client \ Subscribing : InFlight(n, c, k)'
    <3> SUFFICES ASSUME NEW c \in Client \ Subscribing, ~Awaits(c, n)'
                 PROVE  \A x : Expects(c, k, x)'
      BY DEF InFlight
    <3>1. stage'[c] \notin {"read", "push"}
      BY <1>2 DEF Subscribing
    <3>2. watchers[id[c]] = c => id[c] \in W!Registered
      BY <1>1, FilepathAssumption DEF FilepathTypeOK, W!Registered
    <3>3. ~(stage'[c] = "watching" /\ watchers'[id'[c]] = c)
      BY <1>2, <1>6, <3>2 DEF Awaits
    <3> QED
      BY <3>1, <3>3 DEF Expects
  <2>2. UNCHANGED <<stage, items, view, channel, id, watchers, toRead, raced, spoilt, untold, file, linked>>
    BY <1>2 DEF hvars, files
  <2>3. k \notin raced =>
          /\ On(n, k)' =>
               /\ pc'[n] = "fill" => <<n, k>> \in linked' /\ file'[k] = Empty
               /\ pc'[n] = "remove" => Decodes(k)'
               /\ pc'[n] \in {"notify", "notifying"} => file'[k] = WP!Outcome(event[n])
          /\ k \in spoilt' => ~Decodes(k)'
          /\ Exists(k)' /\ ~Decodes(k)' => k \in spoilt' \/ Writes(n, k)'
    <3> SUFFICES ASSUME k \notin raced
                 PROVE  /\ file[k] = WP!Outcome(event[n])
                        /\ k \in spoilt => ~Decodes(k)
                        /\ Exists(k) /\ ~Decodes(k) => k \in spoilt
      BY <1>4, <2>2 DEF Exists, Decodes
    <3>1. \A m \in Notifier : ~Writes(m, k)
      BY <1>1, <1>2, <1>3 DEF AloneInv, WorksOn, On, Writes
    <3> QED
      BY <1>1, <1>2, <1>3, <3>1 DEF AloneInv, TornInv
  <2>4. \A l \in Key \ {k} :
          /\ UNCHANGED file[l]
          /\ l \notin raced => (l \in spoilt' <=> l \in spoilt)
          /\ \A m \in Notifier : <<m, l>> \in linked => <<m, l>> \in linked'
    BY <2>2
  <2>5. \A m \in Notifier \ {n} : UNCHANGED <<pc[m], event[m], toNotify[m]>>
    BY <1>4, <1>6
  <2> QED
    BY <1>3, <1>4, <2>1, <2>2, <2>3, <2>4, <2>5, LocalStep
<1> QED
  BY <1>7, <1>8, <1>9, <1>10, <1>11 DEF IInv

\* Everybody who follows the file knows it.
LEMMA NotifiedKeeps ==
  ASSUME IInv, NEW n \in Notifier, Notified(n)
  PROVE  IInv'
<1>1. FilepathTypeOK /\ RegistryInv /\ FreshInv /\ OperationsInv /\ LinkedInv /\ AloneInv /\ TornInv /\ PlacesInv
  BY DEF IInv
<1>2. /\ pc[n] = "notifying" /\ Finish(n)
      /\ toNotify[n] = {} /\ notifying' = notifying \ {n}
      /\ UNCHANGED <<stage, items, view, channel, id, watchers, toNotify>>
      /\ UNCHANGED <<hvars, files, dir, toRead, ops, faults>>
  BY DEF Notified, W!EndNotify, W!clients, W!registry
<1>3. PICK k \in Key : k = event[n].key /\ On(n, k)
  BY <1>2, BusyEvent
<1>4. /\ pc'[n] = "idle" /\ event'[n] = W!NoEvent /\ event[n] # W!NoEvent
      /\ \A m \in Notifier \ {n} : UNCHANGED <<pc[m], event[m]>>
      /\ \A m \in Notifier : UNCHANGED sweep[m]
      /\ pc' \in [Notifier -> Step]
      /\ event' \in [Notifier -> W!Event \cup {W!NoEvent}]
      /\ sweep' \in [Notifier -> SUBSET Key]
      /\ \A m \in Notifier : pc'[m] = "idle" => sweep'[m] = {} /\ event'[m] = W!NoEvent
  BY <1>2, Moves DEF Step
<1>5. UNCHANGED W!Registered
  BY <1>2 DEF W!Registered
<1>6. RegistryInv' /\ FreshInv' /\ PlacesInv'
  BY <1>1, <1>2, <1>5 DEF RegistryInv, FreshInv, PlacesInv, InWatch, hvars
<1>7. FilepathTypeOK'
  BY <1>1, <1>2, <1>4 DEF FilepathTypeOK, FilesTypeOK, files, hvars, Exists
<1>8. OperationsInv'
  BY <1>1, <1>2, <1>4, OperationsKept DEF Step, OperationsInv
<1>9. LinkedInv'
  <2> SUFFICES ASSUME NEW w \in linked PROVE Writes(w[1], w[2])'
    BY <1>2 DEF LinkedInv, files
  <2>1. w[1] \in Notifier /\ Writes(w[1], w[2])
    BY <1>1 DEF FilepathTypeOK, FilesTypeOK, LinkedInv
  <2>2. w[1] # n
    BY <1>2, <2>1 DEF Writes
  <2> QED
    BY <1>4, <2>1, <2>2 DEF Writes, On
<1>10. AloneInv' /\ TornInv' /\ KnowledgeInv'
  <2>1. UNCHANGED <<stage, items, view, channel, id, watchers, toRead, raced, spoilt, untold, file, linked>>
    BY <1>2 DEF hvars, files
  <2>2. k \notin raced => file[k] = WP!Outcome(event[n])
    BY <1>1, <1>2, <1>3 DEF AloneInv
  <2>3. k \notin raced \cup spoilt' =>
          \A c \in Client \ Subscribing : (k \notin spoilt => InFlight(n, c, k)) =>
            /\ event'[n] = W!NoEvent => Expects(c, k, file[k])'
            /\ event'[n] # W!NoEvent => InFlight(n, c, k)'
    <3> SUFFICES ASSUME k \notin raced \cup spoilt', NEW c \in Client \ Subscribing,
                        k \notin spoilt => InFlight(n, c, k)
                 PROVE  Expects(c, k, file[k])'
      BY <1>4
    <3>1. PICK x : x = file[k]
      OBVIOUS
    <3>2. ~Awaits(c, n)
      BY <1>2 DEF Awaits
    <3>3. Expects(c, k, x)
      BY <1>2, <2>1, <2>2, <3>1, <3>2 DEF InFlight
    <3>4. Expects(c, k, x)'
      BY <2>1, <3>3, ExpectsKept
    <3> QED
      BY <2>1, <3>1, <3>4
  <2>4. k \notin raced =>
          /\ On(n, k)' =>
               /\ pc'[n] = "fill" => <<n, k>> \in linked' /\ file'[k] = Empty
               /\ pc'[n] = "remove" => Decodes(k)'
               /\ pc'[n] \in {"notify", "notifying"} => file'[k] = WP!Outcome(event[n])
          /\ k \in spoilt' => ~Decodes(k)'
          /\ Exists(k)' /\ ~Decodes(k)' => k \in spoilt' \/ Writes(n, k)'
    <3> SUFFICES ASSUME k \notin raced
                 PROVE  /\ k \in spoilt => ~Decodes(k)
                        /\ Exists(k) /\ ~Decodes(k) => k \in spoilt
      BY <1>4, <2>1 DEF Exists, Decodes
    <3>1. \A m \in Notifier : ~Writes(m, k)
      BY <1>1, <1>2, <1>3 DEF AloneInv, WorksOn, On, Writes
    <3> QED
      BY <1>1, <1>2, <1>3, <3>1 DEF AloneInv, TornInv
  <2>5. \A l \in Key \ {k} :
          /\ UNCHANGED file[l]
          /\ l \notin raced => (l \in spoilt' <=> l \in spoilt)
          /\ \A m \in Notifier : <<m, l>> \in linked => <<m, l>> \in linked'
    BY <2>1
  <2>6. \A m \in Notifier \ {n} : UNCHANGED <<pc[m], event[m], toNotify[m]>>
    BY <1>2, <1>4
  <2> QED
    BY <1>3, <1>4, <2>1, <2>3, <2>4, <2>5, <2>6, LocalStep
<1> QED
  BY <1>6, <1>7, <1>8, <1>9, <1>10 DEF IInv

-----------------------------------------------------------------------------
(* The watches *)

\* Steps of the watches leave the files and the requests alone.
LEMMA FilesKept ==
  ASSUME IInv, UNCHANGED <<files, pc, sweep, event, raced, spoilt, notifying, dir>>
  PROVE  /\ OperationsInv' /\ LinkedInv' /\ AloneInv' /\ TornInv'
         /\ \A k \in Key : Busy(k)' <=> Busy(k)
         /\ \A n \in Notifier, k \in Key : On(n, k)' <=> On(n, k)
<1>1. OperationsInv /\ LinkedInv /\ AloneInv /\ TornInv
  BY DEF IInv
<1>2. \A n, k : /\ On(n, k)' <=> On(n, k)
                /\ Writes(n, k)' <=> Writes(n, k)
                /\ WorksOn(n, k)' <=> WorksOn(n, k)
  BY DEF On, Writes, WorksOn
<1>3. \A k \in Key : Busy(k)' <=> Busy(k)
  BY <1>2 DEF Busy
<1>4. OperationsInv' /\ LinkedInv'
  BY <1>1, <1>2 DEF OperationsInv, LinkedInv, files
<1>5. AloneInv' /\ TornInv'
  BY <1>1, <1>2 DEF AloneInv, TornInv, Exists, Decodes, files, WP!Outcome
<1> QED
  BY <1>2, <1>3, <1>4, <1>5

\* If what c is to learn of k stays true, then c follows k as before.
LEMMA FollowsKept ==
  ASSUME NEW c \in Client, NEW k \in Key,
         Settled(c, k), \A n \in Notifier : On(n, k) => InFlight(n, c, k),
         UNCHANGED file[k],
         \A n \in Notifier : On(n, k)' <=> On(n, k),
         \A n \in Notifier : On(n, k) => UNCHANGED <<pc[n], event[n]>>,
         \A x : Expects(c, k, x) => Expects(c, k, x)',
         \A n \in Notifier : Awaits(c, n) /\ ~Awaits(c, n)' =>
           \/ stage'[c] \notin {"read", "push", "watching"}
           \/ stage'[c] = "watching" /\ watchers'[id'[c]] # c
  PROVE  Settled(c, k)' /\ \A n \in Notifier : On(n, k)' => InFlight(n, c, k)'
<1>1. Settled(c, k)'
  <2> SUFFICES ASSUME \A n \in Notifier : ~On(n, k)' PROVE Expects(c, k, file[k])'
    BY DEF Settled
  <2>1. \A n \in Notifier : ~On(n, k)
    OBVIOUS
  <2>2. PICK x : x = file[k]
    OBVIOUS
  <2>3. Expects(c, k, x)'
    BY <2>1, <2>2 DEF Settled
  <2> QED
    BY <2>2, <2>3
<1>2. ASSUME NEW n \in Notifier, On(n, k)' PROVE InFlight(n, c, k)'
  <2>1. On(n, k) /\ InFlight(n, c, k) /\ UNCHANGED <<pc[n], event[n]>>
    BY <1>2
  <2> QED
    BY <2>1, InFlightKept
<1> QED
  BY <1>1, <1>2

\* A step that leaves the files and the requests alone leaves the key alone.
LEMMA KeyAlone ==
  ASSUME UNCHANGED <<files, pc, event>>, NEW k \in Key
  PROVE  /\ UNCHANGED file[k]
         /\ \A n \in Notifier : On(n, k)' <=> On(n, k)
         /\ \A n \in Notifier : On(n, k) => UNCHANGED <<pc[n], event[n]>>
BY DEF files, On

\* The same of all clients
LEMMA KnowledgeKept ==
  ASSUME IInv, UNCHANGED <<files, pc, sweep, event, raced, spoilt, untold>>,
         \A c \in Client : stage'[c] \in {"read", "push"} => stage[c] \in {"read", "push"},
         \A c \in Client, k \in Key : \A x : Expects(c, k, x) => Expects(c, k, x)',
         \A c \in Client, n \in Notifier : Awaits(c, n) /\ ~Awaits(c, n)' =>
           \/ stage'[c] \notin {"read", "push", "watching"}
           \/ stage'[c] = "watching" /\ watchers'[id'[c]] # c
  PROVE  KnowledgeInv'
<1>1. KnowledgeInv
  BY DEF IInv
<1>2. \A c \in Subscribing', k \in Key : Busy(k)' => <<c, k>> \in untold'
  BY <1>1 DEF KnowledgeInv, Subscribing, Busy, WorksOn
<1>3. ASSUME NEW c \in Client, NEW k \in Key \ (raced \cup spoilt), <<c, k>> \notin untold
      PROVE  Settled(c, k)' /\ \A n \in Notifier : On(n, k)' => InFlight(n, c, k)'
  <2>1. Settled(c, k) /\ \A n \in Notifier : On(n, k) => InFlight(n, c, k)
    BY <1>1, <1>3 DEF KnowledgeInv
  <2> QED
    BY <2>1, FollowsKept, KeyAlone
<1> QED
  BY <1>2, <1>3 DEF KnowledgeInv

\* A client that has been sent the event of n will know it.
LEMMA SendEventKeeps ==
  ASSUME IInv, NEW n \in Notifier, SendEvent(n)
  PROVE  IInv'
<1>1. FilepathTypeOK /\ RegistryInv /\ FreshInv /\ OperationsInv /\ PlacesInv /\ KnowledgeInv
  BY DEF IInv
<1>2. /\ n \in notifying
      /\ UNCHANGED <<stage, items, view, id, watchers, notifying>>
      /\ UNCHANGED <<hvars, event, files, dir, toRead, pc, sweep, ops, faults>>
  BY DEF SendEvent, W!Send, W!clients, W!registry
<1>3. PICK i \in toNotify[n] :
        /\ Len(channel[watchers[i]]) < Capacity
        /\ channel' = [channel EXCEPT ![watchers[i]] = Append(@, event[n])]
        /\ toNotify' = [toNotify EXCEPT ![n] = @ \ {i}]
  BY DEF SendEvent, W!Send
<1>4. pc[n] = "notifying"
  BY <1>1, <1>2 DEF OperationsInv, FilepathTypeOK
<1>5. PICK c \in Client, e \in W!Event : c = watchers[i] /\ e = event[n]
  <2>1. event[n] \in W!Event
    BY <1>4, BusyEvent
  <2>2. i \in W!Registered
    BY <1>1, <1>2 DEF RegistryInv
  <2>3. watchers \in [W!ID -> Client \cup {NoClient}]
    BY <1>1 DEF FilepathTypeOK
  <2>4. watchers[i] \in Client
    BY <2>2, <2>3 DEF W!Registered
  <2> QED
    BY <2>1, <2>4
<1>6. /\ i \in W!ID /\ id[c] = i /\ stage[c] \in {"watching", "stopping"}
      /\ e.key \in Key /\ On(n, e.key)
  <2>1. i \in W!ID /\ watchers[i] # NoClient
    BY <1>1, <1>2 DEF RegistryInv, W!Registered
  <2>2. id[c] = i /\ stage[c] \in {"watching", "stopping"}
    BY <1>1, <1>5, <2>1 DEF RegistryInv
  <2>3. e.key \in Key /\ On(n, e.key)
    BY <1>4, <1>5, BusyEvent
  <2> QED
    BY <2>1, <2>2, <2>3
<1>7. /\ channel'[c] = Append(channel[c], e)
      /\ \A d \in Client \ {c} : channel'[d] = channel[d]
      /\ channel' \in [Client -> Seq(W!Event)]
      /\ \A d \in Client : Len(channel'[d]) <= Capacity
  <2>1. /\ channel \in [Client -> Seq(W!Event)] /\ \A d \in Client : Len(channel[d]) <= Capacity
        /\ channel' = [channel EXCEPT ![c] = Append(@, e)]
    BY <1>1, <1>3, <1>5 DEF FilepathTypeOK
  <2>2. Append(channel[c], e) \in Seq(W!Event) /\ Len(Append(channel[c], e)) <= Capacity
    BY <1>3, <1>5, <2>1, FilepathAssumption
  <2> QED
    BY <2>1, <2>2
<1>8. /\ toNotify' \in [Notifier -> SUBSET W!ID]
      /\ \A m \in Notifier \ {n} : toNotify'[m] = toNotify[m]
      /\ toNotify'[n] = toNotify[n] \ {i}
  BY <1>1, <1>3 DEF FilepathTypeOK
<1>9. FilepathTypeOK'
  BY <1>1, <1>2, <1>7, <1>8 DEF FilepathTypeOK, FilesTypeOK, files, hvars, Exists
<1>10. RegistryInv' /\ PlacesInv'
  <2>1. UNCHANGED W!Registered
    BY <1>2 DEF W!Registered
  <2>2. RegistryInv'
    BY <1>1, <1>2, <1>8, <2>1 DEF RegistryInv, FilepathTypeOK
  <2> QED
    BY <1>1, <1>2, <2>1, <2>2 DEF PlacesInv, InWatch, hvars
<1>11. FreshInv'
  BY <1>1, <1>2, <1>6, <1>7 DEF FreshInv
<1>12. OperationsInv' /\ LinkedInv' /\ AloneInv' /\ TornInv' /\ \A k \in Key : Busy(k)' <=> Busy(k)
  BY <1>2, FilesKept DEF hvars
<1>13. ASSUME NEW d \in Client, NEW k \in Key, d # c \/ k # e.key
       PROVE  \A x : Expects(d, k, x) => Expects(d, k, x)'
  <2>1. CASE d # c
    BY <1>2, <1>7, <2>1, ExpectsKept
  <2>2. CASE d = c /\ k # e.key
    <3>1. \A x : WP!Knows(c, k, x) => WP!Knows(c, k, x)'
      BY <1>1, <1>2, <1>5, <1>7, <2>2, SameState, Instance, WP!KnowsOther
    <3> QED
      BY <1>2, <1>6, <2>2, <3>1 DEF Expects
  <2> QED
    BY <1>13, <2>1, <2>2
<1>14. ASSUME NEW d \in Client, NEW m \in Notifier, d # c \/ m # n, Awaits(d, m)
       PROVE  Awaits(d, m)'
  BY <1>2, <1>5, <1>6, <1>8, <1>14 DEF Awaits
<1>15. KnowledgeInv'
  <2>1. \A d \in Subscribing', k \in Key : Busy(k)' => <<d, k>> \in untold'
    BY <1>1, <1>2, <1>12 DEF KnowledgeInv, Subscribing, hvars
  <2>2. ASSUME NEW d \in Client, NEW k \in Key \ (raced \cup spoilt), <<d, k>> \notin untold
        PROVE  Settled(d, k)' /\ \A m \in Notifier : On(m, k)' => InFlight(m, d, k)'
    <3>1. Settled(d, k) /\ \A m \in Notifier : On(m, k) => InFlight(m, d, k)
      BY <1>1, <2>2 DEF KnowledgeInv
    <3>2. CASE d # c
      BY <1>2, <1>13, <1>14, <3>1, <3>2, FollowsKept, KeyAlone
    <3>3. CASE d = c /\ k # e.key
      <4>1. \A x : Expects(c, k, x) => Expects(c, k, x)'
        BY <1>13, <3>3
      <4>2. Settled(c, k)'
        <5> SUFFICES ASSUME \A m \in Notifier : ~On(m, k)' PROVE Expects(c, k, file[k])'
          BY DEF Settled
        <5>1. \A m \in Notifier : ~On(m, k)
          BY <1>2 DEF On
        <5>2. PICK x : x = file[k]
          OBVIOUS
        <5>3. Expects(c, k, x)'
          BY <3>1, <3>3, <4>1, <5>1, <5>2 DEF Settled
        <5> QED
          BY <1>2, <5>2, <5>3 DEF files
      <4>3. ASSUME NEW m \in Notifier, On(m, k)' PROVE InFlight(m, c, k)'
        <5>1. On(m, k) /\ m # n
          BY <1>2, <1>5, <3>3, <4>3 DEF On
        <5>2. InFlight(m, c, k)
          BY <3>1, <3>3, <5>1
        <5>3. Awaits(c, m) => Awaits(c, m)'
          BY <1>14, <5>1
        <5> QED
          BY <1>2, <4>1, <5>2, <5>3, InFlightKept
      <4> QED
        BY <3>3, <4>2, <4>3
    <3>4. CASE d = c /\ k = e.key
      <4>1. On(n, k)'
        BY <1>2, <1>6, <3>4 DEF On
      <4>2. \A m \in Notifier : On(m, k)' => m = n
        BY <1>12, <1>2, <2>2, <4>1 DEF AloneInv, WorksOn, On, hvars
      <4>3. WP!Knows(c, k, WP!Outcome(e))'
        BY <1>1, <1>5, <1>7, <3>4, SameState, Instance, WP!KnowsEvent
      <4>4. Expects(c, k, WP!Outcome(e))'
        BY <1>2, <1>6, <4>3 DEF Expects
      <4>5. InFlight(n, c, k)'
        BY <1>2, <1>5, <4>4 DEF InFlight, WP!Outcome
      <4> QED
        BY <3>4, <4>1, <4>2, <4>5 DEF Settled
    <3> QED
      BY <3>2, <3>3, <3>4
  <2> QED
    BY <1>2, <2>1, <2>2 DEF KnowledgeInv, hvars
<1> QED
  BY <1>9, <1>10, <1>11, <1>12, <1>15 DEF IInv

\* What a client and its call of Watch do with the channel
LEMMA WatchingKeeps ==
  ASSUME IInv, NEW c \in Client, Watching(c)
  PROVE  IInv'
<1>1. FilepathTypeOK /\ RegistryInv /\ FreshInv /\ PlacesInv
  BY DEF IInv
<1>2. /\ W!Push(c) \/ W!Receive(c) \/ W!Stop(c)
      /\ UNCHANGED <<id, watchers, notifying, toNotify>>
      /\ UNCHANGED <<event, files, dir, toRead, pc, sweep, ops, faults, hvars>>
  BY DEF Watching, W!Push, W!Receive, W!Stop, W!registry, W!lock
<1>3. /\ stage \in [Client -> W!Stage \cup {"read"}]
      /\ items \in [Client -> SUBSET W!Event]
      /\ channel \in [Client -> Seq(W!Event)] /\ \A d \in Client : Len(channel[d]) <= Capacity
      /\ view \in [Client -> [Key -> Value \cup {Absent}]]
  BY <1>1 DEF FilepathTypeOK
<1>4. /\ stage[c] \in {"push", "watching"}
      /\ stage' \in [Client -> W!Stage \cup {"read"}]
      /\ \A d \in Client : stage'[d] = stage[d] \/ (stage[d] = "watching" /\ stage'[d] = "stopping")
      /\ items' \in [Client -> SUBSET W!Event]
      /\ channel' \in [Client -> Seq(W!Event)] /\ \A d \in Client : Len(channel'[d]) <= Capacity
      /\ view' \in [Client -> [Key -> Value \cup {Absent}]]
      /\ \A d \in Client \ {c} : UNCHANGED <<stage[d], items[d], channel[d], view[d]>>
      /\ \A k \in Key : \A x : Expects(c, k, x) => Expects(c, k, x)'
  <2>1. CASE W!Push(c)
    <3>1. PICK e \in items[c] :
            /\ items' = [items EXCEPT ![c] = @ \ {e}]
            /\ channel' = [channel EXCEPT ![c] = Append(@, e)]
      BY <2>1 DEF W!Push
    <3>2. stage[c] = "push" /\ Len(channel[c]) < Capacity /\ UNCHANGED <<stage, view>>
      BY <2>1 DEF W!Push
    <3>3. e \in W!Event /\ Append(channel[c], e) \in Seq(W!Event) /\ Len(Append(channel[c], e)) <= Capacity
      BY <1>3, <3>2, FilepathAssumption
    <3>4. \A k \in Key : \A x : WP!Lists(c, k, x) => WP!Lists(c, k, x)'
      BY <1>1, <3>1, <3>2, SameState, Instance, WP!PushKnows
    <3>5. \A k \in Key : \A x : Expects(c, k, x) => Expects(c, k, x)'
      BY <3>2, <3>4 DEF Expects
    <3> QED
      BY <1>3, <3>1, <3>2, <3>3, <3>5
  <2>2. CASE W!Receive(c)
    <3> DEFINE e == Head(channel[c])
    <3>1. /\ stage[c] = "watching" /\ channel[c] # <<>> /\ UNCHANGED <<stage, items>>
          /\ channel' = [channel EXCEPT ![c] = Tail(@)] /\ W!Learn(c, e)
      BY <2>2 DEF W!Receive
    <3>2. e \in W!Event /\ Tail(channel[c]) \in Seq(W!Event) /\ Len(Tail(channel[c])) <= Capacity
      BY <1>3, <3>1, FilepathAssumption
    <3>3. e.key \in Key /\ e.value \in Value
      BY <3>2 DEF W!Event
    <3>4. view' \in [Client -> [Key -> Value \cup {Absent}]] /\ \A d \in Client \ {c} : view'[d] = view[d]
      BY <1>3, <3>1, <3>3 DEF W!Learn
    <3>5. WP!Learn(c, Head(channel[c]))
      BY <3>1 DEF W!Learn, WP!Learn
    <3>6. \A k \in Key : \A x : WP!Knows(c, k, x) => WP!Knows(c, k, x)'
      BY <1>1, <3>1, <3>5, SameState, Instance, WP!KnowsReceived
    <3>7. \A k \in Key : \A x : Expects(c, k, x) => Expects(c, k, x)'
      BY <1>2, <3>1, <3>6 DEF Expects
    <3> QED
      BY <1>3, <3>1, <3>2, <3>4, <3>7
  <2>3. CASE W!Stop(c)
    <3>1. /\ stage[c] = "watching" /\ stage' = [stage EXCEPT ![c] = "stopping"]
          /\ UNCHANGED <<items, view, channel>>
      BY <2>3 DEF W!Stop, W!Enter
    <3>2. stage'[c] = "stopping"
      BY <1>3, <3>1
    <3>3. \A k \in Key : \A x : Expects(c, k, x)'
      BY <3>2 DEF Expects
    <3> QED
      BY <1>3, <3>1, <3>3 DEF W!Stage
  <2> QED
    BY <1>2, <2>1, <2>2, <2>3
<1>5. FilepathTypeOK'
  BY <1>1, <1>2, <1>4 DEF FilepathTypeOK, FilesTypeOK, files, hvars, Exists
<1>6. RegistryInv'
  <2>1. UNCHANGED W!Registered
    BY <1>2 DEF W!Registered
  <2> QED
    BY <1>1, <1>2, <1>4, <2>1 DEF RegistryInv, FilepathTypeOK
<1>7. FreshInv'
  <2> SUFFICES ASSUME NEW d \in Client, stage'[d] \in {"new", "list"}
               PROVE  items'[d] = {} /\ channel'[d] = <<>> /\ \A k \in Key : view'[d][k] = Absent
    BY DEF FreshInv
  <2>1. d # c /\ stage[d] \in {"new", "list"} /\ UNCHANGED <<items[d], channel[d], view[d]>>
    BY <1>4
  <2> QED
    BY <1>1, <2>1 DEF FreshInv
<1>8. PlacesInv'
  <2>1. UNCHANGED <<W!Registered, InWatch>>
    BY <1>2, <1>4 DEF W!Registered, InWatch
  <2>2. \A d \in Client :
          /\ stage'[d] = "stopped" <=> stage[d] = "stopped"
          /\ stage'[d] \in {"watching", "stopping"} <=> stage[d] \in {"watching", "stopping"}
    BY <1>4
  <2> QED
    BY <1>1, <1>2, <2>1, <2>2 DEF PlacesInv, hvars
<1>9. OperationsInv' /\ LinkedInv' /\ AloneInv' /\ TornInv'
  BY <1>2, FilesKept DEF hvars
<1>10. KnowledgeInv'
  <2>1. \A d \in Client \ {c}, k \in Key : \A x : Expects(d, k, x) => Expects(d, k, x)'
    BY <1>2, <1>4, ExpectsKept
  <2>2. ASSUME NEW d \in Client, NEW k \in Key PROVE \A x : Expects(d, k, x) => Expects(d, k, x)'
    <3>1. CASE d = c
      BY <1>4, <3>1
    <3>2. CASE d # c
      BY <2>1, <3>2
    <3> QED
      BY <3>1, <3>2
  <2>3. \A d \in Client, n \in Notifier : Awaits(d, n) /\ ~Awaits(d, n)' =>
          stage'[d] \notin {"read", "push", "watching"}
    BY <1>2, <1>4 DEF Awaits
  <2> QED
    BY <1>2, <1>4, <2>2, <2>3, KnowledgeKept DEF hvars
<1> QED
  BY <1>5, <1>6, <1>7, <1>8, <1>9, <1>10 DEF IInv

\* The count is an id nobody has, as long as the ids in use are those below it.
LEMMA StartWatchKeeps ==
  ASSUME IInv, NEW c \in Client, StartWatch(c)
  PROVE  IInv'
<1>1. FilepathTypeOK /\ RegistryInv /\ FreshInv /\ PlacesInv
  BY DEF IInv
<1>2. /\ stage[c] = "new" /\ stage' = [stage EXCEPT ![c] = "list"]
      /\ id' = [id EXCEPT ![c] = Registered]
      /\ overlapped' = (overlapped \/ InWatch # {})
      /\ UNCHANGED <<items, channel, view, watchers, notifying, toNotify>>
      /\ UNCHANGED <<event, files, dir, toRead, pc, sweep, ops, faults, raced, spoilt, untold>>
  BY DEF StartWatch, CountAsID, W!Enter
<1>3. stage \in [Client -> W!Stage \cup {"read"}] /\ id \in [Client -> W!ID]
  BY <1>1 DEF FilepathTypeOK
<1>4. /\ stage' \in [Client -> W!Stage \cup {"read"}] /\ stage'[c] = "list"
      /\ id' \in [Client -> W!ID] /\ id'[c] = Registered
      /\ \A d \in Client \ {c} : stage'[d] = stage[d] /\ id'[d] = id[d]
  BY <1>1, <1>2, <1>3, CountType DEF W!Stage
<1>5. FilepathTypeOK'
  BY <1>1, <1>2, <1>4 DEF FilepathTypeOK, FilesTypeOK, files, Exists
<1>6. UNCHANGED W!Registered
  BY <1>2 DEF W!Registered
<1>7. RegistryInv'
  <2> SUFFICES ASSUME NEW i \in W!ID, watchers[i] # NoClient
               PROVE  id'[watchers[i]] = i /\ stage'[watchers[i]] \in {"watching", "stopping"}
    BY <1>1, <1>2, <1>6 DEF RegistryInv
  <2>1. /\ watchers[i] \in Client /\ id[watchers[i]] = i
        /\ stage[watchers[i]] \in {"watching", "stopping"}
    BY <1>1 DEF RegistryInv, FilepathTypeOK
  <2>2. watchers[i] # c
    BY <1>2, <2>1
  <2> QED
    BY <1>4, <2>1, <2>2
<1>8. FreshInv'
  BY <1>1, <1>2, <1>4 DEF FreshInv
<1>9. PlacesInv'
  <2> SUFFICES ASSUME ~overlapped', \A d \in Client : stage'[d] # "stopped"
               PROVE  /\ \A d \in Client : stage'[d] \in {"watching", "stopping"} => watchers'[id'[d]] = d
                      /\ \A d, f \in InWatch' : d = f
                      /\ \E N \in Nat : W!Registered' = 0..(N - 1) /\ \A d \in InWatch' : id'[d] = N
    BY DEF PlacesInv
  <2>1. ~overlapped /\ InWatch = {} /\ \A d \in Client : stage[d] # "stopped"
    BY <1>2, <1>4
  <2>2. \A d \in InWatch' : d = c
    BY <1>4, <2>1 DEF InWatch
  <2>3. PICK N \in Nat : W!Registered = 0..(N - 1)
    BY <1>1, <2>1 DEF PlacesInv
  <2>4. Registered = N
    <3>1. Cardinality(0..(N - 1)) = IF 0 > N - 1 THEN 0 ELSE (N - 1) - 0 + 1
      BY FS_Interval
    <3> QED
      BY <2>3, <3>1 DEF Registered
  <2>5. \A d \in Client : stage'[d] \in {"watching", "stopping"} => watchers'[id'[d]] = d
    BY <1>1, <1>2, <1>4, <2>1 DEF PlacesInv
  <2> QED
    BY <1>4, <1>6, <2>2, <2>3, <2>4, <2>5
<1>10. OperationsInv' /\ LinkedInv' /\ AloneInv' /\ TornInv'
  BY <1>2, FilesKept
<1>11. KnowledgeInv'
  <2>1. ASSUME NEW d \in Client, NEW k \in Key PROVE \A x : Expects(d, k, x) => Expects(d, k, x)'
    <3>1. CASE d = c
      BY <1>4, <3>1 DEF Expects
    <3>2. CASE d # c
      BY <1>2, <1>4, <3>2, ExpectsKept
    <3> QED
      BY <3>1, <3>2
  <2>2. \A d \in Client, n \in Notifier : Awaits(d, n) => Awaits(d, n)'
    BY <1>2, <1>4 DEF Awaits
  <2>3. \A d \in Client : stage'[d] \in {"read", "push"} => stage[d] \in {"read", "push"}
    BY <1>4
  <2> QED
    BY <1>2, <2>1, <2>2, <2>3, KnowledgeKept
<1> QED
  BY <1>5, <1>7, <1>8, <1>9, <1>10, <1>11 DEF IInv

\* A client that has begun to list is to learn what is in the files.
LEMMA ListNamesKeeps ==
  ASSUME IInv, NEW c \in Client, ListNames(c)
  PROVE  IInv'
<1>1. FilepathTypeOK /\ RegistryInv /\ FreshInv /\ PlacesInv /\ KnowledgeInv
  BY DEF IInv
<1>2. PICK s \in {"read", "failed"} : stage' = [stage EXCEPT ![c] = s]
  BY DEF ListNames, W!Enter
<1>3. /\ stage[c] = "list"
      /\ toRead' = [toRead EXCEPT ![c] = {k \in Key : Exists(k)}]
      /\ untold' = untold \cup ({c} \X {k \in Key : Busy(k)})
      /\ UNCHANGED <<items, channel, view, id, watchers, notifying, toNotify>>
      /\ UNCHANGED <<event, files, dir, pc, sweep, ops, faults, raced, spoilt, overlapped>>
  BY DEF ListNames
<1>4. /\ stage' \in [Client -> W!Stage \cup {"read"}] /\ stage'[c] = s
      /\ toRead' \in [Client -> SUBSET Key] /\ toRead'[c] = {k \in Key : Exists(k)}
      /\ \A d \in Client \ {c} : stage'[d] = stage[d] /\ toRead'[d] = toRead[d]
  BY <1>1, <1>2, <1>3 DEF FilepathTypeOK, W!Stage
<1>5. FilepathTypeOK'
  <2>1. untold' \subseteq Client \X Key
    BY <1>1, <1>3 DEF FilepathTypeOK
  <2> QED
    BY <1>1, <1>3, <1>4, <2>1 DEF FilepathTypeOK, FilesTypeOK, files, Exists
<1>6. UNCHANGED W!Registered
  BY <1>3 DEF W!Registered
<1>7. RegistryInv'
  <2> SUFFICES ASSUME NEW i \in W!ID, watchers[i] # NoClient
               PROVE  id[watchers[i]] = i /\ stage'[watchers[i]] \in {"watching", "stopping"}
    BY <1>1, <1>3, <1>6 DEF RegistryInv
  <2>1. /\ watchers[i] \in Client /\ id[watchers[i]] = i
        /\ stage[watchers[i]] \in {"watching", "stopping"}
    BY <1>1 DEF RegistryInv, FilepathTypeOK
  <2>2. watchers[i] # c
    BY <1>3, <2>1
  <2> QED
    BY <1>4, <2>1, <2>2
<1>8. FreshInv'
  BY <1>1, <1>3, <1>4 DEF FreshInv
<1>9. PlacesInv'
  <2>1. InWatch' \subseteq InWatch
    BY <1>3, <1>4 DEF InWatch
  <2>2. \A d \in Client :
          /\ stage'[d] = "stopped" <=> stage[d] = "stopped"
          /\ stage'[d] \in {"watching", "stopping"} <=> stage[d] \in {"watching", "stopping"}
    BY <1>3, <1>4
  <2> QED
    BY <1>1, <1>3, <1>6, <2>1, <2>2 DEF PlacesInv
<1>10. OperationsInv' /\ LinkedInv' /\ AloneInv' /\ TornInv' /\ \A k \in Key : Busy(k)' <=> Busy(k)
  BY <1>3, FilesKept
<1>11. KnowledgeInv'
  <2>1. ASSUME NEW d \in Subscribing', NEW k \in Key, Busy(k)' PROVE <<d, k>> \in untold'
    <3>1. CASE d = c
      BY <1>3, <1>10, <2>1, <3>1
    <3>2. CASE d # c
      BY <1>1, <1>3, <1>4, <1>10, <2>1, <3>2 DEF KnowledgeInv, Subscribing
    <3> QED
      BY <3>1, <3>2
  <2>2. ASSUME NEW d \in Client, NEW k \in Key \ (raced \cup spoilt), <<d, k>> \notin untold'
        PROVE  Settled(d, k)' /\ \A n \in Notifier : On(n, k)' => InFlight(n, d, k)'
    <3>1. Settled(d, k) /\ \A n \in Notifier : On(n, k) => InFlight(n, d, k)
      BY <1>1, <1>3, <2>2 DEF KnowledgeInv
    <3>2. CASE d # c
      <4>1. \A x : Expects(d, k, x) => Expects(d, k, x)'
        BY <1>3, <1>4, <3>2, ExpectsKept
      <4>2. \A n \in Notifier : Awaits(d, n) => Awaits(d, n)'
        BY <1>3, <1>4, <3>2 DEF Awaits
      <4> QED
        BY <1>3, <3>1, <4>1, <4>2, FollowsKept, KeyAlone
    <3>3. CASE d = c
      <4>1. \A n \in Notifier : ~On(n, k)'
        BY <1>3, <1>10, <2>2, <3>3 DEF Busy, WorksOn, On
      <4>2. items'[c] = {} /\ channel'[c] = <<>> /\ view'[c][k] = Absent
        BY <1>1, <1>3 DEF FreshInv
      <4>3. ~Exists(k) => WP!Lists(c, k, file[k])'
        BY <1>3, <4>2 DEF WP!Lists, WP!Knows, Exists, files
      <4>4. Expects(c, k, file[k])'
        BY <1>4, <4>2, <4>3 DEF Expects
      <4> QED
        BY <3>3, <4>1, <4>4 DEF Settled
    <3> QED
      BY <3>2, <3>3
  <2> QED
    BY <1>3, <2>1, <2>2 DEF KnowledgeInv
<1> QED
  BY <1>5, <1>7, <1>8, <1>9, <1>10, <1>11 DEF IInv

\* A client that has read a file is to learn what it read.
LEMMA ReadNextKeeps ==
  ASSUME IInv, NEW c \in Client, ReadNext(c)
  PROVE  IInv'
<1>1. FilepathTypeOK /\ RegistryInv /\ FreshInv /\ PlacesInv /\ KnowledgeInv
  BY DEF IInv
<1>2. /\ stage[c] = "read"
      /\ UNCHANGED <<channel, view, id, watchers, notifying, toNotify>>
      /\ UNCHANGED <<event, files, dir, pc, sweep, ops, faults, hvars>>
  BY DEF ReadNext
<1>3. /\ stage \in [Client -> W!Stage \cup {"read"}]
      /\ items \in [Client -> SUBSET W!Event] /\ toRead \in [Client -> SUBSET Key]
  BY <1>1 DEF FilepathTypeOK
<1>4. /\ stage' \in [Client -> W!Stage \cup {"read"}] /\ stage'[c] \in {"read", "push", "failed"}
      /\ items' \in [Client -> SUBSET W!Event] /\ toRead' \in [Client -> SUBSET Key]
      /\ \A d \in Client \ {c} : UNCHANGED <<stage[d], items[d], toRead[d]>>
      /\ \A k \in Key : \A x \in {file[k]} : Expects(c, k, x) => Expects(c, k, x)'
  <2>1. CASE toRead[c] = {} /\ W!Enter(c, "push") /\ UNCHANGED <<items, toRead>>
    <3>1. stage' = [stage EXCEPT ![c] = "push"] /\ stage'[c] = "push"
      BY <1>3, <2>1 DEF W!Enter
    <3>2. \A k \in Key : \A x : WP!Knows(c, k, x)' <=> WP!Knows(c, k, x)
      BY <1>2, Instance, WP!KnowsUnchanged
    <3>3. \A k \in Key : \A x : Expects(c, k, x) => Expects(c, k, x)'
      BY <1>2, <2>1, <3>1, <3>2 DEF Expects, WP!Lists, WP!Outcome
    <3> QED
      BY <1>3, <2>1, <3>1, <3>3 DEF W!Stage
  <2>2. CASE /\ toRead[c] # {} /\ Decodes(NextKey(toRead[c])) /\ UNCHANGED stage
             /\ toRead' = [toRead EXCEPT ![c] = @ \ {NextKey(toRead[c])}]
             /\ items' = [items EXCEPT ![c] = @ \cup {[type |-> "Added", key |-> NextKey(toRead[c]),
                                                      value |-> file[NextKey(toRead[c])]]}]
    <3>1. PICK l \in Key, v \in Value : l = NextKey(toRead[c]) /\ v = file[l] /\ l \in toRead[c]
      BY <1>3, <2>2, NextKeyIn DEF Decodes
    <3> DEFINE e == [type |-> "Added", key |-> l, value |-> v]
    <3>2. e \in W!Event /\ e.key = l /\ WP!Outcome(e) = v
      BY DEF W!Event, WP!Outcome
    <3>3. /\ toRead' = [toRead EXCEPT ![c] = @ \ {l}] /\ items' = [items EXCEPT ![c] = @ \cup {e}]
          /\ toRead'[c] = toRead[c] \ {l} /\ items'[c] = items[c] \cup {e}
      BY <1>3, <2>2, <3>1
    <3> HIDE DEF e
    <3>4. ASSUME NEW k \in Key, k # l, NEW x, Expects(c, k, x)
          PROVE  Expects(c, k, x)'
      <4>1. WP!Knows(c, k, x)' <=> WP!Knows(c, k, x)
        BY <1>2, Instance, WP!KnowsUnchanged
      <4>2. CASE k \in toRead[c]
        BY <1>2, <2>2, <3>2, <3>3, <3>4, <4>2 DEF Expects
      <4>3. CASE k \notin toRead[c]
        <5>1. /\ \A f \in items[c] : f.key = k => WP!Outcome(f) = x
              /\ (\A f \in items[c] : f.key # k) => WP!Knows(c, k, x)
          BY <1>2, <3>4, <4>3 DEF Expects, WP!Lists
        <5>2. WP!Lists(c, k, x)'
          <6>1. ASSUME NEW f \in items'[c], f.key = k PROVE WP!Outcome(f) = x
            BY <3>2, <3>3, <3>4, <5>1, <6>1
          <6>2. (\A f \in items'[c] : f.key # k) => WP!Knows(c, k, x)'
            BY <3>3, <4>1, <5>1
          <6> QED
            BY <6>1, <6>2 DEF WP!Lists, WP!Outcome
        <5> QED
          BY <1>2, <2>2, <3>3, <4>3, <5>2 DEF Expects
      <4> QED
        BY <4>2, <4>3
    <3>5. ASSUME Expects(c, l, v) PROVE Expects(c, l, v)'
      <4>1. \A f \in items[c] : f.key # l
        BY <1>2, <3>1, <3>5 DEF Expects
      <4>2. WP!Lists(c, l, v)'
        BY <3>2, <3>3, <4>1 DEF WP!Lists, WP!Outcome
      <4> QED
        BY <1>2, <2>2, <3>3, <4>2 DEF Expects
    <3> QED
      BY <1>2, <1>3, <2>2, <3>1, <3>2, <3>3, <3>4, <3>5
  <2>3. CASE /\ W!Enter(c, "failed")
             /\ toRead' = [toRead EXCEPT ![c] = {}] /\ items' = [items EXCEPT ![c] = {}]
    <3>1. stage' = [stage EXCEPT ![c] = "failed"] /\ stage'[c] = "failed"
      BY <1>3, <2>3 DEF W!Enter
    <3>2. \A k \in Key : \A x : Expects(c, k, x)'
      BY <3>1 DEF Expects
    <3> QED
      BY <1>3, <2>3, <3>1, <3>2 DEF W!Stage
  <2> QED
    BY <2>1, <2>2, <2>3 DEF ReadNext
<1>5. FilepathTypeOK'
  BY <1>1, <1>2, <1>4 DEF FilepathTypeOK, FilesTypeOK, files, hvars, Exists
<1>6. UNCHANGED W!Registered
  BY <1>2 DEF W!Registered
<1>7. RegistryInv'
  <2> SUFFICES ASSUME NEW i \in W!ID, watchers[i] # NoClient
               PROVE  id[watchers[i]] = i /\ stage'[watchers[i]] \in {"watching", "stopping"}
    BY <1>1, <1>2, <1>6 DEF RegistryInv
  <2>1. /\ watchers[i] \in Client /\ id[watchers[i]] = i
        /\ stage[watchers[i]] \in {"watching", "stopping"}
    BY <1>1 DEF RegistryInv, FilepathTypeOK
  <2>2. watchers[i] # c
    BY <1>2, <2>1
  <2> QED
    BY <1>4, <2>1, <2>2
<1>8. FreshInv'
  BY <1>1, <1>2, <1>4 DEF FreshInv
<1>9. PlacesInv'
  <2>1. InWatch' \subseteq InWatch
    BY <1>2, <1>4 DEF InWatch
  <2>2. \A d \in Client :
          /\ stage'[d] = "stopped" <=> stage[d] = "stopped"
          /\ stage'[d] \in {"watching", "stopping"} <=> stage[d] \in {"watching", "stopping"}
    BY <1>2, <1>4
  <2> QED
    BY <1>1, <1>2, <1>6, <2>1, <2>2 DEF PlacesInv, hvars
<1>10. /\ OperationsInv' /\ LinkedInv' /\ AloneInv' /\ TornInv'
       /\ \A k \in Key : Busy(k)' <=> Busy(k)
       /\ \A n \in Notifier, k \in Key : On(n, k)' <=> On(n, k)
  BY <1>2, FilesKept DEF hvars
<1>11. KnowledgeInv'
  <2>1. Subscribing' \subseteq Subscribing
    BY <1>2, <1>4 DEF Subscribing
  <2>2. ASSUME NEW d \in Client, NEW k \in Key \ (raced \cup spoilt), <<d, k>> \notin untold
        PROVE  Settled(d, k)' /\ \A n \in Notifier : On(n, k)' => InFlight(n, d, k)'
    <3>1. Settled(d, k) /\ \A n \in Notifier : On(n, k) => InFlight(n, d, k)
      BY <1>1, <2>2 DEF KnowledgeInv
    <3>2. CASE d # c
      <4>1. \A x : Expects(d, k, x) => Expects(d, k, x)'
        BY <1>2, <1>4, <3>2, ExpectsKept
      <4>2. \A n \in Notifier : Awaits(d, n) => Awaits(d, n)'
        BY <1>2, <1>4, <3>2 DEF Awaits
      <4> QED
        BY <1>2, <3>1, <4>1, <4>2, FollowsKept, KeyAlone
    <3>3. CASE d = c
      <4>1. ~Busy(k)
        BY <1>1, <1>2, <2>2, <3>3 DEF KnowledgeInv, Subscribing
      <4>2. \A n \in Notifier : ~On(n, k)
        BY <4>1 DEF Busy, WorksOn, On
      <4>3. PICK x : x = file[k]
        OBVIOUS
      <4>4. Expects(c, k, x)'
        BY <1>4, <3>1, <3>3, <4>2, <4>3 DEF Settled
      <4>5. Expects(c, k, file[k])'
        BY <1>2, <4>3, <4>4 DEF files
      <4> QED
        BY <1>10, <3>3, <4>2, <4>5 DEF Settled
    <3> QED
      BY <3>2, <3>3
  <2> QED
    BY <1>1, <1>2, <1>10, <2>1, <2>2 DEF KnowledgeInv, hvars
<1> QED
  BY <1>5, <1>7, <1>8, <1>9, <1>10, <1>11 DEF IInv

\* Whoever loses its place is promised nothing more.
LEMMA RegisterKeeps ==
  ASSUME IInv, NEW c \in Client, Register(c)
  PROVE  IInv'
<1>1. FilepathTypeOK /\ RegistryInv /\ FreshInv /\ PlacesInv
  BY DEF IInv
<1>2. /\ stage[c] = "push" /\ items[c] = {} /\ notifying = {}
      /\ watchers' = [watchers EXCEPT ![id[c]] = c]
      /\ stage' = [stage EXCEPT ![c] = "watching"]
      /\ UNCHANGED <<items, channel, view, id, notifying, toNotify>>
      /\ UNCHANGED <<event, files, dir, toRead, pc, sweep, ops, faults, hvars>>
  BY DEF Register, W!Enter
<1>3. /\ stage' \in [Client -> W!Stage \cup {"read"}] /\ stage'[c] = "watching"
      /\ \A d \in Client \ {c} : stage'[d] = stage[d]
      /\ id[c] \in W!ID /\ watchers' \in [W!ID -> Client \cup {NoClient}] /\ watchers'[id[c]] = c
      /\ \A i \in W!ID \ {id[c]} : watchers'[i] = watchers[i]
  BY <1>1, <1>2 DEF FilepathTypeOK, W!Stage
<1>4. FilepathTypeOK'
  BY <1>1, <1>2, <1>3 DEF FilepathTypeOK, FilesTypeOK, files, hvars, Exists
<1>5. RegistryInv'
  <2> SUFFICES ASSUME NEW i \in W!ID, watchers'[i] # NoClient
               PROVE  id[watchers'[i]] = i /\ stage'[watchers'[i]] \in {"watching", "stopping"}
    BY <1>2 DEF RegistryInv
  <2>1. CASE i = id[c]
    BY <1>3, <2>1
  <2>2. CASE i # id[c]
    <3>1. /\ watchers'[i] = watchers[i] /\ watchers[i] \in Client /\ id[watchers[i]] = i
          /\ stage[watchers[i]] \in {"watching", "stopping"}
      BY <1>1, <1>3, <2>2 DEF RegistryInv, FilepathTypeOK
    <3> QED
      BY <1>3, <2>2, <3>1
  <2> QED
    BY <2>1, <2>2
<1>6. FreshInv'
  BY <1>1, <1>2, <1>3 DEF FreshInv
<1>7. PlacesInv'
  <2> SUFFICES ASSUME ~overlapped, \A d \in Client : stage'[d] # "stopped"
               PROVE  /\ \A d \in Client : stage'[d] \in {"watching", "stopping"} => watchers'[id[d]] = d
                      /\ \A d, f \in InWatch' : d = f
                      /\ \E N \in Nat : W!Registered' = 0..(N - 1) /\ \A d \in InWatch' : id[d] = N
    BY <1>2 DEF PlacesInv, hvars
  <2>1. \A d \in Client : stage[d] # "stopped"
    BY <1>2, <1>3
  <2>2. /\ \A d \in Client : stage[d] \in {"watching", "stopping"} => watchers[id[d]] = d
        /\ \A d, f \in InWatch : d = f
    BY <1>1, <2>1 DEF PlacesInv
  <2>3. PICK N \in Nat : W!Registered = 0..(N - 1) /\ \A d \in InWatch : id[d] = N
    BY <1>1, <2>1 DEF PlacesInv
  <2>4. c \in InWatch /\ id[c] = N
    BY <1>2, <2>3 DEF InWatch
  <2>5. InWatch' = {}
    BY <1>3, <2>2, <2>4 DEF InWatch
  <2>6. ASSUME NEW d \in Client, stage'[d] \in {"watching", "stopping"} PROVE watchers'[id[d]] = d
    <3>1. CASE d = c
      BY <1>3, <3>1
    <3>2. CASE d # c
      <4>1. watchers[id[d]] = d /\ id[d] \in W!ID
        BY <1>1, <1>3, <2>2, <2>6, <3>2 DEF FilepathTypeOK
      <4>2. id[d] \in W!Registered
        BY <4>1, FilepathAssumption DEF W!Registered
      <4>3. id[d] # N
        BY <2>3, <4>2
      <4> QED
        BY <1>3, <2>4, <4>1, <4>3
    <3> QED
      BY <3>1, <3>2
  <2>7. W!Registered' = 0..((N + 1) - 1)
    <3>1. W!Registered' = W!Registered \cup {id[c]}
      BY <1>3, FilepathAssumption DEF W!Registered
    <3>2. 0..((N + 1) - 1) = 0..(N - 1) \cup {N}
      OBVIOUS
    <3> QED
      BY <2>3, <2>4, <3>1, <3>2
  <2>8. N + 1 \in Nat
    OBVIOUS
  <2> QED
    BY <2>5, <2>6, <2>7, <2>8
<1>8. OperationsInv' /\ LinkedInv' /\ AloneInv' /\ TornInv'
  BY <1>2, FilesKept DEF hvars
<1>9. KnowledgeInv'
  <2>1. ASSUME NEW d \in Client, watchers'[id[d]] = d, d # c PROVE watchers[id[d]] = d
    BY <1>1, <1>3, <2>1 DEF FilepathTypeOK
  <2>2. ASSUME NEW d \in Client, NEW k \in Key PROVE \A x : Expects(d, k, x) => Expects(d, k, x)'
    <3>1. CASE d = c
      <4>1. \A x : WP!Knows(c, k, x)' <=> WP!Knows(c, k, x)
        BY <1>2, Instance, WP!KnowsUnchanged
      <4> QED
        BY <1>2, <1>3, <3>1, <4>1 DEF Expects, WP!Lists
    <3>2. CASE d # c
      BY <1>2, <1>3, <2>1, <3>2, ExpectsKept
    <3> QED
      BY <3>1, <3>2
  <2>3. ASSUME NEW d \in Client, NEW n \in Notifier, Awaits(d, n), ~Awaits(d, n)'
        PROVE  stage'[d] = "watching" /\ watchers'[id'[d]] # d
    BY <1>2, <1>3, <2>3 DEF Awaits
  <2>4. \A d \in Client : stage'[d] \in {"read", "push"} => stage[d] \in {"read", "push"}
    BY <1>3
  <2> QED
    BY <1>2, <2>2, <2>3, <2>4, KnowledgeKept DEF hvars
<1> QED
  BY <1>4, <1>5, <1>6, <1>7, <1>8, <1>9 DEF IInv

\* A watch that stops may take the place of another with it; the other expects
\* nothing from then on.
LEMMA UnregisterKeeps ==
  ASSUME IInv, NEW c \in Client, Unregister(c)
  PROVE  IInv'
<1>1. FilepathTypeOK /\ RegistryInv /\ FreshInv
  BY DEF IInv
<1>2. /\ stage[c] = "stopping" /\ notifying = {}
      /\ watchers' = [watchers EXCEPT ![id[c]] = NoClient]
      /\ channel' = [channel EXCEPT ![c] = <<>>]
      /\ stage' = [stage EXCEPT ![c] = "stopped"]
      /\ UNCHANGED <<items, view, id, notifying, toNotify>>
      /\ UNCHANGED <<event, files, dir, toRead, pc, sweep, ops, faults, hvars>>
  BY DEF Unregister, W!Enter
<1>3. /\ stage' \in [Client -> W!Stage \cup {"read"}] /\ stage'[c] = "stopped"
      /\ \A d \in Client \ {c} : stage'[d] = stage[d] /\ channel'[d] = channel[d]
      /\ id[c] \in W!ID /\ watchers' \in [W!ID -> Client \cup {NoClient}]
      /\ watchers'[id[c]] = NoClient
      /\ \A i \in W!ID \ {id[c]} : watchers'[i] = watchers[i]
  BY <1>1, <1>2 DEF FilepathTypeOK, W!Stage
<1>4. channel' \in [Client -> Seq(W!Event)] /\ \A d \in Client : Len(channel'[d]) <= Capacity
  BY <1>1, <1>2, FilepathAssumption DEF FilepathTypeOK
<1>5. FilepathTypeOK'
  BY <1>1, <1>2, <1>3, <1>4 DEF FilepathTypeOK, FilesTypeOK, files, hvars, Exists
<1>6. RegistryInv'
  <2> SUFFICES ASSUME NEW i \in W!ID, watchers'[i] # NoClient
               PROVE  id[watchers'[i]] = i /\ stage'[watchers'[i]] \in {"watching", "stopping"}
    BY <1>2 DEF RegistryInv
  <2>1. i # id[c] /\ watchers'[i] = watchers[i]
    BY <1>3
  <2>2. /\ watchers[i] \in Client /\ id[watchers[i]] = i
        /\ stage[watchers[i]] \in {"watching", "stopping"}
    BY <1>1, <2>1 DEF RegistryInv, FilepathTypeOK
  <2> QED
    BY <1>3, <2>1, <2>2
<1>7. FreshInv'
  BY <1>1, <1>2, <1>3 DEF FreshInv
<1>8. PlacesInv'
  BY <1>3 DEF PlacesInv
<1>9. OperationsInv' /\ LinkedInv' /\ AloneInv' /\ TornInv'
  BY <1>2, FilesKept DEF hvars
<1>10. KnowledgeInv'
  <2>1. ASSUME NEW d \in Client, watchers'[id[d]] = d PROVE watchers[id[d]] = d
    BY <1>1, <1>3, <2>1, FilepathAssumption DEF FilepathTypeOK
  <2>2. ASSUME NEW d \in Client, NEW k \in Key PROVE \A x : Expects(d, k, x) => Expects(d, k, x)'
    <3>1. CASE d = c
      BY <1>3, <3>1 DEF Expects
    <3>2. CASE d # c
      BY <1>2, <1>3, <2>1, <3>2, ExpectsKept
    <3> QED
      BY <3>1, <3>2
  <2>3. ASSUME NEW d \in Client, NEW n \in Notifier, Awaits(d, n), ~Awaits(d, n)'
        PROVE  stage'[d] = "watching" /\ watchers'[id'[d]] # d
    BY <1>2, <1>3, <2>3 DEF Awaits
  <2>4. \A d \in Client : stage'[d] \in {"read", "push"} => stage[d] \in {"read", "push"}
    BY <1>3
  <2> QED
    BY <1>2, <2>2, <2>3, <2>4, KnowledgeKept DEF hvars
<1> QED
  BY <1>5, <1>6, <1>7, <1>8, <1>9, <1>10 DEF IInv

-----------------------------------------------------------------------------
(* Beginnings, and DeleteCollection *)

\* A request begins on keys nothing happens to, or they are raced.
LEMMA BeginKeeps ==
  ASSUME IInv, NEW n \in Notifier, NEW keys \in SUBSET Key, Begin(n, keys),
         \A m \in Notifier \ {n} : UNCHANGED <<pc[m], event[m], sweep[m]>>,
         \A l \in Key : WorksOn(n, l)' => l \in keys,
         pc'[n] \in {"write", "remove", "sweep"},
         \A l \in Key : On(n, l)' /\ pc'[n] = "remove" => Decodes(l)
  PROVE  /\ RegistryInv' /\ FreshInv' /\ LinkedInv' /\ AloneInv' /\ TornInv' /\ PlacesInv'
         /\ KnowledgeInv'
<1>1. FilepathTypeOK /\ OperationsInv /\ LinkedInv /\ AloneInv /\ TornInv /\ KnowledgeInv
  BY DEF IInv
<1>2. /\ pc[n] = "idle"
      /\ raced' = raced \cup {k \in keys : Busy(k)}
      /\ untold' = untold \cup (Subscribing \X keys)
      /\ UNCHANGED <<wvars, files, toRead, spoilt, overlapped>>
  BY DEF Begin
<1>3. /\ RegistryInv' /\ FreshInv' /\ PlacesInv'
      /\ \A c \in Client, k \in Key : \A x : Expects(c, k, x) => Expects(c, k, x)'
  BY <1>2, WatchesKept
<1>4. event[n] = W!NoEvent /\ sweep[n] = {}
  BY <1>1, <1>2 DEF FilepathTypeOK
<1>5. /\ \A l : ~WorksOn(n, l) /\ ~On(n, l) /\ ~Writes(n, l) /\ ~Writes(n, l)'
      /\ \A m \in Notifier \ {n} : \A l :
           /\ WorksOn(m, l)' <=> WorksOn(m, l)
           /\ On(m, l)' <=> On(m, l)
           /\ Writes(m, l)' <=> Writes(m, l)
      /\ \A m, l : On(m, l)' => WorksOn(m, l)'
  BY <1>4 DEF WorksOn, On, Writes
<1>6. \A l \in keys \ raced' : \A m \in Notifier : WorksOn(m, l)' => m = n
  BY <1>2, <1>5 DEF Busy
<1>7. raced \subseteq raced' /\ untold \subseteq untold'
  BY <1>2
<1>8. LinkedInv'
  <2> SUFFICES ASSUME NEW w \in linked PROVE Writes(w[1], w[2])'
    BY <1>2 DEF LinkedInv, files
  <2>1. w[1] \in Notifier /\ Writes(w[1], w[2])
    BY <1>1 DEF FilepathTypeOK, FilesTypeOK, LinkedInv
  <2> QED
    BY <1>5, <2>1
<1>9. AloneInv'
  <2> SUFFICES ASSUME NEW l \in Key \ raced'
               PROVE  /\ \A i, j \in Notifier : WorksOn(i, l)' /\ WorksOn(j, l)' => i = j
                      /\ \A m \in Notifier : On(m, l)' =>
                           /\ pc'[m] = "fill" => <<m, l>> \in linked' /\ file'[l] = Empty
                           /\ pc'[m] = "remove" => Decodes(l)'
                           /\ pc'[m] \in {"notify", "notifying"} => file'[l] = WP!Outcome(event[m])'
    BY DEF AloneInv
  <2>1. \A i, j \in Notifier : WorksOn(i, l)' /\ WorksOn(j, l)' => i = j
    <3>1. CASE l \in keys
      BY <1>6, <3>1
    <3>2. CASE l \notin keys
      BY <1>1, <1>5, <1>7, <3>2 DEF AloneInv
    <3> QED
      BY <3>1, <3>2
  <2>2. ASSUME NEW m \in Notifier \ {n}, On(m, l)'
        PROVE  /\ pc'[m] = "fill" => <<m, l>> \in linked' /\ file'[l] = Empty
               /\ pc'[m] = "remove" => Decodes(l)'
               /\ pc'[m] \in {"notify", "notifying"} => file'[l] = WP!Outcome(event[m])'
    BY <1>1, <1>2, <1>5, <1>7, <2>2 DEF AloneInv, files, Decodes, WP!Outcome
  <2>3. Decodes(l)' <=> Decodes(l)
    BY <1>2 DEF Decodes, files
  <2> QED
    BY <2>1, <2>2, <2>3
<1>10. TornInv'
  <2>1. \A l \in Key, m \in Notifier : Writes(m, l)' <=> Writes(m, l)
    BY <1>5
  <2> QED
    BY <1>1, <1>2, <1>7, <2>1 DEF TornInv, files, Exists, Decodes
<1>11. KnowledgeInv'
  <2>1. ASSUME NEW c \in Subscribing', NEW l \in Key, Busy(l)' PROVE <<c, l>> \in untold'
    <3>1. c \in Subscribing
      BY <1>2, <2>1 DEF Subscribing, wvars
    <3>2. CASE l \in keys
      BY <1>2, <3>1, <3>2
    <3>3. CASE l \notin keys
      <4>1. Busy(l)
        BY <1>5, <2>1, <3>3 DEF Busy
      <4> QED
        BY <1>1, <1>7, <3>1, <4>1 DEF KnowledgeInv
    <3> QED
      BY <3>2, <3>3
  <2>2. ASSUME NEW c \in Client, NEW l \in Key \ (raced' \cup spoilt), <<c, l>> \notin untold'
        PROVE  Settled(c, l)' /\ \A m \in Notifier : On(m, l)' => InFlight(m, c, l)'
    <3>1. Settled(c, l) /\ \A m \in Notifier : On(m, l) => InFlight(m, c, l)
      BY <1>1, <1>7, <2>2 DEF KnowledgeInv
    <3>2. CASE On(n, l)'
      <4>1. \A m \in Notifier : On(m, l)' => m = n
        BY <1>5, <1>6, <2>2, <3>2
      <4>2. InFlight(n, c, l)'
        BY DEF InFlight
      <4> QED
        BY <3>2, <4>1, <4>2 DEF Settled
    <3>3. CASE ~On(n, l)'
      <4>1. \A m \in Notifier : On(m, l)' <=> On(m, l)
        BY <1>5, <3>3
      <4>2. \A m \in Notifier : On(m, l) => UNCHANGED <<pc[m], event[m]>>
        BY <1>5
      <4>3. UNCHANGED file[l] /\ \A m \in Notifier : Awaits(c, m) => Awaits(c, m)'
        BY <1>2 DEF wvars, files, Awaits
      <4> QED
        BY <1>3, <3>1, <4>1, <4>2, <4>3, FollowsKept
    <3> QED
      BY <3>2, <3>3
  <2> QED
    BY <1>2, <2>1, <2>2 DEF KnowledgeInv
<1> QED
  BY <1>3, <1>8, <1>9, <1>10, <1>11

\* A request that begins on a key with a step that has changed nothing yet
LEMMA BeginOnKeeps ==
  ASSUME IInv, NEW n \in Notifier, NEW k \in Key, NEW v \in Value,
         NEW step \in {"write", "remove"}, NEW type \in {"Added", "Modified", "Deleted"},
         step = "write" => dir' /\ type # "Deleted",
         step = "remove" => Decodes(k) /\ type = "Deleted",
         dir' \in BOOLEAN, dir => dir',
         BeginOn(n, step, type, k, v)
  PROVE  IInv'
<1>1. FilepathTypeOK /\ OperationsInv
  BY DEF IInv
<1> DEFINE e == [type |-> type, key |-> k, value |-> v]
<1>2. /\ Begin(n, {k}) /\ pc' = [pc EXCEPT ![n] = step] /\ event' = [event EXCEPT ![n] = e]
      /\ UNCHANGED sweep
  BY DEF BeginOn, Goto, SetEvent
<1>3. e \in W!Event /\ e # W!NoEvent /\ e.key = k /\ e.type = type
  BY DEF W!Event, W!NoEvent
<1> HIDE DEF e
<1>4. /\ pc[n] = "idle" /\ sweep[n] = {} /\ pc'[n] = step /\ event'[n] = e
      /\ \A m \in Notifier \ {n} : pc'[m] = pc[m] /\ event'[m] = event[m]
      /\ pc' \in [Notifier -> Step] /\ event' \in [Notifier -> W!Event \cup {W!NoEvent}]
  BY <1>1, <1>2, <1>3 DEF FilepathTypeOK, Begin, Step
<1>5. /\ RegistryInv' /\ FreshInv' /\ LinkedInv' /\ AloneInv' /\ TornInv' /\ PlacesInv'
      /\ KnowledgeInv'
  <2>1. \A l \in Key : WorksOn(n, l)' => l \in {k}
    BY <1>2, <1>3, <1>4 DEF WorksOn
  <2>2. \A l \in Key : On(n, l)' /\ pc'[n] = "remove" => Decodes(l)
    BY <1>3, <1>4 DEF On
  <2>3. \A m \in Notifier \ {n} : UNCHANGED <<pc[m], event[m], sweep[m]>>
    BY <1>2, <1>4
  <2>4. {k} \in SUBSET Key
    OBVIOUS
  <2> QED
    BY <1>2, <1>4, <2>1, <2>2, <2>3, <2>4, BeginKeeps
<1>6. /\ raced' \subseteq raced \cup {k} /\ untold' \subseteq untold \cup (Client \X {k})
      /\ UNCHANGED <<wvars, files, toRead, spoilt>>
  BY <1>2 DEF Begin, Subscribing
<1>7. FilepathTypeOK'
  <2>1. raced' \cup spoilt' \subseteq Key /\ untold' \subseteq Client \X Key
    BY <1>1, <1>6 DEF FilepathTypeOK
  <2>2. \A m \in Notifier : pc'[m] = "idle" => sweep'[m] = {} /\ event'[m] = W!NoEvent
    BY <1>1, <1>2, <1>4 DEF FilepathTypeOK
  <2>3. FilesTypeOK' /\ (~dir' => \A l \in Key : ~Exists(l)')
    BY <1>1, <1>6 DEF FilepathTypeOK, FilesTypeOK, files, Exists
  <2> QED
    BY <1>1, <1>2, <1>4, <1>6, <2>1, <2>2, <2>3 DEF FilepathTypeOK, wvars
<1>8. OperationsInv'
  <2> SUFFICES ASSUME NEW m \in Notifier
               PROVE  /\ m \in notifying' <=> pc'[m] = "notifying"
                      /\ pc'[m] \in {"idle", "sweep", "sweepRemove"} <=> event'[m] = W!NoEvent
                      /\ sweep'[m] # {} => pc'[m] \in {"sweep", "sweepRemove"}
                      /\ pc'[m] = "sweepRemove" => sweep'[m] # {}
                      /\ pc'[m] \in {"write", "fill"} => dir' /\ event'[m].type # "Deleted"
                      /\ pc'[m] = "remove" => event'[m].type = "Deleted"
    BY DEF OperationsInv
  <2>1. UNCHANGED notifying
    BY <1>6 DEF wvars
  <2>2. CASE m = n
    BY <1>1, <1>2, <1>3, <1>4, <2>1, <2>2 DEF OperationsInv
  <2>3. CASE m # n
    BY <1>1, <1>2, <1>4, <2>1, <2>3 DEF OperationsInv
  <2> QED
    BY <2>2, <2>3
<1> QED
  BY <1>5, <1>7, <1>8 DEF IInv

\* So begin Create, Update and Delete.
LEMMA StartKeeps ==
  ASSUME IInv, NEW n \in Notifier, NEW k \in Key
  PROVE  /\ Delete(n, k) => IInv'
         /\ \A v \in Value : Create(n, k, v) \/ Update(n, k, v) => IInv'
<1>1. ASSUME Delete(n, k) PROVE IInv'
  <2>1. PICK x \in Value : x = file[k]
    BY <1>1 DEF Delete, Decodes
  <2>2. dir' \in BOOLEAN /\ dir' = dir
    BY <1>1 DEF Delete, IInv, FilepathTypeOK
  <2> QED
    BY <1>1, <2>1, <2>2, BeginOnKeeps DEF Delete
<1>2. ASSUME NEW v \in Value, Create(n, k, v) \/ Update(n, k, v) PROVE IInv'
  <2>1. dir' = TRUE
    BY <1>2 DEF Create, Update
  <2>2. CASE BeginOn(n, "write", "Added", k, v) \/ BeginOn(n, "write", "Modified", k, v)
    BY <2>1, <2>2, BeginOnKeeps
  <2> QED
    BY <1>2, <2>2 DEF Create, Update
<1> QED
  BY <1>1, <1>2

\* A sweep begins with the files there are.
LEMMA DeleteCollectionKeeps ==
  ASSUME IInv, NEW n \in Notifier, DeleteCollection(n)
  PROVE  IInv'
<1>1. FilepathTypeOK /\ OperationsInv
  BY DEF IInv
<1>2. PICK keys \in SUBSET Key : keys = {k \in Key : Exists(k)}
  OBVIOUS
<1>3. /\ Begin(n, keys) /\ pc' = [pc EXCEPT ![n] = "sweep"]
      /\ sweep' = [sweep EXCEPT ![n] = keys]
      /\ UNCHANGED <<event, dir>>
  BY <1>2 DEF DeleteCollection, Goto
<1>4. /\ pc[n] = "idle" /\ event[n] = W!NoEvent /\ pc'[n] = "sweep"
      /\ \A m \in Notifier \ {n} : pc'[m] = pc[m] /\ sweep'[m] = sweep[m]
      /\ pc' \in [Notifier -> Step] /\ sweep' \in [Notifier -> SUBSET Key] /\ sweep'[n] = keys
  BY <1>1, <1>3 DEF FilepathTypeOK, Begin, Step
<1>5. /\ RegistryInv' /\ FreshInv' /\ LinkedInv' /\ AloneInv' /\ TornInv' /\ PlacesInv'
      /\ KnowledgeInv'
  <2>1. \A l \in Key : WorksOn(n, l)' => l \in keys
    BY <1>3, <1>4 DEF WorksOn
  <2>2. \A m \in Notifier \ {n} : UNCHANGED <<pc[m], event[m], sweep[m]>>
    BY <1>3, <1>4
  <2> QED
    BY <1>3, <1>4, <2>1, <2>2, BeginKeeps
<1>6. /\ raced' \subseteq raced \cup keys /\ untold' \subseteq untold \cup (Client \X keys)
      /\ UNCHANGED <<wvars, files, toRead, spoilt>>
  BY <1>3 DEF Begin, Subscribing
<1>7. FilepathTypeOK'
  <2>1. raced' \cup spoilt' \subseteq Key /\ untold' \subseteq Client \X Key
    BY <1>1, <1>6 DEF FilepathTypeOK
  <2>2. \A m \in Notifier : pc'[m] = "idle" => sweep'[m] = {} /\ event'[m] = W!NoEvent
    BY <1>1, <1>3, <1>4 DEF FilepathTypeOK
  <2>3. FilesTypeOK' /\ (~dir' => \A l \in Key : ~Exists(l)')
    BY <1>1, <1>3, <1>6 DEF FilepathTypeOK, FilesTypeOK, files, Exists
  <2> QED
    BY <1>1, <1>3, <1>4, <1>6, <2>1, <2>2, <2>3 DEF FilepathTypeOK, wvars
<1>8. OperationsInv'
  <2>1. UNCHANGED notifying
    BY <1>6 DEF wvars
  <2> QED
    BY <1>1, <1>3, <1>4, <2>1 DEF OperationsInv
<1> QED
  BY <1>5, <1>7, <1>8 DEF IInv

\* A sweep that reads a file has it to remove, or gives up.
LEMMA SweepReadKeeps ==
  ASSUME IInv, NEW n \in Notifier, SweepRead(n)
  PROVE  IInv'
<1>1. FilepathTypeOK /\ OperationsInv /\ LinkedInv /\ AloneInv /\ TornInv /\ KnowledgeInv
  BY DEF IInv
<1>2. /\ pc[n] = "sweep" /\ event[n] = W!NoEvent
      /\ \/ sweep[n] # {} /\ Continue(n, "sweepRemove")
         \/ Finish(n)
      /\ UNCHANGED <<wvars, hvars, files, dir, toRead, ops, faults>>
  BY <1>1 DEF SweepRead, OperationsInv
<1>3. /\ \/ pc'[n] = "sweepRemove" /\ sweep'[n] = sweep[n] /\ sweep[n] # {}
         \/ pc'[n] = "idle" /\ sweep'[n] = {}
      /\ \A m \in Notifier \ {n} : pc'[m] = pc[m] /\ sweep'[m] = sweep[m]
      /\ \A m \in Notifier : event'[m] = event[m]
      /\ pc' \in [Notifier -> Step] /\ sweep' \in [Notifier -> SUBSET Key]
      /\ event' \in [Notifier -> W!Event \cup {W!NoEvent}]
  <2>1. CASE sweep[n] # {} /\ Continue(n, "sweepRemove")
    BY <1>1, <1>2, <2>1 DEF Continue, Goto, FilepathTypeOK, Step
  <2>2. CASE Finish(n)
    BY <1>1, <1>2, <2>2 DEF Finish, Goto, SetEvent, FilepathTypeOK, Step
  <2> QED
    BY <1>2, <2>1, <2>2
<1>4. /\ RegistryInv' /\ FreshInv' /\ PlacesInv'
      /\ \A c \in Client, k \in Key : \A x : Expects(c, k, x) => Expects(c, k, x)'
  BY <1>2, WatchesKept DEF hvars
<1>5. /\ \A m \in Notifier, k \in Key :
           /\ On(m, k)' <=> On(m, k)
           /\ Writes(m, k)' <=> Writes(m, k)
           /\ WorksOn(m, k)' => WorksOn(m, k)
           /\ On(m, k) => UNCHANGED <<pc[m], event[m]>>
  BY <1>2, <1>3 DEF On, Writes, WorksOn
<1>6. FilepathTypeOK'
  <2>1. \A m \in Notifier : pc'[m] = "idle" => sweep'[m] = {} /\ event'[m] = W!NoEvent
    BY <1>1, <1>2, <1>3 DEF FilepathTypeOK
  <2>2. FilesTypeOK' /\ (~dir' => \A l \in Key : ~Exists(l)')
    BY <1>1, <1>2 DEF FilepathTypeOK, FilesTypeOK, files, Exists
  <2> QED
    BY <1>1, <1>2, <1>3, <2>1, <2>2 DEF FilepathTypeOK, wvars, hvars
<1>7. OperationsInv'
  <2>1. UNCHANGED <<notifying, dir>>
    BY <1>2 DEF wvars
  <2> QED
    BY <1>1, <1>2, <1>3, <2>1 DEF OperationsInv
<1>8. LinkedInv'
  <2> SUFFICES ASSUME NEW w \in linked PROVE Writes(w[1], w[2])'
    BY <1>2 DEF LinkedInv, files
  <2>1. w[1] \in Notifier /\ w[2] \in Key /\ Writes(w[1], w[2])
    BY <1>1 DEF FilepathTypeOK, FilesTypeOK, LinkedInv
  <2> QED
    BY <1>5, <2>1
<1>9. AloneInv'
  <2> SUFFICES ASSUME NEW l \in Key \ raced
               PROVE  /\ \A i, j \in Notifier : WorksOn(i, l)' /\ WorksOn(j, l)' => i = j
                      /\ \A m \in Notifier : On(m, l)' =>
                           /\ pc'[m] = "fill" => <<m, l>> \in linked' /\ file'[l] = Empty
                           /\ pc'[m] = "remove" => Decodes(l)'
                           /\ pc'[m] \in {"notify", "notifying"} => file'[l] = WP!Outcome(event[m])'
    BY <1>2 DEF AloneInv, hvars
  <2>1. \A i, j \in Notifier : WorksOn(i, l)' /\ WorksOn(j, l)' => i = j
    BY <1>1, <1>5 DEF AloneInv
  <2>2. \A m \in Notifier : On(m, l)' =>
          /\ pc'[m] = "fill" => <<m, l>> \in linked' /\ file'[l] = Empty
          /\ pc'[m] = "remove" => Decodes(l)'
          /\ pc'[m] \in {"notify", "notifying"} => file'[l] = WP!Outcome(event[m])'
    BY <1>1, <1>2, <1>5 DEF AloneInv, files, Decodes, WP!Outcome
  <2> QED
    BY <2>1, <2>2
<1>10. TornInv'
  BY <1>1, <1>2, <1>5 DEF TornInv, files, hvars, Exists, Decodes
<1>11. KnowledgeInv'
  <2>1. \A c \in Subscribing', l \in Key : Busy(l)' => <<c, l>> \in untold'
    BY <1>1, <1>2, <1>5 DEF KnowledgeInv, Busy, Subscribing, wvars, hvars
  <2>2. ASSUME NEW c \in Client, NEW l \in Key \ (raced \cup spoilt), <<c, l>> \notin untold
        PROVE  Settled(c, l)' /\ \A m \in Notifier : On(m, l)' => InFlight(m, c, l)'
    <3>1. Settled(c, l) /\ \A m \in Notifier : On(m, l) => InFlight(m, c, l)
      BY <1>1, <2>2 DEF KnowledgeInv
    <3>2. UNCHANGED file[l] /\ \A m \in Notifier : Awaits(c, m) => Awaits(c, m)'
      BY <1>2 DEF wvars, files, Awaits
    <3> QED
      BY <1>4, <1>5, <3>1, <3>2, FollowsKept
  <2> QED
    BY <1>2, <2>1, <2>2 DEF KnowledgeInv, hvars
<1> QED
  BY <1>4, <1>6, <1>7, <1>8, <1>9, <1>10, <1>11 DEF IInv

\* Nobody is told, but then nobody was promised.
LEMMA SweepRemoveKeeps ==
  ASSUME IInv, NEW n \in Notifier, SweepRemove(n)
  PROVE  IInv'
<1>1. FilepathTypeOK /\ OperationsInv /\ LinkedInv /\ AloneInv /\ TornInv /\ KnowledgeInv
  BY DEF IInv
<1>2. pc[n] = "sweepRemove" /\ event[n] = W!NoEvent /\ sweep[n] # {} /\ sweep[n] \subseteq Key
  BY <1>1 DEF SweepRemove, OperationsInv, FilepathTypeOK
<1>3. PICK k \in sweep[n] : k = NextKey(sweep[n])
  BY <1>2, NextKeyIn
<1>4. /\ file' = [file EXCEPT ![k] = Absent] /\ linked' = {w \in linked : w[2] # k}
      /\ sweep' = [sweep EXCEPT ![n] = @ \ {k}]
      /\ untold' = untold \cup ({c \in Client : stage[c] # "new"} \X {k})
      /\ pc' = [pc EXCEPT ![n] = "sweep"]
      /\ UNCHANGED <<wvars, event, dir, toRead, ops, faults, raced, spoilt, overlapped>>
  BY <1>3 DEF SweepRemove, Goto, RemoveFile
<1>5. /\ k \in Key /\ pc'[n] = "sweep" /\ sweep'[n] = sweep[n] \ {k}
      /\ \A m \in Notifier \ {n} : pc'[m] = pc[m] /\ sweep'[m] = sweep[m]
      /\ pc' \in [Notifier -> Step] /\ sweep' \in [Notifier -> SUBSET Key]
      /\ file' \in [Key -> Value \cup {Absent, Empty, Mixed}]
      /\ file'[k] = Absent /\ \A l \in Key \ {k} : file'[l] = file[l]
  BY <1>1, <1>2, <1>4 DEF FilepathTypeOK, FilesTypeOK, Step
<1>6. /\ RegistryInv' /\ FreshInv' /\ PlacesInv'
      /\ \A c \in Client, l \in Key : \A x : Expects(c, l, x) => Expects(c, l, x)'
  BY <1>4, WatchesKept
<1>7. /\ \A m \in Notifier, l \in Key :
           /\ On(m, l)' <=> On(m, l)
           /\ Writes(m, l)' <=> Writes(m, l)
           /\ WorksOn(m, l)' => WorksOn(m, l)
           /\ On(m, l) => UNCHANGED <<pc[m], event[m]>>
  BY <1>2, <1>4, <1>5 DEF On, Writes, WorksOn
<1>8. k \notin raced => \A m \in Notifier : ~On(m, k)
  <2> SUFFICES ASSUME k \notin raced, NEW m \in Notifier, On(m, k) PROVE FALSE
    OBVIOUS
  <2>1. WorksOn(n, k) /\ WorksOn(m, k) /\ m # n
    BY <1>2 DEF WorksOn, On
  <2> QED
    BY <1>1, <1>5, <2>1 DEF AloneInv
<1>9. FilepathTypeOK'
  <2>1. \A m \in Notifier : pc'[m] = "idle" => sweep'[m] = {} /\ event'[m] = W!NoEvent
    BY <1>1, <1>4, <1>5 DEF FilepathTypeOK
  <2>2. FilesTypeOK' /\ (~dir => \A l \in Key : ~Exists(l)')
    BY <1>1, <1>4, <1>5 DEF FilepathTypeOK, FilesTypeOK, Exists
  <2>3. untold' \subseteq Client \X Key
    BY <1>1, <1>4, <1>5 DEF FilepathTypeOK
  <2> QED
    BY <1>1, <1>4, <1>5, <2>1, <2>2, <2>3 DEF FilepathTypeOK, wvars
<1>10. OperationsInv'
  <2>1. UNCHANGED <<notifying, dir, event>>
    BY <1>4 DEF wvars
  <2> QED
    BY <1>1, <1>2, <1>5, <2>1 DEF OperationsInv
<1>11. LinkedInv'
  <2> SUFFICES ASSUME NEW w \in linked PROVE Writes(w[1], w[2])'
    BY <1>4 DEF LinkedInv
  <2>1. w[1] \in Notifier /\ w[2] \in Key /\ Writes(w[1], w[2])
    BY <1>1 DEF FilepathTypeOK, FilesTypeOK, LinkedInv
  <2> QED
    BY <1>7, <2>1
<1>12. AloneInv'
  <2> SUFFICES ASSUME NEW l \in Key \ raced
               PROVE  /\ \A i, j \in Notifier : WorksOn(i, l)' /\ WorksOn(j, l)' => i = j
                      /\ \A m \in Notifier : On(m, l)' =>
                           /\ pc'[m] = "fill" => <<m, l>> \in linked' /\ file'[l] = Empty
                           /\ pc'[m] = "remove" => Decodes(l)'
                           /\ pc'[m] \in {"notify", "notifying"} => file'[l] = WP!Outcome(event[m])'
    BY <1>4 DEF AloneInv
  <2>1. \A i, j \in Notifier : WorksOn(i, l)' /\ WorksOn(j, l)' => i = j
    BY <1>1, <1>7 DEF AloneInv
  <2>2. ASSUME NEW m \in Notifier, On(m, l)'
        PROVE  /\ pc'[m] = "fill" => <<m, l>> \in linked' /\ file'[l] = Empty
               /\ pc'[m] = "remove" => Decodes(l)'
               /\ pc'[m] \in {"notify", "notifying"} => file'[l] = WP!Outcome(event[m])'
    <3>1. l # k /\ On(m, l) /\ UNCHANGED <<pc[m], event[m], file[l]>>
      BY <1>5, <1>7, <1>8, <2>2
    <3>2. <<m, l>> \in linked => <<m, l>> \in linked'
      BY <1>4, <3>1
    <3>3. WP!Outcome(event[m])' = WP!Outcome(event[m])
      BY <3>1 DEF WP!Outcome
    <3> QED
      BY <1>1, <3>1, <3>2, <3>3 DEF AloneInv, Decodes
  <2> QED
    BY <2>1, <2>2
<1>13. TornInv'
  <2> SUFFICES ASSUME NEW l \in Key \ raced
               PROVE  /\ l \in spoilt => ~Decodes(l)'
                      /\ Exists(l)' /\ ~Decodes(l)' => l \in spoilt \/ \E m \in Notifier : Writes(m, l)'
    BY <1>4 DEF TornInv
  <2>1. CASE l = k
    BY <1>5, <2>1, JSONFilesAssumption DEF Exists, Decodes
  <2>2. CASE l # k
    BY <1>1, <1>5, <1>7, <2>2 DEF TornInv, Exists, Decodes
  <2> QED
    BY <2>1, <2>2
<1>14. KnowledgeInv'
  <2>1. \A c \in Subscribing', l \in Key : Busy(l)' => <<c, l>> \in untold'
    BY <1>1, <1>4, <1>7 DEF KnowledgeInv, Busy, Subscribing, wvars
  <2>2. ASSUME NEW c \in Client, NEW l \in Key \ (raced \cup spoilt), <<c, l>> \notin untold'
        PROVE  Settled(c, l)' /\ \A m \in Notifier : On(m, l)' => InFlight(m, c, l)'
    <3>1. Settled(c, l) /\ \A m \in Notifier : On(m, l) => InFlight(m, c, l)
      BY <1>1, <1>4, <2>2 DEF KnowledgeInv
    <3>2. CASE l = k
      <4>1. stage'[c] = "new"
        BY <1>4, <2>2, <3>2 DEF wvars
      <4>2. \A x : Expects(c, l, x)'
        BY <4>1 DEF Expects
      <4> QED
        BY <4>2 DEF Settled, InFlight
    <3>3. CASE l # k
      <4>1. UNCHANGED file[l] /\ \A m \in Notifier : Awaits(c, m) => Awaits(c, m)'
        BY <1>4, <1>5, <3>3 DEF wvars, Awaits
      <4> QED
        BY <1>6, <1>7, <3>1, <4>1, FollowsKept
    <3> QED
      BY <3>2, <3>3
  <2> QED
    BY <1>4, <2>1, <2>2 DEF KnowledgeInv
<1> QED
  BY <1>6, <1>9, <1>10, <1>11, <1>12, <1>13, <1>14 DEF IInv

-----------------------------------------------------------------------------
(* Crashes, and the start *)

\* Nobody is left that has been told anything, and what was being written is
\* spoilt.
LEMMA CrashKeeps ==
  ASSUME IInv, Crash
  PROVE  IInv'
<1>1. FilepathTypeOK /\ FreshInv /\ LinkedInv /\ AloneInv /\ TornInv
  BY DEF IInv
<1>2. /\ linked' = {} /\ UNCHANGED file
      /\ spoilt' = spoilt \cup {w[2] : w \in linked}
      /\ watchers' = [i \in W!ID |-> NoClient]
      /\ stage' = [c \in Client |-> IF stage[c] = "new" THEN "new" ELSE "failed"]
      /\ items' = [c \in Client |-> {}] /\ channel' = [c \in Client |-> <<>>]
      /\ notifying' = {} /\ toNotify' = [n \in Notifier |-> {}]
      /\ event' = [n \in Notifier |-> W!NoEvent]
      /\ toRead' = [c \in Client |-> {}] /\ sweep' = [n \in Notifier |-> {}]
      /\ pc' = [n \in Notifier |-> "idle"]
      /\ UNCHANGED <<view, id, dir, ops, raced, untold, overlapped>>
  BY DEF Crash, CloseFiles
<1>3. \A n \in Notifier : \A k : ~On(n, k)' /\ ~Writes(n, k)' /\ ~WorksOn(n, k)'
  BY <1>2 DEF On, Writes, WorksOn
<1>4. FilepathTypeOK'
  <2>1. spoilt' \subseteq Key
    BY <1>1, <1>2 DEF FilepathTypeOK, FilesTypeOK
  <2>2. FilesTypeOK' /\ (~dir' => \A k \in Key : ~Exists(k)')
    BY <1>1, <1>2 DEF FilepathTypeOK, FilesTypeOK, Exists
  <2>3. /\ stage' \in [Client -> W!Stage \cup {"read"}]
        /\ items' \in [Client -> SUBSET W!Event]
        /\ channel' \in [Client -> Seq(W!Event)] /\ \A c \in Client : Len(channel'[c]) <= Capacity
    BY <1>2, FilepathAssumption DEF W!Stage
  <2>4. /\ watchers' \in [W!ID -> Client \cup {NoClient}]
        /\ notifying' \subseteq Notifier /\ toNotify' \in [Notifier -> SUBSET W!ID]
        /\ event' \in [Notifier -> W!Event \cup {W!NoEvent}]
        /\ toRead' \in [Client -> SUBSET Key] /\ sweep' \in [Notifier -> SUBSET Key]
        /\ pc' \in [Notifier -> Step]
        /\ \A n \in Notifier : pc'[n] = "idle" => sweep'[n] = {} /\ event'[n] = W!NoEvent
    BY <1>2 DEF Step
  <2> QED
    BY <1>1, <1>2, <2>1, <2>2, <2>3, <2>4 DEF FilepathTypeOK
<1>5. RegistryInv' /\ OperationsInv' /\ LinkedInv'
  BY <1>2 DEF RegistryInv, OperationsInv, LinkedInv
<1>6. FreshInv'
  <2> SUFFICES ASSUME NEW c \in Client, stage'[c] \in {"new", "list"}
               PROVE  items'[c] = {} /\ channel'[c] = <<>> /\ \A k \in Key : view'[c][k] = Absent
    BY DEF FreshInv
  <2>1. stage[c] = "new"
    BY <1>2
  <2> QED
    BY <1>1, <1>2, <2>1 DEF FreshInv
<1>7. PlacesInv'
  <2>1. W!Registered' = 0..(0 - 1)
    BY <1>2 DEF W!Registered
  <2>2. InWatch' = {}
    BY <1>2 DEF InWatch
  <2>3. \A c \in Client : stage'[c] \notin {"watching", "stopping"}
    BY <1>2
  <2> QED
    BY <2>1, <2>2, <2>3 DEF PlacesInv
<1>8. AloneInv'
  BY <1>3 DEF AloneInv
<1>9. TornInv'
  <2> SUFFICES ASSUME NEW k \in Key \ raced
               PROVE  /\ k \in spoilt' => ~Decodes(k)
                      /\ Exists(k) /\ ~Decodes(k) => k \in spoilt'
    BY <1>2 DEF TornInv, Exists, Decodes
  <2>1. \A n \in Notifier : Writes(n, k) => <<n, k>> \in linked /\ file[k] = Empty
    BY <1>1 DEF AloneInv, Writes
  <2>2. \A w \in linked : w[2] = k => w[1] \in Notifier /\ Writes(w[1], k)
    BY <1>1 DEF FilepathTypeOK, FilesTypeOK, LinkedInv
  <2>3. k \in spoilt' => ~Decodes(k)
    BY <1>1, <1>2, <2>1, <2>2, JSONFilesAssumption DEF TornInv, Decodes
  <2>4. ASSUME NEW n \in Notifier, Writes(n, k) PROVE k \in spoilt'
    <3>1. <<n, k>> \in linked /\ <<n, k>>[2] = k
      BY <2>1, <2>4
    <3> QED
      BY <1>2, <3>1
  <2> QED
    BY <1>1, <1>2, <2>3, <2>4 DEF TornInv
<1>10. KnowledgeInv'
  <2>1. \A c \in Client : stage'[c] \in {"new", "failed"}
    BY <1>2
  <2>2. \A c \in Client, k \in Key : \A x : Expects(c, k, x)'
    BY <2>1 DEF Expects
  <2>3. \A c \in Client, k \in Key : Settled(c, k)'
    BY <2>2 DEF Settled
  <2>4. Subscribing' = {}
    BY <2>1 DEF Subscribing
  <2> QED
    BY <1>3, <2>3, <2>4 DEF KnowledgeInv
<1> QED
  BY <1>4, <1>5, <1>6, <1>7, <1>8, <1>9, <1>10 DEF IInv

\* The storage starts with no file, nobody at work and nobody watching.
LEMMA FilepathInit == Init => IInv
<1> SUFFICES ASSUME Init PROVE IInv
  OBVIOUS
<1>1. Cardinality(Client) \in Nat /\ 0 \in W!ID
  BY Instance DEF W!ID
<1>2. /\ FilesInit /\ pc = [n \in Notifier |-> "idle"] /\ event = [n \in Notifier |-> W!NoEvent]
      /\ sweep = [n \in Notifier |-> {}] /\ stage = [c \in Client |-> "new"]
      /\ watchers = [i \in W!ID |-> NoClient] /\ notifying = {}
      /\ raced = {} /\ spoilt = {}
  BY DEF Init
<1>3. \A n \in Notifier : \A k : ~On(n, k) /\ ~Writes(n, k) /\ ~WorksOn(n, k)
  BY <1>2 DEF On, Writes, WorksOn
<1>4. FilepathTypeOK
  <2>1. FilesTypeOK /\ \A k \in Key : ~Exists(k)
    BY <1>2 DEF FilesInit, FilesTypeOK, Exists
  <2>2. channel \in [Client -> Seq(W!Event)] /\ \A c \in Client : Len(channel[c]) <= Capacity
    BY FilepathAssumption DEF Init
  <2> QED
    BY <1>1, <2>1, <2>2 DEF Init, FilepathTypeOK, Step, W!Stage
<1>5. RegistryInv /\ FreshInv /\ OperationsInv /\ LinkedInv
  BY DEF Init, FilesInit, RegistryInv, FreshInv, OperationsInv, LinkedInv
<1>6. AloneInv /\ TornInv
  BY <1>2, <1>3 DEF AloneInv, TornInv, FilesInit, Exists
<1>7. PlacesInv
  <2>1. W!Registered = 0..(0 - 1)
    BY <1>2 DEF W!Registered
  <2> QED
    BY <1>2, <2>1 DEF PlacesInv, InWatch
<1>8. KnowledgeInv
  <2>1. \A c \in Client, k \in Key : Settled(c, k)
    BY <1>2 DEF Settled, Expects
  <2> QED
    BY <1>2, <1>3, <2>1 DEF KnowledgeInv, Subscribing
<1> QED
  BY <1>4, <1>5, <1>6, <1>7, <1>8 DEF IInv

-----------------------------------------------------------------------------
(* The theorems *)

\* The inductive invariant holds of every behaviour of the storage.
THEOREM FilepathInvariant == Spec => []IInv
<1>1. IInv /\ [Next]_vars => IInv'
  <2> SUFFICES ASSUME IInv, [Next]_vars PROVE IInv'
    OBVIOUS
  <2>1. ASSUME NEW n \in Notifier, NEW k \in Key,
               Delete(n, k) \/ \E v \in Value : Create(n, k, v) \/ Update(n, k, v)
        PROVE  IInv'
    BY <2>1, StartKeeps
  <2>2. ASSUME NEW n \in Notifier, DeleteCollection(n) \/ Request(n) PROVE IInv'
    BY <2>2, DeleteCollectionKeeps, OpenForWriteKeeps, FillKeeps, RemoveKeeps, WriteFailsKeeps,
       NotifyWatchersKeeps, SendEventKeeps, NotifiedKeeps, SweepReadKeeps, SweepRemoveKeeps
       DEF Request
  <2>3. ASSUME NEW c \in Client, Watch(c) PROVE IInv'
    BY <2>3, StartWatchKeeps, ListNamesKeeps, ReadNextKeeps, RegisterKeeps, UnregisterKeeps,
       WatchingKeeps DEF Watch
  <2>4. CASE Crash
    BY <2>4, CrashKeeps
  <2>5. CASE UNCHANGED vars
    <3>1. FilepathTypeOK /\ KnowledgeInv
      BY DEF IInv
    <3>2. UNCHANGED <<wvars, hvars, event, files, dir, toRead, pc, sweep>>
      BY <2>5 DEF vars
    <3>3. /\ RegistryInv' /\ FreshInv' /\ PlacesInv'
          /\ \A c \in Client, k \in Key : \A x : Expects(c, k, x) => Expects(c, k, x)'
      BY <3>2, WatchesKept DEF hvars
    <3>4. OperationsInv' /\ LinkedInv' /\ AloneInv' /\ TornInv'
      BY <3>2, FilesKept DEF hvars, wvars
    <3>5. FilepathTypeOK'
      BY <3>1, <3>2 DEF FilepathTypeOK, FilesTypeOK, wvars, hvars, files, Exists
    <3>6. KnowledgeInv'
      BY <3>2, <3>3, KnowledgeKept DEF wvars, hvars, Awaits
    <3> QED
      BY <3>3, <3>4, <3>5, <3>6 DEF IInv
  <2> QED
    BY <2>1, <2>2, <2>3, <2>4, <2>5 DEF Next
<1> QED
  BY FilepathInit, <1>1, PTL DEF Spec

\* Every variable of the storage keeps its type, a file has a directory to be
\* in, no channel outgrows its capacity, and an id, which is a count of watches,
\* stays within the number of clients.
THEOREM FilepathTypes == Spec => []FilepathTypeOK
<1>1. IInv => FilepathTypeOK
  BY DEF IInv
<1> QED
  BY <1>1, FilepathInvariant, PTL

\* A file that does not decode is being written, or a write of it failed, was
\* cut short by a crash or overlapped another request, whatever the number of
\* requests, crashes and failures.
THEOREM FilesStayWhole == Spec => []FilesWhole
<1>1. IInv => FilesWhole
  <2> SUFFICES ASSUME IInv, NEW k \in Key, Exists(k), ~Decodes(k), k \notin raced, k \notin spoilt
               PROVE  Busy(k)
    BY DEF FilesWhole
  <2>1. PICK n \in Notifier : Writes(n, k)
    BY DEF IInv, TornInv
  <2> QED
    BY <2>1 DEF Busy, WorksOn, Writes, On
<1> QED
  BY <1>1, FilepathInvariant, PTL

\* A watch keeps its place in the registry as long as no two calls of Watch have
\* overlapped and none has stopped, for any number of watches and crashes: the
\* count is then an id nobody has.
THEOREM PlacesKept == Spec => []DeafOnlyAfterStop
<1>1. IInv => DeafOnlyAfterStop
  BY DEF IInv, PlacesInv, DeafOnlyAfterStop
<1> QED
  BY <1>1, FilepathInvariant, PTL

\* A registered watcher that has received what it was sent knows what the file
\* says, but for the keys of ViewsConverge, through crashes and failed writes,
\* for any number of keys, values, requests and watches.
THEOREM ViewsAgree == Spec => []ViewsConverge
<1>1. IInv => ViewsConverge
  <2> SUFFICES ASSUME IInv, NEW c \in Client, NEW k \in Key, W!Informed(c, k), watchers[id[c]] = c,
                      ~Busy(k), k \notin raced \cup spoilt, <<c, k>> \notin untold
               PROVE  view[c][k] = file[k]
    BY DEF ViewsConverge
  <2>1. Settled(c, k) /\ \A n \in Notifier : ~On(n, k)
    BY DEF IInv, KnowledgeInv, Busy, WorksOn, On
  <2>2. WP!Knows(c, k, file[k])
    BY <2>1 DEF Settled, Expects, W!Informed
  <2> QED
    BY <2>2 DEF WP!Knows, W!Informed
<1> QED
  BY <1>1, FilepathInvariant, PTL
=============================================================================
