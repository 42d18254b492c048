-------------------------- MODULE FileStoreProofs --------------------------
(***************************************************************************)
(* Proofs about FileStore: the types, that a file which does not decode    *)
(* has a cause, and that views converge, for any number of operations,     *)
(* watches and keys and any number of crashes and failed writes.           *)
(***************************************************************************)
EXTENDS FileStore, TLAPS

WP == INSTANCE WatchersProofs WITH Closing <- TRUE

-----------------------------------------------------------------------------
(* The inductive invariant *)

\* n works on k, and is in the middle of writing it.
On(n, k) == pc[n] # "idle" /\ event[n].key = k
Writes(n, k) == pc[n] \in {"fill", "refill"} /\ event[n].key = k

\* The notifiers under the lock are the operations that notify.  Nobody opens a
\* file with a namespace.
OperationsInv ==
  /\ \A n \in Notifier : n \in notifying <=> pc[n] = "notifying"
  /\ \A n \in Notifier : pc[n] \in {"fill", "refill"} => event[n].key \notin Nested

\* On a key without a race there is one operation, the file it writes is its
\* own and still truncated, ...
AloneInv ==
  \A k \in Key \ raced :
    /\ \A m, n \in Notifier : On(m, k) /\ On(n, k) => m = n
    /\ \A n \in Notifier : Writes(n, k) => <<n, k>> \in linked /\ file[k] = Empty

\* ... and a file that does not decode is being written or is known to be
\* spoilt.  What is spoilt does not decode: it was neither listed nor deleted.
TornInv ==
  \A k \in Key \ raced :
    /\ k \in spoilt => ~Decodes(k)
    /\ Exists(k) /\ ~Decodes(k) => k \in spoilt \/ \E n \in Notifier : Writes(n, k)

\* n has yet to send its event to c.
Awaits(c, n) == stage[c] = "watching" /\ id[c] \in toNotify[n]

\* What a client is to learn while n's operation on k is under way, step by
\* step: the old value while an equal one is written, the event from the moment
\* it is sent, and that the object is gone before the file is.
InFlight(n, c, k) ==
  /\ pc[n] \in {"rewrite", "refill"} => WP!Expects(c, k, event[n].value)
  /\ pc[n] \in {"notify", "notifying"} =>
       event[n].type = "Deleted" \/ file[k] = event[n].value
  /\ pc[n] = "notifying" /\ ~Awaits(c, n) => WP!Expects(c, k, WP!Outcome(event[n]))
  /\ pc[n] = "remove" => WP!Expects(c, k, Absent)

\* What c is to learn of k is in the file when nothing is under way, and
\* otherwise what the operation promises.
Follows(c, k) ==
  /\ ~Busy(k) => WP!Expects(c, k, file[k])
  /\ \A n \in Notifier : On(n, k) => InFlight(n, c, k)

\* A client between its list and its registration is not promised what is under
\* way, and a file is written with what it held only if it was not spoilt.
KnowledgeInv ==
  /\ \A c \in Client, k \in Key : stage[c] = "push" /\ Busy(k) => <<c, k>> \in untold
  /\ \A k \in Key \ raced, n \in Notifier :
       On(n, k) /\ pc[n] \in {"rewrite", "refill"} => k \notin spoilt
  /\ \A c \in Client, k \in Key \ (raced \cup spoilt \cup Nested) :
       <<c, k>> \notin untold => Follows(c, k)

IInv ==
  /\ FileStoreTypeOK /\ WP!RegistryInv /\ WP!FreshInv
  /\ OperationsInv /\ AloneInv /\ TornInv /\ KnowledgeInv

-----------------------------------------------------------------------------
(* Lemmas *)

\* The lemmas about Watchers apply.
LEMMA Instance == WP!WatchersAssumption
BY JSONFilesAssumption, FileStoreAssumption

\* The registry of FileStore is the one they are about.
LEMMA SameState ==
  /\ W!WatchersTypeOK <=> WP!WatchersTypeOK
  /\ W!WatchersInit <=> WP!WatchersInit
  /\ W!Event = WP!Event /\ W!NoEvent = WP!NoEvent
BY DEF W!WatchersTypeOK, WP!WatchersTypeOK, W!WatchersInit, WP!WatchersInit,
       W!Event, WP!Event, W!NoEvent, WP!NoEvent, W!ID, WP!ID, W!Stage, WP!Stage

\* The steps of the two instances of Watchers are the same.
LEMMA SameSteps ==
  /\ \A c \in Client :
       /\ W!StartWatch(c) <=> WP!StartWatch(c)
       /\ W!Add(c) <=> WP!Add(c)
       /\ W!Receive(c) <=> WP!Receive(c)
       /\ W!Stop(c) <=> WP!Stop(c)
       /\ W!Del(c) <=> WP!Del(c)
       /\ \A db : W!List(c, db) <=> WP!List(c, db)
       /\ \A k \in Key : W!Informed(c, k) <=> WP!Informed(c, k)
  /\ \A n \in Notifier :
       /\ W!Notify(n) <=> WP!Notify(n)
       /\ W!Send(n) <=> WP!Send(n)
       /\ W!EndNotify(n) <=> WP!EndNotify(n)
BY DEF W!StartWatch, WP!StartWatch, W!Add, WP!Add, W!AllocateID, WP!AllocateID,
       W!Receive, WP!Receive, W!Learn, WP!Learn, W!Stop, WP!Stop, W!Del, WP!Del,
       W!Unregister, WP!Unregister, W!ReleaseID, WP!ReleaseID, W!List, WP!List,
       W!Informed, WP!Informed, W!Notify, WP!Notify, W!Registered, WP!Registered,
       W!Send, WP!Send, W!EndNotify, WP!EndNotify, W!Enter, WP!Enter,
       W!clients, WP!clients, W!registry, WP!registry, W!lock, WP!lock, W!ID, WP!ID

\* The conjuncts of the invariant, and those of its types
LEMMA Parts ==
  IInv => /\ FileStoreTypeOK /\ WP!WatchersTypeOK /\ FilesTypeOK
          /\ WP!RegistryInv /\ WP!FreshInv
          /\ OperationsInv /\ AloneInv /\ TornInv /\ KnowledgeInv
BY SameState DEF IInv, FileStoreTypeOK

\* The step of an operation names the key it works on.
LEMMA BusyEvent ==
  ASSUME IInv, NEW n \in Notifier, pc[n] # "idle"
  PROVE  /\ event[n] \in WP!Event /\ event[n].key \in Key /\ event[n].value \in Value
         /\ On(n, event[n].key)
<1>1. event[n] \in WP!Event
  BY SameState DEF IInv, FileStoreTypeOK, W!WatchersTypeOK
<1> QED
  BY <1>1 DEF WP!Event, On

\* What a client is to learn depends on four variables.
LEMMA ExpectsKept ==
  ASSUME UNCHANGED <<stage, items, view, channel>>
  PROVE  \A c \in Client, k \in Key : \A x : WP!Expects(c, k, x) => WP!Expects(c, k, x)'
BY Instance, WP!ExpectsUnchanged

\* What an operation under way promises of a client stays true while the
\* operation stays where it is and what the client is to learn stays true.
LEMMA InFlightKept ==
  ASSUME NEW n \in Notifier, NEW c \in Client, NEW k \in Key, InFlight(n, c, k),
         UNCHANGED <<pc[n], event[n], file[k]>>,
         Awaits(c, n) => Awaits(c, n)' \/ stage'[c] \notin {"push", "watching"},
         \A x : WP!Expects(c, k, x) => WP!Expects(c, k, x)'
  PROVE  InFlight(n, c, k)'
<1>1. PICK v, o : v = event[n].value /\ o = WP!Outcome(event[n])
  OBVIOUS
<1>2. v = event'[n].value /\ o = WP!Outcome(event[n])'
  BY <1>1 DEF WP!Outcome
<1>3. pc[n] \in {"rewrite", "refill"} => WP!Expects(c, k, v)'
  BY <1>1 DEF InFlight
<1>4. pc[n] = "notifying" /\ ~Awaits(c, n)' => WP!Expects(c, k, o)'
  <2>1. CASE ~Awaits(c, n)
    BY <1>1, <2>1 DEF InFlight
  <2>2. CASE stage'[c] \notin {"push", "watching"}
    BY <2>2 DEF WP!Expects
  <2> QED
    BY <2>1, <2>2
<1>5. pc[n] = "remove" => WP!Expects(c, k, Absent)'
  BY DEF InFlight
<1>6. pc[n] \in {"notify", "notifying"} => event'[n].type = "Deleted" \/ file'[k] = event'[n].value
  BY DEF InFlight
<1> QED
  BY <1>1, <1>2, <1>3, <1>4, <1>5, <1>6 DEF InFlight

\* A step of n's operation on k concerns no other key.  On k it has to keep what
\* is said of a file without a race, and what n promises.
LEMMA LocalStep ==
  ASSUME IInv, NEW n \in Notifier, NEW k \in Key, On(n, k),
         UNCHANGED <<stage, items, view, channel, id, raced, untold>>,
         \A m \in Notifier \ {n} : UNCHANGED <<pc[m], event[m], toNotify[m]>>,
         pc'[n] = "idle" \/ event'[n] = event[n],
         \A l \in Key \ {k} :
           /\ UNCHANGED file[l]
           /\ l \notin raced => (l \in spoilt' <=> l \in spoilt)
           /\ \A m \in Notifier : <<m, l>> \in linked => <<m, l>> \in linked',
         k \notin raced =>
           /\ Writes(n, k)' => <<n, k>> \in linked' /\ file'[k] = Empty
           /\ k \in spoilt' => ~Decodes(k)' /\ pc'[n] \notin {"rewrite", "refill"}
           /\ Exists(k)' /\ ~Decodes(k)' => k \in spoilt' \/ Writes(n, k)',
         k \notin raced \cup spoilt' \cup Nested =>
           \A c \in Client : stage[c] # "push" /\ (k \notin spoilt => InFlight(n, c, k)) =>
             /\ pc'[n] = "idle" => WP!Expects(c, k, file[k])'
             /\ pc'[n] # "idle" => InFlight(n, c, k)'
  PROVE  AloneInv' /\ TornInv' /\ KnowledgeInv'
<1>1. AloneInv /\ TornInv /\ KnowledgeInv
  BY DEF IInv
<1>2. \A l \in Key, m \in Notifier : On(m, l)' => On(m, l)
  BY DEF On
<1>3. \A l \in Key : l # k =>
        /\ Busy(l)' <=> Busy(l)
        /\ \A m \in Notifier :
             /\ On(m, l)' => m # n
             /\ On(m, l)' <=> On(m, l)
             /\ Writes(m, l)' <=> Writes(m, l)
  BY DEF On, Writes, Busy
<1>4. k \notin raced => \A m \in Notifier : On(m, k)' => m = n
  BY <1>1, <1>2 DEF AloneInv
<1>5. \A m \in Notifier, l \in Key : Writes(m, l)' => On(m, l)'
  BY DEF Writes, On
<1>6. AloneInv'
  <2> SUFFICES ASSUME NEW l \in Key, l \notin raced
               PROVE  /\ \A i, j \in Notifier : On(i, l)' /\ On(j, l)' => i = j
                      /\ \A m \in Notifier : Writes(m, l)' => <<m, l>> \in linked' /\ file'[l] = Empty
    BY DEF AloneInv
  <2>1. \A i, j \in Notifier : On(i, l)' /\ On(j, l)' => i = j
    BY <1>1, <1>2 DEF AloneInv
  <2>2. CASE l = k
    BY <1>4, <1>5, <2>1, <2>2
  <2>3. CASE l # k
    BY <1>1, <1>3, <2>1, <2>3 DEF AloneInv
  <2> QED
    BY <2>2, <2>3
<1>7. TornInv'
  <2> SUFFICES ASSUME NEW l \in Key, l \notin raced
               PROVE  /\ l \in spoilt' => ~Decodes(l)'
                      /\ Exists(l)' /\ ~Decodes(l)' => l \in spoilt' \/ \E m \in Notifier : Writes(m, l)'
    BY DEF TornInv
  <2>1. CASE l = k
    BY <2>1
  <2>2. CASE l # k
    BY <1>1, <1>3, <2>2 DEF TornInv, Exists, Decodes
  <2> QED
    BY <2>1, <2>2
<1>8. \A c \in Client, l \in Key : stage'[c] = "push" /\ Busy(l)' => <<c, l>> \in untold'
  BY <1>1, <1>2 DEF KnowledgeInv, Busy, On
<1>9. \A l \in Key \ raced', m \in Notifier :
        On(m, l)' /\ pc'[m] \in {"rewrite", "refill"} => l \notin spoilt'
  <2> SUFFICES ASSUME NEW l \in Key \ raced, NEW m \in Notifier, On(m, l)',
                      pc'[m] \in {"rewrite", "refill"}
               PROVE  l \notin spoilt'
    OBVIOUS
  <2>1. CASE l = k
    BY <1>4, <2>1
  <2>2. CASE l # k
    BY <1>1, <1>3, <2>2 DEF KnowledgeInv
  <2> QED
    BY <2>1, <2>2
<1>10. ASSUME NEW c \in Client, NEW l \in Key \ (raced \cup spoilt' \cup Nested), <<c, l>> \notin untold
       PROVE  Follows(c, l)'
  <2>1. \A x : WP!Expects(c, l, x) => WP!Expects(c, l, x)'
    BY ExpectsKept
  <2>2. CASE l # k
    <3>1. Follows(c, l)
      BY <1>1, <1>10, <2>2 DEF KnowledgeInv
    <3>2. ~Busy(l)' => WP!Expects(c, l, file[l])'
      <4> SUFFICES ASSUME ~Busy(l)' PROVE WP!Expects(c, l, file[l])'
        OBVIOUS
      <4>1. PICK x : x = file[l]
        OBVIOUS
      <4>2. WP!Expects(c, l, x)'
        BY <1>3, <2>1, <2>2, <3>1, <4>1 DEF Follows
      <4> QED
        BY <2>2, <4>1, <4>2
    <3>3. ASSUME NEW m \in Notifier, On(m, l)' PROVE InFlight(m, c, l)'
      <4>1. m # n /\ InFlight(m, c, l)
        BY <1>3, <2>2, <3>1, <3>3 DEF Follows
      <4>2. Awaits(c, m) => Awaits(c, m)'
        BY <4>1 DEF Awaits
      <4> QED
        BY <2>1, <2>2, <4>1, <4>2, InFlightKept
    <3> QED
      BY <3>2, <3>3 DEF Follows
  <2>3. CASE l = k
    <3>1. stage[c] # "push"
      BY <1>1, <1>10, <2>3 DEF KnowledgeInv, Busy, On
    <3>2. k \notin spoilt => InFlight(n, c, k)
      BY <1>1, <1>10, <2>3 DEF KnowledgeInv, Follows
    <3>3. CASE pc'[n] = "idle"
      <4>1. WP!Expects(c, l, file[l])'
        BY <1>10, <2>3, <3>1, <3>2, <3>3
      <4>2. ~ \E m \in Notifier : On(m, l)'
        BY <1>4, <1>10, <2>3, <3>3 DEF On
      <4> QED
        BY <4>1, <4>2 DEF Follows
    <3>4. CASE pc'[n] # "idle"
      <4>1. InFlight(n, c, l)'
        BY <1>10, <2>3, <3>1, <3>2, <3>4
      <4>2. Busy(l)'
        BY <2>3, <3>4 DEF Busy, On
      <4>3. \A m \in Notifier : On(m, l)' => m = n
        BY <1>4, <1>10, <2>3
      <4> QED
        BY <4>1, <4>2, <4>3 DEF Follows
    <3> QED
      BY <3>3, <3>4
  <2> QED
    BY <2>2, <2>3
<1> QED
  BY <1>6, <1>7, <1>8, <1>9, <1>10 DEF KnowledgeInv

\* Where n goes, and what it leaves alone
LEMMA Moves ==
  ASSUME FileStoreTypeOK, NEW n \in Notifier, NEW step \in Step, pc[n] # "idle",
         \/ step = "idle" /\ Finish(n)
         \/ step # "idle" /\ Continue(n, step)
  PROVE  /\ pc'[n] = step /\ (step = "idle" \/ event'[n] = event[n])
         /\ \A m \in Notifier \ {n} : UNCHANGED <<pc[m], event[m]>>
         /\ pc' \in [Notifier -> Step]
         /\ event' \in [Notifier -> WP!Event \cup {WP!NoEvent}]
         /\ \A m \in Notifier : pc'[m] = "idle" <=> event'[m] = W!NoEvent
<1>1. /\ pc \in [Notifier -> Step] /\ event \in [Notifier -> WP!Event \cup {WP!NoEvent}]
      /\ \A m \in Notifier : pc[m] = "idle" <=> event[m] = W!NoEvent
      /\ W!NoEvent = WP!NoEvent
  BY SameState DEF FileStoreTypeOK, WP!WatchersTypeOK
<1>2. CASE step = "idle" /\ Finish(n)
  BY <1>1, <1>2 DEF Finish, Goto
<1>3. CASE step # "idle" /\ Continue(n, step)
  BY <1>1, <1>3 DEF Continue, Goto
<1> QED
  BY <1>2, <1>3

\* Steps that leave the watchers alone
LEMMA WatchersKept ==
  ASSUME IInv, UNCHANGED wvars, event' \in [Notifier -> WP!Event \cup {WP!NoEvent}],
         \A m \in Notifier : m \in notifying => event'[m] = event[m]
  PROVE  W!WatchersTypeOK' /\ WP!RegistryInv' /\ WP!FreshInv'
<1> USE DEF wvars, clients, registry, lock
<1>1. WP!WatchersTypeOK /\ WP!RegistryInv /\ WP!FreshInv
  BY Parts
<1>2. WP!WatchersTypeOK'
  BY <1>1 DEF WP!WatchersTypeOK
<1>3. W!WatchersTypeOK'
  BY <1>2, SameState, PTL
<1>4. WP!RegistryInv' /\ WP!FreshInv'
  BY <1>1 DEF WP!RegistryInv, WP!IDsPartitioned, WP!Registered, WP!FreshInv, WP!WatchersTypeOK
<1> QED
  BY <1>3, <1>4

\* A file that cannot be opened is not changed, and its key has a namespace.
LEMMA OpenFailsKeeps ==
  ASSUME IInv, NEW n \in Notifier, OpenFails(n)
  PROVE  IInv'
<1>1. /\ FileStoreTypeOK /\ FilesTypeOK /\ OperationsInv /\ TornInv /\ KnowledgeInv
  BY Parts
<1>2. /\ pc[n] \in {"write", "rewrite"} /\ event[n].key \in Nested /\ Written(n)
      /\ UNCHANGED <<wvars, files, ops, faults, raced, spoilt, untold>>
  BY DEF OpenFails
<1>3. PICK k \in Key : k = event[n].key /\ On(n, k)
  BY <1>2, BusyEvent
<1>4. PICK step \in {"notify", "idle"} :
        \/ step = "idle" /\ Finish(n)
        \/ step # "idle" /\ Continue(n, step)
  BY <1>2 DEF Written
<1>5. /\ pc'[n] = step /\ (step = "idle" \/ event'[n] = event[n])
      /\ \A m \in Notifier \ {n} : UNCHANGED <<pc[m], event[m]>>
      /\ pc' \in [Notifier -> Step]
      /\ event' \in [Notifier -> WP!Event \cup {WP!NoEvent}]
      /\ \A m \in Notifier : pc'[m] = "idle" <=> event'[m] = W!NoEvent
  BY <1>1, <1>2, <1>4, Moves DEF Step
<1>6. W!WatchersTypeOK' /\ WP!RegistryInv' /\ WP!FreshInv'
  BY <1>1, <1>2, <1>5, WatchersKept DEF OperationsInv
<1>7. FileStoreTypeOK'
  BY <1>1, <1>2, <1>5, <1>6 DEF FileStoreTypeOK, FilesTypeOK, files, Exists
<1>8. OperationsInv'
  BY <1>1, <1>2, <1>5 DEF OperationsInv, wvars, lock
<1>9. AloneInv' /\ TornInv' /\ KnowledgeInv'
  <2>1. k \notin raced =>
          /\ k \in spoilt' => ~Decodes(k)'
          /\ Exists(k)' /\ ~Decodes(k)' => k \in spoilt'
    BY <1>1, <1>2, <1>3 DEF FileStoreTypeOK, TornInv, Exists, Decodes, files
  <2> QED
    BY <1>2, <1>3, <1>5, <2>1, LocalStep DEF wvars, clients, registry, lock, files, Writes
<1> QED
  BY <1>6, <1>7, <1>8, <1>9 DEF IInv

\* The file is truncated and is n's to fill, or the key is raced.
LEMMA OpenForWriteKeeps ==
  ASSUME IInv, NEW n \in Notifier, OpenForWrite(n)
  PROVE  IInv'
<1>1. /\ FileStoreTypeOK /\ FilesTypeOK /\ OperationsInv /\ TornInv /\ KnowledgeInv
  BY Parts
<1>2. /\ pc[n] \in {"write", "rewrite"} /\ event[n].key \notin Nested
      /\ OpenFile(n, event[n].key)
      /\ Continue(n, IF pc[n] = "write" THEN "fill" ELSE "refill")
      /\ UNCHANGED <<wvars, ops, faults, raced, spoilt, untold>>
  BY DEF OpenForWrite
<1>3. PICK k \in Key : k = event[n].key /\ On(n, k)
  BY <1>2, BusyEvent
<1>4. PICK step \in {"fill", "refill"} :
        Continue(n, step) /\ (step = "fill" <=> pc[n] = "write")
  BY <1>2
<1>5. /\ pc'[n] = step /\ event'[n] = event[n]
      /\ \A m \in Notifier \ {n} : UNCHANGED <<pc[m], event[m]>>
      /\ pc' \in [Notifier -> Step]
      /\ event' \in [Notifier -> WP!Event \cup {WP!NoEvent}]
      /\ \A m \in Notifier : pc'[m] = "idle" <=> event'[m] = W!NoEvent
  BY <1>1, <1>2, <1>4, Moves DEF Step
<1>6. W!WatchersTypeOK' /\ WP!RegistryInv' /\ WP!FreshInv'
  BY <1>1, <1>2, <1>5, WatchersKept DEF OperationsInv
<1>7. /\ file' = [file EXCEPT ![k] = Empty] /\ linked' = linked \cup {<<n, k>>}
      /\ file'[k] = Empty /\ \A l \in Key \ {k} : file'[l] = file[l]
  BY <1>1, <1>2, <1>3 DEF OpenFile, FilesTypeOK
<1>8. FileStoreTypeOK'
  <2>1. FilesTypeOK' /\ \A l \in Nested : ~Exists(l)'
    BY <1>1, <1>2, <1>3, <1>7, FileStoreAssumption DEF FilesTypeOK, FileStoreTypeOK, Exists
  <2>2. \A w \in linked' : pc'[w[1]] \in {"fill", "refill"} /\ event'[w[1]].key = w[2]
    <3> SUFFICES ASSUME NEW w \in linked' PROVE pc'[w[1]] \in {"fill", "refill"} /\ event'[w[1]].key = w[2]
      OBVIOUS
    <3>1. CASE w = <<n, k>>
      BY <1>3, <1>5, <3>1
    <3>2. CASE w \in linked
      BY <1>1, <1>2, <1>5, <3>2 DEF FileStoreTypeOK, FilesTypeOK
    <3> QED
      BY <1>7, <3>1, <3>2
  <2> QED
    BY <1>1, <1>2, <1>5, <1>6, <2>1, <2>2 DEF FileStoreTypeOK
<1>9. OperationsInv'
  BY <1>1, <1>2, <1>5 DEF OperationsInv, wvars, lock
<1>10. AloneInv' /\ TornInv' /\ KnowledgeInv'
  <2>1. Writes(n, k)'
    BY <1>3, <1>5 DEF Writes
  <2>2. k \notin raced /\ k \in spoilt' => ~Decodes(k)' /\ pc'[n] \notin {"rewrite", "refill"}
    <3>1. ~Decodes(k)'
      BY <1>7, JSONFilesAssumption DEF Decodes
    <3>2. pc[n] = "rewrite" /\ k \notin raced => k \notin spoilt
      BY <1>1, <1>3 DEF KnowledgeInv
    <3> QED
      BY <1>2, <1>4, <1>5, <3>1, <3>2
  <2>3. ASSUME NEW c \in Client, k \notin spoilt => InFlight(n, c, k), k \notin spoilt
        PROVE  InFlight(n, c, k)'
    <3>1. PICK v : v = event[n].value
      OBVIOUS
    <3>2. step = "refill" => WP!Expects(c, k, v)
      BY <1>2, <1>4, <2>3, <3>1 DEF InFlight
    <3>3. step = "refill" => WP!Expects(c, k, v)'
      BY <1>2, <3>2, ExpectsKept DEF wvars, clients
    <3> QED
      BY <1>5, <3>1, <3>3 DEF InFlight
  <2>4. <<n, k>> \in linked' /\ \A l \in Key, m \in Notifier : <<m, l>> \in linked => <<m, l>> \in linked'
    BY <1>7
  <2> QED
    BY <1>2, <1>3, <1>5, <1>7, <2>1, <2>2, <2>3, <2>4, LocalStep DEF wvars, clients, registry, lock
<1> QED
  BY <1>6, <1>8, <1>9, <1>10 DEF IInv

\* What n wrote is whole unless the key is raced, and spoils the key no longer.
LEMMA FillKeeps ==
  ASSUME IInv, NEW n \in Notifier, Fill(n)
  PROVE  IInv'
<1>1. /\ FileStoreTypeOK /\ FilesTypeOK /\ OperationsInv /\ AloneInv /\ TornInv /\ KnowledgeInv
  BY Parts
<1>2. /\ pc[n] \in {"fill", "refill"}
      /\ FillFile(n, event[n].key, event[n].value)
      /\ spoilt' = {k \in spoilt : file'[k] \notin Value}
      /\ Written(n)
      /\ UNCHANGED <<wvars, ops, faults, raced, untold>>
  BY DEF Fill
<1>3. PICK k \in Key, v \in Value : k = event[n].key /\ v = event[n].value /\ On(n, k)
  BY <1>2, BusyEvent
<1>4. PICK step \in {"notify", "idle"} :
        /\ \/ step = "idle" /\ Finish(n)
           \/ step # "idle" /\ Continue(n, step)
        /\ step = "notify" <=> pc[n] = "fill"
  BY <1>2 DEF Written
<1>5. /\ pc'[n] = step /\ (step = "idle" \/ event'[n] = event[n])
      /\ \A m \in Notifier \ {n} : UNCHANGED <<pc[m], event[m]>>
      /\ pc' \in [Notifier -> Step]
      /\ event' \in [Notifier -> WP!Event \cup {WP!NoEvent}]
      /\ \A m \in Notifier : pc'[m] = "idle" <=> event'[m] = W!NoEvent
  BY <1>1, <1>2, <1>4, Moves DEF Step
<1>6. W!WatchersTypeOK' /\ WP!RegistryInv' /\ WP!FreshInv'
  BY <1>1, <1>2, <1>5, WatchersKept DEF OperationsInv
<1>7. /\ linked' = linked \ {<<n, k>>}
      /\ \/ file' = file
         \/ \E content \in Value \cup {Mixed} : file' = [file EXCEPT ![k] = content]
      /\ <<n, k>> \in linked /\ file[k] = Empty => file' = [file EXCEPT ![k] = v]
  BY <1>2, <1>3 DEF FillFile
<1>8. /\ file' \in [Key -> Value \cup {Absent, Empty, Mixed}]
      /\ \A l \in Key \ {k} : file'[l] = file[l]
      /\ k \notin raced => file'[k] = v
  <2>1. k \notin raced => <<n, k>> \in linked /\ file[k] = Empty
    BY <1>1, <1>2, <1>3 DEF AloneInv, Writes
  <2> QED
    BY <1>1, <1>7, <2>1 DEF FilesTypeOK
<1>9. k \notin Nested
  BY <1>1, <1>2, <1>3 DEF OperationsInv
<1>10. FileStoreTypeOK'
  <2>1. FilesTypeOK' /\ \A l \in Nested : ~Exists(l)'
    BY <1>1, <1>7, <1>8, <1>9, FileStoreAssumption DEF FilesTypeOK, FileStoreTypeOK, Exists
  <2>2. \A w \in linked' : pc'[w[1]] \in {"fill", "refill"} /\ event'[w[1]].key = w[2]
    <3> SUFFICES ASSUME NEW w \in linked' PROVE pc'[w[1]] \in {"fill", "refill"} /\ event'[w[1]].key = w[2]
      OBVIOUS
    <3>1. w \in linked /\ w # <<n, k>> /\ w = <<w[1], w[2]>> /\ w[1] \in Notifier
      BY <1>1, <1>7 DEF FilesTypeOK
    <3>2. pc[w[1]] \in {"fill", "refill"} /\ event[w[1]].key = w[2]
      BY <1>1, <3>1 DEF FileStoreTypeOK
    <3>3. w[1] # n
      BY <1>3, <3>1, <3>2
    <3> QED
      BY <1>5, <3>1, <3>2, <3>3
  <2> QED
    BY <1>1, <1>2, <1>5, <1>6, <2>1, <2>2 DEF FileStoreTypeOK
<1>11. OperationsInv'
  BY <1>1, <1>2, <1>4, <1>5 DEF OperationsInv, wvars, lock
<1>12. AloneInv' /\ TornInv' /\ KnowledgeInv'
  <2>1. \A l \in Key \ {k} : l \notin raced => (l \in spoilt' <=> l \in spoilt)
    BY <1>1, <1>2, <1>8 DEF TornInv, Decodes
  <2>2. k \notin raced => Decodes(k)' /\ k \notin spoilt'
    BY <1>2, <1>8 DEF Decodes
  <2>3. ~Writes(n, k)'
    BY <1>5 DEF Writes
  <2>4. ASSUME NEW c \in Client, k \notin raced, k \notin spoilt => InFlight(n, c, k)
        PROVE  /\ pc'[n] = "idle" => WP!Expects(c, k, file[k])'
               /\ pc'[n] # "idle" => InFlight(n, c, k)'
    <3>1. CASE pc[n] = "fill"
      BY <1>3, <1>4, <1>5, <1>8, <2>4, <3>1 DEF InFlight
    <3>2. CASE pc[n] = "refill"
      <4>1. k \notin spoilt
        BY <1>1, <1>3, <2>4, <3>2 DEF KnowledgeInv
      <4>2. WP!Expects(c, k, v)
        BY <1>3, <2>4, <3>2, <4>1 DEF InFlight
      <4>3. WP!Expects(c, k, v)'
        BY <1>2, <4>2, ExpectsKept DEF wvars, clients
      <4>4. file'[k] = v
        BY <1>8, <2>4
      <4> QED
        BY <1>4, <1>5, <3>2, <4>3, <4>4
    <3> QED
      BY <1>2, <3>1, <3>2
  <2>5. \A l \in Key \ {k}, m \in Notifier : <<m, l>> \in linked => <<m, l>> \in linked'
    BY <1>7
  <2>6. /\ UNCHANGED <<stage, items, view, channel, id, raced, untold>>
        /\ \A m \in Notifier \ {n} : UNCHANGED <<pc[m], event[m], toNotify[m]>>
    BY <1>2, <1>5 DEF wvars, clients, registry, lock
  <2>7. \A l \in Key \ {k} :
          /\ UNCHANGED file[l]
          /\ l \notin raced => (l \in spoilt' <=> l \in spoilt)
          /\ \A m \in Notifier : <<m, l>> \in linked => <<m, l>> \in linked'
    BY <1>8, <2>1, <2>5
  <2> QED
    BY <1>3, <1>5, <2>2, <2>3, <2>4, <2>6, <2>7, LocalStep
<1> QED
  BY <1>6, <1>10, <1>11, <1>12 DEF IInv

\* A write that fails spoils the key.
LEMMA WriteFailsKeeps ==
  ASSUME IInv, NEW n \in Notifier, WriteFails(n)
  PROVE  IInv'
<1>1. /\ FileStoreTypeOK /\ FilesTypeOK /\ OperationsInv /\ AloneInv /\ TornInv /\ KnowledgeInv
  BY Parts
<1>2. /\ pc[n] \in {"fill", "refill"}
      /\ linked' = linked \ {<<n, event[n].key>>} /\ UNCHANGED file
      /\ spoilt' = spoilt \cup {event[n].key}
      /\ Written(n)
      /\ UNCHANGED <<wvars, ops, raced, untold>>
  BY DEF WriteFails
<1>3. PICK k \in Key : k = event[n].key /\ On(n, k)
  BY <1>2, BusyEvent
<1>4. PICK step \in {"notify", "idle"} :
        \/ step = "idle" /\ Finish(n)
        \/ step # "idle" /\ Continue(n, step)
  BY <1>2 DEF Written
<1>5. /\ pc'[n] = step /\ (step = "idle" \/ event'[n] = event[n])
      /\ \A m \in Notifier \ {n} : UNCHANGED <<pc[m], event[m]>>
      /\ pc' \in [Notifier -> Step]
      /\ event' \in [Notifier -> WP!Event \cup {WP!NoEvent}]
      /\ \A m \in Notifier : pc'[m] = "idle" <=> event'[m] = W!NoEvent
  BY <1>1, <1>2, <1>4, Moves DEF Step
<1>6. W!WatchersTypeOK' /\ WP!RegistryInv' /\ WP!FreshInv'
  BY <1>1, <1>2, <1>5, WatchersKept DEF OperationsInv
<1>7. FileStoreTypeOK'
  <2>1. FilesTypeOK' /\ \A l \in Nested : ~Exists(l)'
    BY <1>1, <1>2 DEF FilesTypeOK, FileStoreTypeOK, Exists
  <2>2. \A w \in linked' : pc'[w[1]] \in {"fill", "refill"} /\ event'[w[1]].key = w[2]
    <3> SUFFICES ASSUME NEW w \in linked' PROVE pc'[w[1]] \in {"fill", "refill"} /\ event'[w[1]].key = w[2]
      OBVIOUS
    <3>1. w \in linked /\ w # <<n, k>> /\ w = <<w[1], w[2]>> /\ w[1] \in Notifier
      BY <1>1, <1>2, <1>3 DEF FilesTypeOK
    <3>2. pc[w[1]] \in {"fill", "refill"} /\ event[w[1]].key = w[2]
      BY <1>1, <3>1 DEF FileStoreTypeOK
    <3>3. w[1] # n
      BY <1>3, <3>1, <3>2
    <3> QED
      BY <1>5, <3>1, <3>2, <3>3
  <2>3. spoilt' \subseteq Key
    BY <1>1, <1>2, <1>3 DEF FileStoreTypeOK
  <2> QED
    BY <1>1, <1>2, <1>5, <1>6, <2>1, <2>2, <2>3 DEF FileStoreTypeOK
<1>8. OperationsInv'
  BY <1>1, <1>2, <1>5 DEF OperationsInv, wvars, lock
<1>9. AloneInv' /\ TornInv' /\ KnowledgeInv'
  <2>1. k \in spoilt' /\ \A l \in Key \ {k} : l \in spoilt' <=> l \in spoilt
    BY <1>2, <1>3
  <2>2. k \notin raced => ~Decodes(k)'
    BY <1>1, <1>2, <1>3, JSONFilesAssumption DEF AloneInv, Writes, Decodes
  <2>3. ~Writes(n, k)' /\ pc'[n] \notin {"rewrite", "refill"}
    BY <1>5 DEF Writes
  <2>4. \A l \in Key \ {k}, m \in Notifier : <<m, l>> \in linked => <<m, l>> \in linked'
    BY <1>2, <1>3
  <2> QED
    BY <1>2, <1>3, <1>5, <2>1, <2>2, <2>3, <2>4, LocalStep DEF wvars, clients, registry, lock
<1> QED
  BY <1>6, <1>7, <1>8, <1>9 DEF IInv

\* From here on n has to send to everybody who is registered.
LEMMA NotifyWatchersKeeps ==
  ASSUME IInv, NEW n \in Notifier, NotifyWatchers(n)
  PROVE  IInv'
<1>1. /\ FileStoreTypeOK /\ FilesTypeOK /\ WP!WatchersTypeOK /\ WP!RegistryInv /\ WP!FreshInv
      /\ OperationsInv /\ AloneInv /\ TornInv /\ KnowledgeInv
  BY Parts
<1>2. /\ pc[n] = "notify" /\ pc' = [pc EXCEPT ![n] = "notifying"] /\ WP!Notify(n)
      /\ UNCHANGED <<files, ops, faults, raced, spoilt, untold>>
  BY SameSteps DEF NotifyWatchers, Goto
<1>3. /\ notifying' = notifying \cup {n}
      /\ toNotify' = [toNotify EXCEPT ![n] = WP!Registered]
      /\ UNCHANGED <<stage, items, view, channel, closed, id, watchers, availableIDs,
                     allocatedIDs, event>>
  BY <1>2 DEF WP!Notify, WP!clients, WP!registry
<1>4. PICK k \in Key : k = event[n].key /\ On(n, k) /\ event[n] \in WP!Event
  BY <1>2, BusyEvent
<1>5. WP!WatchersTypeOK' /\ WP!RegistryInv'
  BY <1>1, <1>2, <1>4, Instance, WP!NotifyType, WP!LockRegistry
<1>6. W!WatchersTypeOK'
  BY <1>5, SameState, PTL
<1>7. WP!FreshInv'
  BY <1>1, <1>3 DEF WP!FreshInv
<1>8. /\ pc'[n] = "notifying" /\ toNotify'[n] = WP!Registered
      /\ \A m \in Notifier \ {n} : UNCHANGED <<pc[m], event[m], toNotify[m]>>
  BY <1>1, <1>2, <1>3 DEF FileStoreTypeOK, WP!WatchersTypeOK
<1>9. FileStoreTypeOK'
  BY <1>1, <1>2, <1>3, <1>6, <1>8 DEF FileStoreTypeOK, FilesTypeOK, files, Exists, Step
<1>10. OperationsInv'
  BY <1>1, <1>2, <1>3, <1>8 DEF OperationsInv
<1>11. AloneInv' /\ TornInv' /\ KnowledgeInv'
  <2>1. ASSUME NEW c \in Client, k \notin spoilt => InFlight(n, c, k), k \notin spoilt,
               stage[c] # "push"
        PROVE  InFlight(n, c, k)'
    <3>1. stage[c] = "watching" => id[c] \in WP!Registered
      BY <1>1, FileStoreAssumption DEF WP!RegistryInv, WP!IDsPartitioned, WP!Registered,
         WP!WatchersTypeOK
    <3>2. ~Awaits(c, n)' => stage'[c] \notin {"push", "watching"}
      BY <1>3, <1>8, <2>1, <3>1 DEF Awaits
    <3> QED
      BY <1>2, <1>3, <1>8, <2>1, <3>2 DEF InFlight, WP!Expects, files
  <2>2. k \notin raced =>
          /\ k \in spoilt' => ~Decodes(k)'
          /\ Exists(k)' /\ ~Decodes(k)' => k \in spoilt'
    <3>1. ASSUME NEW m \in Notifier, Writes(m, k), k \notin raced PROVE FALSE
      <4>1. m = n
        BY <1>1, <1>4, <3>1 DEF AloneInv, On, Writes
      <4> QED
        BY <1>2, <3>1, <4>1 DEF Writes
    <3> QED
      BY <1>1, <1>2, <3>1 DEF TornInv, Exists, Decodes, files
  <2>3. ~Writes(n, k)'
    BY <1>8 DEF Writes
  <2> QED
    BY <1>2, <1>3, <1>4, <1>8, <2>1, <2>2, <2>3, LocalStep DEF files
<1> QED
  BY <1>5, <1>7, <1>9, <1>10, <1>11 DEF IInv

\* Everybody has been sent the event.  A deletion has its file still to remove.
LEMMA NotifiedKeeps ==
  ASSUME IInv, NEW n \in Notifier, Notified(n)
  PROVE  IInv'
<1>1. /\ FileStoreTypeOK /\ FilesTypeOK /\ WP!WatchersTypeOK /\ WP!RegistryInv /\ WP!FreshInv
      /\ OperationsInv /\ AloneInv /\ TornInv /\ KnowledgeInv
  BY Parts
<1>2. /\ pc[n] = "notifying" /\ WP!EndNotify(n)
      /\ IF event[n].type = "Deleted" THEN Continue(n, "remove") ELSE Finish(n)
      /\ UNCHANGED <<files, ops, faults, raced, spoilt, untold>>
  BY SameSteps DEF Notified
<1>3. /\ notifying' = notifying \ {n} /\ toNotify[n] = {}
      /\ UNCHANGED <<stage, items, view, channel, closed, id, watchers, availableIDs,
                     allocatedIDs, toNotify>>
  BY <1>2 DEF WP!EndNotify, WP!clients, WP!registry
<1>4. PICK k \in Key : k = event[n].key /\ On(n, k)
  BY <1>2, BusyEvent
<1>5. PICK step \in {"remove", "idle"} :
        /\ \/ step = "idle" /\ Finish(n)
           \/ step # "idle" /\ Continue(n, step)
        /\ step = "remove" <=> event[n].type = "Deleted"
  BY <1>2
<1>6. /\ pc'[n] = step /\ (step = "idle" \/ event'[n] = event[n])
      /\ \A m \in Notifier \ {n} : UNCHANGED <<pc[m], event[m]>>
      /\ pc' \in [Notifier -> Step]
      /\ event' \in [Notifier -> WP!Event \cup {WP!NoEvent}]
      /\ \A m \in Notifier : pc'[m] = "idle" <=> event'[m] = W!NoEvent
  BY <1>1, <1>2, <1>5, Moves DEF Step
<1>7. WP!WatchersTypeOK' /\ WP!RegistryInv'
  <2>1. WP!WatchersTypeOK'
    BY <1>1, <1>2, <1>6, Instance, WP!EndNotifyType
  <2>2. \A m \in notifying : m # n => event'[m] = event[m]
    BY <1>1, <1>6 DEF WP!WatchersTypeOK
  <2> QED
    BY <1>1, <1>2, <2>1, <2>2, Instance, WP!LockRegistry
<1>8. W!WatchersTypeOK'
  BY <1>7, SameState, PTL
<1>9. WP!FreshInv'
  BY <1>1, <1>3 DEF WP!FreshInv
<1>10. FileStoreTypeOK'
  <2>1. \A w \in linked : w[1] \in Notifier /\ w[1] # n
    BY <1>1, <1>2 DEF FileStoreTypeOK, FilesTypeOK
  <2> QED
    BY <1>1, <1>2, <1>6, <1>8, <2>1 DEF FileStoreTypeOK, FilesTypeOK, files, Exists
<1>11. OperationsInv'
  BY <1>1, <1>3, <1>5, <1>6 DEF OperationsInv
<1>12. AloneInv' /\ TornInv' /\ KnowledgeInv'
  <2>1. ASSUME NEW c \in Client, k \notin spoilt => InFlight(n, c, k), k \notin spoilt
        PROVE  /\ pc'[n] = "idle" => WP!Expects(c, k, file[k])'
               /\ pc'[n] # "idle" => InFlight(n, c, k)'
    <3>1. PICK x : x = WP!Outcome(event[n])
      OBVIOUS
    <3>2. WP!Expects(c, k, x)
      BY <1>2, <1>3, <2>1, <3>1 DEF InFlight, Awaits
    <3>3. WP!Expects(c, k, x)'
      BY <1>3, <3>2, ExpectsKept
    <3>4. CASE step = "remove"
      BY <1>5, <1>6, <3>1, <3>3, <3>4 DEF InFlight, WP!Outcome
    <3>5. CASE step = "idle"
      <4>1. file'[k] = x
        BY <1>2, <1>5, <2>1, <3>1, <3>5 DEF InFlight, WP!Outcome, files
      <4> QED
        BY <1>6, <3>3, <3>5, <4>1
    <3> QED
      BY <3>4, <3>5
  <2>2. k \notin raced =>
          /\ k \in spoilt' => ~Decodes(k)'
          /\ Exists(k)' /\ ~Decodes(k)' => k \in spoilt'
    <3>1. ASSUME NEW m \in Notifier, Writes(m, k), k \notin raced PROVE FALSE
      <4>1. m = n
        BY <1>1, <1>4, <3>1 DEF AloneInv, On, Writes
      <4> QED
        BY <1>2, <3>1, <4>1 DEF Writes
    <3> QED
      BY <1>1, <1>2, <3>1 DEF TornInv, Exists, Decodes, files
  <2>3. ~Writes(n, k)' /\ pc'[n] \notin {"rewrite", "refill"}
    BY <1>6 DEF Writes
  <2> QED
    BY <1>2, <1>3, <1>4, <1>6, <2>1, <2>2, <2>3, LocalStep DEF files
<1> QED
  BY <1>7, <1>9, <1>10, <1>11, <1>12 DEF IInv

\* What everybody was told is true now.
LEMMA RemoveKeeps ==
  ASSUME IInv, NEW n \in Notifier, Remove(n)
  PROVE  IInv'
<1>1. /\ FileStoreTypeOK /\ FilesTypeOK /\ OperationsInv /\ AloneInv /\ TornInv /\ KnowledgeInv
  BY Parts
<1>2. /\ pc[n] = "remove" /\ RemoveFile(event[n].key) /\ Finish(n)
      /\ UNCHANGED <<wvars, ops, faults, raced, spoilt, untold>>
  BY DEF Remove
<1>3. PICK k \in Key : k = event[n].key /\ On(n, k)
  BY <1>2, BusyEvent
<1>4. /\ pc'[n] = "idle"
      /\ \A m \in Notifier \ {n} : UNCHANGED <<pc[m], event[m]>>
      /\ pc' \in [Notifier -> Step]
      /\ event' \in [Notifier -> WP!Event \cup {WP!NoEvent}]
      /\ \A m \in Notifier : pc'[m] = "idle" <=> event'[m] = W!NoEvent
  BY <1>1, <1>2, Moves DEF Step
<1>5. W!WatchersTypeOK' /\ WP!RegistryInv' /\ WP!FreshInv'
  BY <1>1, <1>2, <1>4, WatchersKept DEF OperationsInv
<1>6. /\ file' = [file EXCEPT ![k] = Absent] /\ linked' = {w \in linked : w[2] # k}
      /\ file'[k] = Absent /\ \A l \in Key \ {k} : file'[l] = file[l]
  BY <1>1, <1>2, <1>3 DEF RemoveFile, FilesTypeOK
<1>7. FileStoreTypeOK'
  <2>1. FilesTypeOK' /\ \A l \in Nested : ~Exists(l)'
    BY <1>1, <1>6, FileStoreAssumption DEF FilesTypeOK, FileStoreTypeOK, Exists
  <2>2. \A w \in linked : w[1] \in Notifier /\ w[1] # n
    BY <1>1, <1>2 DEF FileStoreTypeOK, FilesTypeOK
  <2> QED
    BY <1>1, <1>2, <1>4, <1>5, <1>6, <2>1, <2>2 DEF FileStoreTypeOK
<1>8. OperationsInv'
  BY <1>1, <1>2, <1>4 DEF OperationsInv, wvars, lock
<1>9. AloneInv' /\ TornInv' /\ KnowledgeInv'
  <2>1. ASSUME NEW c \in Client, k \notin spoilt => InFlight(n, c, k), k \notin spoilt
        PROVE  WP!Expects(c, k, file[k])'
    <3>1. WP!Expects(c, k, Absent)
      BY <1>2, <2>1 DEF InFlight
    <3>2. WP!Expects(c, k, Absent)'
      BY <1>2, <3>1, ExpectsKept DEF wvars, clients
    <3> QED
      BY <1>6, <3>2
  <2>2. ~Exists(k)' /\ ~Decodes(k)'
    BY <1>6, JSONFilesAssumption DEF Exists, Decodes
  <2>3. ~Writes(n, k)' /\ pc'[n] \notin {"rewrite", "refill"}
    BY <1>4 DEF Writes
  <2>4. \A l \in Key \ {k}, m \in Notifier : <<m, l>> \in linked => <<m, l>> \in linked'
    BY <1>6
  <2> QED
    BY <1>2, <1>3, <1>4, <1>6, <2>1, <2>2, <2>3, <2>4, LocalStep
       DEF wvars, clients, registry, lock
<1> QED
  BY <1>5, <1>7, <1>8, <1>9 DEF IInv

-----------------------------------------------------------------------------
(* Beginnings *)

\* An operation begins on a key nothing happens to, or the key is raced.
LEMMA BeginKeeps ==
  ASSUME IInv, NEW n \in Notifier, NEW k \in Key, NEW v \in Value,
         NEW step \in {"write", "rewrite", "notify"},
         NEW type \in {"Added", "Modified", "Deleted"},
         step = "rewrite" => file[k] = v,
         step = "notify" => type = "Deleted",
         Begin(n, step, type, k, v)
  PROVE  IInv'
<1>1. /\ FileStoreTypeOK /\ WP!WatchersTypeOK /\ FilesTypeOK /\ WP!RegistryInv /\ WP!FreshInv
      /\ OperationsInv /\ AloneInv /\ TornInv /\ KnowledgeInv
  BY Parts
<1> DEFINE e == [type |-> type, key |-> k, value |-> v]
<1>2. /\ pc[n] = "idle" /\ pc' = [pc EXCEPT ![n] = step]
      /\ event' = [event EXCEPT ![n] = e]
      /\ raced' = IF Busy(k) THEN raced \cup {k} ELSE raced
      /\ untold' = untold \cup {<<c, k>> : c \in {c \in Client : stage[c] = "push"}}
      /\ UNCHANGED <<wvars, files, faults, spoilt>>
  BY DEF Begin, Goto
<1>3. e \in WP!Event /\ e.key = k /\ e.type = type /\ e.value = v /\ e # W!NoEvent
  BY DEF WP!Event, W!NoEvent
<1> HIDE DEF e
<1>4. /\ pc'[n] = step /\ event'[n] = e
      /\ \A m \in Notifier : m # n => pc'[m] = pc[m] /\ event'[m] = event[m]
  BY <1>1, <1>2 DEF FileStoreTypeOK, WP!WatchersTypeOK
<1>5. event' \in [Notifier -> WP!Event \cup {WP!NoEvent}]
  BY <1>1, <1>2, <1>3 DEF WP!WatchersTypeOK
<1>6. W!WatchersTypeOK' /\ WP!RegistryInv' /\ WP!FreshInv'
  BY <1>1, <1>2, <1>4, <1>5, WatchersKept DEF OperationsInv
<1>7. FileStoreTypeOK'
  <2>1. \A w \in linked : w[1] \in Notifier /\ w[1] # n
    BY <1>1, <1>2 DEF FileStoreTypeOK, FilesTypeOK
  <2>2. /\ pc' \in [Notifier -> Step]
        /\ \A m \in Notifier : pc'[m] = "idle" <=> event'[m] = W!NoEvent
    BY <1>1, <1>2, <1>3, <1>4 DEF FileStoreTypeOK, Step
  <2>3. raced' \cup spoilt' \subseteq Key /\ untold' \subseteq Client \X Key
    BY <1>1, <1>2 DEF FileStoreTypeOK
  <2> QED
    BY <1>1, <1>2, <1>4, <1>6, <2>1, <2>2, <2>3 DEF FileStoreTypeOK, FilesTypeOK, files, Exists
<1>8. OperationsInv'
  BY <1>1, <1>2, <1>4 DEF OperationsInv, wvars, lock
<1>9. /\ \A l \in Key, m \in Notifier : On(m, l)' => (m = n /\ l = k) \/ On(m, l)
      /\ \A l \in Key, m \in Notifier : Writes(m, l)' <=> Writes(m, l)
      /\ \A l \in Key, m \in Notifier : On(m, l) => m # n /\ On(m, l)'
  BY <1>2, <1>3, <1>4 DEF On, Writes
<1>10. k \notin raced' => ~Busy(k)
  BY <1>2
<1>11. raced \subseteq raced' /\ untold \subseteq untold'
  BY <1>2
<1>12. AloneInv'
  <2> SUFFICES ASSUME NEW l \in Key \ raced'
               PROVE  /\ \A i, j \in Notifier : On(i, l)' /\ On(j, l)' => i = j
                      /\ \A m \in Notifier : Writes(m, l)' => <<m, l>> \in linked' /\ file'[l] = Empty
    BY DEF AloneInv
  <2>1. l = k => \A m \in Notifier : ~On(m, k)
    BY <1>10 DEF Busy, On
  <2> QED
    BY <1>1, <1>2, <1>9, <1>11, <2>1 DEF AloneInv, files
<1>13. TornInv'
  BY <1>1, <1>2, <1>9, <1>11 DEF TornInv, Exists, Decodes, files
<1>14. KnowledgeInv'
  <2>1. \A c \in Client, l \in Key : stage'[c] = "push" /\ Busy(l)' => <<c, l>> \in untold'
    <3> SUFFICES ASSUME NEW c \in Client, NEW l \in Key, stage[c] = "push", Busy(l)'
                 PROVE  <<c, l>> \in untold'
      BY <1>2 DEF wvars, clients
    <3>1. CASE l = k
      BY <1>2, <3>1
    <3>2. CASE l # k
      BY <1>1, <1>3, <1>4, <1>11, <3>2 DEF KnowledgeInv, Busy
    <3> QED
      BY <3>1, <3>2
  <2>2. \A l \in Key \ raced', m \in Notifier :
          On(m, l)' /\ pc'[m] \in {"rewrite", "refill"} => l \notin spoilt'
    <3> SUFFICES ASSUME NEW l \in Key \ raced', NEW m \in Notifier, On(m, l)',
                        pc'[m] \in {"rewrite", "refill"}
                 PROVE  l \notin spoilt
      BY <1>2
    <3>1. CASE m = n
      BY <1>1, <1>3, <1>4, <1>11, <3>1 DEF TornInv, Decodes, On
    <3>2. CASE m # n
      BY <1>1, <1>4, <1>9, <1>11, <3>2 DEF KnowledgeInv
    <3> QED
      BY <3>1, <3>2
  <2>3. ASSUME NEW c \in Client, NEW l \in Key \ (raced' \cup spoilt' \cup Nested),
               <<c, l>> \notin untold'
        PROVE  Follows(c, l)'
    <3>1. Follows(c, l)
      BY <1>1, <1>2, <1>11, <2>3 DEF KnowledgeInv
    <3>2. \A x : WP!Expects(c, l, x) => WP!Expects(c, l, x)'
      BY <1>2, ExpectsKept DEF wvars, clients
    <3>3. ~Busy(l)' => WP!Expects(c, l, file[l])'
      <4> SUFFICES ASSUME ~Busy(l)' PROVE WP!Expects(c, l, file[l])'
        OBVIOUS
      <4>1. ~Busy(l)
        BY <1>9 DEF Busy, On
      <4>2. PICK x : x = file[l]
        OBVIOUS
      <4>3. WP!Expects(c, l, x)'
        BY <3>1, <3>2, <4>1, <4>2 DEF Follows
      <4> QED
        BY <1>2, <4>2, <4>3 DEF files
    <3>4. ASSUME NEW m \in Notifier, On(m, l)', m # n PROVE InFlight(m, c, l)'
      <4>1. InFlight(m, c, l)
        BY <1>9, <3>1, <3>4 DEF Follows
      <4>2. Awaits(c, m) <=> Awaits(c, m)'
        BY <1>2 DEF Awaits, wvars, clients, registry, lock
      <4> QED
        BY <1>2, <1>4, <3>2, <3>4, <4>1, <4>2, InFlightKept DEF files
    <3>5. ASSUME l = k PROVE InFlight(n, c, l)'
      <4>1. PICK x : x = file[k]
        OBVIOUS
      <4>2. WP!Expects(c, k, x)'
        BY <1>10, <2>3, <3>1, <3>2, <3>5, <4>1 DEF Follows
      <4>3. step = "rewrite" => WP!Expects(c, k, v)'
        BY <4>1, <4>2
      <4> QED
        BY <1>3, <1>4, <3>5, <4>3 DEF InFlight
    <3> QED
      BY <1>3, <1>4, <3>3, <3>4, <3>5 DEF Follows, On
  <2> QED
    BY <2>1, <2>2, <2>3 DEF KnowledgeInv
<1> QED
  BY <1>6, <1>7, <1>8, <1>12, <1>13, <1>14 DEF IInv

\* An operation that begins promises a client nothing yet.
LEMMA StartKeeps ==
  ASSUME IInv, NEW n \in Notifier, NEW k \in Key
  PROVE  /\ Delete(n, k) => IInv'
         /\ \A v \in Value : Create(n, k, v) \/ Update(n, k, v) => IInv'
<1>1. ASSUME Delete(n, k) PROVE IInv'
  <2>1. PICK x \in Value : x = file[k]
    BY <1>1 DEF Delete, Decodes
  <2> QED
    BY <1>1, <2>1, BeginKeeps DEF Delete
<1>2. ASSUME NEW v \in Value, Create(n, k, v) \/ Update(n, k, v) PROVE IInv'
  <2>1. CASE Begin(n, "write", "Added", k, v) \/ Begin(n, "write", "Modified", k, v)
    BY <2>1, BeginKeeps
  <2>2. CASE file[k] = v /\ Begin(n, "rewrite", "Modified", k, v)
    BY <2>2, BeginKeeps
  <2> QED
    BY <1>2, <2>1, <2>2 DEF Create, Update
<1> QED
  BY <1>1, <1>2

-----------------------------------------------------------------------------
(* The watchers *)

\* Steps of the watchers leave the files and the operations alone.
LEMMA FilesKept ==
  ASSUME IInv, UNCHANGED <<files, pc, event, raced, spoilt, notifying>>
  PROVE  /\ OperationsInv' /\ AloneInv' /\ TornInv'
         /\ \A k \in Key : Busy(k)' <=> Busy(k)
         /\ \A n \in Notifier, k \in Key : On(n, k)' <=> On(n, k)
         /\ \A k \in Key \ raced', n \in Notifier :
              On(n, k)' /\ pc'[n] \in {"rewrite", "refill"} => k \notin spoilt'
<1>1. OperationsInv /\ AloneInv /\ TornInv /\ KnowledgeInv
  BY Parts
<1>2. \A n \in Notifier, k \in Key : (On(n, k)' <=> On(n, k)) /\ (Writes(n, k)' <=> Writes(n, k))
  BY DEF On, Writes
<1> QED
  BY <1>1, <1>2 DEF OperationsInv, AloneInv, TornInv, Exists, Decodes, files, Busy, KnowledgeInv

\* If what c is to learn of k stays true, then c follows k as before.
LEMMA FollowsKept ==
  ASSUME NEW c \in Client, NEW k \in Key, Follows(c, k),
         UNCHANGED <<files, pc, event>>,
         \A x : WP!Expects(c, k, x) => WP!Expects(c, k, x)',
         \A n \in Notifier : On(n, k) /\ Awaits(c, n) =>
           Awaits(c, n)' \/ stage'[c] \notin {"push", "watching"}
  PROVE  Follows(c, k)'
<1>1. ~Busy(k)' => WP!Expects(c, k, file[k])'
  <2> SUFFICES ASSUME ~Busy(k)' PROVE WP!Expects(c, k, file[k])'
    OBVIOUS
  <2>1. ~Busy(k)
    BY DEF Busy
  <2>2. PICK x : x = file[k]
    OBVIOUS
  <2>3. WP!Expects(c, k, x)'
    BY <2>1, <2>2 DEF Follows
  <2> QED
    BY <2>2, <2>3 DEF files
<1>2. ASSUME NEW n \in Notifier, On(n, k)' PROVE InFlight(n, c, k)'
  <2>1. On(n, k) /\ InFlight(n, c, k)
    BY <1>2 DEF Follows, On
  <2> QED
    BY <2>1, InFlightKept DEF files
<1> QED
  BY <1>1, <1>2 DEF Follows

\* A client that has been sent the event of n will know it.
LEMMA SendEventKeeps ==
  ASSUME IInv, NEW n \in Notifier, SendEvent(n)
  PROVE  IInv'
<1>1. /\ FileStoreTypeOK /\ WP!WatchersTypeOK /\ FilesTypeOK /\ WP!RegistryInv /\ WP!FreshInv
      /\ OperationsInv /\ AloneInv /\ TornInv /\ KnowledgeInv
  BY Parts
<1>2. WP!Send(n) /\ UNCHANGED <<event, files, pc, ops, faults, raced, spoilt, untold>>
  BY SameSteps DEF SendEvent
<1>3. PICK i \in toNotify[n] :
        /\ i \in WP!ID /\ watchers[i] \in Client
        /\ stage[watchers[i]] \in {"watching", "stopping"} /\ id[watchers[i]] = i
        /\ event[n] \in WP!Event
        /\ channel' = [channel EXCEPT ![watchers[i]] = Append(@, event[n])]
        /\ toNotify' = [toNotify EXCEPT ![n] = @ \ {i}]
  BY <1>1, <1>2, Instance, WP!SendTo
<1>4. /\ UNCHANGED WP!clients
      /\ UNCHANGED <<stage, items, view, closed, id, watchers, notifying>>
  BY <1>2 DEF WP!Send, WP!clients, WP!registry
<1>5. WP!WatchersTypeOK' /\ WP!RegistryInv'
  BY <1>1, <1>2, Instance, WP!SendType
<1>6. W!WatchersTypeOK'
  BY <1>5, SameState, PTL
<1>7. FileStoreTypeOK'
  BY <1>1, <1>2, <1>6 DEF FileStoreTypeOK, FilesTypeOK, files, Exists
<1>8. PICK c \in Client, e \in WP!Event : c = watchers[i] /\ e = event[n]
  BY <1>3
<1>9. /\ stage[c] \in {"watching", "stopping"} /\ id[c] = i /\ e.key \in Key
      /\ channel' = [channel EXCEPT ![c] = Append(@, e)]
  BY <1>3, <1>8 DEF WP!Event
<1>10. WP!FreshInv'
  BY <1>1, <1>4, <1>9, Instance, WP!SendFresh
<1>11. /\ OperationsInv' /\ AloneInv' /\ TornInv'
       /\ \A k \in Key : Busy(k)' <=> Busy(k)
       /\ \A k \in Key \ raced', m \in Notifier :
            On(m, k)' /\ pc'[m] \in {"rewrite", "refill"} => k \notin spoilt'
  BY <1>2, <1>4, FilesKept
<1>12. /\ WP!Knows(c, e.key, WP!Outcome(e))'
       /\ \A d \in Client, k \in Key : \A x :
            (d # c \/ k # e.key) /\ WP!Expects(d, k, x) => WP!Expects(d, k, x)'
  BY <1>1, <1>4, <1>9, Instance, WP!SendExpects
<1>13. pc[n] = "notifying" /\ On(n, e.key)
  BY <1>1, <1>2, <1>8 DEF OperationsInv, WP!Send, On
<1>14. \A m \in Notifier \ {n} : toNotify'[m] = toNotify[m]
  BY <1>1, <1>3 DEF WP!WatchersTypeOK
<1>15. ASSUME NEW d \in Client, NEW k \in Key \ (raced \cup spoilt \cup Nested), <<d, k>> \notin untold
       PROVE  Follows(d, k)'
  <2>1. Follows(d, k)
    BY <1>1, <1>15 DEF KnowledgeInv
  <2>2. CASE k # e.key
    <3>1. \A m \in Notifier : On(m, k) => m # n
      BY <1>8, <2>2 DEF On
    <3>2. \A m \in Notifier : On(m, k) /\ Awaits(d, m) => Awaits(d, m)'
      BY <1>4, <1>14, <3>1 DEF Awaits
    <3>3. \A x : WP!Expects(d, k, x) => WP!Expects(d, k, x)'
      BY <1>12, <2>2
    <3> QED
      BY <1>2, <2>1, <3>2, <3>3, FollowsKept
  <2>3. CASE k = e.key
    <3>1. InFlight(n, d, k) /\ stage[d] # "push"
      BY <1>1, <1>13, <1>15, <2>1, <2>3 DEF Follows, KnowledgeInv, Busy, On
    <3>2. \A m \in Notifier : On(m, k)' => m = n
      BY <1>2, <1>1, <1>13, <1>15, <2>3 DEF AloneInv, On
    <3>3. PICK o : o = WP!Outcome(e)
      OBVIOUS
    <3>4. ASSUME ~Awaits(d, n)', stage[d] = "watching" PROVE WP!Knows(d, k, o)'
      <4>1. CASE d = c
        BY <1>12, <2>3, <3>3, <4>1 DEF WP!Outcome
      <4>2. CASE d # c
        <5>1. watchers[id[d]] = d
          BY <1>1, <3>4 DEF WP!RegistryInv, WP!IDsPartitioned
        <5>2. id[d] # i
          BY <1>8, <4>2, <5>1
        <5>3. ~Awaits(d, n)
          BY <1>1, <1>3, <1>4, <3>4, <5>2 DEF Awaits, WP!WatchersTypeOK
        <5>4. WP!Expects(d, k, o)
          BY <1>8, <1>13, <3>1, <3>3, <5>3 DEF InFlight
        <5>5. WP!Expects(d, k, o)'
          BY <1>12, <4>2, <5>4
        <5> QED
          BY <1>4, <3>4, <5>5 DEF WP!Expects
      <4> QED
        BY <4>1, <4>2
    <3>5. ~Awaits(d, n)' => WP!Expects(d, k, o)'
      BY <1>4, <3>1, <3>4 DEF WP!Expects
    <3>6. o = WP!Outcome(event[n])'
      BY <1>2, <1>8, <3>3 DEF WP!Outcome
    <3>7. InFlight(n, d, k)'
      BY <1>2, <1>13, <3>1, <3>5, <3>6 DEF InFlight, files
    <3>8. Busy(k)'
      BY <1>11, <1>13, <2>3 DEF Busy, On
    <3> QED
      BY <3>2, <3>7, <3>8 DEF Follows
  <2> QED
    BY <2>2, <2>3
<1>16. KnowledgeInv'
  BY <1>1, <1>2, <1>4, <1>11, <1>15 DEF KnowledgeInv
<1> QED
  BY <1>5, <1>7, <1>10, <1>11, <1>16 DEF IInv

\* Nothing is listed: what is there, or under way, goes untold.
LEMMA WatchListKeeps ==
  ASSUME IInv, NEW c \in Client, WatchList(c)
  PROVE  IInv'
<1>1. /\ FileStoreTypeOK /\ WP!WatchersTypeOK /\ FilesTypeOK /\ WP!RegistryInv /\ WP!FreshInv
      /\ OperationsInv /\ AloneInv /\ TornInv /\ KnowledgeInv
  BY Parts
<1>2. PICK db \in [Key -> Value \cup {Absent}] : db = Listed
  BY DEF Listed
<1>3. /\ WP!List(c, db)
      /\ untold' = untold \cup {<<c, k>> : k \in {k \in Key : Exists(k) \/ Busy(k)}}
      /\ UNCHANGED <<event, files, pc, ops, faults, raced, spoilt>>
  BY <1>2, SameSteps DEF WatchList
<1>4. UNCHANGED <<view, channel, closed, id, watchers, notifying, toNotify>>
  BY <1>3 DEF WP!List, WP!registry, WP!lock
<1>5. WP!WatchersTypeOK' /\ WP!RegistryInv' /\ WP!FreshInv'
  BY <1>1, <1>3, Instance, WP!ListType, WP!ListRegistry, WP!WatchingFresh
<1>6. W!WatchersTypeOK'
  BY <1>5, SameState, PTL
<1>7. FileStoreTypeOK'
  <2>1. untold' \subseteq Client \X Key
    BY <1>1, <1>3 DEF FileStoreTypeOK
  <2> QED
    BY <1>1, <1>3, <1>6, <2>1 DEF FileStoreTypeOK, FilesTypeOK, files, Exists
<1>8. /\ OperationsInv' /\ AloneInv' /\ TornInv'
      /\ \A k \in Key : Busy(k)' <=> Busy(k)
      /\ \A n \in Notifier, k \in Key : On(n, k)' <=> On(n, k)
      /\ \A k \in Key \ raced', m \in Notifier :
           On(m, k)' /\ pc'[m] \in {"rewrite", "refill"} => k \notin spoilt'
  BY <1>3, <1>4, FilesKept
<1>9. \A d \in Client \ {c} : stage'[d] = stage[d]
  BY <1>1, <1>3 DEF WP!List, WP!Enter, WP!WatchersTypeOK
<1>10. \A d \in Client, k \in Key : stage'[d] = "push" /\ Busy(k)' => <<d, k>> \in untold'
  <2> SUFFICES ASSUME NEW d \in Client, NEW k \in Key, stage'[d] = "push", Busy(k)
               PROVE  <<d, k>> \in untold'
    BY <1>8
  <2>1. CASE d = c
    BY <1>3, <2>1
  <2>2. CASE d # c
    BY <1>1, <1>3, <1>9, <2>2 DEF KnowledgeInv
  <2> QED
    BY <2>1, <2>2
<1>11. ASSUME NEW d \in Client, NEW k \in Key \ (raced \cup spoilt \cup Nested), <<d, k>> \notin untold'
       PROVE  Follows(d, k)'
  <2>1. Follows(d, k)
    BY <1>1, <1>3, <1>11 DEF KnowledgeInv
  <2>2. CASE d = c
    <3>1. ~Exists(k) /\ ~Busy(k)
      BY <1>3, <1>11, <2>2
    <3>2. PICK x : x = db[k]
      OBVIOUS
    <3>3. WP!Expects(c, k, x)'
      BY <1>1, <1>3, <3>2, Instance, WP!ListExpects
    <3>4. x = file'[k]
      BY <1>2, <1>3, <3>1, <3>2 DEF Exists, Listed, files
    <3>5. WP!Expects(d, k, file[k])'
      BY <2>2, <3>3, <3>4
    <3> QED
      BY <1>8, <3>1, <3>5 DEF Follows, Busy, On
  <2>3. CASE d # c
    <3>1. \A x : WP!Expects(d, k, x) => WP!Expects(d, k, x)'
      BY <1>1, <1>3, <2>3, Instance, WP!ListOthers
    <3>2. \A n \in Notifier : Awaits(d, n) => Awaits(d, n)'
      BY <1>4, <1>9, <2>3 DEF Awaits
    <3> QED
      BY <1>3, <2>1, <3>1, <3>2, FollowsKept
  <2> QED
    BY <2>2, <2>3
<1>12. KnowledgeInv'
  BY <1>3, <1>8, <1>10, <1>11 DEF KnowledgeInv
<1> QED
  BY <1>5, <1>7, <1>8, <1>12 DEF IInv

\* What clients do leaves the files alone and brings no view further from them.
LEMMA WatchingKeeps ==
  ASSUME IInv, NEW c \in Client, Watching(c)
  PROVE  IInv'
<1>1. /\ FileStoreTypeOK /\ WP!WatchersTypeOK /\ FilesTypeOK /\ WP!RegistryInv /\ WP!FreshInv
      /\ OperationsInv /\ AloneInv /\ TornInv /\ KnowledgeInv
  BY Parts
<1>2. /\ \/ WP!StartWatch(c) \/ WP!Push(c) \/ WP!Add(c) \/ WP!Receive(c) \/ WP!Stop(c)
         \/ WP!Del(c)
      /\ WP!StartWatch(c) \/ WP!Add(c) \/ WP!Receive(c) \/ WP!Stop(c) \/ WP!Del(c)
      /\ UNCHANGED <<event, files, pc, ops, faults, raced, spoilt, untold>>
  BY SameSteps DEF Watching
<1>3. UNCHANGED <<notifying, toNotify>>
  BY <1>2 DEF WP!StartWatch, WP!Add, WP!Receive, WP!Stop, WP!Del, WP!Unregister, WP!lock
<1>4. WP!WatchersTypeOK' /\ WP!RegistryInv' /\ WP!FreshInv'
  BY <1>1, <1>2, Instance, WP!WatchingType, WP!WatchingRegistry, WP!WatchingFresh
<1>5. W!WatchersTypeOK'
  BY <1>4, SameState, PTL
<1>6. FileStoreTypeOK'
  BY <1>1, <1>2, <1>5 DEF FileStoreTypeOK, FilesTypeOK, files, Exists
<1>7. /\ OperationsInv' /\ AloneInv' /\ TornInv'
      /\ \A k \in Key : Busy(k)' <=> Busy(k)
      /\ \A k \in Key \ raced', m \in Notifier :
           On(m, k)' /\ pc'[m] \in {"rewrite", "refill"} => k \notin spoilt'
  BY <1>2, <1>3, FilesKept
<1>8. \A d \in Client, k \in Key : \A x : WP!Expects(d, k, x) => WP!Expects(d, k, x)'
  BY <1>1, <1>2, Instance, WP!WatchingExpects
<1>9. \A d \in Client :
        /\ stage'[d] = "push" => stage[d] = "push"
        /\ stage[d] = "watching" /\ stage'[d] = "watching" => id'[d] = id[d]
  BY <1>1, <1>2 DEF WP!StartWatch, WP!Add, WP!Receive, WP!Stop, WP!Del, WP!Unregister, WP!Enter,
     WP!AllocateID, WP!registry, WP!WatchersTypeOK
<1>10. KnowledgeInv'
  <2>1. ASSUME NEW d \in Client, NEW k \in Key, Follows(d, k) PROVE Follows(d, k)'
    <3>1. \A n \in Notifier : Awaits(d, n) => Awaits(d, n)' \/ stage'[d] \notin {"push", "watching"}
      BY <1>3, <1>9 DEF Awaits
    <3> QED
      BY <1>2, <1>8, <2>1, <3>1, FollowsKept
  <2>2. \A d \in Client, k \in Key : stage'[d] = "push" /\ Busy(k)' => <<d, k>> \in untold'
    BY <1>1, <1>2, <1>7, <1>9 DEF KnowledgeInv
  <2> QED
    BY <1>1, <1>2, <1>7, <2>1, <2>2 DEF KnowledgeInv
<1> QED
  BY <1>4, <1>6, <1>7, <1>10 DEF IInv

-----------------------------------------------------------------------------
(* Crashes, and the start *)

\* A process starts with a registry that nobody has entered.
StartOfProcess ==
  /\ watchers = [i \in W!ID |-> NoClient]
  /\ availableIDs = [i \in 1..(MaxID + 1) |-> i - 1] /\ allocatedIDs = {}
  /\ \A c \in Client : stage[c] \notin {"watching", "stopping"}

\* A process starts with a registry in which everything agrees.
LEMMA StartRegistry == StartOfProcess => WP!IDsPartitioned /\ availableIDs \in Seq(WP!ID)
<1> SUFFICES ASSUME StartOfProcess PROVE WP!IDsPartitioned /\ availableIDs \in Seq(WP!ID)
  OBVIOUS
<1>1. W!ID = WP!ID
  BY DEF W!ID, WP!ID
<1>2. WP!IDsPartitioned
  BY <1>1, Instance, WP!EmptyRegistry DEF StartOfProcess
<1>3. availableIDs \in Seq(WP!ID)
  BY FileStoreAssumption DEF StartOfProcess, WP!ID
<1> QED
  BY <1>2, <1>3

\* Nobody is left that has been told anything, and what was being written is
\* spoilt.
LEMMA CrashKeeps ==
  ASSUME IInv, Crash
  PROVE  IInv'
<1>1. /\ FileStoreTypeOK /\ WP!WatchersTypeOK /\ FilesTypeOK /\ WP!RegistryInv /\ WP!FreshInv
      /\ OperationsInv /\ AloneInv /\ TornInv /\ KnowledgeInv
  BY Parts
<1>2. /\ CloseFiles
      /\ spoilt' = spoilt \cup {w[2] : w \in linked}
      /\ stage' = [c \in Client |-> IF stage[c] = "new" THEN "new" ELSE "failed"]
      /\ items' = [c \in Client |-> {}] /\ channel' = [c \in Client |-> <<>>]
      /\ watchers' = [i \in W!ID |-> NoClient]
      /\ availableIDs' = [i \in 1..(MaxID + 1) |-> i - 1] /\ allocatedIDs' = {}
      /\ notifying' = {} /\ toNotify' = [n \in Notifier |-> {}]
      /\ event' = [n \in Notifier |-> W!NoEvent]
      /\ pc' = [n \in Notifier |-> "idle"]
      /\ UNCHANGED <<view, id, closed, ops, raced, untold>>
  BY DEF Crash
<1>3. StartOfProcess'
  BY <1>2 DEF StartOfProcess
<1>4. WP!IDsPartitioned' /\ availableIDs' \in Seq(WP!ID)
  <2>1. (WP!IDsPartitioned /\ availableIDs \in Seq(WP!ID))'
    BY <1>3, StartRegistry, PTL
  <2> QED
    BY <2>1
<1>5. WP!WatchersTypeOK'
  <2>1. stage' \in [Client -> WP!Stage]
    BY <1>2 DEF WP!Stage
  <2>2. /\ items' \in [Client -> SUBSET WP!Event] /\ channel' \in [Client -> Seq(WP!Event)]
        /\ \A c \in Client : Len(channel'[c]) <= Capacity
    BY <1>2, FileStoreAssumption
  <2>3. watchers' \in [WP!ID -> Client \cup {NoClient}]
    BY <1>2 DEF W!ID, WP!ID
  <2>4. event' \in [Notifier -> WP!Event \cup {WP!NoEvent}]
    BY <1>2, SameState
  <2> QED
    BY <1>1, <1>2, <1>4, <2>1, <2>2, <2>3, <2>4 DEF WP!WatchersTypeOK
<1>6. W!WatchersTypeOK'
  BY <1>5, SameState, PTL
<1>7. WP!RegistryInv'
  <2>1. \A c \in closed : c \in Client /\ stage[c] # "new"
    BY <1>1 DEF WP!RegistryInv, WP!WatchersTypeOK
  <2>2. \A c \in closed' : stage'[c] \in {"stopped", "failed"}
    BY <1>2, <2>1
  <2> QED
    BY <1>2, <1>4, <2>2 DEF WP!RegistryInv
<1>8. WP!FreshInv'
  <2> SUFFICES ASSUME NEW c \in Client, stage'[c] \in {"new", "list"}
               PROVE  channel'[c] = <<>> /\ \A k \in Key : view'[c][k] = Absent
    BY DEF WP!FreshInv
  <2>1. stage[c] = "new"
    BY <1>2
  <2> QED
    BY <1>1, <1>2, <2>1 DEF WP!FreshInv
<1>9. FileStoreTypeOK'
  <2>1. spoilt' \subseteq Key
    BY <1>1, <1>2 DEF FileStoreTypeOK, FilesTypeOK
  <2>2. FilesTypeOK' /\ \A k \in Nested : ~Exists(k)'
    BY <1>1, <1>2 DEF FileStoreTypeOK, FilesTypeOK, CloseFiles, Exists
  <2>3. linked' = {}
    BY <1>2 DEF CloseFiles
  <2>4. /\ pc' \in [Notifier -> Step]
        /\ \A n \in Notifier : pc'[n] = "idle" <=> event'[n] = W!NoEvent
    BY <1>2 DEF Step
  <2> QED
    BY <1>1, <1>2, <1>6, <2>1, <2>2, <2>3, <2>4 DEF FileStoreTypeOK
<1>10. \A n \in Notifier, k \in Key : ~On(n, k)' /\ ~Writes(n, k)'
  BY <1>2 DEF On, Writes
<1>11. OperationsInv' /\ AloneInv'
  BY <1>2, <1>10 DEF OperationsInv, AloneInv
<1>12. TornInv'
  <2> SUFFICES ASSUME NEW k \in Key \ raced
               PROVE  /\ k \in spoilt' => ~Decodes(k)
                      /\ Exists(k) /\ ~Decodes(k) => k \in spoilt'
    BY <1>2 DEF TornInv, CloseFiles, Exists, Decodes
  <2>1. \A n \in Notifier : Writes(n, k) => <<n, k>> \in linked /\ file[k] = Empty
    BY <1>1 DEF AloneInv
  <2>2. \A w \in linked : w[2] = k => w[1] \in Notifier /\ Writes(w[1], k)
    BY <1>1 DEF FileStoreTypeOK, FilesTypeOK, Writes
  <2>3. k \in spoilt' => ~Decodes(k)
    BY <1>1, <1>2, <2>1, <2>2, JSONFilesAssumption DEF TornInv, Decodes
  <2>4. ASSUME NEW n \in Notifier, Writes(n, k) PROVE k \in spoilt'
    <3>1. <<n, k>> \in linked /\ <<n, k>>[2] = k
      BY <2>1, <2>4
    <3> QED
      BY <1>2, <3>1
  <2> QED
    BY <1>1, <1>2, <2>3, <2>4 DEF TornInv
<1>13. KnowledgeInv'
  <2>1. \A c \in Client : stage'[c] \in {"new", "failed"}
    BY <1>2
  <2>2. \A c \in Client, k \in Key : Follows(c, k)'
    BY <1>10, <2>1 DEF Follows, WP!Expects
  <2>3. \A c \in Client : stage'[c] # "push"
    BY <2>1
  <2> QED
    BY <1>10, <2>2, <2>3 DEF KnowledgeInv
<1> QED
  BY <1>5, <1>7, <1>8, <1>9, <1>11, <1>12, <1>13 DEF IInv

\* The store starts with no file, nobody at work and nobody watching.
LEMMA FileStoreInit == Init => IInv
<1> SUFFICES ASSUME Init PROVE IInv
  OBVIOUS
<1>1. WP!WatchersInit /\ FilesInit /\ pc = [n \in Notifier |-> "idle"]
  BY SameState DEF Init
<1>2. WP!WatchersTypeOK /\ WP!RegistryInv /\ WP!FreshInv
  BY <1>1, Instance, WP!WatchersTypeInit, WP!RegistryInit, WP!FreshInit
<1>3. \A n \in Notifier, k \in Key : ~On(n, k) /\ ~Writes(n, k)
  BY <1>1 DEF On, Writes
<1>4. FileStoreTypeOK
  <2>1. /\ FilesTypeOK /\ linked = {}
        /\ \A k \in Nested : ~Exists(k)
    BY <1>1, FileStoreAssumption DEF FilesInit, FilesTypeOK, Exists
  <2>2. \A n \in Notifier : pc[n] = "idle" <=> event[n] = W!NoEvent
    BY <1>1, SameState DEF WP!WatchersInit
  <2> QED
    BY <1>1, <1>2, <2>1, <2>2, SameState DEF Init, FileStoreTypeOK, Step
<1>5. OperationsInv /\ AloneInv /\ TornInv
  BY <1>1, <1>3 DEF Init, WP!WatchersInit, FilesInit, OperationsInv, AloneInv, TornInv, Exists
<1>6. KnowledgeInv
  <2>1. \A c \in Client : stage[c] = "new"
    BY <1>1 DEF WP!WatchersInit
  <2> QED
    BY <1>3, <2>1 DEF Init, KnowledgeInv, Follows, WP!Expects
<1> QED
  BY <1>2, <1>4, <1>5, <1>6 DEF IInv

-----------------------------------------------------------------------------
(* The theorems *)

\* The inductive invariant holds of every behaviour of the file store.
THEOREM FileStoreInvariant == Spec => []IInv
<1>1. IInv /\ [Next]_vars => IInv'
  <2> SUFFICES ASSUME IInv, [Next]_vars PROVE IInv'
    OBVIOUS
  <2>1. ASSUME NEW n \in Notifier, NEW k \in Key,
               Delete(n, k) \/ \E v \in Value : Create(n, k, v) \/ Update(n, k, v)
        PROVE  IInv'
    BY <2>1, StartKeeps
  <2>2. ASSUME NEW n \in Notifier, Operation(n) PROVE IInv'
    BY <2>2, OpenFailsKeeps, OpenForWriteKeeps, FillKeeps, WriteFailsKeeps, NotifyWatchersKeeps,
       SendEventKeeps, NotifiedKeeps, RemoveKeeps DEF Operation
  <2>3. ASSUME NEW c \in Client, WatchList(c) \/ Watching(c) PROVE IInv'
    BY <2>3, WatchListKeeps, WatchingKeeps
  <2>4. CASE Crash
    BY <2>4, CrashKeeps
  <2>5. CASE UNCHANGED vars
    <3>1. /\ UNCHANGED <<files, pc, event, raced, spoilt, untold>> /\ UNCHANGED wvars
          /\ FileStoreTypeOK /\ WP!WatchersTypeOK /\ KnowledgeInv
      BY <2>5, Parts DEF vars
    <3>2. W!WatchersTypeOK' /\ WP!RegistryInv' /\ WP!FreshInv'
      BY <3>1, WatchersKept DEF WP!WatchersTypeOK
    <3>3. FileStoreTypeOK'
      BY <3>1, <3>2 DEF FileStoreTypeOK, FilesTypeOK, files, Exists
    <3>4. /\ OperationsInv' /\ AloneInv' /\ TornInv'
          /\ \A k \in Key : Busy(k)' <=> Busy(k)
          /\ \A k \in Key \ raced', m \in Notifier :
               On(m, k)' /\ pc'[m] \in {"rewrite", "refill"} => k \notin spoilt'
      BY <3>1, FilesKept DEF wvars, lock
    <3>5. \A c \in Client, k \in Key : Follows(c, k) => Follows(c, k)'
      BY <3>1, ExpectsKept, FollowsKept DEF wvars, clients, registry, lock, Awaits
    <3>6. KnowledgeInv'
      BY <3>1, <3>4, <3>5 DEF KnowledgeInv, wvars, clients
    <3> QED
      BY <3>2, <3>3, <3>4, <3>6 DEF IInv
  <2> QED
    BY <2>1, <2>2, <2>3, <2>4, <2>5 DEF Next
<1> QED
  BY FileStoreInit, <1>1, PTL DEF Spec

\* Every variable of the file store keeps its type, no file with a namespace
\* ever comes to be, and only writers have files opened.
THEOREM FileStoreTypes == Spec => []FileStoreTypeOK
<1>1. IInv => FileStoreTypeOK
  BY DEF IInv
<1> QED
  BY <1>1, FileStoreInvariant, PTL

\* A file that does not decode is being written, or a write of it failed, was
\* cut short by a crash or overlapped another operation, whatever the number of
\* operations, crashes and failures.
THEOREM FilesStayWhole == Spec => []FilesWhole
<1>1. IInv => FilesWhole
  <2> SUFFICES ASSUME IInv, NEW k \in Key, Exists(k), ~Decodes(k), k \notin raced, k \notin spoilt
               PROVE  Busy(k)
    BY DEF FilesWhole
  <2>1. PICK n \in Notifier : Writes(n, k)
    BY DEF IInv, TornInv
  <2> QED
    BY <2>1 DEF Busy, Writes
<1> QED
  BY <1>1, FileStoreInvariant, PTL

\* A watcher that has received what it was sent knows what the file says, but
\* for the keys of ViewsConverge, through crashes and failed writes, for any
\* number of keys, values, operations and watchers.
THEOREM ViewsAgree == Spec => []ViewsConverge
<1>1. IInv => ViewsConverge
  <2> SUFFICES ASSUME IInv, NEW c \in Client, NEW k \in Key \ Nested, W!Informed(c, k),
                      ~Busy(k), k \notin raced \cup spoilt, <<c, k>> \notin untold
               PROVE  view[c][k] = file[k]
    BY DEF ViewsConverge
  <2>1. WP!Expects(c, k, file[k]) /\ WP!Informed(c, k)
    BY SameSteps DEF IInv, KnowledgeInv, Follows
  <2> QED
    BY <2>1, Instance, WP!InformedKnows
<1> QED
  BY <1>1, FileStoreInvariant, PTL

\* The ids of the file store's registry stay partitioned when a crash starts the
\* registry anew among clients of before, and no notifier sends on a channel
\* that is closed.
THEOREM RegistryStaysSound == Spec => [](W!IDsPartitioned /\ W!NeverSendsOnClosed)
<1>1. IInv => W!IDsPartitioned /\ W!NeverSendsOnClosed
  <2> SUFFICES ASSUME IInv PROVE W!IDsPartitioned /\ W!NeverSendsOnClosed
    OBVIOUS
  <2>1. WP!IDsPartitioned /\ WP!NeverSendsOnClosed
    BY Parts, Instance, WP!RegistrySends DEF WP!RegistryInv
  <2> QED
    BY <2>1 DEF W!IDsPartitioned, WP!IDsPartitioned, W!NeverSendsOnClosed, WP!NeverSendsOnClosed,
       W!ID, WP!ID
<1> QED
  BY <1>1, FileStoreInvariant, PTL
=============================================================================
