----------------------------- MODULE FileStore -----------------------------
(***************************************************************************)
(* The file store, pkg/store/file: the operations of MemStore with files   *)
(* for the map.  What the map cannot do a file can: it may fail to decode, *)
(* which Get reports as it reports a missing one, and writing it may fail, *)
(* which nobody is told.  List never gets past the first file.             *)
(*                                                                         *)
(* The watchers are those of Watchers.  A crash loses them, not the files. *)
(***************************************************************************)
EXTENDS JSONFiles, Naturals, Sequences

CONSTANTS
  Client, Stopper, NoClient, MaxID, Capacity,  \* as in Watchers
  Nested,     \* the keys with a namespace: nobody creates its directory
  MaxOps,     \* bound on the operations
  MaxFaults   \* bound on failed writes and crashes

ASSUME FileStoreAssumption ==
  /\ Stopper \subseteq Client /\ NoClient \notin Client
  /\ MaxID \in Nat /\ Capacity \in Nat \ {0}
  /\ Nested \subseteq Key /\ MaxOps \in Nat /\ MaxFaults \in Nat

VARIABLES
  stage, items, channel, closed, view, id, watchers, availableIDs, allocatedIDs,
  notifying, toNotify, event,
  pc,        \* the next step of each operation
  ops, faults,
  raced,     \* the keys two operations on which overlapped
  spoilt,    \* the keys a write of which failed, or was cut short by a crash
  untold     \* <<c, k>>: Watch did not list k, or k changed before Add

W == INSTANCE Watchers WITH Closing <- TRUE

clients  == <<stage, items, view>>
registry == <<id, watchers, availableIDs, allocatedIDs>>
lock     == <<notifying, toNotify>>
wvars    == <<clients, channel, closed, registry, lock>>
vars     == <<wvars, event, files, pc, ops, faults, raced, spoilt, untold>>

Step == {"idle", "write", "rewrite", "fill", "refill", "notify", "notifying", "remove"}

FileStoreTypeOK ==
  /\ W!WatchersTypeOK /\ FilesTypeOK
  /\ \A k \in Nested : ~Exists(k)
  /\ pc \in [Notifier -> Step]
  /\ \A n \in Notifier : pc[n] = "idle" <=> event[n] = W!NoEvent
  /\ \A w \in linked : pc[w[1]] \in {"fill", "refill"} /\ event[w[1]].key = w[2]
  /\ raced \cup spoilt \subseteq Key /\ untold \subseteq Client \X Key

Init ==
  /\ W!WatchersInit /\ FilesInit
  /\ pc = [n \in Notifier |-> "idle"]
  /\ ops = 0 /\ faults = 0
  /\ raced = {} /\ spoilt = {} /\ untold = {}

Busy(k) == \E n \in Notifier : pc[n] # "idle" /\ event[n].key = k

-----------------------------------------------------------------------------
(* The operations *)

Goto(n, step) == pc' = [pc EXCEPT ![n] = step]
Finish(n) == Goto(n, "idle") /\ event' = [event EXCEPT ![n] = W!NoEvent]
Continue(n, step) == Goto(n, step) /\ UNCHANGED event

\* Get comes first; its errors are all alike.
Begin(n, step, type, k, v) ==
  /\ pc[n] = "idle" /\ ops < MaxOps
  /\ ops' = ops + 1
  /\ Goto(n, step)
  /\ event' = [event EXCEPT ![n] = [type |-> type, key |-> k, value |-> v]]
  /\ raced' = IF Busy(k) THEN raced \cup {k} ELSE raced
  /\ untold' = untold \cup {<<c, k>> : c \in {c \in Client : stage[c] = "push"}}
  /\ UNCHANGED <<wvars, files, faults, spoilt>>

\* A file that does not decode is no duplicate.
Create(n, k, v) ==
  /\ ~Decodes(k)
  /\ Begin(n, "write", "Added", k, v)

Update(n, k, v) ==
  \/ ~Decodes(k) /\ Begin(n, "write", "Added", k, v)
  \/ Decodes(k) /\ file[k] # v /\ Begin(n, "write", "Modified", k, v)
  \/ file[k] = v /\ Begin(n, "rewrite", "Modified", k, v)

Delete(n, k) ==
  /\ Decodes(k)
  /\ Begin(n, "notify", "Deleted", k, file[k])

\* After the write, or its failure: an update to an equal object is not told.
Written(n) == IF pc[n] \in {"write", "fill"} THEN Continue(n, "notify") ELSE Finish(n)

\* The directory is missing.
OpenFails(n) ==
  /\ pc[n] \in {"write", "rewrite"} /\ event[n].key \in Nested
  /\ Written(n)
  /\ UNCHANGED <<wvars, files, ops, faults, raced, spoilt, untold>>

OpenForWrite(n) ==
  /\ pc[n] \in {"write", "rewrite"} /\ event[n].key \notin Nested
  /\ OpenFile(n, event[n].key)
  /\ Continue(n, IF pc[n] = "write" THEN "fill" ELSE "refill")
  /\ UNCHANGED <<wvars, ops, faults, raced, spoilt, untold>>

Fill(n) ==
  /\ pc[n] \in {"fill", "refill"}
  /\ FillFile(n, event[n].key, event[n].value)
  /\ spoilt' = {k \in spoilt : file'[k] \notin Value}
  /\ Written(n)
  /\ UNCHANGED <<wvars, ops, faults, raced, untold>>

NotifyWatchers(n) ==
  /\ pc[n] = "notify"
  /\ Goto(n, "notifying") /\ W!Notify(n)
  /\ UNCHANGED <<files, ops, faults, raced, spoilt, untold>>

SendEvent(n) ==
  /\ W!Send(n)
  /\ UNCHANGED <<event, files, pc, ops, faults, raced, spoilt, untold>>

\* Mutant: the file stays.
ForgetRemove(n) ==
  /\ pc[n] = "notifying"
  /\ W!EndNotify(n) /\ Finish(n)
  /\ UNCHANGED <<files, ops, faults, raced, spoilt, untold>>

Notified(n) ==
  /\ pc[n] = "notifying"
  /\ W!EndNotify(n)
  /\ IF event[n].type = "Deleted" THEN Continue(n, "remove") ELSE Finish(n)
  /\ UNCHANGED <<files, ops, faults, raced, spoilt, untold>>

\* The error of os.Remove is ignored.
Remove(n) ==
  /\ pc[n] = "remove"
  /\ RemoveFile(event[n].key)
  /\ Finish(n)
  /\ UNCHANGED <<wvars, ops, faults, raced, spoilt, untold>>

-----------------------------------------------------------------------------
(* The watchers *)

\* visitDir splits the path of a file where it means the root's, finds the one
\* no longer than the other, and gives up at the first file.  So Watch has
\* nothing to push.
Listed == [k \in Key |-> Absent]

WatchList(c) ==
  /\ W!List(c, Listed)
  /\ untold' = untold \cup {<<c, k>> : k \in {k \in Key : Exists(k) \/ Busy(k)}}
  /\ UNCHANGED <<event, files, pc, ops, faults, raced, spoilt>>

Watching(c) ==
  /\ W!StartWatch(c) \/ W!Add(c) \/ W!Receive(c) \/ W!Stop(c) \/ W!Del(c)
  /\ UNCHANGED <<event, files, pc, ops, faults, raced, spoilt, untold>>

-----------------------------------------------------------------------------
(* Faults *)

Fault == faults < MaxFaults /\ faults' = faults + 1

\* No space is left.
WriteFails(n) ==
  /\ pc[n] \in {"fill", "refill"} /\ Fault
  /\ linked' = linked \ {<<n, event[n].key>>} /\ UNCHANGED file
  /\ spoilt' = spoilt \cup {event[n].key}
  /\ Written(n)
  /\ UNCHANGED <<wvars, ops, raced, untold>>

\* The process is killed and starts again.  A deletion may have been told and
\* not made, but nobody is left that was told.
Crash ==
  /\ Fault
  /\ CloseFiles
  /\ spoilt' = spoilt \cup {w[2] : w \in linked}
  /\ stage' = [c \in Client |-> IF stage[c] = "new" THEN "new" ELSE "failed"]
  /\ items' = [c \in Client |-> {}] /\ channel' = [c \in Client |-> <<>>]
  /\ watchers' = [i \in W!ID |-> NoClient]
  /\ availableIDs' = [i \in 1..(MaxID + 1) |-> i - 1] /\ allocatedIDs' = {}
  /\ notifying' = {} /\ toNotify' = [n \in Notifier |-> {}]
  /\ event' = [n \in Notifier |-> W!NoEvent]
  /\ pc' = [n \in Notifier |-> "idle"]
  /\ UNCHANGED <<view, id, closed, ops, raced, untold>>

Operation(n) ==
  \/ OpenFails(n) \/ OpenForWrite(n) \/ Fill(n) \/ WriteFails(n)
  \/ NotifyWatchers(n) \/ SendEvent(n) \/ Notified(n) \/ Remove(n)

Next ==
  \/ \E n \in Notifier, k \in Key :
        Delete(n, k) \/ \E v \in Value : Create(n, k, v) \/ Update(n, k, v)
  \/ \E n \in Notifier : Operation(n)
  \/ \E c \in Client : WatchList(c) \/ Watching(c)
  \/ Crash

Spec == Init /\ [][Next]_vars

-----------------------------------------------------------------------------
(* Safety *)

\* Get, Create and Delete take a file that does not decode for a missing one,
\* and Delete returns without error and leaves it.  There is such a file only
\* while it is written, or when a write failed, was cut short by a crash or
\* overlapped another operation on the key (writeFile, deleteFile).
FilesWhole ==
  \A k \in Key :
    Exists(k) /\ ~Decodes(k) => Busy(k) \/ k \in raced \/ k \in spoilt

\* What a watcher has learnt is what the file says, for the keys that are no
\* exception: those with a namespace, which are told and never stored; those
\* Watch did not list; and those spoilt by a write whose failure was ignored.
\* Update and Delete in particular tell the truth although a key may be torn
\* before them, and a crash may come at any of their steps.
ViewsConverge ==
  \A c \in Client, k \in Key \ Nested :
    /\ W!Informed(c, k)
    /\ ~Busy(k) /\ k \notin raced \cup spoilt /\ <<c, k>> \notin untold
    => view[c][k] = file[k]
=============================================================================
