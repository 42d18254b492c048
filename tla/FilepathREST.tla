---------------------------- MODULE FilepathREST ----------------------------
(***************************************************************************)
(* The file-backed REST storage, pkg/filepath/jsonfile_rest.go: requests   *)
(* on the objects of one namespace, each a sequence of file operations and *)
(* a notification, with no lock around them; and watches, registered under *)
(* ids that are counts.  A crash loses the watches and keeps the files.    *)
(*                                                                         *)
(* The notification and the channels are those of Watchers; the registry   *)
(* has no allocator.                                                       *)
(***************************************************************************)
EXTENDS JSONFiles, Naturals, Sequences, FiniteSets

CONSTANTS
  Client, Stopper, NoClient, Capacity,  \* as in Watchers
  MaxOps,        \* bound on the requests
  MaxFaults      \* bound on failed writes and crashes

\* Keys are numbers for their lexical order, in which filepath.Walk visits files.
ASSUME FilepathAssumption ==
  /\ IsFiniteSet(Client) /\ Stopper \subseteq Client /\ NoClient \notin Client
  /\ Capacity \in Nat \ {0}
  /\ Key \subseteq Nat /\ MaxOps \in Nat /\ MaxFaults \in Nat

VARIABLES
  stage, items, channel, view, id, watchers, notifying, toNotify, event,
  dir,      \* whether the directory of the namespace exists
  toRead,   \* of each client: the files its list has yet to read
  pc,       \* the next step of each request
  sweep,    \* of each DeleteCollection: the files it has yet to visit
  ops, faults,
  raced,    \* the keys two requests on which overlapped
  spoilt,   \* the keys whose file was left half-written
  untold,   \* <<c, k>>: a change of k was told to nobody while c was, or
            \* became, a watcher
  overlapped  \* whether two calls of Watch overlapped

W == INSTANCE Watchers WITH availableIDs <- <<>>, allocatedIDs <- {}, closed <- {},
                            MaxID <- Cardinality(Client), Closing <- FALSE

wvars == <<stage, items, channel, view, id, watchers, notifying, toNotify>>
hvars == <<raced, spoilt, untold, overlapped>>
vars  == <<wvars, hvars, event, files, dir, toRead, pc, sweep, ops, faults>>

Step == {"idle", "write", "fill", "remove", "notify", "notifying", "sweep", "sweepRemove"}

FilepathTypeOK ==
  /\ FilesTypeOK
  /\ stage \in [Client -> W!Stage \cup {"read"}]
  /\ items \in [Client -> SUBSET W!Event]
  /\ channel \in [Client -> Seq(W!Event)] /\ \A c \in Client : Len(channel[c]) <= Capacity
  /\ view \in [Client -> [Key -> Value \cup {Absent}]]
  /\ id \in [Client -> W!ID] /\ watchers \in [W!ID -> Client \cup {NoClient}]
  /\ notifying \subseteq Notifier /\ toNotify \in [Notifier -> SUBSET W!ID]
  /\ event \in [Notifier -> W!Event \cup {W!NoEvent}]
  /\ dir \in BOOLEAN /\ (~dir => \A k \in Key : ~Exists(k))
  /\ toRead \in [Client -> SUBSET Key] /\ sweep \in [Notifier -> SUBSET Key]
  /\ pc \in [Notifier -> Step]
  /\ \A n \in Notifier : pc[n] = "idle" => sweep[n] = {} /\ event[n] = W!NoEvent
  /\ raced \cup spoilt \subseteq Key /\ untold \subseteq Client \X Key

Init ==
  /\ stage = [c \in Client |-> "new"] /\ items = [c \in Client |-> {}]
  /\ channel = [c \in Client |-> <<>>]
  /\ view = [c \in Client |-> [k \in Key |-> Absent]]
  /\ id = [c \in Client |-> 0] /\ watchers = [i \in W!ID |-> NoClient]
  /\ notifying = {} /\ toNotify = [n \in Notifier |-> {}]
  /\ event = [n \in Notifier |-> W!NoEvent]
  /\ FilesInit /\ dir = FALSE
  /\ toRead = [c \in Client |-> {}] /\ sweep = [n \in Notifier |-> {}]
  /\ pc = [n \in Notifier |-> "idle"]
  /\ ops = 0 /\ faults = 0
  /\ raced = {} /\ spoilt = {} /\ untold = {} /\ overlapped = FALSE

\* A request works on the key of its event, or on those it has yet to sweep.
WorksOn(n, k) ==
  \/ k \in sweep[n]
  \/ event[n] # W!NoEvent /\ event[n].key = k
Busy(k) == \E n \in Notifier : WorksOn(n, k)

\* The clients that have begun to list and are not registered yet
Subscribing == {c \in Client : stage[c] \in {"read", "push"}}
InWatch     == {c \in Client : stage[c] \in {"list", "read", "push"}}

NextKey(keys) == CHOOSE k \in keys : \A l \in keys : k <= l

-----------------------------------------------------------------------------
(* Requests *)

Goto(n, step) == pc' = [pc EXCEPT ![n] = step]
SetEvent(n, e) == event' = [event EXCEPT ![n] = e]
Finish(n) == Goto(n, "idle") /\ SetEvent(n, W!NoEvent) /\ sweep' = [sweep EXCEPT ![n] = {}]
Continue(n, step) == Goto(n, step) /\ UNCHANGED <<event, sweep>>

\* Bookkeeping of a request that starts to work on keys
Begin(n, keys) ==
  /\ pc[n] = "idle" /\ ops < MaxOps
  /\ ops' = ops + 1
  /\ raced' = raced \cup {k \in keys : Busy(k)}
  /\ untold' = untold \cup (Subscribing \X keys)
  /\ UNCHANGED <<wvars, files, toRead, faults, spoilt, overlapped>>

BeginOn(n, step, type, k, v) ==
  /\ Begin(n, {k})
  /\ Goto(n, step) /\ SetEvent(n, [type |-> type, key |-> k, value |-> v])
  /\ UNCHANGED sweep

\* A file that exists is an error, whatever is in it.
Create(n, k, v) ==
  /\ ~Exists(k)
  /\ dir' = TRUE
  /\ BeginOn(n, "write", "Added", k, v)

\* Get must decode the old object.  With forceAllowCreate any error of Get leads
\* to a creation, which overwrites a file that does not decode.
Update(n, k, v) ==
  /\ dir' = TRUE
  /\ \/ Decodes(k) /\ BeginOn(n, "write", "Modified", k, v)
     \/ ~Decodes(k) /\ BeginOn(n, "write", "Added", k, v)

Delete(n, k) ==
  /\ Decodes(k)
  /\ BeginOn(n, "remove", "Deleted", k, file[k])
  /\ UNCHANGED dir

OpenForWrite(n) ==
  /\ pc[n] = "write"
  /\ OpenFile(n, event[n].key)
  /\ Continue(n, "fill")
  /\ UNCHANGED <<wvars, hvars, dir, toRead, ops, faults>>

Fill(n) ==
  /\ pc[n] = "fill"
  /\ FillFile(n, event[n].key, event[n].value)
  /\ spoilt' = {k \in spoilt : file'[k] \notin Value}
  /\ Continue(n, "notify")
  /\ UNCHANGED <<wvars, raced, untold, overlapped, dir, toRead, ops, faults>>

\* Mutant: the watchers are not told.
RemoveQuietly(n) ==
  /\ pc[n] = "remove"
  /\ RemoveFile(event[n].key)
  /\ Finish(n)
  /\ UNCHANGED <<wvars, hvars, dir, toRead, ops, faults>>

\* A file that another request removed meanwhile is an error.
Remove(n) ==
  /\ pc[n] = "remove"
  /\ \/ Exists(event[n].key) /\ RemoveFile(event[n].key) /\ Continue(n, "notify")
     \/ ~Exists(event[n].key) /\ UNCHANGED files /\ Finish(n)
  /\ UNCHANGED <<wvars, hvars, dir, toRead, ops, faults>>

\* Watchers leaves what only this module has alone.
NotifyWatchers(n) ==
  /\ pc[n] = "notify" /\ W!Notify(n) /\ Continue(n, "notifying")
  /\ UNCHANGED <<hvars, files, dir, toRead, ops, faults>>

SendEvent(n) ==
  /\ W!Send(n)
  /\ UNCHANGED <<hvars, event, files, dir, toRead, pc, sweep, ops, faults>>

Notified(n) ==
  /\ pc[n] = "notifying" /\ W!EndNotify(n) /\ Finish(n)
  /\ UNCHANGED <<hvars, files, dir, toRead, ops, faults>>

-----------------------------------------------------------------------------
(* DeleteCollection *)

\* filepath.Walk reads the names first, and without directory fails.
DeleteCollection(n) ==
  /\ dir
  /\ Begin(n, {k \in Key : Exists(k)})
  /\ Goto(n, "sweep") /\ sweep' = [sweep EXCEPT ![n] = {k \in Key : Exists(k)}]
  /\ UNCHANGED <<event, dir>>

\* A file that is gone or does not decode ends the walk.
SweepRead(n) ==
  /\ pc[n] = "sweep"
  /\ IF sweep[n] # {} /\ Decodes(NextKey(sweep[n])) THEN Continue(n, "sweepRemove") ELSE Finish(n)
  /\ UNCHANGED <<wvars, hvars, files, dir, toRead, ops, faults>>

\* The error of os.Remove is ignored, and no watcher is told.
SweepRemove(n) ==
  /\ pc[n] = "sweepRemove"
  /\ LET k == NextKey(sweep[n]) IN
       /\ RemoveFile(k)
       /\ sweep' = [sweep EXCEPT ![n] = @ \ {k}]
       /\ untold' = untold \cup ({c \in Client : stage[c] # "new"} \X {k})
  /\ Goto(n, "sweep")
  /\ UNCHANGED <<wvars, event, dir, toRead, ops, faults, raced, spoilt, overlapped>>

-----------------------------------------------------------------------------
(* Watch *)

Registered == Cardinality(W!Registered)

\* Mutant: off by one.
LastID(c) == id' = [id EXCEPT ![c] = IF Registered = 0 THEN 0 ELSE Registered - 1]

\* len(f.watchers), read without the lock
CountAsID(c) == id' = [id EXCEPT ![c] = Registered]

StartWatch(c) ==
  /\ stage[c] = "new"
  /\ CountAsID(c)
  /\ W!Enter(c, "list")
  /\ overlapped' = (overlapped \/ InWatch # {})
  /\ UNCHANGED <<items, channel, view, watchers, notifying, toNotify>>
  /\ UNCHANGED <<event, files, dir, toRead, pc, sweep, ops, faults, raced, spoilt, untold>>

\* Without a directory of the namespace there is no watch.
ListNames(c) ==
  /\ stage[c] = "list"
  /\ IF dir THEN W!Enter(c, "read") ELSE W!Enter(c, "failed")
  /\ toRead' = [toRead EXCEPT ![c] = {k \in Key : Exists(k)}]
  /\ untold' = untold \cup ({c} \X {k \in Key : Busy(k)})
  /\ UNCHANGED <<items, channel, view, id, watchers, notifying, toNotify>>
  /\ UNCHANGED <<event, files, dir, pc, sweep, ops, faults, raced, spoilt, overlapped>>

\* A file that is gone or does not decode ends the watch.
ReadNext(c) ==
  /\ stage[c] = "read"
  /\ \/ /\ toRead[c] = {}
        /\ W!Enter(c, "push") /\ UNCHANGED <<items, toRead>>
     \/ /\ toRead[c] # {} /\ Decodes(NextKey(toRead[c]))
        /\ LET k == NextKey(toRead[c]) IN
             /\ toRead' = [toRead EXCEPT ![c] = @ \ {k}]
             /\ items' = [items EXCEPT ![c] = @ \cup
                            {[type |-> "Added", key |-> k, value |-> file[k]]}]
        /\ UNCHANGED stage
     \/ /\ toRead[c] # {} /\ ~Decodes(NextKey(toRead[c]))
        /\ W!Enter(c, "failed")
        /\ toRead' = [toRead EXCEPT ![c] = {}] /\ items' = [items EXCEPT ![c] = {}]
  /\ UNCHANGED <<channel, view, id, watchers, notifying, toNotify>>
  /\ UNCHANGED <<event, files, dir, pc, sweep, ops, faults, hvars>>

\* Whoever has the id is replaced.
Register(c) ==
  /\ stage[c] = "push" /\ items[c] = {}
  /\ notifying = {}
  /\ watchers' = [watchers EXCEPT ![id[c]] = c]
  /\ W!Enter(c, "watching")
  /\ UNCHANGED <<items, channel, view, id, notifying, toNotify>>
  /\ UNCHANGED <<event, files, dir, toRead, pc, sweep, ops, faults, hvars>>

\* Whoever has the id is removed; the channel stays open.
Unregister(c) ==
  /\ stage[c] = "stopping"
  /\ notifying = {}
  /\ watchers' = [watchers EXCEPT ![id[c]] = NoClient]
  /\ channel' = [channel EXCEPT ![c] = <<>>]
  /\ W!Enter(c, "stopped")
  /\ UNCHANGED <<items, view, id, notifying, toNotify>>
  /\ UNCHANGED <<event, files, dir, toRead, pc, sweep, ops, faults, hvars>>

Watching(c) ==
  /\ W!Push(c) \/ W!Receive(c) \/ W!Stop(c)
  /\ UNCHANGED <<event, files, dir, toRead, pc, sweep, ops, faults, hvars>>

-----------------------------------------------------------------------------
(* Faults *)

Fault == faults < MaxFaults /\ faults' = faults + 1

\* No space is left: the request fails with the file truncated.
WriteFails(n) ==
  /\ pc[n] = "fill" /\ Fault
  /\ linked' = linked \ {<<n, event[n].key>>} /\ UNCHANGED file
  /\ spoilt' = spoilt \cup {event[n].key}
  /\ Finish(n)
  /\ UNCHANGED <<wvars, raced, untold, overlapped, dir, toRead, ops>>

\* The process is killed and starts again.
Crash ==
  /\ Fault
  /\ CloseFiles
  /\ spoilt' = spoilt \cup {w[2] : w \in linked}
  /\ watchers' = [i \in W!ID |-> NoClient]
  /\ stage' = [c \in Client |-> IF stage[c] = "new" THEN "new" ELSE "failed"]
  /\ items' = [c \in Client |-> {}] /\ channel' = [c \in Client |-> <<>>]
  /\ notifying' = {} /\ toNotify' = [n \in Notifier |-> {}]
  /\ event' = [n \in Notifier |-> W!NoEvent]
  /\ toRead' = [c \in Client |-> {}] /\ sweep' = [n \in Notifier |-> {}]
  /\ pc' = [n \in Notifier |-> "idle"]
  /\ UNCHANGED <<view, id, dir, ops, raced, untold, overlapped>>

Request(n) ==
  \/ OpenForWrite(n) \/ Fill(n) \/ Remove(n) \/ WriteFails(n)
  \/ NotifyWatchers(n) \/ SendEvent(n) \/ Notified(n)
  \/ SweepRead(n) \/ SweepRemove(n)

Watch(c) ==
  \/ StartWatch(c) \/ ListNames(c) \/ ReadNext(c) \/ Register(c) \/ Unregister(c)
  \/ Watching(c)

Next ==
  \/ \E n \in Notifier, k \in Key :
        Delete(n, k) \/ \E v \in Value : Create(n, k, v) \/ Update(n, k, v)
  \/ \E n \in Notifier : DeleteCollection(n) \/ Request(n)
  \/ \E c \in Client : Watch(c)
  \/ Crash

Spec == Init /\ [][Next]_vars

-----------------------------------------------------------------------------
(* Safety *)

\* A file that does not decode poisons its key: it can be neither read,
\* created nor deleted, and ends every list and watch of its namespace.  Files
\* get there by a crash or a failed write between the two halves of
\* os.WriteFile, or by two requests that overlapped on the key, and in no other
\* way; a removal never leaves half a file (write, Delete).
FilesWhole ==
  \A k \in Key :
    Exists(k) /\ ~Decodes(k) => Busy(k) \/ k \in raced \/ k \in spoilt

\* A watch loses its place in the registry only to one that was started while
\* another was on its way in, or after a watch had stopped: as long as neither
\* happens the count of watches is an id nobody has (Watch, Stop).
DeafOnlyAfterStop ==
  (\E c \in Client : stage[c] = "watching" /\ watchers[id[c]] # c)
    => overlapped \/ \E c \in Client : stage[c] = "stopped"

\* A registered client that has received what was sent to it knows what the
\* file says, for every key on which no two requests overlapped, whose file is
\* not spoilt, and no change of which went untold: what was under way
\* during the call of Watch, and what DeleteCollection removed.
ViewsConverge ==
  \A c \in Client, k \in Key :
    /\ W!Informed(c, k) /\ watchers[id[c]] = c
    /\ ~Busy(k) /\ k \notin raced \cup spoilt /\ <<c, k>> \notin untold
    => view[c][k] = file[k]
=============================================================================
