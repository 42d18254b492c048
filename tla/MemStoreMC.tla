----------------------------- MODULE MemStoreMC -----------------------------
(* Model checking of MemStore: fairness, liveness, and what its interface *)
(* promises and does not keep.                                             *)
EXTENDS MemStore

-----------------------------------------------------------------------------
(* Liveness *)

\* The process runs as long as one of its goroutines can.  As operations, watches
\* and stops are bounded this is all the fairness that is needed: no goroutine
\* is favoured, and none is preferred for the lock.
Progress ==
  \/ \E n \in Notifier : Operation(n)
  \/ \E c \in Client :
       \/ WatchList(c)
       \/ /\ Push(c) \/ Add(c) \/ Receive(c) \/ Del(c)
          /\ UNCHANGED <<db, pc, ops, raced, gap>>

FairSpec == Spec /\ WF_vars(Progress)

\* The one way to hang, see StopReleases: a notifier waits for a client that
\* waits to stop.
Stuck ==
  \E n \in notifying : \E i \in toNotify[n] :
    stage[watchers[i]] = "stopping" /\ Len(channel[watchers[i]]) = Capacity

\* An operation returns, however slow the clients that watch are, as long as
\* they go on receiving or manage to stop (NotifyWatchers sends under the lock).
OperationReturns ==
  \A n \in Notifier : pc[n] # "idle" ~> pc[n] = "idle" \/ Stuck

\* Watch returns, when what it lists fits the channel (memory.go, Watch).
WatchReturns ==
  \A c \in Client :
    stage[c] = "push" /\ Cardinality(items[c]) + Len(channel[c]) <= Capacity
      ~> stage[c] \in {"watching", "failed"} \/ Stuck

\* A client that stops gets rid of its watch, however many others hold the read
\* lock or wait for the write lock (Watchers.Del).
StopReturns ==
  \A c \in Client : stage[c] = "stopping" ~> stage[c] = "stopped" \/ Stuck

-----------------------------------------------------------------------------
\* The interface in pkg/store/watch/watch.go says of Stop: "Stop stops watching.
\* Will close the channel returned by ResultChan(). Releases any resources used
\* by the watch."
StopReleases ==
  \A c \in Client : stage[c] = "stopping" ~> c \in closed /\ id[c] \notin allocatedIDs
=============================================================================
