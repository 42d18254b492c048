----------------------- MODULE TargetReconcilerProofs -----------------------
(***************************************************************************)
(* Proofs about TargetReconciler, for every set of targets and of data     *)
(* servers, every contents of their objects, and every value of the        *)
(* bounds: the inductive invariant, the properties that follow from it,    *)
(* and that the controller implements TargetLifecycle, its initial states  *)
(* mapped to initial states and every step to a step or to a stutter.      *)
(***************************************************************************)
EXTENDS TargetReconciler, SequenceTheorems, TLAPS

-----------------------------------------------------------------------------
(* Histories *)

\* The current and the cached version are versions.
LEMMA CurrentType ==
  ASSUME TypeOK, NEW t \in Target
  PROVE  /\ history[t] \in Seq(Object)
         /\ Len(history[t]) \in Nat \ {0}
         /\ \A i \in 1..Len(history[t]) : history[t][i] \in Object
         /\ Current(t) \in Object
         /\ Cached(t) \in Object
         /\ Cached(t) = history[t][1]
<1>1. history[t] \in Seq(Object) /\ history[t] # <<>>
  BY DEF TypeOK
<1>2. Len(history[t]) \in Nat \ {0}
  BY <1>1, EmptySeq, LenProperties
<1>3. \A i \in 1..Len(history[t]) : history[t][i] \in Object
  BY <1>1, ElementOfSeq
<1>4. Cached(t) = history[t][1]
  BY <1>1 DEF Cached
<1> QED
  BY <1>1, <1>2, <1>3, <1>4 DEF Current

\* Writing appends one version, newer than those before it.
LEMMA WriteFacts ==
  ASSUME TypeOK, NEW t \in Target,
         NEW state \in {"absent", "live", "deleting"}, NEW fin \in BOOLEAN,
         NEW spec \in TargetSpec \cup {NoSpec},
         Write(t, state, fin, spec)
  PROVE  LET new == [rv |-> Current(t).rv + 1, state |-> state,
                     fin |-> fin, spec |-> spec]
         IN  /\ new \in Object
             /\ history' \in [Target -> Seq(Object)]
             /\ \A u \in Target : history'[u] # <<>>
             /\ \A u \in Target \ {t} : history'[u] = history[u]
             /\ Len(history'[t]) = Len(history[t]) + 1
             /\ \A i \in 1..Len(history[t]) : history'[t][i] = history[t][i]
             /\ history'[t][Len(history'[t])] = new
             /\ Current(t)' = new
             /\ \A u \in Target \ {t} : Current(u)' = Current(u)
<1> DEFINE new == [rv |-> Current(t).rv + 1, state |-> state,
                   fin |-> fin, spec |-> spec]
<1>1. /\ history[t] \in Seq(Object) /\ Len(history[t]) \in Nat \ {0}
      /\ Current(t) \in Object
  BY CurrentType
<1>2. new \in Object
  BY <1>1 DEF Object
<1>3. history' = [history EXCEPT ![t] = Append(history[t], new)]
  BY DEF Write
<1>4. /\ history \in [Target -> Seq(Object)]
      /\ \A u \in Target : history[u] # <<>>
  BY DEF TypeOK
<1>5. history'[t] = Append(history[t], new)
  BY <1>3, <1>4
<1> HIDE DEF new
<1>6. /\ Append(history[t], new) \in Seq(Object)
      /\ Append(history[t], new) # <<>>
      /\ Len(Append(history[t], new)) = Len(history[t]) + 1
      /\ \A i \in 1..Len(history[t]) : Append(history[t], new)[i] = history[t][i]
      /\ Append(history[t], new)[Len(history[t]) + 1] = new
  BY <1>1, <1>2, AppendProperties
<1>7. \A u \in Target \ {t} : history'[u] = history[u]
  BY <1>3, <1>4
<1>8. Current(t)' = new /\ \A u \in Target \ {t} : Current(u)' = Current(u)
  BY <1>5, <1>6, <1>7 DEF Current
<1> QED
  BY <1>2, <1>3, <1>4, <1>5, <1>6, <1>7, <1>8 DEF new

\* Writing a target leaves the others alone, ...
LEMMA WriteIsLocal ==
  ASSUME NEW t \in Target, NEW state, NEW fin, NEW spec,
         TypeOK, Write(t, state, fin, spec)
  PROVE  \A u \in Target \ {t} : history'[u] = history[u]
BY DEF Write, TypeOK

\* ... and what is written is current.
LEMMA WriteCurrent ==
  ASSUME TypeOK, NEW t \in Target,
         NEW state \in {"absent", "live", "deleting"}, NEW fin \in BOOLEAN,
         NEW spec \in TargetSpec \cup {NoSpec},
         Write(t, state, fin, spec)
  PROVE  Current(t)' = [rv |-> Current(t).rv + 1, state |-> state,
                        fin |-> fin, spec |-> spec]
<1> DEFINE new == [rv |-> Current(t).rv + 1, state |-> state,
                   fin |-> fin, spec |-> spec]
<1>1. history'[t][Len(history'[t])] = new
  BY WriteFacts
<1> QED
  BY <1>1 DEF Current

\* Delivering drops the oldest version.
LEMMA InformerFacts ==
  ASSUME TypeOK, NEW t \in Target, Informer(t)
  PROVE  /\ history' \in [Target -> Seq(Object)]
         /\ \A u \in Target : history'[u] # <<>>
         /\ \A u \in Target \ {t} : history'[u] = history[u]
         /\ Len(history'[t]) = Len(history[t]) - 1
         /\ Len(history'[t]) \in Nat \ {0}
         /\ \A i \in 1..Len(history'[t]) : history'[t][i] = history[t][i + 1]
         /\ \A u \in Target : Current(u)' = Current(u)
<1>1. /\ history[t] \in Seq(Object) /\ Len(history[t]) \in Nat \ {0}
      /\ history[t] # <<>> /\ Len(history[t]) > 1
  BY CurrentType DEF Informer, TypeOK
<1>2. /\ history \in [Target -> Seq(Object)]
      /\ \A u \in Target : history[u] # <<>>
  BY DEF TypeOK
<1>3. history'[t] = Tail(history[t]) /\ \A u \in Target \ {t} : history'[u] = history[u]
  BY <1>2 DEF Informer
<1>4. /\ Tail(history[t]) \in Seq(Object)
      /\ Len(Tail(history[t])) = Len(history[t]) - 1
      /\ \A i \in 1..Len(Tail(history[t])) : Tail(history[t])[i] = history[t][i + 1]
  BY <1>1, HeadTailProperties
<1>5. /\ Len(history'[t]) = Len(history[t]) - 1
      /\ Len(history'[t]) \in Nat \ {0}
      /\ \A i \in 1..Len(history'[t]) : history'[t][i] = history[t][i + 1]
  <2>1. Len(history'[t]) = Len(history[t]) - 1
    BY <1>3, <1>4
  <2>2. Len(history'[t]) \in Nat \ {0}
    BY <2>1, <1>1
  <2>3. \A i \in 1..Len(history'[t]) : history'[t][i] = history[t][i + 1]
    BY <1>3, <1>4
  <2> QED
    BY <2>1, <2>2, <2>3
<1>6. history' \in [Target -> Seq(Object)]
  BY <1>2, <1>4 DEF Informer
<1>7. Current(t)' = Current(t)
  <2>1. history'[t][Len(history'[t])] = history[t][Len(history'[t]) + 1]
    BY <1>1, <1>3, <1>4
  <2> QED
    BY <2>1, <1>1, <1>3, <1>4 DEF Current
<1>8. \A u \in Target \ {t} : Current(u)' = Current(u)
  BY <1>3 DEF Current
<1>9. \A u \in Target : history'[u] # <<>>
  <2>1. history'[t] # <<>>
    <3>1. Len(<<>>) = 0
      OBVIOUS
    <3> QED
      BY <3>1, <1>5
  <2> QED
    BY <2>1, <1>2, <1>3
<1> QED
  BY <1>3, <1>5, <1>6, <1>7, <1>8, <1>9

-----------------------------------------------------------------------------
(* Types *)

\* What an action does to the history and to the bounds is typed by lemmas, so
\* that the steps below deal with the rest of the state.
LEMMA WriteType ==
  ASSUME TypeOK, NEW t \in Target, NEW o \in Object,
         NEW fin \in BOOLEAN, NEW state \in {"absent", "live", "deleting"},
         Write(t, state, fin, o.spec) \/ Write(t, state, fin, NoSpec)
  PROVE  history' \in [Target -> Seq(Object)] /\ \A u \in Target : history'[u] # <<>>
<1>1. o.spec \in TargetSpec \cup {NoSpec}
  BY DEF Object
<1> QED
  BY <1>1, WriteFacts

\* Edits and faults stay within their bounds.
LEMMA BoundsType ==
  ASSUME TypeOK
  PROVE  /\ Edit => edits' \in 0..MaxEdits
         /\ Fault => faults' \in 0..MaxFaults
         /\ NoFault => faults' \in 0..MaxFaults
BY ConstantsAssumption DEF TypeOK, Edit, Fault, NoFault

\* Every variable keeps its type: the core of the induction.
LEMMA TypeInit == Init => TypeOK
<1> SUFFICES ASSUME Init PROVE TypeOK
  OBVIOUS
<1>1. NoObject \in Object
  BY DEF NoObject, Object
<1>2. /\ <<NoObject>> \in Seq(Object) /\ <<NoObject>> # <<>>
  BY <1>1
<1>3. history \in [Target -> Seq(Object)] /\ \A t \in Target : history[t] # <<>>
  BY <1>2 DEF Init
<1>4. edits \in 0..MaxEdits /\ faults \in 0..MaxFaults
  BY ConstantsAssumption DEF Init
<1> QED
  BY <1>1, <1>3, <1>4 DEF Init, TypeOK

\* Every step keeps the types.
LEMMA TypeNext == InductiveInv /\ [Next]_vars => TypeOK'
<1> SUFFICES ASSUME TypeOK, CopyInv, ContextInv, [Next]_vars PROVE TypeOK'
  BY DEF InductiveInv
<1> USE DEF Untouched, worker, memory, bounds, api
<1>1. ASSUME NEW t \in Target, CreateTarget(t) PROVE TypeOK'
  <2>1. PICK s \in TargetSpec : Write(t, "live", FALSE, s)
    BY <1>1 DEF CreateTarget
  <2>2. history' \in [Target -> Seq(Object)] /\ \A u \in Target : history'[u] # <<>>
    BY <2>1, WriteFacts
  <2> QED
    BY <1>1, <2>2, BoundsType DEF TypeOK, CreateTarget
<1>2. ASSUME NEW t \in Target, EditTarget(t) PROVE TypeOK'
  <2>1. PICK s \in TargetSpec : Write(t, Current(t).state, Current(t).fin, s)
    BY <1>2 DEF EditTarget
  <2>2. Current(t).state \in {"absent", "live", "deleting"} /\ Current(t).fin \in BOOLEAN
    BY CurrentType DEF Object
  <2>3. history' \in [Target -> Seq(Object)] /\ \A u \in Target : history'[u] # <<>>
    BY <2>1, <2>2, WriteFacts
  <2> QED
    BY <1>2, <2>3, BoundsType DEF TypeOK, EditTarget
<1>3. ASSUME NEW t \in Target, DeleteTarget(t) PROVE TypeOK'
  <2>1. history' \in [Target -> Seq(Object)] /\ \A u \in Target : history'[u] # <<>>
    BY <1>3, WriteType, CurrentType DEF DeleteTarget
  <2> QED
    BY <1>3, <2>1, BoundsType DEF TypeOK, DeleteTarget
<1>4. ASSUME NEW t \in Target, Informer(t) PROVE TypeOK'
  BY <1>4, InformerFacts DEF TypeOK, Informer
<1>5. ASSUME ConnProfileEvent \/ SyncProfileEvent PROVE TypeOK'
  BY <1>5, BoundsType DEF TypeOK, ConnProfileEvent, SyncProfileEvent, Referencing
<1>6. ASSUME NEW t \in Target, Reconcile(t) PROVE TypeOK'
  BY <1>6, CurrentType DEF TypeOK, Reconcile, DeletePC, UpdatePC
<1>7. ASSUME Release
      PROVE  /\ pc' = "idle" /\ cur' \in Target \cup {NoTarget}
             /\ cr' \in Object /\ tctx' \in Context \cup {NoCtx}
             /\ req' \in Request \cup {NoReq}
  BY <1>7 DEF Release, NoObject, Object
<1>8. ASSUME AddFinalizer PROVE TypeOK'
  <2>1. history' \in [Target -> Seq(Object)] /\ \A u \in Target : history'[u] # <<>>
    <3>1. CASE UNCHANGED history
      BY <3>1 DEF TypeOK
    <3>2. CASE Write(cur, cr.state, TRUE, cr.spec)
      <4>1. cur \in Target /\ cr \in Object /\ cr.state \in {"absent", "live", "deleting"}
        BY <1>8 DEF TypeOK, AddFinalizer, Object
      <4> QED
        BY <3>2, <4>1, WriteType
    <3> QED
      BY <1>8, <3>1, <3>2 DEF AddFinalizer
  <2>2. CASE Retry
    BY <1>8, <1>7, <2>1, <2>2, BoundsType DEF TypeOK, AddFinalizer, Retry
  <2>3. CASE Goto("assign") /\ UNCHANGED <<cr, tctx, req>>
    BY <1>8, <2>1, <2>3, BoundsType DEF TypeOK, AddFinalizer, Goto, UpdatePC
  <2>4. CASE /\ Goto("assign") /\ UNCHANGED <<tctx, req>>
             /\ cr' = [cr EXCEPT !.fin = TRUE, !.rv = @ + 1]
    <3>1. cr' \in Object
      <4>1. cr \in Object
        BY DEF TypeOK
      <4>2. cr' = [rv |-> cr.rv + 1, state |-> cr.state, fin |-> TRUE, spec |-> cr.spec]
        BY <2>4, <4>1 DEF Object
      <4> QED
        BY <4>1, <4>2 DEF Object
    <3> QED
      BY <1>8, <2>1, <2>4, <3>1, BoundsType DEF TypeOK, AddFinalizer, Goto, UpdatePC
  <2> QED
    BY <1>8, <2>2, <2>3, <2>4 DEF AddFinalizer
<1>9. ASSUME AssignDataServer PROVE TypeOK'
  <2>1. cur \in Target
    BY <1>9 DEF TypeOK, AssignDataServer
  <2>2. /\ dsTargets' \in [DataServer -> SUBSET Target]
        /\ targetStore' \in [Target -> Context \cup {NoCtx}]
    <3>1. CASE targetStore[cur] = NoCtx
      <4>1. PICK d \in Selectable :
               /\ dsTargets' = [dsTargets EXCEPT ![d] = @ \cup {cur}]
               /\ targetStore' = [targetStore EXCEPT
                                    ![cur] = [client |-> d, datastore |-> NoReq]]
        BY <1>9, <3>1 DEF AssignDataServer, AddTargetToDataServer
      <4>2. d \in DataServer /\ [client |-> d, datastore |-> NoReq] \in Context
        BY DEF Selectable, Context
      <4> QED
        BY <2>1, <4>1, <4>2 DEF TypeOK
    <3>2. CASE targetStore[cur] # NoCtx
      <4>1. targetStore[cur].client \in DataServer
        BY <2>1, <3>2 DEF TypeOK, Context
      <4>2. /\ dsTargets' = [dsTargets EXCEPT ![targetStore[cur].client] = @ \cup {cur}]
            /\ targetStore' = targetStore
        BY <1>9, <3>2 DEF AssignDataServer, AddTargetToDataServer
      <4> QED
        BY <2>1, <4>1, <4>2 DEF TypeOK
    <3> QED
      BY <3>1, <3>2
  <2> QED
    BY <1>9, <2>1, <2>2 DEF TypeOK, AssignDataServer, Goto, UpdatePC
<1>10. ASSUME Restart, Fault \/ NoFault PROVE TypeOK'
  BY <1>10, <1>7, BoundsType DEF TypeOK, Restart, Referencing
<1>11. ASSUME SelectPanics \/ AddressPanics \/ Crash PROVE TypeOK'
  BY <1>11, <1>10 DEF SelectPanics, AddressPanics, Crash
<1>12. ASSUME BuildRequest PROVE TypeOK'
  <2>1. cur \in Target /\ cr.spec \in TargetSpec
    BY <1>12 DEF TypeOK, BuildRequest, CopyInv, UpdatePC
  <2>2. CASE Retry
    BY <1>12, <1>7, <2>1, <2>2, BoundsType DEF TypeOK, BuildRequest, Retry
  <2>3. CASE ~Retry
    <3>1. req' \in Request /\ tctx' \in Context \cup {NoCtx}
      BY <1>12, <2>1, <2>3 DEF TypeOK, BuildRequest, Request
    <3> QED
      BY <1>12, <2>1, <2>3, <3>1, BoundsType DEF TypeOK, BuildRequest, Goto, UpdatePC
  <2> QED
    BY <2>2, <2>3
<1>13. ASSUME NEW r \in Request \cup {NoReq}, SetDataStore(r), cur \in Target,
             tctx \in Context
      PROVE  datastores' \in [DataServer -> [Target -> Request \cup {NoReq}]]
  BY <1>13 DEF TypeOK, SetDataStore, Context
<1>14. ASSUME GetDataStore PROVE TypeOK'
  <2>1. CASE Done \/ Retry
    BY <1>14, <1>7, <2>1, BoundsType DEF TypeOK, GetDataStore, Done, Retry
  <2>2. CASE ~(Done \/ Retry)
    BY <1>14, <2>2, BoundsType DEF TypeOK, GetDataStore, Goto, UpdatePC
  <2> QED
    BY <2>1, <2>2
<1>15. ASSUME NEW next \in {"createDataStore", "forget"}, DeleteDataStore(next),
             pc \in {"replaceDataStore", "deleteDataStore"}
      PROVE  TypeOK'
  <2>1. cur \in Target /\ tctx \in Context
    BY <1>15 DEF TypeOK, ContextInv
  <2>2. datastores' \in [DataServer -> [Target -> Request \cup {NoReq}]]
    BY <1>13, <1>15, <2>1 DEF TypeOK, DeleteDataStore
  <2>3. CASE Retry
    BY <1>7, <1>15, <2>1, <2>2, <2>3, BoundsType DEF TypeOK, DeleteDataStore, Retry
  <2>4. CASE ~Retry
    BY <1>15, <2>2, <2>4, BoundsType
       DEF TypeOK, DeleteDataStore, Goto, UpdatePC, DeletePC
  <2> QED
    BY <2>3, <2>4
<1>16. ASSUME ReplaceDataStore \/ DropDataStore PROVE TypeOK'
  BY <1>15, <1>16 DEF ReplaceDataStore, DropDataStore
<1>17. ASSUME CreateDataStore PROVE TypeOK'
  <2>1. cur \in Target /\ tctx \in Context /\ req \in Request
    BY <1>17 DEF TypeOK, CreateDataStore, ContextInv
  <2>2. datastores' \in [DataServer -> [Target -> Request \cup {NoReq}]]
    BY <1>13, <1>17, <2>1 DEF TypeOK, CreateDataStore
  <2>3. CASE Retry
    BY <1>7, <1>17, <2>1, <2>2, <2>3, BoundsType DEF TypeOK, CreateDataStore, Retry
  <2>4. CASE ~Retry
    <3>1. tctx' \in Context
      BY <1>17, <2>1, <2>4 DEF CreateDataStore, Context
    <3> QED
      BY <1>17, <2>2, <2>4, <3>1, BoundsType DEF TypeOK, CreateDataStore, Goto, UpdatePC
  <2> QED
    BY <2>3, <2>4
<1>18. ASSUME RecordDataStore PROVE TypeOK'
  BY <1>7, <1>18 DEF TypeOK, RecordDataStore, Done
<1>19. ASSUME LookupDeleted PROVE TypeOK'
  <2>1. cur \in Target /\ (targetStore[cur] # NoCtx => targetStore[cur].client \in DataServer)
    BY <1>19 DEF TypeOK, LookupDeleted, Context
  <2>2. dsTargets' \in [DataServer -> SUBSET Target] /\ tctx' \in Context \cup {NoCtx}
    BY <1>19, <2>1 DEF TypeOK, LookupDeleted, DeleteTargetFromDataServer
  <2> QED
    BY <1>19, <2>1, <2>2 DEF TypeOK, LookupDeleted, Goto, DeletePC
<1>20. ASSUME ForgetTarget PROVE TypeOK'
  BY <1>20 DEF TypeOK, ForgetTarget, Goto, DeletePC
<1>21. ASSUME RemoveFinalizer PROVE TypeOK'
  <2>1. cur \in Target
    BY <1>21 DEF TypeOK, RemoveFinalizer
  <2>2. history' \in [Target -> Seq(Object)] /\ \A u \in Target : history'[u] # <<>>
    <3>1. CASE UNCHANGED history
      BY <3>1 DEF TypeOK
    <3>2. CASE Write(cur, "absent", FALSE, NoSpec)
      BY <2>1, <3>2, WriteFacts
    <3> QED
      BY <1>21, <3>1, <3>2 DEF RemoveFinalizer
  <2> QED
    BY <1>7, <1>21, <2>1, <2>2, BoundsType DEF TypeOK, RemoveFinalizer, Done, Retry
<1>22. ASSUME UNCHANGED vars PROVE TypeOK'
  BY <1>22 DEF TypeOK, vars
<1> QED
  BY <1>1, <1>2, <1>3, <1>4, <1>5, <1>6, <1>8, <1>9, <1>11, <1>12, <1>14, <1>16,
     <1>17, <1>18, <1>19, <1>20, <1>21, <1>22 DEF Next, WorkerStep, Environment

-----------------------------------------------------------------------------
(* Versions, and what the worker knows of them *)

\* A new version keeps HistoryInv when it does not contradict the old ones.
LEMMA WriteKeepsHistory ==
  ASSUME TypeOK, HistoryInv, NEW t \in Target,
         NEW state \in {"absent", "live", "deleting"}, NEW fin \in BOOLEAN,
         NEW spec \in TargetSpec \cup {NoSpec},
         Write(t, state, fin, spec),
         state = "absent" => ~fin,
         state = "deleting" => fin,
         state # "absent" => spec \in TargetSpec,
         \A i \in 1..Len(history[t]) :
            /\ history[t][i].state = "live" /\ history[t][i].fin => fin
            /\ history[t][i].state = "deleting" /\ fin
                 => state = "deleting" /\ Current(t).fin
  PROVE  HistoryInv'
<1> DEFINE new == [rv |-> Current(t).rv + 1, state |-> state,
                   fin |-> fin, spec |-> spec]
<1> DEFINE n == Len(history[t])
<1>1. /\ \A u \in Target \ {t} : history'[u] = history[u]
      /\ Len(history'[t]) = n + 1
      /\ \A i \in 1..n : history'[t][i] = history[t][i]
      /\ history'[t][n + 1] = new
      /\ Current(t)' = new
      /\ \A u \in Target \ {t} : Current(u)' = Current(u)
  <2>1. history'[t][Len(history'[t])] = new /\ Len(history'[t]) = n + 1
    BY WriteFacts
  <2> QED
    BY <2>1, WriteFacts
<1>2. /\ n \in Nat \ {0} /\ Current(t) = history[t][n]
      /\ \A i \in 1..n : history[t][i] \in Object
  BY CurrentType DEF Current
<1>3. /\ new.rv = history[t][n].rv + 1 /\ new.state = state
      /\ new.fin = fin /\ new.spec = spec
  BY <1>2
<1> HIDE DEF new
<1>4. \A i \in 1..n : history[t][i].rv < new.rv
  <2> TAKE i \in 1..n
  <2>1. history[t][i].rv \in Nat /\ history[t][n].rv \in Nat
    BY <1>2 DEF Object
  <2>2. history[t][i].rv <= history[t][n].rv
    BY <1>2, <2>1 DEF HistoryInv
  <2> QED
    BY <1>3, <2>1, <2>2
<1> SUFFICES ASSUME NEW u \in Target
             PROVE  LET h == history'[u] IN
      /\ \A i, j \in 1..Len(h) : i < j => h[i].rv < h[j].rv
      /\ \A i \in 1..Len(h) : /\ h[i].state = "absent" => ~h[i].fin
                              /\ h[i].state = "deleting" => h[i].fin
                              /\ h[i].state # "absent" => h[i].spec \in TargetSpec
      /\ \A i \in 1..Len(h) : h[i].state = "live" /\ h[i].fin => Current(u)'.fin
      /\ \A i, j \in 1..Len(h) :
           i <= j /\ h[i].state = "deleting" /\ Current(u)'.fin
             => h[j].state = "deleting"
  BY DEF HistoryInv
<1>5. CASE u # t
  <2>1. history'[u] = history[u] /\ Current(u)' = Current(u)
    BY <1>1, <1>5
  <2>2. LET h == history[u] IN
      /\ \A i, j \in 1..Len(h) : i < j => h[i].rv < h[j].rv
      /\ \A i \in 1..Len(h) : /\ h[i].state = "absent" => ~h[i].fin
                              /\ h[i].state = "deleting" => h[i].fin
                              /\ h[i].state # "absent" => h[i].spec \in TargetSpec
      /\ \A i \in 1..Len(h) : h[i].state = "live" /\ h[i].fin => Current(u).fin
      /\ \A i, j \in 1..Len(h) :
           i <= j /\ h[i].state = "deleting" /\ Current(u).fin
             => h[j].state = "deleting"
    BY DEF HistoryInv
  <2> QED
    BY <2>1, <2>2
<1>6. CASE u = t
  <2>1. \A i \in 1..(n + 1) :
          \/ i \in 1..n /\ history'[t][i] = history[t][i]
          \/ i = n + 1 /\ history'[t][i] = new
    BY <1>1, <1>2
  <2>2. \A i, j \in 1..(n + 1) : i < j => history'[t][i].rv < history'[t][j].rv
    <3> TAKE i, j \in 1..(n + 1)
    <3> HAVE i < j
    <3>1. i \in 1..n /\ history'[t][i] = history[t][i]
      BY <1>1, <1>2
    <3>2. CASE j \in 1..n
      BY <1>1, <3>1, <3>2 DEF HistoryInv
    <3>3. CASE j = n + 1
      BY <1>1, <1>4, <3>1, <3>3
    <3> QED
      BY <1>2, <3>2, <3>3
  <2>3. \A i \in 1..(n + 1) :
          LET v == history'[t][i] IN
          /\ v.state = "absent" => ~v.fin
          /\ v.state = "deleting" => v.fin
          /\ v.state # "absent" => v.spec \in TargetSpec
    BY <1>3, <2>1 DEF HistoryInv
  <2>4. \A i \in 1..(n + 1) :
          history'[t][i].state = "live" /\ history'[t][i].fin => new.fin
    BY <1>3, <2>1
  <2>5. \A i, j \in 1..(n + 1) :
          i <= j /\ history'[t][i].state = "deleting" /\ new.fin
            => history'[t][j].state = "deleting"
    <3> TAKE i, j \in 1..(n + 1)
    <3> HAVE i <= j /\ history'[t][i].state = "deleting" /\ new.fin
    <3>1. CASE i = n + 1
      BY <1>2, <3>1
    <3>2. CASE i \in 1..n /\ j = n + 1
      BY <1>1, <1>3, <3>2
    <3>3. CASE i \in 1..n /\ j \in 1..n
      BY <1>1, <1>3, <3>3 DEF HistoryInv
    <3> QED
      BY <1>2, <3>1, <3>2, <3>3
  <2>6. Len(history'[t]) = n + 1 /\ Current(t)' = new
    BY <1>1
  <2> HIDE DEF n
  <2>7. \A i \in 1..Len(history'[t]) :
          history'[t][i].state = "live" /\ history'[t][i].fin => Current(t)'.fin
    BY <2>4, <2>6
  <2>8. \A i, j \in 1..Len(history'[t]) :
          i <= j /\ history'[t][i].state = "deleting" /\ Current(t)'.fin
            => history'[t][j].state = "deleting"
    BY <2>5, <2>6
  <2> QED
    BY <1>6, <2>2, <2>3, <2>6, <2>7, <2>8
<1> QED
  BY <1>5, <1>6

\* A delivery drops the oldest version: what holds of all versions stays.
LEMMA InformerKeepsHistory ==
  ASSUME TypeOK, HistoryInv, NEW t \in Target, Informer(t)
  PROVE  HistoryInv'
<1>1. /\ \A u \in Target \ {t} : history'[u] = history[u]
      /\ \A i \in 1..Len(history'[t]) :
            i + 1 \in 1..Len(history[t]) /\ history'[t][i] = history[t][i + 1]
      /\ \A u \in Target : Current(u)' = Current(u)
  BY InformerFacts, CurrentType
<1> SUFFICES ASSUME NEW u \in Target
             PROVE  LET h == history'[u] IN
      /\ \A i, j \in 1..Len(h) : i < j => h[i].rv < h[j].rv
      /\ \A i \in 1..Len(h) : /\ h[i].state = "absent" => ~h[i].fin
                              /\ h[i].state = "deleting" => h[i].fin
                              /\ h[i].state # "absent" => h[i].spec \in TargetSpec
      /\ \A i \in 1..Len(h) : h[i].state = "live" /\ h[i].fin => Current(u)'.fin
      /\ \A i, j \in 1..Len(h) :
           i <= j /\ h[i].state = "deleting" /\ Current(u)'.fin
             => h[j].state = "deleting"
  BY DEF HistoryInv
<1>2. CASE u # t
  <2>1. history'[u] = history[u] /\ Current(u)' = Current(u)
    BY <1>1, <1>2
  <2>2. LET h == history[u] IN
      /\ \A i, j \in 1..Len(h) : i < j => h[i].rv < h[j].rv
      /\ \A i \in 1..Len(h) : /\ h[i].state = "absent" => ~h[i].fin
                              /\ h[i].state = "deleting" => h[i].fin
                              /\ h[i].state # "absent" => h[i].spec \in TargetSpec
      /\ \A i \in 1..Len(h) : h[i].state = "live" /\ h[i].fin => Current(u).fin
      /\ \A i, j \in 1..Len(h) :
           i <= j /\ h[i].state = "deleting" /\ Current(u).fin
             => h[j].state = "deleting"
    BY DEF HistoryInv
  <2> QED
    BY <2>1, <2>2
<1>3. CASE u = t
  <2>1. \A i, j \in 1..Len(history'[t]) : i < j => history'[t][i].rv < history'[t][j].rv
    <3> TAKE i, j \in 1..Len(history'[t])
    <3> HAVE i < j
    <3>1. i + 1 \in 1..Len(history[t]) /\ j + 1 \in 1..Len(history[t]) /\ i + 1 < j + 1
      BY <1>1
    <3>2. history[t][i + 1].rv < history[t][j + 1].rv
      BY <3>1 DEF HistoryInv
    <3> QED
      BY <1>1, <3>2
  <2>2. \A i \in 1..Len(history'[t]) :
          \E j \in 1..Len(history[t]) : history'[t][i] = history[t][j]
    BY <1>1
  <2>3. \A i \in 1..Len(history'[t]) :
          LET v == history'[t][i] IN
          /\ v.state = "absent" => ~v.fin
          /\ v.state = "deleting" => v.fin
          /\ v.state # "absent" => v.spec \in TargetSpec
          /\ v.state = "live" /\ v.fin => Current(t).fin
    <3> TAKE i \in 1..Len(history'[t])
    <3>1. PICK j \in 1..Len(history[t]) : history'[t][i] = history[t][j]
      BY <2>2
    <3>2. LET v == history[t][j] IN
          /\ v.state = "absent" => ~v.fin
          /\ v.state = "deleting" => v.fin
          /\ v.state # "absent" => v.spec \in TargetSpec
          /\ v.state = "live" /\ v.fin => Current(t).fin
      BY DEF HistoryInv
    <3> QED
      BY <3>1, <3>2
  <2>4. \A i, j \in 1..Len(history'[t]) :
          i <= j /\ history'[t][i].state = "deleting" /\ Current(t).fin
            => history'[t][j].state = "deleting"
    <3> TAKE i, j \in 1..Len(history'[t])
    <3> HAVE i <= j /\ history'[t][i].state = "deleting" /\ Current(t).fin
    <3>1. i + 1 \in 1..Len(history[t]) /\ j + 1 \in 1..Len(history[t]) /\ i + 1 <= j + 1
      BY <1>1
    <3>2. history[t][i + 1].state = "deleting" => history[t][j + 1].state = "deleting"
      BY <3>1 DEF HistoryInv
    <3> QED
      BY <1>1, <3>2
  <2>5. \A i \in 1..Len(history'[t]) :
          LET v == history'[t][i] IN
          v.state = "live" /\ v.fin => Current(t)'.fin
    BY <1>1, <2>3
  <2>6. \A i, j \in 1..Len(history'[t]) :
          i <= j /\ history'[t][i].state = "deleting" /\ Current(t)'.fin
            => history'[t][j].state = "deleting"
    <3>1. Current(t)' = Current(t)
      BY <1>1
    <3> QED
      BY <2>4, <3>1
  <2> HIDE DEF Current
  <2> QED
    BY <1>3, <2>1, <2>3, <2>5, <2>6
<1> QED
  BY <1>2, <1>3

\* When the API server accepts the worker's copy, the cache is current too.
LEMMA AcceptedIsOnlyVersion ==
  ASSUME TypeOK, HistoryInv, CopyInv, UpToDate,
         pc \in DeletePC \cup {"addFinalizer"}
  PROVE  /\ cur \in Target /\ Len(history[cur]) = 1
         /\ history[cur][1] = cr /\ Current(cur) = cr
<1>1. cur \in Target
  BY DEF TypeOK, DeletePC
<1> DEFINE n == Len(history[cur])
<1>2. /\ n \in Nat \ {0} /\ Current(cur) = history[cur][n] /\ cr.rv \in Nat
      /\ \A i \in 1..n : history[cur][i].rv \in Nat
  BY <1>1, CurrentType DEF Current, Object, TypeOK
<1>3. cr.rv = history[cur][n].rv /\ cr.rv <= history[cur][1].rv
  BY <1>2 DEF UpToDate, CopyInv
<1>4. n = 1
  <2>1. 1 < n => history[cur][1].rv < history[cur][n].rv
    BY <1>1, <1>2 DEF HistoryInv
  <2>2. 1 \in 1..n /\ n \in 1..n
    BY <1>2
  <2>3. cr.rv \in Nat /\ history[cur][1].rv \in Nat /\ history[cur][n].rv \in Nat
    BY <1>2, <2>2
  <2> HIDE DEF n
  <2>4. ~(1 < n)
    BY <1>3, <2>1, <2>3
  <2> QED
    BY <1>2, <2>4
<1>5. history[cur][1] = cr
  BY <1>3, <1>4 DEF CopyInv
<1> QED
  BY <1>1, <1>2, <1>4, <1>5

\* A user's write, or a delivery, leaves the worker's copy the oldest.
LEMMA WriteKeepsCopy ==
  ASSUME TypeOK, HistoryInv, CopyInv, NEW t \in Target,
         NEW state \in {"absent", "live", "deleting"}, NEW fin \in BOOLEAN,
         NEW spec \in TargetSpec \cup {NoSpec},
         Write(t, state, fin, spec), UNCHANGED <<pc, cur, cr>>
  PROVE  CopyInv'
<1> SUFFICES ASSUME pc \in DeletePC \cup {"addFinalizer"}, NEW i \in 1..Len(history'[cur])
             PROVE  /\ cr.rv <= history'[cur][i].rv
                    /\ cr.rv = history'[cur][i].rv => cr = history'[cur][i]
  BY DEF CopyInv
<1> DEFINE n == Len(history[cur])
<1>1. cur \in Target /\ cr.rv \in Nat
  BY DEF TypeOK, Object, DeletePC
<1>2. n \in Nat \ {0} /\ Current(cur) = history[cur][n] /\ Current(cur).rv \in Nat
  BY <1>1, CurrentType DEF Current, Object
<1>3. CASE t # cur
  <2>1. \A u \in Target \ {t} : history'[u] = history[u]
    BY WriteIsLocal
  <2>2. history'[cur] = history[cur]
    BY <1>1, <1>3, <2>1
  <2> QED
    BY <2>2 DEF CopyInv
<1>4. CASE t = cur
  <2>1. /\ Len(history'[cur]) = n + 1
        /\ \A j \in 1..n : history'[cur][j] = history[cur][j]
        /\ history'[cur][n + 1].rv = Current(cur).rv + 1
    <3>1. /\ Len(history'[t]) = Len(history[t]) + 1
          /\ \A j \in 1..Len(history[t]) : history'[t][j] = history[t][j]
          /\ history'[t][Len(history'[t])] =
               [rv |-> Current(t).rv + 1, state |-> state, fin |-> fin, spec |-> spec]
      BY WriteFacts
    <3> QED
      BY <1>4, <3>1
  <2>2. n \in 1..n /\ cr.rv <= Current(cur).rv
    BY <1>2 DEF CopyInv
  <2>3. CASE i \in 1..n
    BY <2>1, <2>3 DEF CopyInv
  <2>4. CASE i = n + 1
    BY <1>1, <1>2, <2>1, <2>2, <2>4
  <2> QED
    BY <1>2, <2>1, <2>3, <2>4
<1> QED
  BY <1>3, <1>4

\* The worker's copy stays one of the versions, or older than all of them.
LEMMA InformerKeepsCopy ==
  ASSUME TypeOK, CopyInv, NEW t \in Target, Informer(t)
  PROVE  CopyInv'
<1> SUFFICES ASSUME pc \in DeletePC \cup {"addFinalizer"}, NEW i \in 1..Len(history'[cur])
             PROVE  /\ cr.rv <= history'[cur][i].rv
                    /\ cr.rv = history'[cur][i].rv => cr = history'[cur][i]
  BY DEF CopyInv, Informer, Untouched, worker
<1>1. cur \in Target
  BY DEF TypeOK, DeletePC
<1>2. \E j \in 1..Len(history[cur]) : history'[cur][i] = history[cur][j]
  <2>1. CASE t = cur
    <3>1. /\ Len(history'[t]) = Len(history[t]) - 1 /\ Len(history[t]) \in Nat
          /\ history'[t][i] = history[t][i + 1]
      BY <2>1, InformerFacts, CurrentType
    <3>2. i + 1 \in 1..Len(history[t])
      BY <2>1, <3>1
    <3> QED
      BY <2>1, <3>1, <3>2
  <2>2. CASE t # cur
    BY <1>1, <2>2, InformerFacts
  <2> QED
    BY <2>1, <2>2
<1> QED
  BY <1>2 DEF CopyInv

\* The steps that only concern memory and the data servers.
LEMMA OtherStepsKeepCopy ==
  ASSUME HistoryInv, CopyInv, WorkInv, UNCHANGED history,
         \/ UNCHANGED worker
         \/ pc' = "idle"
         \/ /\ UNCHANGED <<cur, cr>>
            /\ \/ pc \in UpdatePC \ {"addFinalizer"} /\ pc' \in UpdatePC \ {"addFinalizer"}
               \/ pc \in DeletePC /\ pc' \in DeletePC
  PROVE  HistoryInv' /\ CopyInv' /\ WorkInv'
<1>1. \A t : Current(t)' = Current(t)
  BY DEF Current
<1>2. HistoryInv'
  BY <1>1 DEF HistoryInv
<1>3. CASE pc' = "idle"
  BY <1>2, <1>3 DEF CopyInv, WorkInv, UpdatePC, DeletePC
<1>4. CASE UNCHANGED worker
  <2>1. /\ UNCHANGED <<pc, cur, cr>> /\ Current(cur)' = Current(cur)
        /\ AllDeleting(cur) => AllDeleting(cur)'
    BY <1>4 DEF worker, Current, AllDeleting
  <2> QED
    BY <1>2, <2>1 DEF CopyInv, WorkInv
<1>5. CASE /\ UNCHANGED <<cur, cr>>
           /\ \/ pc \in UpdatePC \ {"addFinalizer"} /\ pc' \in UpdatePC \ {"addFinalizer"}
              \/ pc \in DeletePC /\ pc' \in DeletePC
  <2>1. Current(cur)' = Current(cur) /\ (AllDeleting(cur) => AllDeleting(cur)')
    BY <1>5 DEF Current, AllDeleting
  <2>2. UpdatePC \cap DeletePC = {} /\ "addFinalizer" \notin DeletePC
    BY DEF UpdatePC, DeletePC
  <2>3. CASE pc \in DeletePC /\ pc' \in DeletePC
    BY <1>2, <1>5, <2>1, <2>2, <2>3 DEF CopyInv, WorkInv
  <2>4. CASE pc \in UpdatePC \ {"addFinalizer"} /\ pc' \in UpdatePC \ {"addFinalizer"}
    BY <1>2, <1>5, <2>1, <2>2, <2>4 DEF CopyInv, WorkInv
  <2> QED
    BY <1>5, <2>3, <2>4
<1> QED
  BY <1>3, <1>4, <1>5

\* What an object has
LEMMA ObjectFields ==
  ASSUME NEW o \in Object
  PROVE  /\ o.rv \in Nat /\ o.state \in {"absent", "live", "deleting"}
         /\ o.fin \in BOOLEAN /\ o.spec \in TargetSpec \cup {NoSpec}
BY DEF Object

\* What the shape of a history says of the current version.
LEMMA CurrentShape ==
  ASSUME TypeOK, HistoryInv, NEW t \in Target
  PROVE  /\ Current(t).state = "absent" => ~Current(t).fin
         /\ Current(t).state = "deleting" => Current(t).fin
         /\ Current(t).state # "absent" => Current(t).spec \in TargetSpec
BY CurrentType DEF HistoryInv, Current

\* A write to an object that is seen as marked leaves it marked.
LEMMA WriteKeepsDeleting ==
  ASSUME TypeOK, NEW t \in Target,
         NEW state \in {"absent", "live", "deleting"}, NEW fin \in BOOLEAN,
         NEW spec \in TargetSpec \cup {NoSpec},
         Write(t, state, fin, spec), AllDeleting(t),
         Current(t).state = "deleting" => state = "deleting"
  PROVE  \A i \in 1..Len(history'[t]) : history'[t][i].state = "deleting"
<1> DEFINE n == Len(history[t])
<1>1. n \in Nat \ {0} /\ Current(t) = history[t][n]
  BY CurrentType DEF Current
<1>2. state = "deleting"
  BY <1>1 DEF AllDeleting
<1>3. /\ Len(history'[t]) = n + 1
      /\ \A i \in 1..n : history'[t][i] = history[t][i]
      /\ history'[t][Len(history'[t])] =
           [rv |-> Current(t).rv + 1, state |-> state, fin |-> fin, spec |-> spec]
  BY WriteFacts
<1>4. history'[t][n + 1].state = "deleting"
  BY <1>2, <1>3
<1>5. \A i \in 1..n : history'[t][i].state = "deleting"
  BY <1>3 DEF AllDeleting
<1>6. \A i \in 1..(n + 1) : i \in 1..n \/ i = n + 1
  BY <1>1
<1> QED
  BY <1>3, <1>4, <1>5, <1>6

\* If all versions are marked the current one is.
LEMMA DeletingCurrent ==
  ASSUME TypeOK, NEW t \in Target, AllDeleting(t)
  PROVE  Current(t).state = "deleting"
BY CurrentType DEF AllDeleting, Current

\* A write that may lose the finalizer, or make the object live again, does not
\* happen to an object the worker relies on.
LEMMA WriteKeepsWork ==
  ASSUME TypeOK, WorkInv, NEW t \in Target,
         NEW state \in {"absent", "live", "deleting"}, NEW fin \in BOOLEAN,
         NEW spec \in TargetSpec \cup {NoSpec},
         Write(t, state, fin, spec), UNCHANGED <<pc, cur, cr>>,
         Current(t).fin => fin,
         Current(t).state = "deleting" => state = "deleting",
         ~Current(t).fin => ~fin
  PROVE  WorkInv'
<1>1. CASE pc = "idle"
  BY <1>1 DEF WorkInv, UpdatePC, DeletePC
<1>2. CASE pc # "idle"
  <2>1. cur \in Target
    BY <1>2 DEF TypeOK
  <2>2. CASE t = cur
    <3>1. Current(t)' = [rv |-> Current(t).rv + 1, state |-> state, fin |-> fin, spec |-> spec]
      BY WriteCurrent
    <3>2. Current(cur)'.fin = fin /\ Current(cur)'.state = state
      <4>1. history'[cur][Len(history'[cur])] = Current(t)'
        BY <2>2 DEF Current
      <4> QED
        BY <2>2, <3>1, <4>1 DEF Current
    <3>3. ASSUME AllDeleting(cur) PROVE AllDeleting(cur)'
      BY <1>2, <2>2, <3>3, WriteKeepsDeleting DEF AllDeleting
    <3>4. Current(cur).fin = fin
      BY <2>2, CurrentType, ObjectFields
    <3> QED
      BY <3>2, <3>3, <3>4 DEF WorkInv
  <2>3. CASE t # cur
    <3>1. history'[cur] = history[cur]
      BY <2>1, <2>3, WriteIsLocal
    <3>2. Current(cur)' = Current(cur) /\ (AllDeleting(cur) => AllDeleting(cur)')
      BY <3>1 DEF Current, AllDeleting
    <3> QED
      BY <3>2 DEF WorkInv
  <2> QED
    BY <2>2, <2>3
<1> QED
  BY <1>1, <1>2

\* Users neither add the finalizer nor take it from an object that stays.
LEMMA UsersKeepHistory ==
  ASSUME TypeOK, HistoryInv, CopyInv, WorkInv, NEW t \in Target,
         CreateTarget(t) \/ EditTarget(t) \/ DeleteTarget(t)
  PROVE  HistoryInv' /\ CopyInv' /\ WorkInv'
<1>1. UNCHANGED <<pc, cur, cr>>
  BY DEF CreateTarget, EditTarget, DeleteTarget, Untouched, worker
<1>2. /\ Current(t).state = "absent" => ~Current(t).fin
      /\ Current(t).state \in {"absent", "live", "deleting"}
      /\ Current(t).fin \in BOOLEAN
      /\ Current(t).state # "absent" => Current(t).spec \in TargetSpec
      /\ Current(t).state = "deleting" => Current(t).fin
      /\ Current(t).spec \in TargetSpec \cup {NoSpec}
  BY CurrentShape, CurrentType, ObjectFields
<1>3. \A i \in 1..Len(history[t]) :
        /\ history[t][i].state = "live" /\ history[t][i].fin => Current(t).fin
        /\ history[t][i].state = "deleting" /\ Current(t).fin
             => Current(t).state = "deleting"
  <2>1. Len(history[t]) \in Nat \ {0} /\ Current(t) = history[t][Len(history[t])]
    BY CurrentType DEF Current
  <2> QED
    BY <2>1 DEF HistoryInv
<1>4. \E state \in {"absent", "live", "deleting"}, fin \in BOOLEAN,
         spec \in TargetSpec \cup {NoSpec} :
        /\ Write(t, state, fin, spec)
        /\ state = "absent" => ~fin
        /\ state = "deleting" => fin
        /\ state # "absent" => spec \in TargetSpec
        /\ Current(t).fin => fin
        /\ ~Current(t).fin => ~fin
        /\ Current(t).state = "deleting" => state = "deleting"
  <2>1. CASE CreateTarget(t)
    <3>1. PICK s \in TargetSpec : Write(t, "live", FALSE, s)
      BY <2>1 DEF CreateTarget
    <3>2. Current(t).state = "absent"
      BY <2>1 DEF CreateTarget
    <3> QED
      BY <1>2, <3>1, <3>2
  <2>2. CASE EditTarget(t)
    <3>1. PICK s \in TargetSpec : Write(t, Current(t).state, Current(t).fin, s)
      BY <2>2 DEF EditTarget
    <3> QED
      BY <1>2, <3>1
  <2>3. CASE DeleteTarget(t) /\ Current(t).fin
    <3>1. Write(t, "deleting", TRUE, Current(t).spec) /\ Current(t).state = "live"
      BY <2>3 DEF DeleteTarget
    <3> QED
      BY <1>2, <2>3, <3>1
  <2>4. CASE DeleteTarget(t) /\ ~Current(t).fin
    <3>1. Write(t, "absent", FALSE, NoSpec) /\ Current(t).state = "live"
      BY <2>4 DEF DeleteTarget
    <3> QED
      BY <1>2, <2>4, <3>1
  <2> QED
    BY <2>1, <2>2, <2>3, <2>4
<1>5. PICK state \in {"absent", "live", "deleting"}, fin \in BOOLEAN,
         spec \in TargetSpec \cup {NoSpec} :
        /\ Write(t, state, fin, spec)
        /\ state = "absent" => ~fin
        /\ state = "deleting" => fin
        /\ state # "absent" => spec \in TargetSpec
        /\ Current(t).fin => fin
        /\ ~Current(t).fin => ~fin
        /\ Current(t).state = "deleting" => state = "deleting"
  BY <1>4
<1>6. HistoryInv'
  <2>1. \A i \in 1..Len(history[t]) :
          /\ history[t][i].state = "live" /\ history[t][i].fin => fin
          /\ history[t][i].state = "deleting" /\ fin
               => state = "deleting" /\ Current(t).fin
    BY <1>2, <1>3, <1>5
  <2> QED
    BY <1>5, <2>1, WriteKeepsHistory
<1>7. CopyInv'
  BY <1>1, <1>5, WriteKeepsCopy
<1>8. WorkInv'
  BY <1>1, <1>5, WriteKeepsWork
<1> QED
  BY <1>6, <1>7, <1>8

\* A delivery keeps what the work of the worker rests on.
LEMMA InformerKeepsWork ==
  ASSUME TypeOK, HistoryInv, CopyInv, WorkInv, NEW t \in Target, Informer(t)
  PROVE  HistoryInv' /\ CopyInv' /\ WorkInv'
<1>1. UNCHANGED <<pc, cur, cr>>
  BY DEF Informer, Untouched, worker
<1>2. pc # "idle" => Current(cur)' = Current(cur)
  <2>1. \A u \in Target : Current(u)' = Current(u)
    BY InformerFacts
  <2> QED
    BY <1>1, <2>1 DEF TypeOK, Current
<1>3. pc # "idle" /\ AllDeleting(cur) => AllDeleting(cur)'
  <2>1. CASE cur = t
    <3>1. /\ Len(history'[t]) = Len(history[t]) - 1 /\ Len(history[t]) \in Nat
          /\ \A i \in 1..Len(history'[t]) : history'[t][i] = history[t][i + 1]
      BY InformerFacts, CurrentType
    <3>2. \A i \in 1..Len(history'[t]) : i + 1 \in 1..Len(history[t])
      BY <3>1
    <3> QED
      BY <1>1, <2>1, <3>1, <3>2 DEF AllDeleting
  <2>2. CASE cur # t
    BY <1>1, <2>2, InformerFacts DEF AllDeleting, TypeOK
  <2> QED
    BY <2>1, <2>2
<1>4. WorkInv'
  BY <1>1, <1>2, <1>3 DEF WorkInv, UpdatePC, DeletePC
<1> QED
  BY <1>4, InformerKeepsHistory, InformerKeepsCopy

\* The worker starts with the version the cache has.
LEMMA ReconcileKeepsHistory ==
  ASSUME TypeOK, HistoryInv, CopyInv, WorkInv, NEW t \in Target, Reconcile(t)
  PROVE  HistoryInv' /\ CopyInv' /\ WorkInv'
<1>1. UNCHANGED history
  BY DEF Reconcile, api
<1>2. CASE Cached(t).state = "absent"
  BY <1>1, <1>2, OtherStepsKeepCopy DEF Reconcile
<1>3. CASE Cached(t).state # "absent"
  <2>1. /\ cur' = t /\ cr' = Cached(t)
        /\ pc' = IF Cached(t).state = "deleting" THEN "lookup" ELSE "addFinalizer"
    BY <1>3 DEF Reconcile
  <2>2. /\ Len(history[t]) \in Nat \ {0} /\ 1 \in 1..Len(history[t])
        /\ \A i \in 1..Len(history[t]) : history[t][i].rv \in Nat
        /\ Cached(t) = history[t][1]
    BY CurrentType, ObjectFields
  <2>3. Cached(t).state \in {"live", "deleting"} /\ Cached(t).spec \in TargetSpec
    BY <1>3, <2>2, CurrentType, ObjectFields DEF HistoryInv
  <2>4. HistoryInv'
    BY <1>1 DEF HistoryInv, Current
  <2>5. \A i \in 1..Len(history[t]) :
          /\ Cached(t).rv <= history[t][i].rv
          /\ Cached(t).rv = history[t][i].rv => Cached(t) = history[t][i]
    <3> TAKE i \in 1..Len(history[t])
    <3>1. CASE i = 1
      BY <2>2, <3>1
    <3>2. CASE 1 < i
      <4>1. history[t][1].rv < history[t][i].rv
        BY <2>2, <3>2 DEF HistoryInv
      <4> QED
        BY <2>2, <4>1
    <3> QED
      BY <2>2, <3>1, <3>2
  <2>6. CopyInv'
    <3>1. history'[cur'] = history[t]
      BY <1>1, <2>1
    <3> QED
      BY <2>1, <2>3, <2>5, <3>1 DEF CopyInv, UpdatePC, DeletePC
  <2>7. WorkInv'
    <3>1. Current(cur)' = Current(t)
      BY <1>1, <2>1 DEF Current
    <3>2. /\ Cached(t).state = "live" /\ Cached(t).fin => Current(t).fin
          /\ Cached(t).state = "deleting" /\ Current(t).fin => AllDeleting(t)
      BY <2>2 DEF HistoryInv, AllDeleting
    <3>3. AllDeleting(cur)' <=> AllDeleting(t)
      BY <1>1, <2>1 DEF AllDeleting
    <3> QED
      BY <2>1, <2>3, <3>1, <3>2, <3>3 DEF WorkInv, UpdatePC, DeletePC
  <2> QED
    BY <2>4, <2>6, <2>7
<1> QED
  BY <1>2, <1>3

\* The finalizer is added to the current version or not at all, ...
LEMMA AddFinalizerKeepsHistory ==
  ASSUME TypeOK, HistoryInv, CopyInv, WorkInv, AddFinalizer
  PROVE  HistoryInv' /\ CopyInv' /\ WorkInv'
<1>1. /\ cur \in Target /\ cr \in Object /\ cr.state = "live"
      /\ cr.spec \in TargetSpec
  BY DEF AddFinalizer, TypeOK, CopyInv, UpdatePC
<1>2. CASE UNCHANGED history /\ Retry
  BY <1>2, OtherStepsKeepCopy DEF Retry, Release
<1>3. CASE UNCHANGED history /\ cr.fin /\ Goto("assign") /\ UNCHANGED cr
  <2>1. HistoryInv'
    BY <1>3 DEF HistoryInv, Current
  <2>2. CopyInv'
    BY <1>1, <1>3 DEF CopyInv, Goto, UpdatePC, DeletePC
  <2>3. Current(cur)' = Current(cur)
    BY <1>3 DEF Current, Goto
  <2>4. WorkInv'
    BY <1>3, <2>3 DEF AddFinalizer, WorkInv, Goto, UpdatePC, DeletePC
  <2> QED
    BY <2>1, <2>2, <2>4
<1>4. CASE UpToDate /\ Write(cur, cr.state, TRUE, cr.spec)
  <2>1. Len(history[cur]) = 1 /\ history[cur][1] = cr
    BY <1>4, AcceptedIsOnlyVersion DEF AddFinalizer
  <2>2. HistoryInv'
    <3>1. \A i \in 1..Len(history[cur]) : history[cur][i].state = "live"
      BY <1>1, <2>1
    <3>2. Write(cur, "live", TRUE, cr.spec)
      BY <1>1, <1>4
    <3> QED
      BY <1>1, <3>1, <3>2, WriteKeepsHistory
  <2>3. Current(cur)' .fin = TRUE \/ pc' = "idle"
    <3>1. CASE cur' = cur
      <4>1. history'[cur][Len(history'[cur])].fin = TRUE
        <5>1. PICK t \in Target : t = cur
          BY <1>1
        <5>2. PICK spec \in TargetSpec : Write(t, "live", TRUE, spec)
          BY <1>1, <1>4, <5>1
        <5>3. Current(t)' = [rv |-> Current(t).rv + 1, state |-> "live",
                             fin |-> TRUE, spec |-> spec]
          BY <5>2, WriteCurrent
        <5>4. history'[t][Len(history'[t])] = Current(t)'
          BY DEF Current
        <5>5. Current(t)'.fin = TRUE
          BY ONLY <5>3
        <5>6. history'[t][Len(history'[t])].fin = TRUE
          BY ONLY <5>4, <5>5
        <5> QED
          BY <5>1, <5>6
      <4> QED
        BY <3>1, <4>1 DEF Current
    <3> QED
      BY <3>1 DEF AddFinalizer, Goto, Retry, Release
  <2>4. pc' = "idle" \/ (pc' = "assign" /\ cr'.spec = cr.spec)
    BY <1>1 DEF AddFinalizer, Goto, Retry, Release, Object
  <2>5. CopyInv' /\ WorkInv'
    BY <1>1, <2>3, <2>4 DEF CopyInv, WorkInv, UpdatePC, DeletePC
  <2> QED
    BY <2>2, <2>5
<1> QED
  BY <1>2, <1>3, <1>4 DEF AddFinalizer

\* ... and removed from it or not at all.
LEMMA RemoveFinalizerKeepsHistory ==
  ASSUME TypeOK, HistoryInv, CopyInv, WorkInv, RemoveFinalizer
  PROVE  HistoryInv' /\ CopyInv' /\ WorkInv'
<1>1. cur \in Target /\ cr \in Object /\ cr.state = "deleting" /\ pc \in DeletePC
  BY DEF RemoveFinalizer, TypeOK, CopyInv, DeletePC
<1>2. pc' = "idle"
  BY DEF RemoveFinalizer, Done, Retry, Release
<1>3. CASE UNCHANGED history
  BY <1>2, <1>3, OtherStepsKeepCopy
<1>4. CASE UpToDate /\ Write(cur, "absent", FALSE, NoSpec)
  <2>1. Len(history[cur]) = 1 /\ history[cur][1] = cr
    BY <1>1, <1>4, AcceptedIsOnlyVersion
  <2>2. \A i \in 1..Len(history[cur]) : history[cur][i].state = "deleting"
    BY <1>1, <2>1
  <2>3. HistoryInv'
    BY <1>1, <1>4, <2>2, WriteKeepsHistory
  <2>4. CopyInv' /\ WorkInv'
    BY <1>2 DEF CopyInv, WorkInv, UpdatePC, DeletePC
  <2> QED
    BY <2>3, <2>4
<1> QED
  BY <1>3, <1>4 DEF RemoveFinalizer

\* Every step preserves what is known of the versions.
LEMMA HistoryNext ==
  InductiveInv /\ [Next]_vars => HistoryInv' /\ CopyInv' /\ WorkInv'
<1> SUFFICES ASSUME TypeOK, HistoryInv, CopyInv, WorkInv, [Next]_vars
             PROVE  HistoryInv' /\ CopyInv' /\ WorkInv'
  BY DEF InductiveInv
<1> DEFINE Goal == HistoryInv' /\ CopyInv' /\ WorkInv'
<1>1. ASSUME NEW t \in Target,
             CreateTarget(t) \/ EditTarget(t) \/ DeleteTarget(t) \/ Informer(t)
      PROVE  Goal
  BY <1>1, UsersKeepHistory, InformerKeepsWork
<1>2. ASSUME NEW t \in Target, Reconcile(t) PROVE Goal
  BY <1>2, ReconcileKeepsHistory
<1>3. ASSUME ConnProfileEvent \/ SyncProfileEvent \/ UNCHANGED vars PROVE Goal
  BY <1>3, OtherStepsKeepCopy DEF ConnProfileEvent, SyncProfileEvent, vars, api
<1>4. ASSUME Restart PROVE Goal
  BY <1>4, OtherStepsKeepCopy DEF Restart, Release, api
<1>5. ASSUME SelectPanics \/ AddressPanics \/ Crash PROVE Goal
  BY <1>4, <1>5 DEF SelectPanics, AddressPanics, Crash
<1>6. ASSUME \/ AssignDataServer \/ BuildRequest \/ GetDataStore \/ ReplaceDataStore
             \/ CreateDataStore \/ RecordDataStore
      PROVE  Goal
  <2>1. UNCHANGED history
    BY <1>6 DEF AssignDataServer, BuildRequest, GetDataStore, ReplaceDataStore,
         DeleteDataStore, CreateDataStore, RecordDataStore, api
  <2>2. \/ pc' = "idle"
        \/ /\ UNCHANGED <<cur, cr>>
           /\ pc \in UpdatePC \ {"addFinalizer"} /\ pc' \in UpdatePC \ {"addFinalizer"}
    BY <1>6 DEF AssignDataServer, BuildRequest, GetDataStore, ReplaceDataStore,
         DeleteDataStore, CreateDataStore, RecordDataStore, Goto, Done, Retry,
         Release, UpdatePC
  <2> QED
    BY <2>1, <2>2, OtherStepsKeepCopy
<1>7. ASSUME LookupDeleted \/ DropDataStore \/ ForgetTarget PROVE Goal
  <2>1. UNCHANGED history
    BY <1>7 DEF LookupDeleted, DropDataStore, DeleteDataStore, ForgetTarget, api
  <2>2. \/ pc' = "idle"
        \/ UNCHANGED <<cur, cr>> /\ pc \in DeletePC /\ pc' \in DeletePC
    BY <1>7 DEF LookupDeleted, DropDataStore, DeleteDataStore, ForgetTarget,
         Goto, Retry, Release, DeletePC
  <2> QED
    BY <2>1, <2>2, OtherStepsKeepCopy
<1> QED
  BY <1>1, <1>2, <1>3, <1>5, <1>6, <1>7, AddFinalizerKeepsHistory,
     RemoveFinalizerKeepsHistory DEF Next, WorkerStep, Environment

-----------------------------------------------------------------------------
(* Memory and data servers *)

\* A bound target keeps the finalizer, and stays marked for deletion.
LEMMA HeldKept ==
  ASSUME TypeOK, HistoryInv, CopyInv, WorkInv, ContextInv, [Next]_vars,
         NEW u \in Target, targetStore[u] # NoCtx, Current(u).fin
  PROVE  /\ Current(u)'.fin
         /\ Current(u).state = "deleting" => Current(u)'.state = "deleting"
<1> DEFINE Kept == /\ Current(u)'.fin
                   /\ Current(u).state = "deleting" => Current(u)'.state = "deleting"
<1>1. ASSUME NEW t \in Target, NEW state \in {"absent", "live", "deleting"},
             NEW fin \in BOOLEAN, NEW spec \in TargetSpec \cup {NoSpec},
             Write(t, state, fin, spec),
             t = u => fin /\ (Current(u).state = "deleting" => state = "deleting")
      PROVE  Kept
  <2>1. CASE t = u
    <3>1. Current(t)' = [rv |-> Current(t).rv + 1, state |-> state,
                         fin |-> fin, spec |-> spec]
      BY <1>1, WriteCurrent
    <3> QED
      BY <1>1, <2>1, <3>1
  <2>2. CASE t # u
    <3>1. history'[u] = history[u]
      BY <1>1, <2>2, WriteIsLocal
    <3> QED
      BY <3>1 DEF Current
  <2> QED
    BY <2>1, <2>2
<1>2. CASE UNCHANGED history
  BY <1>2 DEF Current
<1>3. Current(u).state \in {"live", "deleting"} /\ Current(u).spec \in TargetSpec
  BY CurrentShape, CurrentType, ObjectFields
<1>4. ASSUME NEW t \in Target, CreateTarget(t) PROVE Kept
  <2>1. PICK s \in TargetSpec : Write(t, "live", FALSE, s)
    BY <1>4 DEF CreateTarget
  <2>2. t # u
    BY <1>3, <1>4 DEF CreateTarget
  <2> QED
    BY <1>1, <2>1, <2>2
<1>5. ASSUME NEW t \in Target, EditTarget(t) PROVE Kept
  <2>1. PICK s \in TargetSpec : Write(t, Current(t).state, Current(t).fin, s)
    BY <1>5 DEF EditTarget
  <2>2. Current(t).state \in {"absent", "live", "deleting"} /\ Current(t).fin \in BOOLEAN
    BY CurrentType, ObjectFields
  <2> QED
    BY <1>1, <2>1, <2>2
<1>6. ASSUME NEW t \in Target, DeleteTarget(t) PROVE Kept
  <2>1. Current(t).spec \in TargetSpec \cup {NoSpec}
    BY CurrentType, ObjectFields
  <2>2. CASE Current(t).fin
    BY <1>1, <1>6, <2>1, <2>2 DEF DeleteTarget
  <2>3. CASE ~Current(t).fin
    BY <1>1, <1>6, <2>1, <2>3 DEF DeleteTarget
  <2> QED
    BY <2>2, <2>3
<1>7. ASSUME NEW t \in Target, Informer(t) PROVE Kept
  <2>1. Current(u)' = Current(u)
    BY <1>7, InformerFacts
  <2> QED
    BY <2>1
<1>8. ASSUME AddFinalizer PROVE Kept
  <2>1. /\ cur \in Target /\ cr.state = "live" /\ cr.spec \in TargetSpec
        /\ pc = "addFinalizer"
    BY <1>8 DEF AddFinalizer, TypeOK, CopyInv, UpdatePC
  <2>2. CASE UpToDate /\ Write(cur, cr.state, TRUE, cr.spec)
    <3>1. Current(cur) = cr
      BY <2>1, <2>2, AcceptedIsOnlyVersion
    <3>2. Write(cur, "live", TRUE, cr.spec)
      BY <2>1, <2>2
    <3> QED
      BY <1>1, <2>1, <3>1, <3>2
  <2> QED
    BY <1>2, <1>8, <2>2 DEF AddFinalizer
<1>9. ASSUME RemoveFinalizer PROVE Kept
  <2>1. cur \in Target /\ cur # u
    BY <1>9 DEF RemoveFinalizer, TypeOK, ContextInv
  <2>2. CASE Write(cur, "absent", FALSE, NoSpec)
    BY <1>1, <2>1, <2>2
  <2> QED
    BY <1>2, <1>9, <2>2 DEF RemoveFinalizer
<1>10. ASSUME \/ \E t \in Target : Reconcile(t)
              \/ ConnProfileEvent \/ SyncProfileEvent \/ UNCHANGED vars
              \/ SelectPanics \/ AddressPanics \/ Crash
              \/ AssignDataServer \/ BuildRequest \/ GetDataStore \/ ReplaceDataStore
              \/ CreateDataStore \/ RecordDataStore
              \/ LookupDeleted \/ DropDataStore \/ ForgetTarget
       PROVE  UNCHANGED history
  BY <1>10 DEF Reconcile, ConnProfileEvent, SyncProfileEvent, vars, SelectPanics,
     AddressPanics, Crash, Restart, AssignDataServer, BuildRequest, GetDataStore,
     ReplaceDataStore, CreateDataStore, RecordDataStore, LookupDeleted,
     DropDataStore, DeleteDataStore, ForgetTarget, api
<1> QED
  BY <1>2, <1>4, <1>5, <1>6, <1>7, <1>8, <1>9, <1>10 DEF Next, WorkerStep, Environment

\* What the worker has in hand about the target's context stays true.
LEMMA ContextNext == InductiveInv /\ [Next]_vars => ContextInv'
<1> SUFFICES ASSUME TypeOK, CopyInv, ContextInv, StoresAgree, [Next]_vars
             PROVE  ContextInv'
  BY DEF InductiveInv
<1> USE DEF worker, memory
<1>1. CASE pc' \in {"idle", "lookup", "addFinalizer", "assign"}
  BY <1>1 DEF ContextInv
<1>2. CASE UNCHANGED <<worker, memory, datastores>>
  BY <1>2 DEF ContextInv, Existing
<1>3. ASSUME AssignDataServer PROVE ContextInv'
  <2>1. cur \in Target /\ pc' = "request" /\ cur' = cur
    BY <1>3 DEF AssignDataServer, TypeOK, Goto
  <2>2. targetStore'[cur] # NoCtx
    <3>1. CASE targetStore[cur] = NoCtx
      <4>1. PICK d \in Selectable :
               targetStore' = [targetStore EXCEPT ![cur] = [client |-> d, datastore |-> NoReq]]
        BY <1>3, <3>1 DEF AssignDataServer
      <4>2. [client |-> d, datastore |-> NoReq] \in Context
        BY DEF Context, Selectable
      <4> QED
        BY <2>1, <4>1, <4>2, NullsAssumption DEF TypeOK
    <3>2. CASE targetStore[cur] # NoCtx
      BY <1>3, <3>2 DEF AssignDataServer
    <3> QED
      BY <3>1, <3>2
  <2> QED
    BY <2>1, <2>2 DEF ContextInv
<1>4. ASSUME BuildRequest, pc' # "idle" PROVE ContextInv'
  <2>1. /\ pc' = "getDataStore" /\ cur' = cur /\ UNCHANGED memory
        /\ req' = [spec |-> cr.spec, conn |-> connProfile, sync |-> syncProfile]
        /\ tctx' = targetStore[cur] /\ targetStore[cur] # NoCtx
    BY <1>4 DEF BuildRequest, Goto, Retry, Release, ContextInv
  <2>2. req' # NoReq
    <3>1. req' \in Request
      BY <1>4, <2>1 DEF BuildRequest, CopyInv, UpdatePC, Request, TypeOK
    <3> QED
      BY <3>1, NullsAssumption
  <2> QED
    BY <2>1, <2>2 DEF ContextInv
<1>5. ASSUME GetDataStore, pc' # "idle" PROVE ContextInv'
  <2>1. /\ pc' \in {"createDataStore", "replaceDataStore"} /\ pc = "getDataStore"
        /\ UNCHANGED <<cur, tctx, req, memory>>
    BY <1>5 DEF GetDataStore, Goto, Done, Retry, Release
  <2> QED
    BY <2>1 DEF ContextInv
<1>6. ASSUME NEW next \in {"createDataStore", "forget"}, DeleteDataStore(next),
             pc = IF next = "forget" THEN "deleteDataStore" ELSE "replaceDataStore",
             pc' # "idle"
      PROVE  ContextInv'
  <2>1. pc' = next /\ UNCHANGED <<cur, tctx, req, memory>> /\ SetDataStore(NoReq)
    BY <1>6 DEF DeleteDataStore, Goto, Retry, Release
  <2>2. cur \in Target /\ (pc = "deleteDataStore" => tctx \in Context)
    BY <1>6 DEF TypeOK, ContextInv
  <2>3. next = "forget" => Existing' = NoReq
    <3> SUFFICES ASSUME next = "forget" PROVE Existing' = NoReq
      OBVIOUS
    <3>1. tctx.client \in DataServer
      BY <1>6, <2>2 DEF Context
    <3>2. datastores'[tctx.client][cur] = NoReq
      BY <2>1, <2>2, <3>1 DEF SetDataStore, TypeOK
    <3> QED
      BY <2>1, <3>2 DEF Existing
  <2> QED
    BY <1>6, <2>1, <2>3 DEF ContextInv
<1>7. ASSUME ReplaceDataStore \/ DropDataStore, pc' # "idle" PROVE ContextInv'
  BY <1>6, <1>7 DEF ReplaceDataStore, DropDataStore
<1>8. ASSUME CreateDataStore, pc' # "idle" PROVE ContextInv'
  <2>1. /\ pc' = "record" /\ UNCHANGED <<cur, req, memory>> /\ SetDataStore(req)
        /\ tctx' = [tctx EXCEPT !.datastore = req]
    BY <1>8 DEF CreateDataStore, Goto, Retry, Release
  <2>2. cur \in Target /\ tctx \in Context /\ req # NoReq /\ req \in Request
    BY <1>8 DEF CreateDataStore, TypeOK, ContextInv
  <2>3. /\ tctx' \in Context /\ tctx'.client = tctx.client /\ tctx'.datastore = req
        /\ tctx.client \in DataServer
    BY <2>1, <2>2 DEF Context
  <2>4. datastores'[tctx.client][cur] = req
    BY <2>1, <2>2, <2>3 DEF SetDataStore, TypeOK
  <2>5. Existing' = req
    BY <2>1, <2>3, <2>4 DEF Existing
  <2> QED
    BY <1>8, <2>1, <2>2, <2>3, <2>5, NullsAssumption DEF ContextInv, CreateDataStore
<1>9. ASSUME RecordDataStore PROVE ContextInv'
  BY <1>1, <1>9 DEF RecordDataStore, Done, Release
<1>10. ASSUME LookupDeleted PROVE ContextInv'
  <2>1. cur \in Target /\ cur' = cur /\ UNCHANGED <<targetStore, datastores>>
    BY <1>10 DEF LookupDeleted, TypeOK, Goto
  <2>2. CASE targetStore[cur] = NoCtx
    <3>1. pc' = "removeFinalizer" /\ UNCHANGED dsTargets
      BY <1>10, <2>2 DEF LookupDeleted, Goto
    <3>2. \A d \in DataServer : cur \notin dsTargets[d]
      BY <2>1, <2>2 DEF StoresAgree
    <3> QED
      BY <2>1, <2>2, <3>1, <3>2 DEF ContextInv
  <2>3. CASE targetStore[cur] # NoCtx
    <3>1. /\ tctx' = targetStore[cur]
          /\ dsTargets' = [dsTargets EXCEPT ![targetStore[cur].client] = @ \ {cur}]
          /\ pc' = IF targetStore[cur].datastore = NoReq THEN "forget"
                                                         ELSE "deleteDataStore"
      BY <1>10, <2>3 DEF LookupDeleted, DeleteTargetFromDataServer, Goto
    <3>2. \A d \in DataServer : cur \notin dsTargets'[d]
      BY <2>1, <3>1 DEF StoresAgree, TypeOK
    <3> QED
      BY <2>1, <2>3, <3>1, <3>2 DEF ContextInv
  <2> QED
    BY <2>2, <2>3
<1>11. ASSUME ForgetTarget PROVE ContextInv'
  <2>1. /\ pc' = "removeFinalizer" /\ cur' = cur /\ UNCHANGED dsTargets
        /\ targetStore' = [targetStore EXCEPT ![cur] = NoCtx] /\ cur \in Target
        /\ pc = "forget"
    BY <1>11 DEF ForgetTarget, Goto, TypeOK
  <2> QED
    BY <2>1 DEF ContextInv, TypeOK
<1>12. ASSUME \/ \E t \in Target : Reconcile(t)
              \/ AddFinalizer \/ SelectPanics \/ AddressPanics \/ Crash \/ RemoveFinalizer
       PROVE  \/ pc' \in {"idle", "lookup", "addFinalizer", "assign"}
              \/ UNCHANGED <<worker, memory, datastores>>
  BY <1>12 DEF Reconcile, AddFinalizer, SelectPanics, AddressPanics, Crash, Restart,
     RemoveFinalizer, Done, Retry, Release, Goto
<1>13. ASSUME \/ \E t \in Target : \/ CreateTarget(t) \/ EditTarget(t)
                                   \/ DeleteTarget(t) \/ Informer(t)
              \/ ConnProfileEvent \/ SyncProfileEvent \/ UNCHANGED vars
       PROVE  UNCHANGED <<worker, memory, datastores>>
  BY <1>13 DEF CreateTarget, EditTarget, DeleteTarget, Informer, Untouched,
     ConnProfileEvent, SyncProfileEvent, vars
<1> QED
  BY <1>1, <1>2, <1>3, <1>4, <1>5, <1>7, <1>8, <1>9, <1>10, <1>11, <1>12, <1>13
     DEF Next, WorkerStep, Environment

\* What the steps that touch memory do to it.
LEMMA AssignEffect ==
  ASSUME TypeOK, StoresAgree, AssignDataServer
  PROVE  /\ cur \in Target /\ cur' = cur /\ pc = "assign" /\ pc' = "request"
         /\ UNCHANGED <<history, datastores, lossy>>
         /\ \E d \in DataServer :
              /\ dsTargets' = [dsTargets EXCEPT ![d] = dsTargets[d] \cup {cur}]
              /\ dsTargets[d] \subseteq {cur} \/ targetStore[cur] # NoCtx
              /\ \/ /\ targetStore[cur] = NoCtx /\ dsTargets[d] = {}
                    /\ targetStore' = [targetStore EXCEPT
                                         ![cur] = [client |-> d, datastore |-> NoReq]]
                 \/ /\ targetStore[cur] # NoCtx /\ targetStore[cur].client = d
                    /\ targetStore' = targetStore
<1>1. /\ cur \in Target /\ cur' = cur /\ pc = "assign" /\ pc' = "request"
      /\ UNCHANGED <<history, datastores, lossy>>
  BY DEF AssignDataServer, TypeOK, Goto, api, bounds
<1>2. CASE targetStore[cur] = NoCtx
  BY <1>1, <1>2 DEF AssignDataServer, AddTargetToDataServer, Selectable
<1>3. CASE targetStore[cur] # NoCtx
  <2>1. targetStore[cur].client \in DataServer
    BY <1>1, <1>3 DEF TypeOK, Context
  <2> QED
    BY <1>1, <1>3, <2>1 DEF AssignDataServer, AddTargetToDataServer
<1> QED
  BY <1>1, <1>2, <1>3

\* The first step of the deletion branch: the target is off its data server.
LEMMA LookupEffect ==
  ASSUME TypeOK, LookupDeleted
  PROVE  /\ cur \in Target /\ cur' = cur /\ pc = "lookup"
         /\ UNCHANGED <<history, targetStore, datastores, lossy>>
         /\ \/ targetStore[cur] = NoCtx /\ UNCHANGED dsTargets
            \/ /\ targetStore[cur] # NoCtx
               /\ dsTargets' = [dsTargets EXCEPT ![targetStore[cur].client] = @ \ {cur}]
BY DEF LookupDeleted, DeleteTargetFromDataServer, TypeOK, Goto, api, bounds

\* A datastore is recorded for the context that is stored, and exists.
LEMMA RecordEffect ==
  ASSUME TypeOK, ContextInv, RecordDataStore
  PROVE  /\ cur \in Target /\ pc = "record" /\ targetStore[cur] # NoCtx
         /\ tctx \in Context /\ tctx # NoCtx /\ tctx.client = targetStore[cur].client
         /\ tctx.datastore # NoReq /\ datastores[tctx.client][cur] # NoReq
         /\ targetStore' = [targetStore EXCEPT ![cur] = tctx]
         /\ UNCHANGED <<history, dsTargets, datastores, lossy>>
BY DEF RecordDataStore, TypeOK, ContextInv, Existing, api, bounds

\* The context that is forgotten is one whose datastore is gone and whose target is
\* marked and holds the finalizer.
LEMMA ForgetEffect ==
  ASSUME TypeOK, ContextInv, WorkInv, BoundHoldsFinalizer, ForgetTarget
  PROVE  /\ cur \in Target /\ cur' = cur /\ pc = "forget"
         /\ targetStore[cur] # NoCtx /\ tctx = targetStore[cur]
         /\ tctx.datastore # NoReq => datastores[tctx.client][cur] = NoReq
         /\ \A d \in DataServer : cur \notin dsTargets[d]
         /\ Current(cur).fin /\ Current(cur).state = "deleting"
         /\ targetStore' = [targetStore EXCEPT ![cur] = NoCtx]
         /\ UNCHANGED <<history, dsTargets, datastores, lossy>>
<1>1. cur \in Target /\ pc = "forget" /\ targetStore[cur] # NoCtx
  BY DEF ForgetTarget, TypeOK, ContextInv
<1>2. Current(cur).fin /\ AllDeleting(cur)
  BY <1>1 DEF BoundHoldsFinalizer, WorkInv, DeletePC
<1>3. Current(cur).state = "deleting"
  BY <1>1, <1>2, DeletingCurrent
<1> QED
  BY <1>1, <1>2, <1>3 DEF ForgetTarget, ContextInv, Goto, Existing, api, bounds

\* The remaining steps leave memory alone, or start it afresh.
LEMMA MemoryFrame ==
  ASSUME [Next]_vars, ~AssignDataServer, ~LookupDeleted, ~RecordDataStore, ~ForgetTarget
  PROVE  \/ UNCHANGED <<targetStore, dsTargets>>
         \/ /\ targetStore' = [t \in Target |-> NoCtx]
            /\ dsTargets' = [d \in DataServer |-> {}]
BY DEF Next, WorkerStep, Environment, CreateTarget, EditTarget, DeleteTarget, Informer,
       Untouched, ConnProfileEvent, SyncProfileEvent, Reconcile, AddFinalizer,
       SelectPanics, AddressPanics, Crash, Restart, BuildRequest, GetDataStore,
       ReplaceDataStore, DropDataStore, DeleteDataStore, CreateDataStore,
       RemoveFinalizer, vars, memory

\* Every step preserves the agreement of the stores with each other and with
\* the finalizers.
LEMMA StoresNext ==
  InductiveInv /\ [Next]_vars
    => BoundHoldsFinalizer' /\ StoresAgree' /\ OneTargetPerServer'
<1> SUFFICES ASSUME TypeOK, HistoryInv, CopyInv, WorkInv, ContextInv,
                    UncountedInv, BoundHoldsFinalizer, StoresAgree, OneTargetPerServer,
                    [Next]_vars
             PROVE  BoundHoldsFinalizer' /\ StoresAgree' /\ OneTargetPerServer'
  BY DEF InductiveInv
<1> DEFINE Goal == BoundHoldsFinalizer' /\ StoresAgree' /\ OneTargetPerServer'
<1>1. \A t \in Target : targetStore[t] # NoCtx =>
        /\ Current(t)'.fin
        /\ Current(t).state = "deleting" => Current(t)'.state = "deleting"
  BY HeldKept DEF BoundHoldsFinalizer
<1>2. CASE UNCHANGED <<targetStore, dsTargets>>
  BY <1>1, <1>2 DEF BoundHoldsFinalizer, StoresAgree, OneTargetPerServer
<1>3. CASE /\ targetStore' = [t \in Target |-> NoCtx]
           /\ dsTargets' = [d \in DataServer |-> {}]
  BY <1>3 DEF BoundHoldsFinalizer, StoresAgree, OneTargetPerServer
<1>4. CASE AssignDataServer
  <2>1. PICK d \in DataServer :
              /\ dsTargets' = [dsTargets EXCEPT ![d] = dsTargets[d] \cup {cur}]
              /\ \/ /\ targetStore[cur] = NoCtx /\ dsTargets[d] = {}
                    /\ targetStore' = [targetStore EXCEPT
                                         ![cur] = [client |-> d, datastore |-> NoReq]]
                 \/ /\ targetStore[cur] # NoCtx /\ targetStore[cur].client = d
                    /\ targetStore' = targetStore
    BY <1>4, AssignEffect
  <2>2. cur \in Target /\ UNCHANGED history /\ pc = "assign"
    BY <1>4, AssignEffect
  <2>3. Current(cur).fin /\ \A t : Current(t)' = Current(t)
    BY <2>2 DEF WorkInv, UpdatePC, Current
  <2>4. [client |-> d, datastore |-> NoReq] # NoCtx
    BY NullsAssumption DEF Context
  <2>5. CASE targetStore[cur] = NoCtx
    <3>1. /\ dsTargets[d] = {}
          /\ targetStore' = [targetStore EXCEPT
                               ![cur] = [client |-> d, datastore |-> NoReq]]
          /\ targetStore'[cur] # NoCtx /\ targetStore'[cur].client = d
          /\ \A t \in Target \ {cur} : targetStore'[t] = targetStore[t]
      BY <2>1, <2>2, <2>4, <2>5 DEF TypeOK
    <3>2. /\ dsTargets'[d] = {cur}
          /\ \A e \in DataServer \ {d} : dsTargets'[e] = dsTargets[e]
      BY <2>1, <3>1 DEF TypeOK
    <3>3. \A e \in DataServer : cur \notin dsTargets[e]
      BY <2>2, <2>5 DEF StoresAgree
    <3>4. BoundHoldsFinalizer'
      BY <1>1, <2>3, <3>1 DEF BoundHoldsFinalizer
    <3>5. OneTargetPerServer'
      BY <3>2 DEF OneTargetPerServer
    <3>6. StoresAgree'
      <4> SUFFICES ASSUME NEW t \in Target, NEW e \in DataServer
                   PROVE  /\ t \in dsTargets'[e] =>
                                targetStore'[t] # NoCtx /\ targetStore'[t].client = e
                          /\ /\ targetStore'[t] # NoCtx /\ targetStore'[t].client = e
                             /\ t \notin dsTargets'[e]
                             => Current(t)'.state = "deleting"
        BY DEF StoresAgree
      <4>1. CASE t = cur
        BY <3>1, <3>2, <3>3, <4>1
      <4>2. CASE t # cur
        <5>1. t \in dsTargets'[e] <=> t \in dsTargets[e]
          BY <3>1, <3>2, <4>2
        <5> QED
          BY <2>3, <3>1, <4>2, <5>1 DEF StoresAgree
      <4> QED
        BY <4>1, <4>2
    <3> QED
      BY <3>4, <3>5, <3>6
  <2>6. CASE targetStore[cur] # NoCtx
    <3>1. /\ targetStore' = targetStore /\ targetStore[cur].client = d
          /\ dsTargets'[d] = dsTargets[d] \cup {cur}
          /\ \A e \in DataServer \ {d} : dsTargets'[e] = dsTargets[e]
      BY <2>1, <2>6 DEF TypeOK
    <3>2. BoundHoldsFinalizer'
      BY <1>1, <3>1 DEF BoundHoldsFinalizer
    <3>3. StoresAgree'
      <4> SUFFICES ASSUME NEW t \in Target, NEW e \in DataServer
                   PROVE  /\ t \in dsTargets'[e] =>
                                targetStore'[t] # NoCtx /\ targetStore'[t].client = e
                          /\ /\ targetStore'[t] # NoCtx /\ targetStore'[t].client = e
                             /\ t \notin dsTargets'[e]
                             => Current(t)'.state = "deleting"
        BY DEF StoresAgree
      <4> QED
        BY <2>3, <2>6, <3>1 DEF StoresAgree
    <3>4. OneTargetPerServer'
      <4>1. cur \in dsTargets[d]
        BY <2>2, <2>6, <3>1 DEF UncountedInv, UpdatePC
      <4>2. dsTargets' = dsTargets
        BY <2>1, <3>1, <4>1 DEF TypeOK
      <4> QED
        BY <4>2 DEF OneTargetPerServer
    <3> QED
      BY <3>2, <3>3, <3>4
  <2> QED
    BY <2>5, <2>6
<1>5. CASE LookupDeleted
  <2>1. /\ cur \in Target /\ UNCHANGED <<history, targetStore>> /\ pc = "lookup"
    BY <1>5, LookupEffect
  <2>2. \A t : Current(t)' = Current(t)
    BY <2>1 DEF Current
  <2>3. CASE targetStore[cur] = NoCtx
    <3>1. UNCHANGED <<targetStore, dsTargets>>
      BY <1>5, <2>3, LookupEffect
    <3> QED
      BY <1>2, <3>1
  <2>4. CASE targetStore[cur] # NoCtx
    <3>1. dsTargets' = [dsTargets EXCEPT ![targetStore[cur].client] = @ \ {cur}]
      BY <1>5, <2>4, LookupEffect
    <3>2. Current(cur).state = "deleting"
      BY <2>1, <2>4, DeletingCurrent DEF BoundHoldsFinalizer, WorkInv, DeletePC
    <3>3. \A e \in DataServer :
            /\ dsTargets'[e] \subseteq dsTargets[e]
            /\ \A t \in Target \ {cur} : t \in dsTargets[e] => t \in dsTargets'[e]
      BY <3>1 DEF TypeOK
    <3> QED
      BY <2>1, <2>2, <3>2, <3>3 DEF BoundHoldsFinalizer, StoresAgree, OneTargetPerServer
  <2> QED
    BY <2>3, <2>4
<1>6. CASE RecordDataStore
  <2>1. /\ UNCHANGED <<history, dsTargets>>
        /\ \A t \in Target :
             /\ targetStore'[t] # NoCtx <=> targetStore[t] # NoCtx
             /\ targetStore'[t].client = targetStore[t].client
    BY <1>6, RecordEffect DEF TypeOK
  <2>2. \A t : Current(t)' = Current(t)
    BY <2>1 DEF Current
  <2> QED
    BY <2>1, <2>2 DEF BoundHoldsFinalizer, StoresAgree, OneTargetPerServer
<1>7. CASE ForgetTarget
  <2>1. /\ UNCHANGED <<history, dsTargets>> /\ cur \in Target
        /\ \A d \in DataServer : cur \notin dsTargets[d]
        /\ targetStore'[cur] = NoCtx
        /\ \A t \in Target \ {cur} : targetStore'[t] = targetStore[t]
    BY <1>7, ForgetEffect DEF TypeOK
  <2>2. \A t : Current(t)' = Current(t)
    BY <2>1 DEF Current
  <2> QED
    BY <2>1, <2>2 DEF BoundHoldsFinalizer, StoresAgree, OneTargetPerServer
<1> QED
  BY <1>2, <1>3, <1>4, <1>5, <1>6, <1>7, MemoryFrame

\* What the informer has seen as marked stays so while the target is bound.
LEMMA SeenKept ==
  ASSUME TypeOK, HistoryInv, CopyInv, WorkInv, ContextInv, BoundHoldsFinalizer,
         [Next]_vars,
         NEW u \in Target, targetStore[u] # NoCtx, AllDeleting(u),
         cur = u => pc \notin UpdatePC
  PROVE  AllDeleting(u)'
<1>1. Current(u).state = "deleting" /\ Current(u).fin
  BY DeletingCurrent DEF BoundHoldsFinalizer
<1>2. CASE history'[u] = history[u]
  BY <1>2 DEF AllDeleting
<1>3. ASSUME NEW t \in Target, NEW state \in {"absent", "live", "deleting"},
             NEW fin \in BOOLEAN, NEW spec \in TargetSpec \cup {NoSpec},
             Write(t, state, fin, spec), t = u => state = "deleting"
      PROVE  AllDeleting(u)'
  <2>1. CASE t = u
    BY <1>3, <2>1, WriteKeepsDeleting DEF AllDeleting
  <2>2. CASE t # u
    BY <1>2, <1>3, <2>2, WriteIsLocal
  <2> QED
    BY <2>1, <2>2
<1>4. ASSUME NEW t \in Target, CreateTarget(t) \/ DeleteTarget(t) PROVE AllDeleting(u)'
  <2>1. t # u
    BY <1>1, <1>4 DEF CreateTarget, DeleteTarget
  <2>2. PICK state, fin, spec : Write(t, state, fin, spec)
    BY <1>4 DEF CreateTarget, DeleteTarget
  <2> QED
    BY <1>2, <2>1, <2>2, WriteIsLocal
<1>5. ASSUME NEW t \in Target, EditTarget(t) PROVE AllDeleting(u)'
  <2>1. PICK s \in TargetSpec : Write(t, Current(t).state, Current(t).fin, s)
    BY <1>5 DEF EditTarget
  <2>2. Current(t).state \in {"absent", "live", "deleting"} /\ Current(t).fin \in BOOLEAN
    BY CurrentType, ObjectFields
  <2> QED
    BY <1>1, <1>3, <2>1, <2>2
<1>6. ASSUME NEW t \in Target, Informer(t) PROVE AllDeleting(u)'
  <2>1. CASE t = u
    <3>1. /\ Len(history'[t]) = Len(history[t]) - 1 /\ Len(history[t]) \in Nat
          /\ \A i \in 1..Len(history'[t]) : history'[t][i] = history[t][i + 1]
      BY <1>6, InformerFacts, CurrentType
    <3>2. \A i \in 1..Len(history'[t]) : i + 1 \in 1..Len(history[t])
      BY <3>1
    <3> QED
      BY <2>1, <3>1, <3>2 DEF AllDeleting
  <2>2. CASE t # u
    BY <1>2, <1>6, <2>2, InformerFacts
  <2> QED
    BY <2>1, <2>2
<1>7. ASSUME AddFinalizer \/ RemoveFinalizer PROVE AllDeleting(u)'
  <2>1. cur \in Target /\ cur # u
    BY <1>7 DEF AddFinalizer, RemoveFinalizer, TypeOK, ContextInv, UpdatePC
  <2>2. UNCHANGED history \/ \E state, fin, spec : Write(cur, state, fin, spec)
    BY <1>7 DEF AddFinalizer, RemoveFinalizer
  <2> QED
    BY <1>2, <2>1, <2>2, WriteIsLocal
<1>8. ASSUME \/ \E t \in Target : Reconcile(t)
             \/ ConnProfileEvent \/ SyncProfileEvent \/ UNCHANGED vars
             \/ SelectPanics \/ AddressPanics \/ Crash
             \/ AssignDataServer \/ BuildRequest \/ GetDataStore \/ ReplaceDataStore
             \/ CreateDataStore \/ RecordDataStore
             \/ LookupDeleted \/ DropDataStore \/ ForgetTarget
      PROVE  UNCHANGED history
  BY <1>8 DEF Reconcile, ConnProfileEvent, SyncProfileEvent, vars, SelectPanics,
     AddressPanics, Crash, Restart, AssignDataServer, BuildRequest, GetDataStore,
     ReplaceDataStore, CreateDataStore, RecordDataStore, LookupDeleted,
     DropDataStore, DeleteDataStore, ForgetTarget, api
<1> QED
  BY <1>2, <1>4, <1>5, <1>6, <1>7, <1>8 DEF Next, WorkerStep, Environment

\* The worker takes up a target for update only if its cached version is live.
LEMMA UpdateStart ==
  ASSUME TypeOK, [Next]_vars, pc' \in UpdatePC
  PROVE  \/ pc \in UpdatePC /\ cur' = cur
         \/ \E t \in Target : cur' = t /\ ~AllDeleting(t)
<1>1. CASE UNCHANGED worker
  BY <1>1 DEF worker
<1>2. ASSUME NEW t \in Target, Reconcile(t), ~UNCHANGED worker
      PROVE  \E u \in Target : cur' = u /\ ~AllDeleting(u)
  <2>1. cur' = t /\ Cached(t).state # "deleting"
    BY <1>2 DEF Reconcile, UpdatePC
  <2>2. Cached(t) = history[t][1] /\ 1 \in 1..Len(history[t])
    BY CurrentType
  <2> QED
    BY <2>1, <2>2 DEF AllDeleting
<1>3. ASSUME \/ AddFinalizer \/ AssignDataServer \/ BuildRequest \/ GetDataStore
             \/ ReplaceDataStore \/ CreateDataStore
      PROVE  pc \in UpdatePC /\ cur' = cur
  BY <1>3 DEF AddFinalizer, AssignDataServer, BuildRequest, GetDataStore,
     ReplaceDataStore, DeleteDataStore, CreateDataStore, Goto, Done, Retry, Release,
     UpdatePC
<1>4. ~(\/ RecordDataStore \/ LookupDeleted \/ DropDataStore \/ ForgetTarget
        \/ RemoveFinalizer \/ SelectPanics \/ AddressPanics \/ Crash)
  BY DEF RecordDataStore, LookupDeleted, DropDataStore, DeleteDataStore, ForgetTarget,
     RemoveFinalizer, SelectPanics, AddressPanics, Crash, Restart, Goto, Done, Retry,
     Release, UpdatePC
<1>5. ASSUME \/ \E t \in Target : \/ CreateTarget(t) \/ EditTarget(t)
                                  \/ DeleteTarget(t) \/ Informer(t)
             \/ ConnProfileEvent \/ SyncProfileEvent \/ UNCHANGED vars
      PROVE  UNCHANGED worker
  BY <1>5 DEF CreateTarget, EditTarget, DeleteTarget, Informer, Untouched,
     ConnProfileEvent, SyncProfileEvent, vars, worker
<1> QED
  BY <1>1, <1>2, <1>3, <1>4, <1>5 DEF Next, WorkerStep, Environment

\* A context that no data server counts is one whose deletion has begun.
LEMMA UncountedNext == InductiveInv /\ [Next]_vars => UncountedInv'
<1> SUFFICES ASSUME TypeOK, HistoryInv, CopyInv, WorkInv, ContextInv, UncountedInv,
                    BoundHoldsFinalizer, StoresAgree, [Next]_vars,
                    NEW u \in Target, targetStore'[u] # NoCtx,
                    u \notin dsTargets'[targetStore'[u].client]
             PROVE  AllDeleting(u)' /\ (cur' = u => pc' \notin UpdatePC)
  BY DEF InductiveInv, UncountedInv
<1>1. ASSUME targetStore[u] # NoCtx, AllDeleting(u), cur = u => pc \notin UpdatePC
      PROVE  AllDeleting(u)' /\ (cur' = u => pc' \notin UpdatePC)
  BY <1>1, SeenKept, UpdateStart
<1>2. CASE UNCHANGED <<targetStore, dsTargets>>
  BY <1>1, <1>2 DEF UncountedInv
<1>3. CASE targetStore' = [t \in Target |-> NoCtx]
  BY <1>3
<1>4. CASE AssignDataServer
  <2>1. PICK d \in DataServer :
              /\ dsTargets' = [dsTargets EXCEPT ![d] = dsTargets[d] \cup {cur}]
              /\ \/ /\ targetStore[cur] = NoCtx
                    /\ targetStore' = [targetStore EXCEPT
                                         ![cur] = [client |-> d, datastore |-> NoReq]]
                 \/ /\ targetStore[cur] # NoCtx /\ targetStore[cur].client = d
                    /\ targetStore' = targetStore
    BY <1>4, AssignEffect
  <2>2. cur \in Target /\ cur' = cur
    BY <1>4, AssignEffect
  <2>3. targetStore'[cur].client = d /\ cur \in dsTargets'[d]
    BY <2>1, <2>2 DEF TypeOK
  <2>4. u # cur
    BY <2>3
  <2>5. targetStore'[u] = targetStore[u] /\ targetStore[u].client \in DataServer
    <3>1. targetStore'[u] = targetStore[u]
      BY <2>1, <2>2, <2>4 DEF TypeOK
    <3> QED
      BY <3>1 DEF TypeOK, Context
  <2>6. u \notin dsTargets[targetStore[u].client]
    BY <2>1, <2>5 DEF TypeOK
  <2> QED
    BY <1>1, <2>5, <2>6 DEF UncountedInv
<1>5. CASE LookupDeleted
  <2>1. cur \in Target /\ targetStore' = targetStore /\ pc = "lookup"
    BY <1>5, LookupEffect
  <2>2. CASE u = cur
    <3>1. AllDeleting(u)
      BY <2>1, <2>2 DEF BoundHoldsFinalizer, WorkInv, DeletePC
    <3> QED
      BY <1>1, <2>1, <3>1 DEF UpdatePC
  <2>3. CASE u # cur
    <3>1. u \notin dsTargets[targetStore[u].client]
      <4>1. targetStore[u].client \in DataServer
        BY <2>1 DEF TypeOK, Context
      <4>2. CASE targetStore[cur] = NoCtx
        BY <1>5, <2>1, <4>2, LookupEffect
      <4>3. CASE targetStore[cur] # NoCtx
        <5>1. dsTargets' = [dsTargets EXCEPT ![targetStore[cur].client] = @ \ {cur}]
          BY <1>5, <4>3, LookupEffect
        <5> QED
          BY <2>1, <2>3, <4>1, <5>1 DEF TypeOK
      <4> QED
        BY <4>2, <4>3
    <3> QED
      BY <1>1, <2>1, <3>1 DEF UncountedInv
  <2> QED
    BY <2>2, <2>3
<1>6. CASE RecordDataStore
  <2>1. /\ dsTargets' = dsTargets
        /\ targetStore[u] # NoCtx /\ targetStore'[u].client = targetStore[u].client
    BY <1>6, RecordEffect DEF TypeOK
  <2> QED
    BY <1>1, <2>1 DEF UncountedInv
<1>7. CASE ForgetTarget
  <2>1. dsTargets' = dsTargets /\ targetStore'[u] = targetStore[u]
    BY <1>7, ForgetEffect DEF TypeOK
  <2> QED
    BY <1>1, <2>1 DEF UncountedInv
<1> QED
  BY <1>2, <1>3, <1>4, <1>5, <1>6, <1>7, MemoryFrame

\* What the calls to a data server do.
LEMMA DeleteEffect ==
  ASSUME TypeOK, ContextInv, ReplaceDataStore \/ DropDataStore
  PROVE  /\ cur \in Target /\ targetStore[cur] # NoCtx
         /\ tctx.client = targetStore[cur].client /\ tctx.client \in DataServer
         /\ pc # "record" /\ pc' # "record"
         /\ UNCHANGED <<history, targetStore, dsTargets, lossy>>
         /\ \/ UNCHANGED datastores
            \/ datastores' = [datastores EXCEPT ![tctx.client][cur] = NoReq]
<1>1. /\ cur \in Target /\ targetStore[cur] # NoCtx
      /\ tctx.client = targetStore[cur].client
  BY DEF ReplaceDataStore, DropDataStore, TypeOK, ContextInv
<1>2. tctx.client \in DataServer
  BY <1>1 DEF TypeOK, Context
<1> QED
  BY <1>1, <1>2 DEF ReplaceDataStore, DropDataStore, DeleteDataStore, SetDataStore,
     Goto, Retry, Release, api, memory

\* A datastore that is created is recorded next, or the creation reported an error.
LEMMA CreateEffect ==
  ASSUME TypeOK, ContextInv, CreateDataStore
  PROVE  /\ cur \in Target /\ targetStore[cur] # NoCtx
         /\ tctx.client = targetStore[cur].client /\ tctx.client \in DataServer
         /\ req # NoReq /\ pc = "createDataStore"
         /\ UNCHANGED <<history, targetStore, dsTargets>>
         /\ \/ UNCHANGED <<datastores, lossy>>
            \/ /\ datastores' = [datastores EXCEPT ![tctx.client][cur] = req]
               /\ \/ lossy'
                  \/ pc' = "record" /\ cur' = cur /\ UNCHANGED lossy
<1>1. /\ cur \in Target /\ targetStore[cur] # NoCtx /\ req # NoReq
      /\ tctx.client = targetStore[cur].client
  BY DEF CreateDataStore, TypeOK, ContextInv
<1>2. tctx.client \in DataServer
  BY <1>1 DEF TypeOK, Context
<1> QED
  BY <1>1, <1>2 DEF CreateDataStore, SetDataStore, Goto, Retry, Release, api, memory

\* The remaining steps leave the data servers alone.
LEMMA DataServerFrame ==
  ASSUME [Next]_vars, ~CreateDataStore, ~ReplaceDataStore, ~DropDataStore
  PROVE  /\ UNCHANGED datastores
         /\ \/ lossy'
            \/ /\ UNCHANGED lossy
               /\ \/ UNCHANGED targetStore
                  \/ AssignDataServer \/ RecordDataStore \/ ForgetTarget
               /\ pc = "record" => RecordDataStore \/ UNCHANGED <<pc, cur>>
BY DEF Next, WorkerStep, Environment, CreateTarget, EditTarget, DeleteTarget, Informer,
       Untouched, ConnProfileEvent, SyncProfileEvent, Reconcile, AddFinalizer,
       SelectPanics, AddressPanics, Crash, Restart, BuildRequest, GetDataStore,
       AssignDataServer, LookupDeleted, RecordDataStore, ForgetTarget,
       RemoveFinalizer, vars, memory, bounds, worker

\* What is recorded exists.
LEMMA RecordNext == InductiveInv /\ [Next]_vars => RecordInv'
<1> SUFFICES ASSUME TypeOK, WorkInv, ContextInv, BoundHoldsFinalizer, StoresAgree,
                    RecordInv, [Next]_vars,
                    NEW u \in Target, NEW d \in DataServer,
                    datastores'[d][u] # NoReq, ~lossy'
             PROVE  /\ targetStore'[u] # NoCtx /\ targetStore'[u].client = d
                    /\ targetStore'[u].datastore # NoReq \/ (pc' = "record" /\ cur' = u)
  BY DEF InductiveInv, RecordInv
<1>1. CASE ReplaceDataStore \/ DropDataStore
  <2>1. /\ cur \in Target /\ tctx.client \in DataServer
        /\ UNCHANGED targetStore /\ UNCHANGED lossy
    BY <1>1, DeleteEffect
  <2>2. datastores[d][u] # NoReq
    <3>1. CASE UNCHANGED datastores
      BY <3>1
    <3>2. CASE datastores' = [datastores EXCEPT ![tctx.client][cur] = NoReq]
      <4>1. CASE d = tctx.client /\ u = cur
        BY <2>1, <3>2, <4>1 DEF TypeOK
      <4>2. CASE ~(d = tctx.client /\ u = cur)
        <5>1. datastores'[d][u] = datastores[d][u]
          BY <2>1, <3>2, <4>2 DEF TypeOK
        <5> QED
          BY <5>1
      <4> QED
        BY <4>1, <4>2
    <3> QED
      BY <1>1, <3>1, <3>2, DeleteEffect
  <2> QED
    BY <1>1, <2>1, <2>2, DeleteEffect DEF RecordInv
<1>2. CASE CreateDataStore
  <2>1. CASE UNCHANGED <<datastores, lossy>>
    BY <1>2, <2>1, CreateEffect DEF RecordInv
  <2>2. CASE /\ datastores' = [datastores EXCEPT ![tctx.client][cur] = req]
             /\ pc' = "record" /\ cur' = cur /\ UNCHANGED lossy
    <3>1. CASE d = tctx.client /\ u = cur
      BY <1>2, <2>2, <3>1, CreateEffect
    <3>2. CASE ~(d = tctx.client /\ u = cur)
      <4>1. datastores[d][u] # NoReq
        <5>1. cur \in Target /\ tctx.client \in DataServer
          BY <1>2, CreateEffect
        <5>2. datastores'[d][u] = datastores[d][u]
          BY <2>2, <3>2, <5>1 DEF TypeOK
        <5> QED
          BY <5>2
      <4> QED
        BY <1>2, <2>2, <4>1, CreateEffect DEF RecordInv
    <3> QED
      BY <3>1, <3>2
  <2> QED
    BY <1>2, <2>1, <2>2, CreateEffect
<1>3. CASE ~(CreateDataStore \/ ReplaceDataStore \/ DropDataStore)
  <2>1. /\ UNCHANGED <<datastores, lossy>>
        /\ \/ UNCHANGED targetStore
           \/ AssignDataServer \/ RecordDataStore \/ ForgetTarget
        /\ pc = "record" => RecordDataStore \/ UNCHANGED <<pc, cur>>
    BY <1>3, DataServerFrame
  <2>2. /\ targetStore[u] # NoCtx /\ targetStore[u].client = d
        /\ targetStore[u].datastore # NoReq \/ (pc = "record" /\ cur = u)
    BY <2>1 DEF RecordInv
  <2>3. CASE RecordDataStore
    BY <2>2, <2>3, RecordEffect DEF TypeOK
  <2>4. CASE ForgetTarget
    <3>1. u # cur
      BY <2>1, <2>2, <2>4, ForgetEffect
    <3> QED
      BY <2>2, <2>4, <3>1, ForgetEffect DEF TypeOK
  <2>5. CASE AssignDataServer
    <3>1. targetStore'[u] = targetStore[u]
      BY <2>2, <2>5, AssignEffect DEF TypeOK
    <3> QED
      BY <2>2, <2>5, <3>1, AssignEffect
  <2>6. CASE UNCHANGED targetStore /\ ~RecordDataStore
    BY <2>1, <2>2, <2>6
  <2> QED
    BY <2>1, <2>3, <2>4, <2>5, <2>6
<1> QED
  BY <1>1, <1>2, <1>3

-----------------------------------------------------------------------------
(* The theorems *)

\* The inductive invariant holds at the start, ...
LEMMA InductiveInit == Init => InductiveInv
<1> SUFFICES ASSUME Init PROVE InductiveInv
  OBVIOUS
<1>1. \A t \in Target : Len(history[t]) = 1 /\ history[t][1] = NoObject
  BY DEF Init
<1>2. \A t \in Target : Current(t) = NoObject
  BY <1>1 DEF Current
<1>3. HistoryInv
  <2>1. ASSUME NEW t \in Target, NEW i \in 1..Len(history[t])
        PROVE  i = 1
    <3>1. Len(history[t]) = 1
      BY <1>1
    <3> QED
      BY <3>1
  <2>2. ASSUME NEW t \in Target
        PROVE  \A i \in 1..Len(history[t]) : i = 1 /\ history[t][i] = NoObject
    BY <1>1, <2>1
  <2>3. NoObject.state = "absent" /\ ~NoObject.fin
    BY DEF NoObject
  <2> HIDE DEF NoObject
  <2>4. ASSUME NEW t \in Target
        PROVE  \A i, j \in 1..Len(history[t]) : ~(i < j)
    BY <2>2
  <2> QED
    BY <1>2, <2>2, <2>3, <2>4 DEF HistoryInv
<1>4. CopyInv /\ WorkInv /\ ContextInv
  BY DEF Init, CopyInv, WorkInv, ContextInv, DeletePC, UpdatePC
<1>5. UncountedInv /\ RecordInv /\ BoundHoldsFinalizer /\ StoresAgree /\ OneTargetPerServer
  BY DEF Init, UncountedInv, RecordInv, BoundHoldsFinalizer, StoresAgree,
         OneTargetPerServer
<1> QED
  BY <1>3, <1>4, <1>5, TypeInit DEF InductiveInv

\* ... and every step keeps it.
LEMMA InductiveNext == InductiveInv /\ [Next]_vars => InductiveInv'
<1> SUFFICES ASSUME InductiveInv, [Next]_vars PROVE InductiveInv'
  OBVIOUS
<1> QED
  BY TypeNext, HistoryNext, ContextNext, StoresNext, UncountedNext, RecordNext
     DEF InductiveInv

\* Every reachable state of the controller satisfies the inductive invariant,
\* whatever the objects, the data servers, the faults and the staleness.
THEOREM Invariance == Spec => []InductiveInv
BY InductiveInit, InductiveNext, PTL DEF Spec

\* Every variable keeps its type.
THEOREM TypeCorrect == Spec => []TypeOK
<1>1. InductiveInv => TypeOK
  BY DEF InductiveInv
<1> QED
  BY <1>1, Invariance, PTL

\* A target the process holds a context for holds the finalizer.
THEOREM BoundIsHeld == Spec => []BoundHoldsFinalizer
<1>1. InductiveInv => BoundHoldsFinalizer
  BY DEF InductiveInv
<1> QED
  BY <1>1, Invariance, PTL

\* targetStore and dataServerStore agree on who is assigned where.
THEOREM StoresConsistent == Spec => []StoresAgree
<1>1. InductiveInv => StoresAgree
  BY DEF InductiveInv
<1> QED
  BY <1>1, Invariance, PTL

\* No data server ever counts two targets.
THEOREM ServerCapacity == Spec => []OneTargetPerServer
<1>1. InductiveInv => OneTargetPerServer
  BY DEF InductiveInv
<1> QED
  BY <1>1, Invariance, PTL

\* Without a restart and without a create that reports an error after it took
\* effect, no datastore outlives the binding of its target.
THEOREM NothingLeaks == Spec => []NoLeak
<1>1. InductiveInv => NoLeak
  BY DEF InductiveInv, RecordInv, NoLeak
<1> QED
  BY <1>1, Invariance, PTL

-----------------------------------------------------------------------------
(* The refinement mapping, variable by variable *)

\* What is current decides the phases, ...
LEMMA PhasesSame ==
  ASSUME \A t \in Target : Current(t)' = Current(t)
  PROVE  Phases' = Phases
BY DEF Phases, PhaseOf

\* ... so they stay with the history.
LEMMA CurrentFrame ==
  ASSUME UNCHANGED history
  PROVE  Phases' = Phases
BY DEF Phases, PhaseOf, Current

\* The bindings stay with the target store, ...
LEMMA ContextsFrame ==
  ASSUME UNCHANGED targetStore
  PROVE  Contexts' = Contexts
BY DEF Contexts, ContextOf

\* ... and the datastores that are present with the datastores.
LEMMA PresentFrame ==
  ASSUME UNCHANGED datastores
  PROVE  Present' = Present
BY DEF Present

\* The phase follows what is written.
LEMMA PhaseWritten ==
  ASSUME TypeOK, NEW t \in Target,
         NEW state \in {"absent", "live", "deleting"}, NEW fin \in BOOLEAN,
         NEW spec \in TargetSpec \cup {NoSpec},
         Write(t, state, fin, spec)
  PROVE  Phases' = [Phases EXCEPT ![t] =
                      IF ~fin THEN "free"
                      ELSE IF state = "deleting" THEN "leaving" ELSE "held"]
<1>1. Current(t)' = [rv |-> Current(t).rv + 1, state |-> state,
                     fin |-> fin, spec |-> spec]
  BY WriteCurrent
<1>2. \A u \in Target \ {t} : Current(u)' = Current(u)
  BY WriteIsLocal DEF Current
<1>3. Current(t)'.fin = fin /\ Current(t)'.state = state
  BY <1>1
<1> QED
  BY <1>2, <1>3 DEF Phases, PhaseOf

\* The context of one target changes.
LEMMA ContextWritten ==
  ASSUME TypeOK, NEW t \in Target, NEW x \in Context,
         targetStore' = [targetStore EXCEPT ![t] = x]
  PROVE  Contexts' = [Contexts EXCEPT ![t] =
                        [client |-> x.client, datastore |-> x.datastore # NoReq]]
<1>1. targetStore'[t] = x /\ x # NoCtx
  BY NullsAssumption DEF TypeOK
<1>2. \A u \in Target \ {t} : targetStore'[u] = targetStore[u]
  BY DEF TypeOK
<1> QED
  BY <1>1, <1>2 DEF Contexts, ContextOf

\* Forgetting a context frees its target.
LEMMA ContextForgotten ==
  ASSUME TypeOK, NEW t \in Target, targetStore' = [targetStore EXCEPT ![t] = NoCtx]
  PROVE  Contexts' = [Contexts EXCEPT ![t] = NoCtx]
<1>1. targetStore'[t] = NoCtx /\ \A u \in Target \ {t} : targetStore'[u] = targetStore[u]
  BY DEF TypeOK
<1> QED
  BY <1>1 DEF Contexts, ContextOf

\* A target with a context is bound to its data server, ...
LEMMA ContextBound ==
  ASSUME TypeOK, NEW t \in Target, targetStore[t] # NoCtx
  PROVE  /\ targetStore[t].client \in DataServer
         /\ Lifecycle!Bound(t, targetStore[t].client)
         /\ targetStore[t].datastore = NoReq => Contexts[t].datastore = FALSE
<1>1. targetStore[t] \in Context /\ targetStore[t].client \in DataServer
  BY DEF TypeOK, Context
<1>2. Contexts[t] = [client |-> targetStore[t].client,
                     datastore |-> targetStore[t].datastore # NoReq]
  BY DEF Contexts, ContextOf
<1>3. Contexts[t] # NoCtx
  <2>1. ASSUME NEW b \in BOOLEAN
        PROVE  [client |-> targetStore[t].client, datastore |-> b]
                 \in [client : DataServer, datastore : BOOLEAN]
    BY <1>1
  <2>2. (targetStore[t].datastore # NoReq) \in BOOLEAN
    OBVIOUS
  <2>3. Contexts[t] \in [client : DataServer, datastore : BOOLEAN]
    BY <1>2, <2>1, <2>2, Zenon
  <2> QED
    BY <2>3, NullsAssumption
<1>4. Contexts[t].client = targetStore[t].client
  BY <1>2
<1>5. targetStore[t].datastore = NoReq => Contexts[t].datastore = FALSE
  <2> SUFFICES ASSUME targetStore[t].datastore = NoReq PROVE Contexts[t].datastore = FALSE
    OBVIOUS
  <2>1. Contexts[t] = [client |-> targetStore[t].client, datastore |-> FALSE]
    BY <1>2, Zenon
  <2> QED
    BY <2>1
<1> QED
  BY <1>1, <1>3, <1>4, <1>5 DEF Lifecycle!Bound

\* ... and one without is not bound.
LEMMA ContextFree ==
  ASSUME NEW t \in Target, targetStore[t] = NoCtx
  PROVE  Contexts[t] = NoCtx
BY DEF Contexts, ContextOf

\* A datastore is present where there is a request of it.
LEMMA PresentAt ==
  ASSUME NEW t \in Target, NEW d \in DataServer
  PROVE  <<d, t>> \in Present <=> datastores[d][t] # NoReq
BY DEF Present

\* A datastore comes or goes.
LEMMA PresentWritten ==
  ASSUME TypeOK, NEW t \in Target, NEW d \in DataServer, NEW r,
         datastores' = [datastores EXCEPT ![d][t] = r]
  PROVE  /\ r # NoReq => Present' = Present \cup {<<d, t>>}
         /\ r = NoReq => Present' = Present \ {<<d, t>>}
<1>1. datastores'[d][t] = r
  BY DEF TypeOK
<1>2. ASSUME NEW e \in DataServer, NEW u \in Target, ~(e = d /\ u = t)
      PROVE  datastores'[e][u] = datastores[e][u]
  BY <1>2 DEF TypeOK
<1>3. ASSUME NEW p \in DataServer \X Target, p # <<d, t>>
      PROVE  p \in Present' <=> p \in Present
  <2>1. /\ p = <<p[1], p[2]>> /\ p[1] \in DataServer /\ p[2] \in Target
        /\ ~(p[1] = d /\ p[2] = t)
    BY <1>3
  <2> QED
    BY <1>2, <2>1 DEF Present
<1>4. <<d, t>> \in Present' <=> r # NoReq
  BY <1>1 DEF Present
<1>5. Present \subseteq DataServer \X Target /\ Present' \subseteq DataServer \X Target
  BY DEF Present
<1> QED
  BY <1>3, <1>4, <1>5

-----------------------------------------------------------------------------
(* The steps *)

Stutter == UNCHANGED <<Phases, Contexts, Present>>

\* A restart is a restart.
LEMMA RestartRefines ==
  ASSUME Restart
  PROVE  Lifecycle!Restart
<1>1. UNCHANGED <<history, datastores>> /\ targetStore' = [t \in Target |-> NoCtx]
  BY DEF Restart, api
<1>2. Contexts' = [t \in Target |-> NoCtx]
  BY <1>1 DEF Contexts, ContextOf
<1> QED
  BY <1>1, <1>2, CurrentFrame, PresentFrame DEF Lifecycle!Restart

\* A mark makes a target leave; the other changes and the deliveries stutter.
LEMMA UsersRefine ==
  ASSUME TypeOK, HistoryInv, NEW t \in Target,
         CreateTarget(t) \/ EditTarget(t) \/ DeleteTarget(t) \/ Informer(t)
  PROVE  Lifecycle!Leave(t) \/ Stutter
<1>1. Contexts' = Contexts /\ Present' = Present
  BY ContextsFrame, PresentFrame
     DEF CreateTarget, EditTarget, DeleteTarget, Informer, Untouched, memory
<1>2. /\ Current(t).state \in {"absent", "live", "deleting"}
      /\ Current(t).fin \in BOOLEAN
      /\ Current(t).spec \in TargetSpec \cup {NoSpec}
  BY CurrentType, ObjectFields
<1>3. Phases[t] = PhaseOf(t) /\ Phases = [Phases EXCEPT ![t] = PhaseOf(t)]
  BY DEF Phases
<1>4. Current(t).state = "absent" => ~Current(t).fin
  BY CurrentShape
<1>5. CASE CreateTarget(t)
  <2>1. PICK s \in TargetSpec : Write(t, "live", FALSE, s)
    BY <1>5 DEF CreateTarget
  <2>2. Phases' = [Phases EXCEPT ![t] = "free"]
    BY <2>1, PhaseWritten
  <2>3. PhaseOf(t) = "free"
    BY <1>4, <1>5 DEF CreateTarget, PhaseOf
  <2> QED
    BY <1>1, <1>3, <2>2, <2>3 DEF Stutter
<1>6. CASE EditTarget(t)
  <2>1. PICK s \in TargetSpec : Write(t, Current(t).state, Current(t).fin, s)
    BY <1>6 DEF EditTarget
  <2>2. Phases' = [Phases EXCEPT ![t] = PhaseOf(t)]
    BY <1>2, <2>1, PhaseWritten DEF PhaseOf
  <2> QED
    BY <1>1, <1>3, <2>2 DEF Stutter
<1>7. CASE DeleteTarget(t)
  <2>1. CASE Current(t).fin
    <3>1. Write(t, "deleting", TRUE, Current(t).spec)
      BY <1>7, <2>1 DEF DeleteTarget
    <3>2. Phases' = [Phases EXCEPT ![t] = "leaving"]
      BY <1>2, <3>1, PhaseWritten
    <3>3. Phases[t] = "held"
      BY <1>3, <1>7, <2>1 DEF PhaseOf, DeleteTarget
    <3> QED
      BY <1>1, <3>2, <3>3 DEF Lifecycle!Leave
  <2>2. CASE ~Current(t).fin
    <3>1. Write(t, "absent", FALSE, NoSpec)
      BY <1>7, <2>2 DEF DeleteTarget
    <3>2. Phases' = [Phases EXCEPT ![t] = "free"]
      BY <3>1, PhaseWritten
    <3>3. PhaseOf(t) = "free"
      BY <2>2 DEF PhaseOf
    <3> QED
      BY <1>1, <1>3, <3>2, <3>3 DEF Stutter
  <2> QED
    BY <2>1, <2>2
<1>8. CASE Informer(t)
  BY <1>1, <1>8, InformerFacts, PhasesSame DEF Stutter
<1> QED
  BY <1>5, <1>6, <1>7, <1>8

\* Adding the finalizer holds a target.
LEMMA AddFinalizerRefines ==
  ASSUME TypeOK, HistoryInv, CopyInv, AddFinalizer
  PROVE  Lifecycle!Hold(cur) \/ Stutter
<1>1. Contexts' = Contexts /\ Present' = Present
  BY ContextsFrame, PresentFrame DEF AddFinalizer, memory
<1>2. CASE UNCHANGED history
  BY <1>1, <1>2, CurrentFrame DEF Stutter
<1>3. CASE ~cr.fin /\ UpToDate /\ Write(cur, cr.state, TRUE, cr.spec)
  <2>1. cur \in Target /\ Current(cur) = cr /\ cr.state = "live"
    BY <1>3, AcceptedIsOnlyVersion DEF AddFinalizer, CopyInv
  <2>2. cr.spec \in TargetSpec \cup {NoSpec}
    BY ObjectFields DEF TypeOK
  <2>3. Phases' = [Phases EXCEPT ![cur] = "held"]
    <3>1. Write(cur, "live", TRUE, cr.spec)
      BY <1>3, <2>1
    <3> QED
      BY <2>1, <2>2, <3>1, PhaseWritten
  <2>4. Phases[cur] = "free"
    BY <1>3, <2>1 DEF Phases, PhaseOf
  <2> QED
    BY <1>1, <2>3, <2>4 DEF Lifecycle!Hold
<1> QED
  BY <1>2, <1>3 DEF AddFinalizer

\* Removing the finalizer frees it.
LEMMA RemoveFinalizerRefines ==
  ASSUME TypeOK, HistoryInv, CopyInv, ContextInv, RemoveFinalizer
  PROVE  Lifecycle!Free(cur) \/ Stutter
<1>1. Contexts' = Contexts /\ Present' = Present
  BY ContextsFrame, PresentFrame DEF RemoveFinalizer, memory
<1>2. CASE UNCHANGED history
  BY <1>1, <1>2, CurrentFrame DEF Stutter
<1>3. CASE UpToDate /\ Write(cur, "absent", FALSE, NoSpec)
  <2>1. /\ cur \in Target /\ Current(cur) = cr /\ cr.state = "deleting"
        /\ targetStore[cur] = NoCtx
    BY <1>3, AcceptedIsOnlyVersion DEF RemoveFinalizer, CopyInv, ContextInv, DeletePC
  <2>2. Current(cur).fin
    BY <2>1, CurrentShape
  <2>3. Phases' = [Phases EXCEPT ![cur] = "free"]
    BY <1>3, <2>1, PhaseWritten
  <2>4. Phases[cur] = "leaving"
    BY <2>1, <2>2 DEF Phases, PhaseOf
  <2>5. Contexts[cur] = NoCtx
    BY <2>1, ContextFree
  <2> QED
    BY <1>1, <2>3, <2>4, <2>5 DEF Lifecycle!Free
<1> QED
  BY <1>2, <1>3 DEF RemoveFinalizer

\* Assigning a data server binds it.
LEMMA AssignRefines ==
  ASSUME TypeOK, WorkInv, StoresAgree, AssignDataServer
  PROVE  (\E d \in DataServer : Lifecycle!Bind(cur, d)) \/ Stutter
<1>1. /\ cur \in Target /\ pc = "assign" /\ UNCHANGED <<history, datastores>>
      /\ \E d \in DataServer :
           \/ /\ targetStore[cur] = NoCtx
              /\ targetStore' = [targetStore EXCEPT
                                   ![cur] = [client |-> d, datastore |-> NoReq]]
           \/ targetStore' = targetStore
  BY AssignEffect
<1>2. Phases' = Phases /\ Present' = Present
  BY <1>1, CurrentFrame, PresentFrame
<1>3. CASE targetStore' = targetStore
  BY <1>2, <1>3, ContextsFrame DEF Stutter
<1>4. ASSUME NEW d \in DataServer, targetStore[cur] = NoCtx,
             targetStore' = [targetStore EXCEPT
                               ![cur] = [client |-> d, datastore |-> NoReq]]
      PROVE  Lifecycle!Bind(cur, d)
  <2> DEFINE x == [client |-> d, datastore |-> NoReq]
  <2>1. x \in Context /\ x.client = d /\ x.datastore = NoReq
    BY DEF Context
  <2>2. Contexts' = [Contexts EXCEPT ![cur] =
                       [client |-> x.client, datastore |-> x.datastore # NoReq]]
    BY <1>1, <1>4, <2>1, ContextWritten
  <2>3. Contexts' = [Contexts EXCEPT ![cur] = [client |-> d, datastore |-> FALSE]]
    BY <2>1, <2>2, Zenon
  <2>4. Phases[cur] # "free"
    BY <1>1 DEF WorkInv, UpdatePC, Phases, PhaseOf
  <2>5. Contexts[cur] = NoCtx
    BY <1>1, <1>4, ContextFree
  <2> QED
    BY <1>2, <2>3, <2>4, <2>5 DEF Lifecycle!Bind
<1> QED
  BY <1>1, <1>3, <1>4

\* Recording a datastore is recording it.
LEMMA RecordRefines ==
  ASSUME TypeOK, ContextInv, RecordDataStore
  PROVE  \E d \in DataServer : Lifecycle!RecordDataStore(cur, d)
<1>1. /\ cur \in Target /\ targetStore[cur] # NoCtx
      /\ tctx \in Context /\ tctx.client = targetStore[cur].client
      /\ tctx.datastore # NoReq /\ datastores[tctx.client][cur] # NoReq
      /\ targetStore' = [targetStore EXCEPT ![cur] = tctx]
      /\ UNCHANGED <<history, datastores>>
  BY RecordEffect
<1>2. /\ tctx.client \in DataServer /\ Lifecycle!Bound(cur, tctx.client)
      /\ Phases' = Phases /\ Present' = Present
  BY <1>1, ContextBound, CurrentFrame, PresentFrame
<1>3. <<tctx.client, cur>> \in Present
  BY <1>1, <1>2, PresentAt
<1>4. Contexts' = [Contexts EXCEPT ![cur] =
                     [client |-> tctx.client, datastore |-> tctx.datastore # NoReq]]
  BY <1>1, ContextWritten
<1>5. Contexts' = [Contexts EXCEPT ![cur] = [client |-> tctx.client, datastore |-> TRUE]]
  BY <1>1, <1>4, Zenon
<1> QED
  BY <1>2, <1>3, <1>5 DEF Lifecycle!RecordDataStore

\* Forgetting the context drops the binding.
LEMMA ForgetRefines ==
  ASSUME TypeOK, ContextInv, WorkInv, BoundHoldsFinalizer, ForgetTarget
  PROVE  \E d \in DataServer : Lifecycle!Unbind(cur, d)
<1>1. /\ cur \in Target /\ targetStore[cur] # NoCtx /\ tctx = targetStore[cur]
      /\ tctx.datastore # NoReq => datastores[tctx.client][cur] = NoReq
      /\ Current(cur).fin /\ Current(cur).state = "deleting"
      /\ targetStore' = [targetStore EXCEPT ![cur] = NoCtx]
      /\ UNCHANGED <<history, datastores>>
  BY ForgetEffect
<1>2. /\ tctx.client \in DataServer /\ Lifecycle!Bound(cur, tctx.client)
      /\ tctx.datastore = NoReq => Contexts[cur].datastore = FALSE
      /\ Phases' = Phases /\ Present' = Present
  BY <1>1, ContextBound, CurrentFrame, PresentFrame
<1>3. Contexts[cur].datastore => <<tctx.client, cur>> \notin Present
  <2>1. CASE tctx.datastore = NoReq
    BY <1>2, <2>1
  <2>2. CASE tctx.datastore # NoReq
    BY <1>1, <1>2, <2>2, PresentAt
  <2> QED
    BY <2>1, <2>2
<1>4. Contexts' = [Contexts EXCEPT ![cur] = NoCtx]
  BY <1>1, ContextForgotten
<1>5. Phases[cur] = "leaving"
  BY <1>1 DEF Phases, PhaseOf
<1> QED
  BY <1>2, <1>3, <1>4, <1>5 DEF Lifecycle!Unbind

\* Both ways of deleting a datastore delete it.
LEMMA DeleteRefines ==
  ASSUME TypeOK, ContextInv, ReplaceDataStore \/ DropDataStore
  PROVE  (\E d \in DataServer : Lifecycle!DeleteDataStore(cur, d)) \/ Stutter
<1>1. /\ cur \in Target /\ targetStore[cur] # NoCtx
      /\ tctx.client = targetStore[cur].client /\ tctx.client \in DataServer
      /\ UNCHANGED <<history, targetStore>>
      /\ \/ UNCHANGED datastores
         \/ datastores' = [datastores EXCEPT ![tctx.client][cur] = NoReq]
  BY DeleteEffect
<1>2. Phases' = Phases /\ Contexts' = Contexts /\ Lifecycle!Bound(cur, tctx.client)
  BY <1>1, CurrentFrame, ContextsFrame, ContextBound
<1>3. CASE UNCHANGED datastores
  BY <1>2, <1>3, PresentFrame DEF Stutter
<1>4. CASE datastores' = [datastores EXCEPT ![tctx.client][cur] = NoReq]
  <2>1. Present' = Present \ {<<tctx.client, cur>>}
    BY <1>1, <1>4, PresentWritten
  <2> QED
    BY <1>1, <1>2, <2>1 DEF Lifecycle!DeleteDataStore
<1> QED
  BY <1>1, <1>3, <1>4

\* Creating a datastore creates it, with or without an answer.
LEMMA CreateRefines ==
  ASSUME TypeOK, ContextInv, CreateDataStore
  PROVE  (\E d \in DataServer : Lifecycle!CreateDataStore(cur, d)) \/ Stutter
<1>1. /\ cur \in Target /\ targetStore[cur] # NoCtx /\ req # NoReq
      /\ tctx.client = targetStore[cur].client /\ tctx.client \in DataServer
      /\ UNCHANGED <<history, targetStore>>
      /\ \/ UNCHANGED datastores
         \/ datastores' = [datastores EXCEPT ![tctx.client][cur] = req]
  BY CreateEffect
<1>2. Phases' = Phases /\ Contexts' = Contexts /\ Lifecycle!Bound(cur, tctx.client)
  BY <1>1, CurrentFrame, ContextsFrame, ContextBound
<1>3. CASE UNCHANGED datastores
  BY <1>2, <1>3, PresentFrame DEF Stutter
<1>4. CASE datastores' = [datastores EXCEPT ![tctx.client][cur] = req]
  <2>1. ASSUME NEW d \in DataServer, NEW r, r # NoReq,
               datastores' = [datastores EXCEPT ![d][cur] = r]
        PROVE  Present' = Present \cup {<<d, cur>>}
    BY <1>1, <2>1, PresentWritten
  <2>2. Present' = Present \cup {<<tctx.client, cur>>}
    BY <1>1, <1>4, <2>1
  <2> QED
    BY <1>1, <1>2, <2>2 DEF Lifecycle!CreateDataStore
<1> QED
  BY <1>1, <1>3, <1>4

\* The steps that only move the worker, and the profiles' events.
LEMMA SilentSteps ==
  ASSUME \/ UNCHANGED vars \/ ConnProfileEvent \/ SyncProfileEvent
         \/ \E t \in Target : Reconcile(t)
         \/ BuildRequest \/ GetDataStore \/ LookupDeleted
  PROVE  Stutter
<1>1. UNCHANGED <<history, targetStore, datastores>>
  BY DEF vars, api, memory, ConnProfileEvent, SyncProfileEvent, Reconcile,
         BuildRequest, GetDataStore, LookupDeleted
<1> QED
  BY <1>1, CurrentFrame, ContextsFrame, PresentFrame DEF Stutter

\* A worker that is not idle has a target.
LEMMA WorkerHasKey == ASSUME TypeOK, pc # "idle" PROVE cur \in Target
BY DEF TypeOK

\* Every step is a step of the contract or stutters.
LEMMA StepRefines ==
  ASSUME InductiveInv, [Next]_vars
  PROVE  [Lifecycle!Next]_(Lifecycle!lvars)
<1> USE DEF InductiveInv
<1>1. Stutter => UNCHANGED Lifecycle!lvars
  BY DEF Stutter, Lifecycle!lvars
<1>2. CASE Crash \/ SelectPanics \/ AddressPanics
  BY <1>2, RestartRefines DEF Crash, SelectPanics, AddressPanics, Lifecycle!Next
<1>3. ASSUME NEW t \in Target,
             CreateTarget(t) \/ EditTarget(t) \/ DeleteTarget(t) \/ Informer(t)
      PROVE  [Lifecycle!Next]_(Lifecycle!lvars)
  BY <1>1, <1>3, UsersRefine DEF Lifecycle!Next
<1>4. CASE AddFinalizer
  BY <1>1, <1>4, AddFinalizerRefines, WorkerHasKey DEF AddFinalizer, Lifecycle!Next
<1>5. CASE RemoveFinalizer
  BY <1>1, <1>5, RemoveFinalizerRefines, WorkerHasKey
     DEF RemoveFinalizer, Lifecycle!Next
<1>6. CASE AssignDataServer
  BY <1>1, <1>6, AssignRefines, WorkerHasKey DEF AssignDataServer, Lifecycle!Next
<1>7. CASE RecordDataStore
  BY <1>7, RecordRefines, WorkerHasKey DEF RecordDataStore, Lifecycle!Next
<1>8. CASE ForgetTarget
  BY <1>8, ForgetRefines, WorkerHasKey DEF ForgetTarget, Lifecycle!Next
<1>9. CASE ReplaceDataStore \/ DropDataStore
  BY <1>1, <1>9, DeleteRefines, WorkerHasKey
     DEF ReplaceDataStore, DropDataStore, Lifecycle!Next
<1>10. CASE CreateDataStore
  BY <1>1, <1>10, CreateRefines, WorkerHasKey DEF CreateDataStore, Lifecycle!Next
<1>11. CASE \/ UNCHANGED vars \/ ConnProfileEvent \/ SyncProfileEvent
            \/ \E t \in Target : Reconcile(t)
            \/ BuildRequest \/ GetDataStore \/ LookupDeleted
  BY <1>1, <1>11, SilentSteps
<1> QED
  BY <1>2, <1>3, <1>4, <1>5, <1>6, <1>7, <1>8, <1>9, <1>10, <1>11
     DEF Next, WorkerStep, Environment

-----------------------------------------------------------------------------
(* The theorem *)

\* The initial states are initial states of the contract.
LEMMA InitRefines == Init => Lifecycle!Init
<1> SUFFICES ASSUME Init PROVE Lifecycle!Init
  OBVIOUS
<1>1. \A t \in Target : Current(t).fin = FALSE
  BY DEF Init, Current, NoObject
<1>2. Phases = [t \in Target |-> "free"]
  BY <1>1 DEF Phases, PhaseOf
<1>3. Contexts = [t \in Target |-> NoCtx]
  BY DEF Init, Contexts, ContextOf
<1>4. Present = {}
  BY DEF Init, Present
<1> QED
  BY <1>2, <1>3, <1>4 DEF Lifecycle!Init

\* Whatever the interleaving of users, informers, worker, failed calls and
\* restarts, the controller behaves as the rest of the program expects it to:
\* Reconcile, with all it calls, implements the lifecycle of a target.
THEOREM Implementation == Spec => ImplementsLifecycle
<1>1. InductiveInv /\ [Next]_vars => [Lifecycle!Next]_(Lifecycle!lvars)
  BY StepRefines
<1> QED
  BY InitRefines, <1>1, Invariance, PTL DEF Spec, ImplementsLifecycle, Lifecycle!Spec
=============================================================================
