----------------------------- MODULE Conditions -----------------------------
(***************************************************************************)
(* The conditions of a status: condition.go of the two API groups, which   *)
(* differ in the conditions they can make and share the rest.              *)
(***************************************************************************)
EXTENDS Naturals, Sequences, FiniteSets, SequencesExt

Message == {"m"}   \* what the caller adds; "" stands for none

\* In the order of their names
ConditionTypes == <<"EPReady", "Ready", "Synced", "Wired">>

Condition(type, status, reason, message, now) ==
  [type |-> type, status |-> status, reason |-> reason, message |-> message, time |-> now]

-----------------------------------------------------------------------------
(* The conditions that can be made *)

\* Ready, Unknown, Action, NotReady, Failed
ReadyConditions(now) ==
  {Condition("Ready", TRUE, "Ready", "", now), Condition("Ready", FALSE, "Unknown", "", now)}
  \cup UNION {{Condition("Ready", FALSE, reason, m, now) : m \in Message} :
                reason \in {"Action", "NotReady", "Failed"}}

\* The group config has three of them: Ready, Unknown, Failed.
ConfigConditions(now) ==
  {c \in ReadyConditions(now) : c.reason \in {"Ready", "Unknown", "Failed"}}

\* ReconcileSuccess, ReconcileError
SyncedConditions(now) ==
  {Condition("Synced", TRUE, "ReconcileSuccess", "", now)}
  \cup {Condition("Synced", FALSE, "ReconcileFailure", m, now) : m \in Message}

\* Wired, WiringFailed, WiringUknown, Wiring
WiredConditions(now) ==
  {Condition("Wired", TRUE, "Success", "", now), Condition("Wired", FALSE, "Unknown", "", now)}
  \cup UNION {{Condition("Wired", FALSE, reason, m, now) : m \in Message} :
                reason \in {"Failure", "Wiring"}}

\* EPReady, EPUnknown, EPAction, EPNotReady, EPFailed
EPReadyConditions(now) == {[c EXCEPT !.type = "EPReady"] : c \in ReadyConditions(now)}

-----------------------------------------------------------------------------
(* A status *)

\* The time of the transition does not count.
Equal(c, d) ==
  /\ c.type = d.type /\ c.status = d.status
  /\ c.reason = d.reason /\ c.message = d.message

GetCondition(r, t) ==
  LET at == {i \in DOMAIN r : r[i].type = t} IN
  IF at = {} THEN Condition(t, FALSE, "", "", 0) ELSE r[Min(at)]

WithMessage(c, msg) == [c EXCEPT !.message = msg]

\* Mutant: what the list has is not looked at.
AppendCondition(r, new) == Append(r, new)

\* Mutant: an equal condition is replaced, too.
ReplaceCondition(r, new) ==
  IF \E i \in DOMAIN r : r[i].type = new.type
  THEN [i \in DOMAIN r |-> IF r[i].type = new.type THEN new ELSE r[i]]
  ELSE Append(r, new)

\* One turn of the loop of SetConditions
SetCondition(r, new) ==
  IF \E i \in DOMAIN r : r[i].type = new.type
  THEN [i \in DOMAIN r |->
          IF r[i].type = new.type /\ ~Equal(r[i], new) THEN new ELSE r[i]]
  ELSE Append(r, new)

SetConditions(r, cs) ==
  LET set[i \in 0..Len(cs)] == IF i = 0 THEN r ELSE SetCondition(set[i - 1], cs[i])
  IN set[Len(cs)]

\* Mutant: the conditions are not sorted.
EqualInOrder(r, other) ==
  /\ Len(other) = Len(r)
  /\ \A i \in DOMAIN r : Equal(r[i], other[i])

Rank(c) == CHOOSE i \in DOMAIN ConditionTypes : ConditionTypes[i] = c.type

\* sort.Slice by type, which may leave equal types in any order
Sorted(r) ==
  LET order == CHOOSE p \in Bijection(DOMAIN r, DOMAIN r) :
                 \A i, j \in DOMAIN r : i < j => Rank(r[p[i]]) <= Rank(r[p[j]])
  IN [i \in DOMAIN r |-> r[order[i]]]

StatusEqual(r, other) ==
  /\ Len(other) = Len(r)
  /\ \A i \in DOMAIN r : Equal(Sorted(r)[i], Sorted(other)[i])

-----------------------------------------------------------------------------
(* Two statuses that are set and compared *)

CONSTANT MaxSets       \* bound on the calls of SetConditions

VARIABLES
  status, other,
  given            \* the conditions of the last call, and which status it was for
cvars == <<status, other, given>>

ConditionsInit == status = <<>> /\ other = <<>> /\ given = [to |-> "status", cs |-> <<>>, n |-> 0]

\* What a call may be given at a time: one condition, or two in any order.
\* Callers add a message to any condition.
Given(now) ==
  LET made == ReadyConditions(now) \cup SyncedConditions(now) \cup WiredConditions(now)
              \cup EPReadyConditions(now)
      some == ConfigConditions(now) \cup SyncedConditions(now)
  IN {<<c>> : c \in made} \cup {<<WithMessage(c, "m")>> : c \in made}
     \cup (some \X some)

\* Each call is at a time of its own.
Set ==
  /\ given.n < MaxSets
  /\ \E cs \in Given(given.n + 1), to \in {"status", "other"} :
       /\ given' = [to |-> to, cs |-> cs, n |-> given.n + 1]
       /\ status' = IF to = "status" THEN SetConditions(status, cs) ELSE status
       /\ other' = IF to = "other" THEN SetConditions(other, cs) ELSE other

ConditionsSpec == ConditionsInit /\ [][Set]_cvars

\* "Only one condition of each type may exist" (ConditionedStatus), whatever the
\* calls of SetConditions are given.
OnePerType ==
  \A r \in {status, other} : \A i, j \in DOMAIN r : i # j => r[i].type # r[j].type

Timeless(r) == {[c EXCEPT !.time = 0] : c \in ToSet(r)}

\* Two statuses are equal when they have the same conditions, whatever their
\* order and their times (ConditionedStatus.Equal).
EqualIsSameSet == StatusEqual(status, other) <=> Timeless(status) = Timeless(other)

\* A call leaves the conditions of the types it does not give; of a type it gives
\* the last one given is there afterwards; and one it gives once and that the
\* status has keeps the time of its transition (SetConditions: "a no-op if all
\* supplied conditions are identical, ignoring the last transition time").
TransitionsKept ==
  [][given'.to = "status" =>
       \A t \in ToSet(ConditionTypes) :
         LET cs  == given'.cs
             at  == {i \in DOMAIN cs : cs[i].type = t}
             old == GetCondition(status, t)
             new == GetCondition(status', t)
         IN /\ at = {} => new = old
            /\ \A i \in at :
                 /\ (\A j \in at : j <= i) => Equal(new, cs[i])
                 /\ at = {i} /\ Equal(old, cs[i]) => new = old]_cvars
=============================================================================
