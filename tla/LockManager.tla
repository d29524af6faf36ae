---------------------------- MODULE LockManager ----------------------------
(***************************************************************************)
(* storage/lock_manager.cpp: the table-level lock manager.                 *)
(*                                                                         *)
(* One mutex protects the per-target counters (key_states_) and the        *)
(* per-transaction books (txn_locks_); every step below is one critical    *)
(* section of that mutex, or the notify_all that follows one after the     *)
(* mutex has been given up.  A caller that cannot be granted its lock      *)
(* sleeps on the condition variable wait_cv_, in wait_for when a timeout   *)
(* is configured (the engine passes 30 s) and in wait when it is 0.        *)
(*                                                                         *)
(* Every engine call uses a call xid of its own (next_call_xid), so a      *)
(* caller is identified with its xid.  A missing key_states_ entry is the  *)
(* free entry, which the code erases; a missing txn_locks_ entry is one    *)
(* whose held and waiting maps are both empty, which the code erases too.  *)
(***************************************************************************)
EXTENDS Naturals, FiniteSets

CONSTANTS Xids,        \* callers
          Targets,     \* lock targets
          Timed,       \* is wait_timeout_ms_ > 0 ?
          MaxHandles   \* bound on the live handles of one caller

ASSUME LockAssumption ==
    /\ IsFiniteSet(Xids)
    /\ Timed \in BOOLEAN
    /\ MaxHandles \in Nat

VARIABLES key_states,  \* target -> KeyLockState
          held,        \* xid -> target -> mode or "None"   (txn_locks_.held)
          waiting,     \* xid -> target -> mode or "None"   (txn_locks_.waiting)
          pc,          \* where the caller is
          request,     \* the <<target, mode>> of the acquire it is blocked in
          expired,     \* has that acquire been waiting for wait_timeout_ms_ ?
          handles      \* number of valid Handle objects the caller owns

vars == <<key_states, held, waiting, pc, request, expired, handles>>

Mode == {"Shared", "Exclusive"}
ModeOrNone == Mode \cup {"None"}
NoRequest == <<>>
Nothing == [t \in Targets |-> "None"]

\* "idle": outside the manager.  "asleep": in wait_cv_.wait / wait_for.
\* "awake": woken, must re-acquire the mutex and look again.
\* "notifying": release_all has unlocked the mutex, notify_all is to come.
Place == {"idle", "asleep", "awake", "notifying"}

KeyLockState == [shared_count : Nat, has_excl : BOOLEAN,
                 exclusive_xid : SUBSET Xids]

FreeKey == [shared_count |-> 0, has_excl |-> FALSE, exclusive_xid |-> {}]

IsFree(ks) == ks.shared_count = 0 /\ ~ks.has_excl

Blocked(x) == pc[x] \in {"asleep", "awake"}

TypeOK ==
    /\ key_states \in [Targets -> KeyLockState]
    /\ held \in [Xids -> [Targets -> ModeOrNone]]
    /\ waiting \in [Xids -> [Targets -> ModeOrNone]]
    /\ pc \in [Xids -> Place]
    /\ request \in [Xids -> {NoRequest} \cup (Targets \X Mode)]
    /\ expired \in [Xids -> BOOLEAN]
    /\ handles \in [Xids -> 0..MaxHandles]

Init ==
    /\ key_states = [t \in Targets |-> FreeKey]
    /\ held = [x \in Xids |-> Nothing]
    /\ waiting = [x \in Xids |-> Nothing]
    /\ pc = [x \in Xids |-> "idle"]
    /\ request = [x \in Xids |-> NoRequest]
    /\ expired = [x \in Xids |-> FALSE]
    /\ handles = [x \in Xids |-> 0]

-----------------------------------------------------------------------------
(* acquire: the reentrancy check and one round of the waiting loop.        *)

\* Shared needs no exclusive owner, exclusive needs a free target.
CanGrant_SharedOnly(t, m) == ~key_states[t].has_excl
CanGrant(t, m) ==
    IF m = "Shared" THEN ~key_states[t].has_excl ELSE IsFree(key_states[t])

Granted(ks, x, m) ==
    IF m = "Shared"
    THEN [ks EXCEPT !.shared_count = @ + 1]
    ELSE [ks EXCEPT !.has_excl = TRUE, !.exclusive_xid = {x}]

\* The grant: counters, books and a valid handle for the caller.
Grant(x, t, m) ==
    /\ CanGrant(t, m)
    /\ key_states' = [key_states EXCEPT ![t] = Granted(@, x, m)]
    /\ held' = [held EXCEPT ![x][t] = m]
    /\ waiting' = [waiting EXCEPT ![x][t] = "None"]
    /\ pc' = [pc EXCEPT ![x] = "idle"]
    /\ request' = [request EXCEPT ![x] = NoRequest]
    /\ expired' = [expired EXCEPT ![x] = FALSE]
    /\ handles' = [handles EXCEPT ![x] = @ + 1]

\* Not grantable and not timed out: note the wait and sleep.
Sleep_RestartClock(x, t, m) ==
    /\ ~CanGrant(t, m)
    /\ waiting' = [waiting EXCEPT ![x][t] = m]
    /\ pc' = [pc EXCEPT ![x] = "asleep"]
    /\ request' = [request EXCEPT ![x] = <<t, m>>]
    /\ expired' = [expired EXCEPT ![x] = FALSE]
    /\ UNCHANGED <<key_states, held, handles>>
Sleep(x, t, m) ==
    /\ ~CanGrant(t, m)
    /\ ~expired[x]
    /\ waiting' = [waiting EXCEPT ![x][t] = m]
    /\ pc' = [pc EXCEPT ![x] = "asleep"]
    /\ request' = [request EXCEPT ![x] = <<t, m>>]
    /\ UNCHANGED <<key_states, held, expired, handles>>

\* Not grantable and timed out: forget the wait and throw.
GiveUp(x, t, m) ==
    /\ ~CanGrant(t, m)
    /\ expired[x]
    /\ waiting' = [waiting EXCEPT ![x][t] = "None"]
    /\ pc' = [pc EXCEPT ![x] = "idle"]
    /\ request' = [request EXCEPT ![x] = NoRequest]
    /\ expired' = [expired EXCEPT ![x] = FALSE]
    /\ UNCHANGED <<key_states, held, handles>>

\* A target the caller already holds: a second handle and no new count.
Reenter_Upgrade(x, t, m) ==
    /\ held[x][t] = "Shared" /\ m = "Exclusive" /\ key_states[t].shared_count = 1
    /\ key_states' = [key_states EXCEPT ![t] =
                        [shared_count |-> 0, has_excl |-> TRUE, exclusive_xid |-> {x}]]
    /\ held' = [held EXCEPT ![x][t] = "Exclusive"]
    /\ handles' = [handles EXCEPT ![x] = @ + 1]
    /\ UNCHANGED <<waiting, pc, request, expired>>
Reenter(x, t, m) ==
    /\ held[x][t] # "None"
    /\ ~(held[x][t] = "Shared" /\ m = "Exclusive")
    /\ handles' = [handles EXCEPT ![x] = @ + 1]
    /\ UNCHANGED <<key_states, held, waiting, pc, request, expired>>

\* acquire, from outside.  (The refused upgrade shared -> exclusive throws
\* before anything is changed: it is a stuttering step.)
Acquire(x, t, m) ==
    /\ pc[x] = "idle"
    /\ handles[x] < MaxHandles
    /\ \/ Reenter(x, t, m)
       \/ held[x][t] = "None" /\ (Grant(x, t, m) \/ Sleep(x, t, m))

\* A woken caller holds the mutex again: another round of the loop.
Retry(x) ==
    /\ pc[x] = "awake"
    /\ \E t \in Targets, m \in Mode :
         /\ request[x] = <<t, m>>
         /\ Grant(x, t, m) \/ Sleep(x, t, m) \/ GiveUp(x, t, m)

\* wait and wait_for may return without a notification.
SpuriousWake(x) ==
    /\ pc[x] = "asleep"
    /\ pc' = [pc EXCEPT ![x] = "awake"]
    /\ UNCHANGED <<key_states, held, waiting, request, expired, handles>>

\* wait_timeout_ms_ have passed since acquire was called: wait_for returns,
\* or the caller finds out at the test that follows the grant check.
TimeOut(x) ==
    /\ Timed
    /\ Blocked(x)
    /\ ~expired[x]
    /\ expired' = [expired EXCEPT ![x] = TRUE]
    /\ pc' = [pc EXCEPT ![x] = "awake"]
    /\ UNCHANGED <<key_states, held, waiting, request, handles>>

-----------------------------------------------------------------------------
(* Handle::release, release_all and release_locked.                        *)

\* release_locked, of the counters of one target, for the mode it is held in.
Unlocked_LeakShared(ks, m) ==
    CASE m = "Shared" -> ks
      [] m = "Exclusive" -> [ks EXCEPT !.has_excl = FALSE, !.exclusive_xid = {}]
      [] OTHER -> ks
Unlocked_AnyMode(ks, m) ==
    IF m = "None" THEN ks ELSE [ks EXCEPT !.shared_count = @ - 1]
Unlocked(ks, m) ==
    CASE m = "Shared" -> [ks EXCEPT !.shared_count = @ - 1]
      [] m = "Exclusive" -> [ks EXCEPT !.has_excl = FALSE, !.exclusive_xid = {}]
      [] OTHER -> ks

\* The targets release_locked acts on: it returns early when there is no
\* counter entry for the target.
Releasable(x) == {t \in Targets : held[x][t] # "None" /\ ~IsFree(key_states[t])}

\* A handle goes out of scope: everything its xid holds is released, under
\* the mutex, whatever the target of the handle.  When the xid has no entry
\* in txn_locks_, release_all returns before notify_all.
Release(x) ==
    /\ pc[x] = "idle"
    /\ handles[x] > 0
    /\ handles' = [handles EXCEPT ![x] = @ - 1]
    /\ key_states' = [t \in Targets |->
                        IF t \in Releasable(x)
                        THEN Unlocked(key_states[t], held[x][t])
                        ELSE key_states[t]]
    /\ held' = [held EXCEPT ![x] =
                  [t \in Targets |-> IF t \in Releasable(x) THEN "None" ELSE @[t]]]
    /\ pc' = [pc EXCEPT ![x] =
                IF held[x] = Nothing /\ waiting[x] = Nothing
                THEN "idle" ELSE "notifying"]
    /\ UNCHANGED <<waiting, request, expired>>

\* wait_cv_.notify_all(), outside the mutex.
Notify_One(x) ==
    /\ pc[x] = "notifying"
    /\ \/ \E y \in Xids :
            /\ pc[y] = "asleep"
            /\ pc' = [pc EXCEPT ![x] = "idle", ![y] = "awake"]
       \/ /\ \A y \in Xids : pc[y] # "asleep"
          /\ pc' = [pc EXCEPT ![x] = "idle"]
    /\ UNCHANGED <<key_states, held, waiting, request, expired, handles>>
Notify(x) ==
    /\ pc[x] = "notifying"
    /\ pc' = [y \in Xids |-> CASE y = x -> "idle"
                               [] pc[y] = "asleep" -> "awake"
                               [] OTHER -> pc[y]]
    /\ UNCHANGED <<key_states, held, waiting, request, expired, handles>>

-----------------------------------------------------------------------------
Next ==
    \E x \in Xids :
        \/ \E t \in Targets, m \in Mode : Acquire(x, t, m)
        \/ Retry(x)
        \/ SpuriousWake(x)
        \/ TimeOut(x)
        \/ Release(x)
        \/ Notify(x)

Spec == Init /\ [][Next]_vars

\* The scheduler runs a woken or a notifying thread eventually and the clock
\* advances; callers need not release, and nothing wakes a sleeper for free.
Fairness ==
    \A x \in Xids : WF_vars(Retry(x)) /\ WF_vars(Notify(x)) /\ WF_vars(TimeOut(x))

FairSpec == Spec /\ Fairness

-----------------------------------------------------------------------------
(* What the manager is for.                                                *)

\* An exclusive holder of a target is its only holder: acquire's grant
\* condition and release_locked's counters never let a second one in.
MutualExclusion ==
    \A t \in Targets, x, y \in Xids :
        x # y /\ held[x][t] = "Exclusive" => held[y][t] = "None"

\* The counters acquire decides by (key_states_) and the books release_all
\* works from (txn_locks_.held) are two records of the same facts, updated
\* separately: they agree on every target.
HoldersOf(t, m) == {x \in Xids : held[x][t] = m}
CountsAgree ==
    \A t \in Targets :
        /\ key_states[t].shared_count = Cardinality(HoldersOf(t, "Shared"))
        /\ key_states[t].exclusive_xid = HoldersOf(t, "Exclusive")
        /\ key_states[t].has_excl <=> HoldersOf(t, "Exclusive") # {}

\* A sleeper whose lock has become free will be told: between release_all's
\* critical section and its notify_all somebody owes a notification, and
\* nobody else can free a target.
NoLostWakeup ==
    \A x \in Xids :
        /\ pc[x] = "asleep"
        /\ \E t \in Targets, m \in Mode : request[x] = <<t, m>> /\ CanGrant(t, m)
        => \E y \in Xids : pc[y] = "notifying"

\* With a timeout configured, no call of acquire blocks for ever, even if no
\* holder ever releases ("timeout -> throws, to avoid deadlock").
AcquireReturns == \A x \in Xids : Blocked(x) ~> ~Blocked(x)

\* The books implement the abstract lock table.
Table == INSTANCE LockTable WITH granted <- held
ImplementsLockTable == Table!Spec
=============================================================================
