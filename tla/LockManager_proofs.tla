------------------------- MODULE LockManager_proofs -------------------------
(***************************************************************************)
(* Proofs about LockManager, for any finite set of callers, any targets,   *)
(* with or without a timeout.                                              *)
(*                                                                         *)
(* The lock core is the pair key_states, held.  Every step of the manager  *)
(* leaves it alone, grants one lock (CoreGrant) or clears the books of one *)
(* caller (CoreRelease); the core invariant is proved for these two once,  *)
(* and the invariants about sleepers and notifications are built on it.    *)
(***************************************************************************)
EXTENDS LockManager, FiniteSetTheorems, TLAPS

CoreType ==
    /\ key_states \in [Targets -> KeyLockState]
    /\ held \in [Xids -> [Targets -> ModeOrNone]]

CoreInv == CoreType /\ CountsAgree /\ MutualExclusion

CoreGrant(x, t, m) ==
    /\ held[x][t] = "None"
    /\ CanGrant(t, m)
    /\ key_states' = [key_states EXCEPT ![t] = Granted(@, x, m)]
    /\ held' = [held EXCEPT ![x][t] = m]

CoreRelease(x) ==
    /\ key_states' = [t \in Targets |-> Unlocked(key_states[t], held[x][t])]
    /\ held' = [held EXCEPT ![x] = Nothing]

\* What a blocked caller is: it has room for the handle it is waiting for,
\* and does not yet hold the target it asks for.
BlockedInv ==
    \A x \in Xids :
        /\ Blocked(x) => /\ handles[x] < MaxHandles
                         /\ \E t \in Targets, m \in Mode :
                              request[x] = <<t, m>> /\ held[x][t] = "None"
        /\ ~Blocked(x) => request[x] = NoRequest

\* The inductive invariant of the manager.
IInv == TypeOK /\ CoreInv /\ BlockedInv

-----------------------------------------------------------------------------
\* The holders of a target are finitely many, and there are none exactly
\* when their number is 0.
LEMMA HoldersFinite ==
    ASSUME NEW t \in Targets, NEW m
    PROVE  /\ IsFiniteSet(HoldersOf(t, m))
           /\ Cardinality(HoldersOf(t, m)) \in Nat
           /\ Cardinality(HoldersOf(t, m)) = 0 <=> HoldersOf(t, m) = {}
<1>1. IsFiniteSet(HoldersOf(t, m))
  BY FS_Subset, LockAssumption DEF LockAssumption, HoldersOf
<1>2. QED
  BY <1>1, FS_CardinalityType, FS_EmptySet

\* Granting a lock that the counters allow keeps counters and books in
\* agreement and admits no second exclusive holder.
LEMMA GrantKeepsCore ==
    ASSUME CoreInv, NEW x \in Xids, NEW t \in Targets, NEW m \in Mode,
           CoreGrant(x, t, m)
    PROVE  CoreInv'
<1> USE DEF CoreInv, CoreGrant
<1>1. CoreType'
  <2>1. key_states[t] \in KeyLockState
    BY DEF CoreType
  <2>2. Granted(key_states[t], x, m) \in KeyLockState
    <3>1. CASE m = "Shared"
      BY <2>1, <3>1 DEF Granted, KeyLockState
    <3>2. CASE m # "Shared"
      <4>1. Granted(key_states[t], x, m)
              = [key_states[t] EXCEPT !.has_excl = TRUE, !.exclusive_xid = {x}]
        BY <3>2 DEF Granted
      <4>2. QED
        BY <2>1, <4>1 DEF KeyLockState
    <3>3. QED
      BY <3>1, <3>2
  <2>3. QED
    BY <2>2 DEF CoreType, ModeOrNone
<1>2. ASSUME NEW u \in Targets, NEW n \in Mode
      PROVE  HoldersOf(u, n)' = IF u = t /\ n = m THEN HoldersOf(u, n) \cup {x}
                                                  ELSE HoldersOf(u, n)
  BY DEF CoreType, HoldersOf, Mode, ModeOrNone
<1>3. x \notin HoldersOf(t, m)
  BY DEF HoldersOf, Mode
<1>4. ASSUME NEW u \in Targets
      PROVE  /\ key_states'[u].shared_count = Cardinality(HoldersOf(u, "Shared")')
             /\ key_states'[u].exclusive_xid = HoldersOf(u, "Exclusive")'
             /\ key_states'[u].has_excl <=> HoldersOf(u, "Exclusive")' # {}
  <2> HoldersOf(u, "Shared")' = (IF u = t /\ m = "Shared"
          THEN HoldersOf(u, "Shared") \cup {x} ELSE HoldersOf(u, "Shared"))
    BY <1>2 DEF Mode
  <2> HoldersOf(u, "Exclusive")' = (IF u = t /\ m = "Exclusive"
          THEN HoldersOf(u, "Exclusive") \cup {x} ELSE HoldersOf(u, "Exclusive"))
    BY <1>2 DEF Mode
  <2>1. CASE u # t
    BY <2>1 DEF CoreType, CountsAgree
  <2>2. CASE u = t /\ m = "Shared"
    <3>1. Cardinality(HoldersOf(t, "Shared") \cup {x})
            = Cardinality(HoldersOf(t, "Shared")) + 1
      BY <2>2, <1>3, HoldersFinite, FS_AddElement
    <3>2. QED
      BY <2>2, <3>1 DEF CoreType, CountsAgree, Granted, KeyLockState
  <2>3. CASE u = t /\ m = "Exclusive"
    <3>1. HoldersOf(t, "Exclusive") = {}
      BY <2>3 DEF CanGrant, IsFree, CountsAgree
    <3>2. QED
      BY <2>3, <3>1 DEF CoreType, CountsAgree, Granted, KeyLockState
  <2>4. QED
    BY <2>1, <2>2, <2>3 DEF Mode
<1>5. CountsAgree'
  BY <1>4 DEF CountsAgree
<1>6. MutualExclusion'
  <2>1. m = "Shared" => HoldersOf(t, "Exclusive") = {}
    BY DEF CanGrant, CountsAgree
  <2>2. m = "Exclusive" => HoldersOf(t, "Shared") = {} /\ HoldersOf(t, "Exclusive") = {}
    BY HoldersFinite DEF CanGrant, IsFree, CountsAgree
  <2>3. ASSUME NEW y \in Xids, m = "Shared"
        PROVE  held[y][t] # "Exclusive"
    BY <2>1, <2>3 DEF HoldersOf
  <2>4. ASSUME NEW y \in Xids, m = "Exclusive"
        PROVE  held[y][t] = "None"
    BY <2>2, <2>4 DEF HoldersOf, CoreType, ModeOrNone, Mode
  <2>5. ASSUME NEW u \in Targets, NEW y \in Xids, NEW z \in Xids,
               y # z, held'[y][u] = "Exclusive"
        PROVE  held'[z][u] = "None"
    <3>1. CASE u # t
      BY <2>5, <3>1 DEF CoreType, MutualExclusion
    <3>2. CASE u = t /\ y = x
      BY <2>5, <3>2, <2>4 DEF CoreType
    <3>3. CASE u = t /\ y # x
      BY <2>5, <3>3, <2>3, <2>4 DEF CoreType, Mode
    <3>4. QED
      BY <3>1, <3>2, <3>3
  <2>6. QED
    BY <2>5 DEF MutualExclusion
<1>7. QED
  BY <1>1, <1>5, <1>6

\* Releasing everything a caller holds keeps the core: a counter is
\* decremented only when it is positive.
LEMMA ReleaseKeepsCore ==
    ASSUME CoreInv, NEW x \in Xids, CoreRelease(x)
    PROVE  CoreInv'
<1> USE DEF CoreInv, CoreRelease
<1>1. ASSUME NEW t \in Targets, NEW n \in Mode
      PROVE  HoldersOf(t, n)' = HoldersOf(t, n) \ {x}
  BY DEF CoreType, HoldersOf, Nothing, Mode
<1>2. ASSUME NEW t \in Targets
      PROVE  /\ key_states'[t] \in KeyLockState
             /\ key_states'[t].shared_count = Cardinality(HoldersOf(t, "Shared")')
             /\ key_states'[t].exclusive_xid = HoldersOf(t, "Exclusive")'
             /\ key_states'[t].has_excl <=> HoldersOf(t, "Exclusive")' # {}
  <2> DEFINE S == HoldersOf(t, "Shared")
             E == HoldersOf(t, "Exclusive")
  <2>1. key_states'[t] = Unlocked(key_states[t], held[x][t])
    OBVIOUS
  <2>2. S' = S \ {x} /\ E' = E \ {x}
    BY <1>1 DEF Mode
  <2>3. Cardinality(S \ {x}) = IF x \in S THEN Cardinality(S) - 1 ELSE Cardinality(S)
    BY HoldersFinite, FS_RemoveElement
  <2>4. key_states[t] \in KeyLockState /\ held[x][t] \in ModeOrNone
    BY DEF CoreType
  <2>5. /\ key_states[t].shared_count = Cardinality(S)
        /\ key_states[t].exclusive_xid = E
        /\ key_states[t].has_excl <=> E # {}
    BY DEF CountsAgree
  <2>6. CASE held[x][t] = "None"
    <3>1. x \notin S /\ x \notin E
      BY <2>6 DEF HoldersOf
    <3>2. QED
      BY <2>1, <2>2, <2>4, <2>5, <2>6, <3>1 DEF Unlocked
  <2>7. CASE held[x][t] = "Shared"
    <3>1. x \in S /\ x \notin E
      BY <2>7 DEF HoldersOf
    <3>2. Cardinality(S) \in Nat \ {0}
      BY <3>1, HoldersFinite
    <3>3. QED
      BY <2>1, <2>2, <2>3, <2>4, <2>5, <2>7, <3>1, <3>2 DEF Unlocked, KeyLockState
  <2>8. CASE held[x][t] = "Exclusive"
    <3>1. x \notin S /\ E = {x}
      BY <2>8 DEF HoldersOf, MutualExclusion
    <3>2. key_states'[t] = [key_states[t] EXCEPT !.has_excl = FALSE, !.exclusive_xid = {}]
      BY <2>1, <2>8 DEF Unlocked
    <3>3. /\ key_states'[t] \in KeyLockState
          /\ key_states'[t].shared_count = key_states[t].shared_count
          /\ key_states'[t].exclusive_xid = {}
          /\ key_states'[t].has_excl = FALSE
      BY <2>4, <3>2 DEF KeyLockState
    <3>4. S' = S /\ E' = {}
      BY <2>2, <3>1
    <3>5. QED
      BY <2>5, <3>3, <3>4
  <2>9. QED
    BY <2>4, <2>6, <2>7, <2>8 DEF ModeOrNone, Mode
<1>3. CoreType'
  BY <1>2 DEF CoreType, Nothing, ModeOrNone
<1>4. CountsAgree'
  BY <1>2 DEF CountsAgree
<1>5. MutualExclusion'
  BY DEF MutualExclusion, CoreType, Nothing
<1>6. QED
  BY <1>3, <1>4, <1>5

\* release_locked's early return for a missing counter entry never fires.
LEMMA AllReleasable ==
    ASSUME CoreInv, NEW x \in Xids
    PROVE  Releasable(x) = {t \in Targets : held[x][t] # "None"}
<1>1. SUFFICES ASSUME NEW t \in Targets, held[x][t] # "None"
               PROVE  ~IsFree(key_states[t])
  BY DEF Releasable
<1>2. held[x][t] \in Mode
  BY <1>1 DEF CoreInv, CoreType, ModeOrNone
<1>3. CASE held[x][t] = "Shared"
  <2>1. HoldersOf(t, "Shared") # {}
    BY <1>3 DEF HoldersOf
  <2>2. QED
    BY <2>1, HoldersFinite DEF CoreInv, CountsAgree, IsFree
<1>4. CASE held[x][t] = "Exclusive"
  <2>1. HoldersOf(t, "Exclusive") # {}
    BY <1>4 DEF HoldersOf
  <2>2. QED
    BY <2>1 DEF CoreInv, CountsAgree, IsFree
<1>5. QED
  BY <1>2, <1>3, <1>4 DEF Mode

-----------------------------------------------------------------------------
\* Every step leaves the lock core alone, grants one lock that was free for
\* the caller, or clears the books of one caller.
LEMMA CoreSteps ==
    ASSUME IInv, [Next]_vars
    PROVE  \/ UNCHANGED <<key_states, held>>
           \/ \E x \in Xids, t \in Targets, m \in Mode : CoreGrant(x, t, m)
           \/ \E x \in Xids : CoreRelease(x)
<1>1. CASE UNCHANGED vars
  BY <1>1 DEF vars
<1>2. ASSUME NEW x \in Xids, NEW t \in Targets, NEW m \in Mode, Acquire(x, t, m)
      PROVE  UNCHANGED <<key_states, held>> \/ CoreGrant(x, t, m)
  BY <1>2 DEF Acquire, Reenter, Grant, Sleep, CoreGrant
<1>3. ASSUME NEW x \in Xids, Retry(x)
      PROVE  \/ UNCHANGED <<key_states, held>>
             \/ \E t \in Targets, m \in Mode : CoreGrant(x, t, m)
  <2>1. PICK t \in Targets, m \in Mode :
               /\ request[x] = <<t, m>>
               /\ Grant(x, t, m) \/ Sleep(x, t, m) \/ GiveUp(x, t, m)
    BY <1>3 DEF Retry
  <2>2. held[x][t] = "None"
    BY <1>3, <2>1 DEF IInv, BlockedInv, Retry, Blocked
  <2>3. QED
    BY <2>1, <2>2 DEF Grant, Sleep, GiveUp, CoreGrant
<1>4. ASSUME NEW x \in Xids, SpuriousWake(x) \/ TimeOut(x) \/ Notify(x)
      PROVE  UNCHANGED <<key_states, held>>
  BY <1>4 DEF SpuriousWake, TimeOut, Notify
<1>5. ASSUME NEW x \in Xids, Release(x)
      PROVE  CoreRelease(x)
  <2>1. Releasable(x) = {t \in Targets : held[x][t] # "None"}
    BY AllReleasable DEF IInv
  <2>2. held \in [Xids -> [Targets -> ModeOrNone]]
    BY DEF IInv, TypeOK
  <2>3. held' = [held EXCEPT ![x] = Nothing]
    <3>1. [t \in Targets |-> IF t \in Releasable(x) THEN "None" ELSE held[x][t]] = Nothing
      BY <2>1 DEF Nothing
    <3>2. QED
      BY <1>5, <3>1 DEF Release
  <2>4. ASSUME NEW t \in Targets
        PROVE  (IF t \in Releasable(x) THEN Unlocked(key_states[t], held[x][t])
                                       ELSE key_states[t])
                 = Unlocked(key_states[t], held[x][t])
    BY <2>1 DEF Unlocked
  <2>5. key_states' = [t \in Targets |-> Unlocked(key_states[t], held[x][t])]
    BY <1>5, <2>4 DEF Release
  <2>6. QED
    BY <2>3, <2>5 DEF CoreRelease
<1>6. QED
  BY <1>1, <1>2, <1>3, <1>4, <1>5 DEF Next

\* The lock core stays consistent over every step.
LEMMA NextKeepsCore ==
    ASSUME IInv, [Next]_vars
    PROVE  CoreInv'
<1>1. CASE UNCHANGED <<key_states, held>>
  BY <1>1 DEF IInv, CoreInv, CoreType, CountsAgree, MutualExclusion, HoldersOf
<1>2. QED
  BY <1>1, CoreSteps, GrantKeepsCore, ReleaseKeepsCore DEF IInv

\* The types of the callers' own state, and what a blocked caller is.
LEMMA NextKeepsCallers ==
    ASSUME IInv, [Next]_vars
    PROVE  TypeOK' /\ BlockedInv'
<1> USE DEF IInv
<1>0. CoreType'
  BY NextKeepsCore DEF CoreInv
<1>1. CASE UNCHANGED vars
  BY <1>1 DEF vars, TypeOK, BlockedInv, Blocked
<1>2. ASSUME NEW x \in Xids, NEW t \in Targets, NEW m \in Mode,
             held[x][t] = "None", handles[x] < MaxHandles,
             Grant(x, t, m)
      PROVE  TypeOK' /\ BlockedInv'
  <2>1. TypeOK'
    BY <1>0, <1>2, LockAssumption
    DEF CoreType, TypeOK, Grant, LockAssumption, ModeOrNone, Place
  <2>2. BlockedInv'
    BY <1>2 DEF TypeOK, BlockedInv, Blocked, Grant
  <2>3. QED
    BY <2>1, <2>2
<1>3. ASSUME NEW x \in Xids, NEW t \in Targets, NEW m \in Mode,
             held[x][t] = "None", handles[x] < MaxHandles,
             Sleep(x, t, m)
      PROVE  TypeOK' /\ BlockedInv'
  <2>1. TypeOK'
    BY <1>0, <1>3 DEF CoreType, TypeOK, Sleep, ModeOrNone, Place
  <2>2. BlockedInv'
    BY <1>3 DEF TypeOK, BlockedInv, Blocked, Sleep
  <2>3. QED
    BY <2>1, <2>2
<1>4. ASSUME NEW x \in Xids, NEW t \in Targets, NEW m \in Mode, GiveUp(x, t, m)
      PROVE  TypeOK' /\ BlockedInv'
  BY <1>0, <1>4 DEF CoreType, TypeOK, GiveUp, ModeOrNone, Place, BlockedInv, Blocked
<1>5. ASSUME NEW x \in Xids, NEW t \in Targets, NEW m \in Mode, Acquire(x, t, m)
      PROVE  TypeOK' /\ BlockedInv'
  <2>1. CASE Reenter(x, t, m)
    BY <1>0, <1>5, <2>1, LockAssumption
    DEF Acquire, CoreType, TypeOK, Reenter, BlockedInv, Blocked, LockAssumption
  <2>2. QED
    BY <1>2, <1>3, <1>5, <2>1 DEF Acquire
<1>6. ASSUME NEW x \in Xids, Retry(x)
      PROVE  TypeOK' /\ BlockedInv'
  <2>1. PICK t \in Targets, m \in Mode :
               /\ request[x] = <<t, m>>
               /\ Grant(x, t, m) \/ Sleep(x, t, m) \/ GiveUp(x, t, m)
    BY <1>6 DEF Retry
  <2>2. held[x][t] = "None" /\ handles[x] < MaxHandles
    BY <1>6, <2>1 DEF BlockedInv, Retry, Blocked
  <2>3. QED
    BY <1>2, <1>3, <1>4, <2>1, <2>2
<1>7. ASSUME NEW x \in Xids, SpuriousWake(x) \/ TimeOut(x)
      PROVE  TypeOK' /\ BlockedInv'
  <2>1. /\ pc[x] \in {"asleep", "awake"}
        /\ pc' = [pc EXCEPT ![x] = "awake"]
        /\ expired' \in [Xids -> BOOLEAN]
        /\ UNCHANGED <<key_states, held, waiting, request, handles>>
    BY <1>7 DEF SpuriousWake, TimeOut, Blocked, TypeOK
  <2>2. TypeOK'
    BY <2>1 DEF TypeOK, Place
  <2>3. ASSUME NEW y \in Xids
        PROVE  Blocked(y)' <=> Blocked(y)
    BY <2>1 DEF Blocked, TypeOK
  <2>4. BlockedInv'
    BY <2>1, <2>3 DEF BlockedInv
  <2>5. QED
    BY <2>2, <2>4
<1>8. ASSUME NEW x \in Xids, Release(x)
      PROVE  TypeOK' /\ BlockedInv'
  <2>1. TypeOK'
    BY <1>0, <1>8, LockAssumption DEF CoreType, TypeOK, Release, LockAssumption, Place
  <2>2. ASSUME NEW y \in Xids, y # x
        PROVE  held'[y] = held[y] /\ handles'[y] = handles[y] /\ pc'[y] = pc[y]
    BY <1>8, <2>2 DEF TypeOK, Release
  <2>3. pc[x] = "idle" /\ pc'[x] \in {"idle", "notifying"} /\ request' = request
    BY <1>8 DEF TypeOK, Release
  <2>4. BlockedInv'
    BY <2>2, <2>3 DEF BlockedInv, Blocked
  <2>5. QED
    BY <2>1, <2>4
<1>9. ASSUME NEW x \in Xids, Notify(x)
      PROVE  TypeOK' /\ BlockedInv'
  <2>1. TypeOK'
    BY <1>0, <1>9 DEF CoreType, TypeOK, Notify, Place
  <2>2. ASSUME NEW y \in Xids
        PROVE  Blocked(y)' <=> Blocked(y)
    BY <1>9 DEF Notify, Blocked, TypeOK
  <2>3. UNCHANGED <<held, handles, request>>
    BY <1>9 DEF Notify
  <2>4. BlockedInv'
    BY <2>2, <2>3 DEF BlockedInv
  <2>5. QED
    BY <2>1, <2>4
<1>10. QED
  BY <1>1, <1>5, <1>6, <1>7, <1>8, <1>9 DEF Next

-----------------------------------------------------------------------------
\* The inductive invariant holds in every reachable state.
THEOREM Inductive == Spec => []IInv
<1>1. Init => IInv
  <2> SUFFICES ASSUME Init PROVE IInv
    OBVIOUS
  <2> USE DEF Init
  <2>1. TypeOK
    BY LockAssumption DEF TypeOK, LockAssumption, KeyLockState, FreeKey, Nothing,
                          ModeOrNone, Place
  <2>2. CoreType
    BY <2>1 DEF TypeOK, CoreType
  <2>3. ASSUME NEW t \in Targets, NEW m \in Mode
        PROVE  HoldersOf(t, m) = {}
    BY DEF HoldersOf, Nothing, Mode
  <2>4. CountsAgree
    BY <2>3, FS_EmptySet DEF CountsAgree, FreeKey, Mode
  <2>5. MutualExclusion /\ BlockedInv
    BY DEF MutualExclusion, Nothing, BlockedInv, Blocked
  <2>6. QED
    BY <2>1, <2>2, <2>4, <2>5 DEF IInv, CoreInv
<1>2. IInv /\ [Next]_vars => IInv'
  BY NextKeepsCore, NextKeepsCallers DEF IInv
<1>3. QED
  BY <1>1, <1>2, PTL DEF Spec

\* Type correctness; in particular no counter of shared holders is ever
\* decremented below 0.
THEOREM TypeCorrect == Spec => []TypeOK
<1>1. IInv => TypeOK
  BY DEF IInv
<1>2. QED
  BY Inductive, <1>1, PTL

\* An exclusive lock has one holder and no sharers (acquire/release_locked).
THEOREM ExclusionCorrect == Spec => []MutualExclusion
<1>1. IInv => MutualExclusion
  BY DEF IInv, CoreInv
<1>2. QED
  BY Inductive, <1>1, PTL

\* key_states_ and txn_locks_ agree for ever.
THEOREM BooksCorrect == Spec => []CountsAgree
<1>1. IInv => CountsAgree
  BY DEF IInv, CoreInv
<1>2. QED
  BY Inductive, <1>1, PTL

-----------------------------------------------------------------------------
\* Only a release makes a lock grantable that was not.
LEMMA GrantsNarrow ==
    ASSUME IInv, NEW x \in Xids, NEW u \in Targets, NEW n \in Mode,
           CoreGrant(x, u, n),
           NEW t \in Targets, NEW m \in Mode, CanGrant(t, m)'
    PROVE  CanGrant(t, m)
<1>1. key_states[t] \in KeyLockState /\ key_states[u] \in KeyLockState
  BY DEF IInv, TypeOK
<1>2. key_states'[t] = IF t = u THEN Granted(key_states[t], x, n) ELSE key_states[t]
  BY DEF CoreGrant, IInv, TypeOK
<1>3. CASE t # u
  BY <1>2, <1>3 DEF CanGrant, IsFree
<1>4. CASE t = u /\ n = "Shared"
  <2>1. key_states'[t] = [key_states[t] EXCEPT !.shared_count = @ + 1]
    BY <1>2, <1>4 DEF Granted
  <2>2. /\ key_states'[t].has_excl = key_states[t].has_excl
        /\ key_states'[t].shared_count # 0
    BY <1>1, <2>1 DEF KeyLockState
  <2>3. QED
    BY <2>2 DEF CanGrant, IsFree
<1>5. CASE t = u /\ n = "Exclusive"
  <2>1. key_states'[t] = [key_states[t] EXCEPT !.has_excl = TRUE, !.exclusive_xid = {x}]
    BY <1>2, <1>5 DEF Granted
  <2>2. key_states'[t].has_excl
    BY <1>1, <2>1 DEF KeyLockState
  <2>3. QED
    BY <2>2 DEF CanGrant, IsFree
<1>6. QED
  BY <1>3, <1>4, <1>5 DEF Mode

\* A sleeper whose lock is free is owed a notification: preserved by every
\* step.  The case that matters is Release, which makes locks grantable and
\* leaves its caller with the notify_all still to do.
LEMMA NextKeepsWakeups ==
    ASSUME IInv, NoLostWakeup, [Next]_vars
    PROVE  NoLostWakeup'
<1> SUFFICES ASSUME NEW x \in Xids, pc'[x] = "asleep",
                    NEW t \in Targets, NEW m \in Mode,
                    request'[x] = <<t, m>>, CanGrant(t, m)'
             PROVE  \E y \in Xids : pc'[y] = "notifying"
  BY DEF NoLostWakeup
<1> USE DEF IInv, TypeOK
\* It is enough that x slept for the same lock before, that the lock was
\* grantable before, and that those who owed a notification still do.
<1>1. ASSUME pc[x] = "asleep", request[x] = <<t, m>>, CanGrant(t, m),
             \A y \in Xids : pc[y] = "notifying" => pc'[y] = "notifying"
      PROVE  \E y \in Xids : pc'[y] = "notifying"
  BY <1>1 DEF NoLostWakeup
<1>2. CASE UNCHANGED vars
  <2>1. CanGrant(t, m)
    BY <1>2 DEF vars, CanGrant, IsFree
  <2>2. QED
    BY <1>1, <1>2, <2>1 DEF vars
<1>3. ASSUME NEW z \in Xids, NEW u \in Targets, NEW n \in Mode,
             pc[z] \in {"idle", "awake"}, held[z][u] = "None", Grant(z, u, n)
      PROVE  \E y \in Xids : pc'[y] = "notifying"
  <2>1. CanGrant(t, m)
    BY <1>3, GrantsNarrow DEF Grant, CoreGrant
  <2>2. pc[x] = "asleep" /\ request[x] = <<t, m>>
    BY <1>3 DEF Grant
  <2>3. \A y \in Xids : pc[y] = "notifying" => pc'[y] = "notifying"
    BY <1>3 DEF Grant
  <2>4. QED
    BY <1>1, <2>1, <2>2, <2>3
<1>4. ASSUME NEW z \in Xids, NEW u \in Targets, NEW n \in Mode,
             pc[z] \in {"idle", "awake"}, Sleep(z, u, n) \/ GiveUp(z, u, n)
      PROVE  \E y \in Xids : pc'[y] = "notifying"
  <2>1. key_states' = key_states /\ ~CanGrant(u, n)
    BY <1>4 DEF Sleep, GiveUp
  <2>2. CanGrant(t, m)
    BY <2>1 DEF CanGrant, IsFree
  <2>3. x # z
    <3>1. ASSUME x = z, Sleep(z, u, n)
          PROVE  FALSE
      <4>1. request'[z] = <<u, n>>
        BY <3>1 DEF Sleep
      <4>2. t = u /\ m = n
        BY <3>1, <4>1
      <4>3. QED
        BY <2>1, <2>2, <4>2
    <3>2. ASSUME x = z, GiveUp(z, u, n)
          PROVE  FALSE
      BY <3>2 DEF GiveUp
    <3>3. QED
      BY <1>4, <3>1, <3>2
  <2>4. pc[x] = "asleep" /\ request[x] = <<t, m>>
    BY <1>4, <2>3 DEF Sleep, GiveUp
  <2>5. \A y \in Xids : pc[y] = "notifying" => pc'[y] = "notifying"
    BY <1>4 DEF Sleep, GiveUp
  <2>6. QED
    BY <1>1, <2>2, <2>4, <2>5
<1>5. ASSUME NEW z \in Xids, NEW u \in Targets, NEW n \in Mode, Acquire(z, u, n)
      PROVE  \E y \in Xids : pc'[y] = "notifying"
  <2>1. CASE Reenter(z, u, n)
    <3>1. UNCHANGED <<key_states, pc, request>>
      BY <2>1 DEF Reenter
    <3>2. CanGrant(t, m)
      BY <3>1 DEF CanGrant, IsFree
    <3>3. QED
      BY <1>1, <3>1, <3>2
  <2>2. QED
    BY <1>3, <1>4, <1>5, <2>1 DEF Acquire
<1>6. ASSUME NEW z \in Xids, Retry(z)
      PROVE  \E y \in Xids : pc'[y] = "notifying"
  <2>1. PICK u \in Targets, n \in Mode :
               /\ request[z] = <<u, n>>
               /\ Grant(z, u, n) \/ Sleep(z, u, n) \/ GiveUp(z, u, n)
    BY <1>6 DEF Retry
  <2>2. held[z][u] = "None" /\ pc[z] = "awake"
    BY <1>6, <2>1 DEF BlockedInv, Retry, Blocked
  <2>3. QED
    BY <1>3, <1>4, <2>1, <2>2
<1>7. ASSUME NEW z \in Xids, SpuriousWake(z) \/ TimeOut(z)
      PROVE  \E y \in Xids : pc'[y] = "notifying"
  <2>1. /\ pc[z] \in {"asleep", "awake"}
        /\ pc' = [pc EXCEPT ![z] = "awake"]
        /\ UNCHANGED <<key_states, request>>
    BY <1>7 DEF SpuriousWake, TimeOut, Blocked
  <2>2. CanGrant(t, m)
    BY <2>1 DEF CanGrant, IsFree
  <2>3. QED
    BY <1>1, <2>1, <2>2
<1>8. ASSUME NEW z \in Xids, Release(z)
      PROVE  \E y \in Xids : pc'[y] = "notifying"
  <2>1. CASE held[z] = Nothing /\ waiting[z] = Nothing
    <3>1. Releasable(z) = {}
      BY <2>1 DEF Releasable, Nothing
    <3>2. key_states' = key_states /\ pc' = pc /\ request' = request
      BY <1>8, <2>1, <3>1 DEF Release
    <3>3. CanGrant(t, m)
      BY <3>2 DEF CanGrant, IsFree
    <3>4. QED
      BY <1>1, <3>2, <3>3
  <2>2. CASE ~(held[z] = Nothing /\ waiting[z] = Nothing)
    BY <1>8, <2>2 DEF Release
  <2>3. QED
    BY <2>1, <2>2
<1>9. ASSUME NEW z \in Xids, Notify(z)
      PROVE  \E y \in Xids : pc'[y] = "notifying"
  BY <1>9 DEF Notify
<1>10. QED
  BY <1>2, <1>5, <1>6, <1>7, <1>8, <1>9 DEF Next

\* No wakeup is ever lost (release_all notifies after giving up the mutex).
THEOREM WakeupCorrect == Spec => []NoLostWakeup
<1>1. Init => NoLostWakeup
  BY DEF Init, NoLostWakeup
<1>2. IInv /\ NoLostWakeup /\ [Next]_vars => NoLostWakeup'
  BY NextKeepsWakeups
<1>3. QED
  BY <1>1, <1>2, Inductive, PTL DEF Spec

-----------------------------------------------------------------------------
\* A grant of the manager is a grant of the abstract table.
LEMMA GrantRefines ==
    ASSUME IInv, NEW x \in Xids, NEW t \in Targets, NEW m \in Mode,
           CoreGrant(x, t, m)
    PROVE  Table!Grant(x, t, m)
<1>1. ASSUME NEW y \in Xids \ {x}
      PROVE  Table!Compatible(m, held[y][t])
  <2>1. held[y][t] \in ModeOrNone
    BY DEF IInv, TypeOK
  <2>2. CASE held[y][t] = "Exclusive"
    <3>1. key_states[t].has_excl
      BY <2>2 DEF IInv, CoreInv, CountsAgree, HoldersOf
    <3>2. QED
      BY <3>1 DEF CoreGrant, CanGrant, IsFree
  <2>3. CASE held[y][t] = "Shared"
    <3>1. HoldersOf(t, "Shared") # {}
      BY <2>3 DEF HoldersOf
    <3>2. key_states[t].shared_count # 0
      BY <3>1, HoldersFinite DEF IInv, CoreInv, CountsAgree
    <3>3. QED
      BY <2>3, <3>2 DEF CoreGrant, CanGrant, IsFree, Table!Compatible, Mode
  <2>4. QED
    BY <2>1, <2>2, <2>3 DEF ModeOrNone, Mode, Table!Compatible
<1>2. QED
  BY <1>1 DEF CoreGrant, Table!Grant

\* The manager with its mutex, condition variable, counters and timeouts
\* implements the abstract lock table.
THEOREM Refinement == Spec => ImplementsLockTable
<1>1. Init => Table!Init
  BY DEF Init, Table!Init, Nothing, Table!NothingGranted
<1>2. IInv /\ [Next]_vars => [Table!Next]_held
  <2> SUFFICES ASSUME IInv, [Next]_vars
               PROVE  [Table!Next]_held
    OBVIOUS
  <2>1. CASE UNCHANGED <<key_states, held>>
    BY <2>1
  <2>2. ASSUME NEW x \in Xids, NEW t \in Targets, NEW m \in Mode, CoreGrant(x, t, m)
        PROVE  Table!Next
    BY <2>2, GrantRefines DEF Table!Next, Table!Mode, Mode
  <2>3. ASSUME NEW x \in Xids, CoreRelease(x)
        PROVE  Table!Next
    BY <2>3 DEF CoreRelease, Table!Next, Table!ReleaseAll, Nothing, Table!NothingGranted
  <2>4. QED
    BY <2>1, <2>2, <2>3, CoreSteps
<1>3. Spec => Table!Spec
  BY <1>1, <1>2, Inductive, PTL DEF Spec, Table!Spec
<1>4. QED
  BY <1>3 DEF ImplementsLockTable
=============================================================================
