----------------------------- MODULE LockTable -----------------------------
(***************************************************************************)
(* What the lock manager promises its callers, without its mutex, its      *)
(* condition variable, its counters or its timeouts: a table saying which  *)
(* caller holds which target in which mode, in which a new entry is        *)
(* compatible with the entries of the other callers, and from which a      *)
(* caller's entries disappear all at once.                                 *)
(***************************************************************************)
CONSTANTS Xids,      \* callers: one call xid per engine call
          Targets    \* lock targets: tables, __catalog__, __wal__

VARIABLE granted     \* granted[x][t]: the mode in which x holds t, or "None"

Mode == {"Shared", "Exclusive"}

Compatible(m, n) == "None" \in {m, n} \/ (m = "Shared" /\ n = "Shared")

NothingGranted == [t \in Targets |-> "None"]

Init == granted = [x \in Xids |-> NothingGranted]

Grant(x, t, m) ==
    /\ granted[x][t] = "None"
    /\ \A y \in Xids \ {x} : Compatible(m, granted[y][t])
    /\ granted' = [granted EXCEPT ![x][t] = m]

ReleaseAll(x) == granted' = [granted EXCEPT ![x] = NothingGranted]

Next == \E x \in Xids :
            \/ \E t \in Targets, m \in Mode : Grant(x, t, m)
            \/ ReleaseAll(x)

Spec == Init /\ [][Next]_granted
=============================================================================
