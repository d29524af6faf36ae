----------------------------- MODULE Visibility -----------------------------
(***************************************************************************)
(* check_tuple_visibility (storage/transaction.cpp): does a statement with *)
(* a given xid, command id and snapshot see a row version?                 *)
(***************************************************************************)
EXTENDS Integers

NoXid == 0        \* InvalidTransactionId: no inserter, or not deleted
FrozenRow == 2    \* FrozenTransactionId: inserted in the distant past

\* CLog::get_status: an xid without an entry reads IN_PROGRESS.
StatusIn(log, x) == IF x \in DOMAIN log THEN log[x] ELSE "IN_PROGRESS"

\* Deleted for the observer: by itself, or by a committed transaction.
DeletedFor(row, xid, log) ==
    /\ row.xmax # NoXid
    /\ row.xmax = xid \/ StatusIn(log, row.xmax) = "COMMITTED"

\* Rule 4: the inserter was active when the snapshot was taken.
ActiveIn(snap, x) == snap.xmin <= x /\ x < snap.xmax /\ x \in snap.xip

Own(row, xid) == xid # NoXid /\ row.xmin = xid

Visible(row, xid, snap, cid, log) ==
    \/ row.xmin = NoXid
    \/ row.xmin = FrozenRow /\ ~DeletedFor(row, xid, log)
    \/ /\ row.xmin \notin {NoXid, FrozenRow}
       /\ Own(row, xid)
       /\ row.cid <= cid
       /\ row.xmax # xid
    \/ /\ row.xmin \notin {NoXid, FrozenRow}
       /\ ~Own(row, xid)
       /\ StatusIn(log, row.xmin) = "COMMITTED"
       /\ ~ActiveIn(snap, row.xmin)
       /\ ~DeletedFor(row, xid, log)
=============================================================================
