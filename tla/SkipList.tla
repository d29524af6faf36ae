------------------------------ MODULE SkipList ------------------------------
(***************************************************************************)
(* The skip list under every MemTable (storage/skiplist.h): one writer at  *)
(* a time, under writer_mutex_, and any number of readers that take no     *)
(* lock.  Each release store of a next pointer and each acquire load of    *)
(* one by a reader is a step of its own.  A writer's search reads what     *)
(* only writers change, under the mutex, so it belongs to the step that    *)
(* starts the operation.  Nodes live in an arena and are never freed: a    *)
(* reader may stand on a node that erase_range has already bypassed.       *)
(* Keys are integers; InternalKey (storage/tuple.h) is a total order, and  *)
(* MemTable::erase_all_for and get_versions pass the range of one row.     *)
(***************************************************************************)
EXTENDS Integers, FiniteSets, Sequences

CONSTANTS
    Keys,       \* the keys callers use
    Ranges,     \* the pairs <<lo, hi>> they pass: a row's versions, or all keys
    Values,     \* the tuples they store
    Readers,    \* threads inside get_exact, range or all
    MaxLevel,   \* kMaxLevel - 1, the highest random_level
    MaxNodes    \* bound: nodes allocated from the arena

ASSUME KeysAssumption ==
    /\ Keys \subseteq Int
    /\ Ranges \subseteq {p \in Keys \X Keys : p[1] <= p[2]}
ASSUME BoundsAssumption == MaxLevel \in Nat /\ MaxNodes \in Nat

VARIABLES
    node,       \* the arena: sequence of [key, value, top_level]
    next,       \* next[n][i], for header_ (0) and for every node
    level_,     \* level_: the highest level in use
    size_,      \* size_
    writer,     \* the operation holding writer_mutex_, with its locals
    reader      \* each reader's locals

vars == <<node, next, level_, size_, writer, reader>>

Header == 0
Null == -1
\* A next pointer that has been allocated and not yet stored to.
Unset == -2
\* A value that one thread is assigning while another copies it.
Torn == "torn"

Levels == 0..MaxLevel
Places == Header..MaxNodes
Pairs == Keys \X (Values \cup {Torn})

Idle == [op |-> "idle"]
Away == [pc |-> "away"]

TypeOK ==
    /\ node \in Seq([key : Keys, value : Values \cup {Torn}, top_level : Levels])
    /\ Len(node) <= MaxNodes
    /\ next \in [Places -> [Levels -> Places \cup {Null, Unset}]]
    /\ level_ \in Levels
    /\ size_ \in 0..MaxNodes
    /\ \/ writer = Idle
       \/ writer \in [op : {"overwrite"}, at : 1..Len(node), value : Values]
       \/ writer \in [op : {"install"}, new : 1..Len(node), i : Levels,
                      update : [Levels -> Places]]
       \/ writer \in [op : {"bypass"}, lo : Keys, hi : Keys, i : 0..MaxLevel + 1,
                      cur_level : Levels, erased : 0..MaxNodes,
                      update : [Levels -> Places]]
    /\ reader \in [Readers -> {Away} \cup
          [lo : Keys, hi : Keys, pc : {"load", "visit", "done"},
           cur : Places \cup {Null}, out : Seq(Pairs),
           ever : SUBSET Pairs, always : SUBSET Keys]]

Init ==
    /\ node = <<>>
    /\ next = [n \in Places |-> [i \in Levels |-> IF n = Header THEN Null ELSE Unset]]
    /\ level_ = 0
    /\ size_ = 0
    /\ writer = Idle
    /\ reader = [r \in Readers |-> Away]

-----------------------------------------------------------------------------
(* What the pointers say.                                                  *)

\* The pointers of level i.
Links(i) == [n \in Places |-> next[n][i]]

\* A walk along such pointers that goes on as long as the next node is allowed:
\* the nodes it stands on from its first node on, and the one where it stops.
Walked(link, allowed) ==
    LET walk[m \in Places] ==
            {m} \cup (IF link[m] \in allowed THEN walk[link[m]] ELSE {})
    IN  walk
Stop(link, allowed) ==
    LET walk[m \in Places] == IF link[m] \in allowed THEN walk[link[m]] ELSE m
    IN  walk

ChainNodes(i) == Walked(Links(i), Places)[Header] \ {Header}
Present == {node[n].key : n \in ChainNodes(0)}
Stored == {<<node[n].key, node[n].value>> : n \in ChainNodes(0)}

Below(key) == {n \in 1..Len(node) : node[n].key < key}
UpTo(hi) == {n \in 1..Len(node) : node[n].key <= hi}

\* update[]: the last node before key on every level in use, found from the
\* top level down; the levels above hold header_.
Update(key) ==
    LET upd[i \in Levels] ==
            IF i > level_ THEN Header ELSE
            Stop(Links(i), Below(key))[IF i = level_ THEN Header ELSE upd[i + 1]]
    IN  upd

\* The first node after n at level i whose key is above hi.
Beyond(n, i, hi) == next[Stop(Links(i), UpTo(hi))[n]][i]

\* The nodes after n up to hi, as erase_range counts them.
Erased(n, hi) == Walked(Links(0), UpTo(hi))[n] \ {n}

-----------------------------------------------------------------------------
(* The readers.  "ever" and "always" record the list's history during the  *)
(* scan: the pairs of its range stored at some moment, the keys present at *)
(* every one.                                                              *)

Within(pairs, lo, hi) == {p \in pairs : lo <= p[1] /\ p[1] <= hi}

Watch(stored) ==
    [r \in Readers |->
        IF reader[r].pc \in {"away", "done"} THEN reader[r]
        ELSE [reader[r] EXCEPT
                 !.ever = @ \cup Within(stored, reader[r].lo, reader[r].hi),
                 !.always = @ \cap {p[1] : p \in stored}]]

\* range(lo, hi) is called and loads header_->next[0].  all() is the range from
\* the least key to the greatest, get_exact(key) the range <<key, key>>.
Call(r, lo, hi) ==
    /\ reader[r] = Away
    /\ reader' = [reader EXCEPT ![r] =
          [lo |-> lo, hi |-> hi, pc |-> "visit", cur |-> next[Header][0],
           out |-> <<>>, ever |-> Within(Stored, lo, hi),
           always |-> {p[1] : p \in Within(Stored, lo, hi)}]]
    /\ UNCHANGED <<node, next, level_, size_, writer>>

Over(s) ==
    \/ s.cur = Null
    \/ node[s.cur].key > s.hi

\* The node at cur is compared, and its value copied when it is in range.
Visit(r) ==
    LET s == reader[r] IN
    /\ s.pc = "visit"
    /\ reader' = [reader EXCEPT ![r] =
          IF Over(s) THEN [s EXCEPT !.pc = "done"]
          ELSE IF node[s.cur].key < s.lo THEN [s EXCEPT !.pc = "load"]
          ELSE [s EXCEPT !.out = Append(@, <<node[s.cur].key, node[s.cur].value>>),
                         !.pc = "load"]]
    /\ UNCHANGED <<node, next, level_, size_, writer>>

\* cur = cur->next[0].load(acquire).
Load(r) ==
    /\ reader[r].pc = "load"
    /\ reader' = [reader EXCEPT ![r].cur = next[reader[r].cur][0], ![r].pc = "visit"]
    /\ UNCHANGED <<node, next, level_, size_, writer>>

Return(r) ==
    /\ reader[r].pc = "done"
    /\ reader' = [reader EXCEPT ![r] = Away]
    /\ UNCHANGED <<node, next, level_, size_, writer>>

-----------------------------------------------------------------------------
(* The writer.                                                             *)

\* put finds the key: the value is assigned in place, which takes a while.
PutFound(key, value) ==
    LET found == next[Update(key)[0]][0] IN
    /\ writer = Idle
    /\ found # Null /\ node[found].key = key
    /\ node' = [node EXCEPT ![found].value = Torn]
    /\ writer' = [op |-> "overwrite", at |-> found, value |-> value]
    /\ reader' = Watch({<<node'[n].key, node'[n].value>> : n \in ChainNodes(0)})
    /\ UNCHANGED <<next, level_, size_>>

Overwrite ==
    /\ writer.op = "overwrite"
    /\ node' = [node EXCEPT ![writer.at].value = writer.value]
    /\ writer' = Idle
    /\ reader' = Watch({<<node'[n].key, node'[n].value>> : n \in ChainNodes(0)})
    /\ UNCHANGED <<next, level_, size_>>

\* put forgets to raise level_.
PutNew_KeepLevel(key, value, new_level) ==
    LET update == Update(key)
        found == next[update[0]][0]
    IN
    /\ writer = Idle
    /\ Len(node) < MaxNodes
    /\ ~ (found # Null /\ node[found].key = key)
    /\ node' = Append(node, [key |-> key, value |-> value, top_level |-> new_level])
    /\ writer' = [op |-> "install", new |-> Len(node'), i |-> 0, update |-> update]
    /\ UNCHANGED <<next, level_, size_, reader>>

\* put allocates a node of height new_level for a key it does not find.
PutNew(key, value, new_level) ==
    LET update == Update(key)
        found == next[update[0]][0]
    IN
    /\ writer = Idle
    /\ Len(node) < MaxNodes
    /\ ~ (found # Null /\ node[found].key = key)
    /\ level_' = IF new_level > level_ THEN new_level ELSE level_
    /\ node' = Append(node, [key |-> key, value |-> value, top_level |-> new_level])
    /\ writer' = [op |-> "install", new |-> Len(node'), i |-> 0, update |-> update]
    /\ UNCHANGED <<next, size_, reader>>

\* The node is linked at level i, first its own pointer, then its predecessor's;
\* the last level also counts it and releases the mutex.
Install ==
    LET new == writer.new
        i == writer.i
        before == writer.update[i]
    IN
    /\ writer.op = "install"
    /\ next' = [next EXCEPT ![new][i] = next[before][i], ![before][i] = new]
    /\ reader' = IF i = 0 THEN Watch(Stored \cup {<<node[new].key, node[new].value>>})
                          ELSE reader
    /\ IF i < node[new].top_level
       THEN writer' = [writer EXCEPT !.i = i + 1] /\ UNCHANGED size_
       ELSE writer' = Idle /\ size_' = size_ + 1
    /\ UNCHANGED <<node, level_>>

\* erase_range finds the predecessors of lo and counts the nodes up to hi.
EraseRange(lo, hi) ==
    LET update == Update(lo) IN
    /\ writer = Idle
    /\ writer' = [op |-> "bypass", lo |-> lo, hi |-> hi, i |-> 0, cur_level |-> level_,
                  erased |-> Cardinality(Erased(update[0], hi)), update |-> update]
    /\ UNCHANGED <<node, next, level_, size_, reader>>

\* The erased nodes' own pointers are cleared.
Bypass_ClearErased ==
    LET i == writer.i
        before == writer.update[i]
        past == Beyond(before, i, writer.hi)
        gone == Erased(before, writer.hi)
    IN
    /\ writer.op = "bypass" /\ i <= writer.cur_level
    /\ next' = [n \in Places |->
          IF n = before THEN [next[n] EXCEPT ![i] = past]
          ELSE IF n \in gone THEN [next[n] EXCEPT ![i] = Null]
          ELSE next[n]]
    /\ writer' = [writer EXCEPT !.i = i + 1]
    /\ reader' = IF i = 0
                 THEN Watch({p \in Stored : ~ \E n \in gone : node[n].key = p[1]})
                 ELSE reader
    /\ UNCHANGED <<node, level_, size_>>

\* The erased nodes are unlinked one by one, with a store for each.
Bypass_OneByOne ==
    LET i == writer.i
        before == writer.update[i]
        first == next[before][i]
        more == first # Null /\ node[first].key <= writer.hi
    IN
    /\ writer.op = "bypass" /\ i <= writer.cur_level
    /\ next' = IF more THEN [next EXCEPT ![before][i] = next[first][i]] ELSE next
    /\ writer' = IF more THEN writer ELSE [writer EXCEPT !.i = i + 1]
    /\ reader' = IF i = 0 /\ more
                 THEN Watch({p \in Stored : node[first].key # p[1]})
                 ELSE reader
    /\ UNCHANGED <<node, level_, size_>>

\* One level's predecessor is linked past the erased nodes, whose own
\* pointers stay as they are.
Bypass ==
    LET i == writer.i
        before == writer.update[i]
        past == Beyond(before, i, writer.hi)
    IN
    /\ writer.op = "bypass" /\ i <= writer.cur_level
    /\ next' = [next EXCEPT ![before][i] = past]
    /\ writer' = [writer EXCEPT !.i = i + 1]
    /\ reader' = IF i = 0
                 THEN Watch({p \in Stored : ~ \E n \in Erased(before, writer.hi) :
                                                node[n].key = p[1]})
                 ELSE reader
    /\ UNCHANGED <<node, level_, size_>>

EraseDone ==
    /\ writer.op = "bypass" /\ writer.i > writer.cur_level
    /\ size_' = size_ - writer.erased
    /\ writer' = Idle
    /\ UNCHANGED <<node, next, level_, reader>>

-----------------------------------------------------------------------------
Write ==
    \/ \E key \in Keys, value \in Values : PutFound(key, value)
    \/ \E key \in Keys, value \in Values, new_level \in Levels :
          PutNew(key, value, new_level)
    \/ \E range \in Ranges : EraseRange(range[1], range[2])
    \/ Overwrite
    \/ Install
    \/ Bypass
    \/ EraseDone

Read(r) == Visit(r) \/ Load(r) \/ Return(r)

Next ==
    \/ Write
    \/ \E r \in Readers, range \in Ranges : Call(r, range[1], range[2])
    \/ \E r \in Readers : Read(r)

Spec == Init /\ [][Next]_vars

-----------------------------------------------------------------------------
(* Properties.                                                             *)

\* Between writes, level i links exactly the listed nodes tall enough for it,
\* none above level_, and size_ is their number on level 0.
LevelsAgree ==
    writer = Idle =>
        /\ \A i \in Levels :
              ChainNodes(i) = {n \in ChainNodes(0) : node[n].top_level >= i}
        /\ \A n \in ChainNodes(0) : node[n].top_level <= level_
        /\ size_ = Cardinality(ChainNodes(0))

\* What a lock-free scan returns is regular: its keys ascend, it misses no key
\* of its range that was in the list all through the scan, and each pair it
\* returns was in the list at some moment of it.
ScanRegular ==
    \A r \in Readers :
        reader[r].pc = "done" =>
            LET s == reader[r] IN
            /\ \A j \in 2..Len(s.out) : s.out[j - 1][1] < s.out[j][1]
            /\ \A j \in DOMAIN s.out : s.out[j] \in s.ever
            /\ \A k \in s.always : \E j \in DOMAIN s.out : s.out[j][1] = k

\* Readers see put and erase_range as single steps: the keys on level 0 change
\* by one key added or by all of one erased range removed.
WritesAtomic ==
    [][\/ Present' = Present
       \/ \E k \in Keys : k \notin Present /\ Present' = Present \cup {k}
       \/ \E range \in Ranges :
             Present' = {k \in Present : k < range[1] \/ k > range[2]}]_vars
=============================================================================
