--------------------------- MODULE Catalog_proofs ---------------------------
(***************************************************************************)
(* Proofs about Catalog, for any names, any checkpoint interval and any    *)
(* bounds and any number of sessions, also while the current database is   *)
(* gone because a DROP DATABASE overtook a USE.                            *)
(*                                                                         *)
(* Until the first crash the frames of the log are numbered on from the    *)
(* checkpoint and each is linked to the catalog before it (Linked): this   *)
(* is what the start after that crash replays.                             *)
(***************************************************************************)
EXTENDS Catalog, FiniteSetTheorems, SequenceTheorems, WellFoundedInduction, TLAPS

-----------------------------------------------------------------------------
(* The invariant.                                                          *)

SchemaSets == {x \in SUBSET (Schemas \cup {"public"}) : "public" \in x}
Catalogs == {c \in [databases : UNION {[D -> SchemaSets] : D \in SUBSET DbNames},
                    current : DbNames,
                    users : SUBSET Users,
                    tables : SUBSET (DbNames \X Tables)] :
               Exists(c, "defaultdb")}

Good(c) == c \in Catalogs /\ Exists(c, c.current)

\* A log record, and what its operation is about.
About(op) ==
    CASE op \in {"kCreateDatabase", "kDropDatabase"} -> Databases
      [] op = "kCreateSchema" -> DbNames
      [] op \in {"kCreateUser", "kDropUser"} -> Users
      [] op \in {"kCreateTable", "kDropTable"} -> DbNames \X Tables
Ops == {"kCreateDatabase", "kDropDatabase", "kCreateSchema", "kCreateUser",
        "kDropUser", "kCreateTable", "kDropTable"}
IsFrame(f) ==
    /\ f = [seq |-> f.seq, op |-> f.op, table |-> f.table, name |-> f.name,
            state |-> f.state, after |-> f.after]
    /\ f.seq \in Nat
    /\ f.op \in Ops
    /\ f.table \in About(f.op)
    /\ f.op = "kCreateSchema" => f.name \in Schemas
    /\ f.state \in {Whole} \cup Tears
    /\ f.after \in Catalogs
IsLog(file) ==
    /\ file = [i \in 1 .. Len(file) |-> file[i]]
    /\ Len(file) \in Nat
    /\ \A i \in 1 .. Len(file) : IsFrame(file[i])

TypeInv ==
    /\ status \in {"up", "stopped", "crashed", "failed"}
    /\ status # "failed" => catalog \in Catalogs
    /\ ckp = [last_seq |-> ckp.last_seq, catalog |-> ckp.catalog]
    /\ ckp.catalog \in Catalogs
    /\ using \in [Sessions -> DbNames \cup {NoDb}]
    /\ IsLog(log)
    /\ synced \in 0 .. Len(log)
    /\ {wal_seq, log_seq, ckp.last_seq} \subseteq Nat
    /\ crashes \in Nat

\* What replay may differ in from the calls: more tables, fewer users.
Follows(c, d) ==
    /\ c.databases = d.databases
    /\ d.tables \subseteq c.tables
    /\ c.users \subseteq d.users
SameBut(c, d) == c.databases = d.databases /\ c.tables = d.tables /\ c.users = d.users

\* The record of a call, replayed on the catalog before it.
Linked(c, f) ==
    /\ f.op = "kCreateSchema" => Exists(c, f.table)
    /\ Follows(replay_record(c, f), f.after)

\* The catalog after the first n frames, and what the log says of it.
AfterFrame(n) == IF n = 0 THEN ckp.catalog ELSE log[n].after
Linear(n) ==
    \A i \in 1 .. n :
        /\ log[i].seq = ckp.last_seq + i
        /\ log[i].state = Whole
        /\ Linked(AfterFrame(i - 1), log[i])

\* No crash so far.
BeforeCrash ==
    /\ status \in {"up", "stopped", "failed"}
    /\ status = "failed" => ~Loadable
    /\ status = "up" => /\ Linear(Len(log))
                        /\ wal_seq = ckp.last_seq + Len(log)
                        /\ SameBut(AfterFrame(Len(log)), catalog)
                        /\ due.kind \in {"none", "stop"}
                        /\ due.kind = "stop" => catalog = due.catalog
    /\ status = "stopped" => log = <<>> /\ due.kind = "stop" /\ due.catalog = ckp.catalog

\* Since the first crash: the file it left, then what the start made of it.
AfterCrash ==
    /\ status = "crashed" =>
          \E n \in 0 .. Len(log) :
              /\ Linear(n)
              /\ \/ Len(log) = n
                 \/ Len(log) = n + 1 /\ log[n + 1].state.torn
              /\ due.kind = "crash" /\ due.catalog = AfterFrame(n)
    /\ status = "stopped" => due.kind = "stop"
    /\ due.kind = "crash" /\ status \in {"up", "failed"} /\ Loadable =>
          status = "up" /\ Follows(catalog, due.catalog)

FirstCrashInv ==
    /\ crashes = 0 => BeforeCrash
    /\ crashes = 1 => AfterCrash

IInv == TypeInv /\ FirstCrashInv

-----------------------------------------------------------------------------
(* What replay returns.                                                    *)

\* A nonempty set of naturals has a least member.
LEMMA Least ==
    ASSUME NEW s \in SUBSET Nat, s # {}
    PROVE  \E x \in s : \A y \in s : x <= y
<1> DEFINE Less == {p \in Nat \X Nat : p[1] < p[2]}
<1>1. IsWellFoundedOn(Less, Nat)
  BY NatLessThanWellFounded, Zenon DEF OpToRel
<1>2. PICK x \in s : \A y \in s : <<y, x>> \notin Less
  <2> HIDE DEF Less
  <2>1. QED
    BY <1>1, WFMin
<1>3. ASSUME NEW y \in s
      PROVE  x <= y
  <2>1. y < x => <<y, x>> \in Less
    OBVIOUS
  <2>2. QED
    BY <1>2, <2>1
<1>4. QED
  BY <1>3

\* Each of the members of a set of positions is the one with some number of
\* smaller ones.
LEMMA NthExists ==
    ASSUME NEW m \in Nat, NEW S \in SUBSET (1 .. m), NEW n \in 1 .. Cardinality(S)
    PROVE  Nth(S, n) \in S
<1> DEFINE Smaller(i) == {j \in S : j < i}
           Is(k, i) == Cardinality(Smaller(i)) = k - 1
           bad == {k \in 1 .. Cardinality(S) : \A i \in S : ~Is(k, i)}
<1>1. IsFiniteSet(S) /\ Cardinality(S) \in Nat
  <2>1. IsFiniteSet(1 .. m)
    BY FS_Interval
  <2>2. QED
    BY <2>1, FS_Subset, FS_CardinalityType
<1>2. SUFFICES bad = {}
  BY DEF Nth
<1>3. SUFFICES ASSUME bad # {}
               PROVE  FALSE
  OBVIOUS
<1>4. PICK k \in bad : \A l \in bad : k <= l
  <2>1. bad \in SUBSET Nat
    BY <1>1
  <2> HIDE DEF bad
  <2>2. QED
    BY <1>3, <2>1, Least
<1>5. k \in 1 .. Cardinality(S) /\ \A i \in S : ~Is(k, i)
  OBVIOUS
<1>6. PICK B \in SUBSET S : Cardinality(B) = k - 1 /\ \A x \in B, y \in S : y < x => y \in B
  <2>1. CASE k = 1
    BY <2>1, FS_EmptySet
  <2>2. CASE k > 1
    <3>1. k - 1 \in 1 .. Cardinality(S) /\ k - 1 \notin bad
      BY <1>1, <1>4, <1>5, <2>2
    <3>2. PICK i \in S : Is(k - 1, i)
      BY <3>1
    <3>3. IsFiniteSet(Smaller(i)) /\ i \notin Smaller(i)
      BY <1>1, FS_Subset
    <3>4. Cardinality(Smaller(i) \cup {i}) = k - 1
      <4> HIDE DEF Smaller
      <4>1. Cardinality(Smaller(i) \cup {i}) = Cardinality(Smaller(i)) + 1
        BY <3>3, FS_AddElement
      <4>2. QED
        BY <1>1, <1>5, <3>2, <4>1
    <3>5. Smaller(i) \cup {i} \in SUBSET S
      OBVIOUS
    <3>6. \A x \in Smaller(i) \cup {i}, y \in S : y < x => y \in Smaller(i) \cup {i}
      OBVIOUS
    <3>7. QED
      BY <3>4, <3>5, <3>6
  <2>3. QED
    BY <1>1, <1>5, <2>1, <2>2
<1>7. S \ B # {}
  <2>1. Cardinality(S) # k - 1
    BY <1>1, <1>5
  <2>2. S # B
    BY <1>6, <2>1
  <2>3. QED
    BY <2>2
<1>8. PICK i \in S \ B : \A j \in S \ B : i <= j
  <2>1. S \ B \in SUBSET Nat
    OBVIOUS
  <2>2. QED
    BY <1>7, <2>1, Least
<1>9. Smaller(i) = B
  <2>1. \A j \in S : j \in Int
    OBVIOUS
  <2>2. ASSUME NEW j \in B
        PROVE  j < i
    <3>1. i \in S /\ i \notin B /\ j \in S
      OBVIOUS
    <3>2. ~(i < j)
      BY <1>6, <3>1
    <3>3. QED
      BY <2>1, <3>1, <3>2
  <2>3. ASSUME NEW j \in S, j < i
        PROVE  j \in B
    <3>1. ~(i <= j)
      BY <2>1, <2>3
    <3>2. QED
      BY <1>8, <3>1
  <2>4. QED
    BY <2>2, <2>3
<1>10. QED
  BY <1>5, <1>6, <1>8, <1>9

\* What is kept of a file are frames of it.
LEMMA FramesFrom ==
    ASSUME NEW file, Len(file) \in Nat, NEW S \in SUBSET (1 .. Len(file))
    PROVE  /\ Len(Frames(file, S)) = Cardinality(S)
           /\ Cardinality(S) \in Nat
           /\ Frames(file, S) = [n \in 1 .. Cardinality(S) |-> Frames(file, S)[n]]
           /\ \A n \in 1 .. Cardinality(S) : \E i \in S : Frames(file, S)[n] = file[i]
<1>1. Cardinality(S) \in Nat
  <2>1. IsFiniteSet(1 .. Len(file))
    BY FS_Interval
  <2>2. QED
    BY <2>1, FS_Subset, FS_CardinalityType
<1>2. \A n \in 1 .. Cardinality(S) : Frames(file, S)[n] = file[Nth(S, n)]
  BY DEF Frames
<1>3. \A n \in 1 .. Cardinality(S) : Nth(S, n) \in S
  BY NthExists
<1>4. Len(Frames(file, S)) = Cardinality(S)
  BY <1>1 DEF Frames
<1>5. Frames(file, S) = [n \in 1 .. Cardinality(S) |-> Frames(file, S)[n]]
  BY DEF Frames
<1>6. QED
  BY <1>1, <1>2, <1>3, <1>4, <1>5

\* The first frames of a file.
LEMMA FramesPrefix ==
    ASSUME NEW file, NEW m \in Nat
    PROVE  Frames(file, 1 .. m) = [i \in 1 .. m |-> file[i]]
<1>1. Cardinality(1 .. m) = m
  BY FS_Interval
<1>2. ASSUME NEW n \in 1 .. m
      PROVE  Nth(1 .. m, n) = n
  <2>1. ASSUME NEW i \in 1 .. m
        PROVE  Cardinality({j \in 1 .. m : j < i}) = i - 1
    <3>1. {j \in 1 .. m : j < i} = 1 .. i - 1
      OBVIOUS
    <3>2. Cardinality(1 .. i - 1) = i - 1
      BY FS_Interval
    <3>3. QED
      BY <3>1, <3>2
  <2>2. \A i \in 1 .. m : Cardinality({j \in 1 .. m : j < i}) = n - 1 <=> i = n
    BY <2>1
  <2>3. QED
    BY <2>2 DEF Nth
<1>3. QED
  BY <1>1, <1>2 DEF Frames

\* Of the seqs of some positions of a file, and 0, one is the largest.
LEMMA LastSeqType ==
    ASSUME NEW file, IsLog(file)
    PROVE  LastSeq(file) \in Nat
<1> DEFINE Seqs(n) == {0} \cup {file[i].seq : i \in {j \in Records(file) : j <= n}}
           Largest(n) == \E x \in Seqs(n) : \A y \in Seqs(n) : y <= x
           bad == {n \in 0 .. Len(file) : ~Largest(n)}
<1>1. Len(file) \in Nat /\ \A i \in 1 .. Len(file) : file[i].seq \in Nat
  BY DEF IsLog, IsFrame
<1>2. Records(file) \in SUBSET (1 .. Len(file))
  BY DEF Records
<1>3. \A n : Seqs(n) \in SUBSET Nat
  BY <1>1, <1>2
<1>4. bad = {}
  <2>1. SUFFICES ASSUME bad # {}
                 PROVE  FALSE
    OBVIOUS
  <2>2. PICK n \in bad : \A k \in bad : n <= k
    <3>1. bad \in SUBSET Nat
      BY <1>1
    <3> HIDE DEF bad
    <3>2. QED
      BY <2>1, <3>1, Least
  <2>3. n \in 0 .. Len(file) /\ ~Largest(n)
    OBVIOUS
  <2>4. n # 0
    <3>1. ASSUME n = 0
          PROVE  Largest(n)
      <4>1. \A j \in Records(file) : ~(j <= 0)
        BY <1>1, <1>2
      <4>2. Seqs(n) = {0}
        BY <3>1, <4>1
      <4> HIDE DEF Seqs
      <4>3. QED
        BY <4>2
    <3> HIDE DEF Largest, bad
    <3>2. QED
      BY <2>3, <3>1
  <2>5. n - 1 \in 0 .. Len(file) /\ n - 1 \notin bad
    <3>1. n \in Int /\ n - 1 \in 0 .. Len(file)
      BY <1>1, <2>3, <2>4
    <3> HIDE DEF bad
    <3>2. ~(n <= n - 1)
      BY <3>1
    <3>3. QED
      BY <2>2, <3>1, <3>2
  <2>6. PICK x \in Seqs(n - 1) : \A y \in Seqs(n - 1) : y <= x
    BY <2>5
  <2>7. Seqs(n) \subseteq Seqs(n - 1) \cup {file[n].seq} /\ Seqs(n - 1) \subseteq Seqs(n)
    <3>1. \A j \in Records(file) : j <= n => j <= n - 1 \/ j = n
      BY <1>1, <1>2, <2>3
    <3>2. \A j \in Records(file) : j <= n - 1 => j <= n
      BY <1>1, <1>2, <2>3
    <3>3. QED
      BY <3>1, <3>2
  <2> HIDE DEF bad
  <2>8. CASE file[n].seq \in Seqs(n) /\ x <= file[n].seq
    <3>1. \A y \in Seqs(n) : y <= file[n].seq
      <4>1. \A y \in Seqs(n - 1) : y \in Nat /\ y <= x
        BY <1>3, <2>6
      <4>2. x \in Nat /\ file[n].seq \in Nat
        BY <1>3, <2>8
      <4>3. \A y \in Seqs(n) : y \in Seqs(n - 1) \/ y = file[n].seq
        BY <2>7
      <4> HIDE DEF Seqs
      <4>4. QED
        BY <2>8, <4>1, <4>2, <4>3
    <3>2. QED
      BY <2>3, <2>8, <3>1
  <2>9. CASE ~(file[n].seq \in Seqs(n) /\ x <= file[n].seq)
    <3>1. \A y \in Seqs(n) : y <= x
      <4>1. x \in Nat /\ \A y \in Seqs(n) : y \in Nat
        BY <1>3
      <4>2. \A y \in Seqs(n) : y \in Seqs(n - 1) \/ y = file[n].seq
        BY <2>7
      <4> HIDE DEF Seqs
      <4>3. ASSUME NEW y \in Seqs(n), y = file[n].seq
            PROVE  y <= x
        <5>1. ~(x <= y)
          BY <2>9, <4>3
        <5>2. QED
          BY <4>1, <5>1
      <4>4. QED
        BY <2>6, <4>2, <4>3
    <3>2. x \in Seqs(n)
      BY <2>7
    <3>3. QED
      BY <2>3, <3>1, <3>2
  <2>10. QED
    BY <2>8, <2>9
<1>5. Largest(Len(file))
  <2>1. Len(file) \in 0 .. Len(file)
    BY <1>1
  <2>2. QED
    BY <1>4, <2>1
<1>6. Seqs(Len(file)) = {0} \cup {file[i].seq : i \in Records(file)}
  <2>1. \A j \in Records(file) : j <= Len(file)
    BY <1>1, <1>2
  <2>2. QED
    BY <2>1
<1>7. LastSeq(file) = CHOOSE x \in Seqs(Len(file)) : \A y \in Seqs(Len(file)) : y <= x
  BY <1>6 DEF LastSeq
<1> HIDE DEF Seqs, bad
<1>8. QED
  BY <1>3, <1>5, <1>7

\* What replay and truncate return is a log again, made of frames of the file.
LEMMA ReplayLog ==
    ASSUME NEW file, IsLog(file), NEW seq
    PROVE  /\ IsLog(replay(file, seq))
           /\ \A n \in 1 .. Len(replay(file, seq)) :
                 \E i \in 1 .. Len(file) : replay(file, seq)[n] = file[i]
<1> DEFINE S == {i \in Records(file) : file[i].seq > seq}
<1>1. Len(file) \in Nat /\ S \in SUBSET (1 .. Len(file))
  BY DEF IsLog, Records
<1>2. replay(file, seq) = Frames(file, S)
  BY DEF replay
<1> HIDE DEF S
<1>3. /\ Len(Frames(file, S)) = Cardinality(S)
      /\ Cardinality(S) \in Nat
      /\ Frames(file, S) = [n \in 1 .. Cardinality(S) |-> Frames(file, S)[n]]
      /\ \A n \in 1 .. Cardinality(S) : \E i \in S : Frames(file, S)[n] = file[i]
  BY <1>1, FramesFrom
<1>4. \A n \in 1 .. Cardinality(S) : IsFrame(Frames(file, S)[n])
  BY <1>1, <1>3 DEF IsLog
<1>5. QED
  BY <1>1, <1>2, <1>3, <1>4 DEF IsLog

-----------------------------------------------------------------------------
(* What load makes of a checkpoint and records.                            *)

\* The catalogs load goes through.
Stages(bytes, records, g) ==
    /\ g[0] = catalog_decode(bytes)
    /\ \A i \in 1 .. Len(records) : g[i] = replay_record(g[i - 1], records[i])

LEMMA LoadedStages ==
    ASSUME NEW bytes, NEW records, Len(records) \in Nat
    PROVE  \E g : Stages(bytes, records, g) /\ Loaded(bytes, records) = g[Len(records)]
<1> DEFINE Is(n, g) == g = [i \in 0 .. n |->
                              IF i = 0 THEN catalog_decode(bytes)
                              ELSE replay_record(g[i - 1], records[i])]
           bad == {n \in Nat : \A g : ~Is(n, g)}
<1>1. bad = {}
  <2>1. SUFFICES ASSUME bad # {}
                 PROVE  FALSE
    OBVIOUS
  <2>2. PICK n \in bad : \A k \in bad : n <= k
    <3>1. bad \in SUBSET Nat
      OBVIOUS
    <3> HIDE DEF bad
    <3>2. QED
      BY <2>1, <3>1, Least
  <2>3. n \in Nat /\ \A g : ~Is(n, g)
    OBVIOUS
  <2>4. n # 0
    <3>1. \E f : Is(0, f)
      <4>1. Is(0, [i \in 0 .. 0 |-> catalog_decode(bytes)])
        OBVIOUS
      <4> HIDE DEF Is
      <4>2. QED
        BY <4>1
    <3> HIDE DEF Is
    <3>2. QED
      BY <2>3, <3>1
  <2>5. n - 1 \in Nat /\ n - 1 \notin bad
    <3>1. n \in Int /\ n - 1 \in Nat
      BY <2>3, <2>4
    <3> HIDE DEF bad
    <3>2. ~(n <= n - 1)
      BY <3>1
    <3>3. QED
      BY <2>2, <3>1, <3>2
  <2>6. PICK h : Is(n - 1, h)
    BY <2>5
  <2> DEFINE g == [i \in 0 .. n |-> IF i = n THEN replay_record(h[n - 1], records[n]) ELSE h[i]]
  <2>7. Is(n, g)
    <3>1. ASSUME NEW i \in 0 .. n
          PROVE  g[i] = IF i = 0 THEN catalog_decode(bytes)
                        ELSE replay_record(g[i - 1], records[i])
      <4>1. CASE i = n
        <5>1. g[i - 1] = h[n - 1]
          BY <2>3, <2>4, <4>1
        <5>2. QED
          BY <2>3, <2>4, <4>1, <5>1
      <4>2. CASE i # n
        <5>1. i \in 0 .. n - 1 /\ g[i] = h[i]
          BY <2>3, <4>2
        <5>2. i # 0 => g[i - 1] = h[i - 1]
          BY <2>3, <4>2
        <5>3. h[i] = IF i = 0 THEN catalog_decode(bytes)
                     ELSE replay_record(h[i - 1], records[i])
          BY <2>6, <5>1
        <5>4. QED
          BY <5>1, <5>2, <5>3
      <4>3. QED
        BY <4>1, <4>2
    <3>2. g = [i \in 0 .. n |-> g[i]]
      OBVIOUS
    <3> HIDE DEF g
    <3>3. QED
      BY <3>1, <3>2
  <2>8. QED
    BY <2>3, <2>7
<1> DEFINE L == Len(records)
           g == CHOOSE f : Is(L, f)
<1>2. Loaded(bytes, records) = g[L]
  BY DEF Loaded
<1>3. \E f : Is(L, f)
  BY <1>1
<1> HIDE DEF Is, bad
<1>4. Is(L, g)
  BY <1>3
<1> HIDE DEF g
<1>5. \A i \in 0 .. L : g[i] = IF i = 0 THEN catalog_decode(bytes)
                               ELSE replay_record(g[i - 1], records[i])
  BY <1>4 DEF Is
<1>6. Stages(bytes, records, g)
  BY <1>5 DEF Stages
<1>7. QED
  BY <1>2, <1>6

-----------------------------------------------------------------------------
(* The operations of the catalog.                                          *)

Cat(dbs, current, users, tables) ==
    [databases |-> dbs, current |-> current, users |-> users, tables |-> tables]

LEMMA MakeCatalog ==
    ASSUME NEW D \in SUBSET DbNames, "defaultdb" \in D, NEW dbs \in [D -> SchemaSets],
           NEW d \in DbNames, NEW u \in SUBSET Users, NEW t \in SUBSET (DbNames \X Tables)
    PROVE  Cat(dbs, d, u, t) \in Catalogs
<1>1. dbs \in UNION {[E -> SchemaSets] : E \in SUBSET DbNames}
  OBVIOUS
<1>2. QED
  BY <1>1 DEF Cat, Catalogs, Exists

LEMMA CatalogFields ==
    ASSUME NEW c \in Catalogs
    PROVE  /\ c = Cat(c.databases, c.current, c.users, c.tables)
           /\ DOMAIN c.databases \in SUBSET DbNames
           /\ "defaultdb" \in DOMAIN c.databases
           /\ c.databases \in [DOMAIN c.databases -> SchemaSets]
           /\ c.current \in DbNames
           /\ c.users \in SUBSET Users
           /\ c.tables \in SUBSET (DbNames \X Tables)
<1>1. PICK D \in SUBSET DbNames : c.databases \in [D -> SchemaSets]
  BY DEF Catalogs
<1>2. DOMAIN c.databases = D
  BY <1>1
<1>3. c = Cat(c.databases, c.current, c.users, c.tables)
  BY DEF Catalogs, Cat
<1>4. QED
  BY <1>1, <1>2, <1>3 DEF Catalogs, Exists

\* The catalogs that replaying a record can give.
LEMMA Operations ==
    ASSUME NEW c \in Catalogs
    PROVE  /\ \A d \in DbNames :
                /\ create_database(c, d)
                     = Cat([e \in DOMAIN c.databases \cup {d} |->
                              IF e = d THEN {"public"} ELSE c.databases[e]],
                           c.current, c.users, c.tables)
                /\ create_database(c, d) \in Catalogs
           /\ \A d \in Databases :
                /\ drop_database(c, d)
                     = Cat([e \in DOMAIN c.databases \ {d} |-> c.databases[e]],
                           IF c.current = d THEN "defaultdb" ELSE c.current,
                           c.users, c.tables)
                /\ drop_database(c, d) \in Catalogs
           /\ \A d \in DOMAIN c.databases, s \in Schemas :
                /\ create_schema(c, d, s)
                     = Cat([e \in DOMAIN c.databases |->
                              IF e = d THEN c.databases[e] \cup {s} ELSE c.databases[e]],
                           c.current, c.users, c.tables)
                /\ create_schema(c, d, s) \in Catalogs
           /\ \A u \in SUBSET Users :
                /\ [c EXCEPT !.users = u] = Cat(c.databases, c.current, u, c.tables)
                /\ [c EXCEPT !.users = u] \in Catalogs
           /\ \A t \in SUBSET (DbNames \X Tables) :
                /\ [c EXCEPT !.tables = t] = Cat(c.databases, c.current, c.users, t)
                /\ [c EXCEPT !.tables = t] \in Catalogs
           /\ \A d \in DbNames :
                /\ [c EXCEPT !.current = d] = Cat(c.databases, d, c.users, c.tables)
                /\ [c EXCEPT !.current = d] \in Catalogs
<1> DEFINE D == DOMAIN c.databases
           dbs == c.databases
<1>1. /\ c = Cat(dbs, c.current, c.users, c.tables)
      /\ D \in SUBSET DbNames /\ "defaultdb" \in D
      /\ dbs \in [D -> SchemaSets]
      /\ c.current \in DbNames
      /\ c.users \in SUBSET Users
      /\ c.tables \in SUBSET (DbNames \X Tables)
  BY CatalogFields
<1>2. "defaultdb" \in DbNames /\ Databases \subseteq DbNames /\ "defaultdb" \notin Databases
  BY CatalogAssumption DEF DbNames
<1>3. {"public"} \in SchemaSets /\ \A x \in SchemaSets, s \in Schemas : x \cup {s} \in SchemaSets
  BY DEF SchemaSets
<1>4. ASSUME NEW d \in DbNames
      PROVE  /\ create_database(c, d)
                  = Cat([e \in D \cup {d} |-> IF e = d THEN {"public"} ELSE dbs[e]],
                        c.current, c.users, c.tables)
             /\ create_database(c, d) \in Catalogs
  <2> DEFINE new == [e \in D \cup {d} |-> IF e = d THEN {"public"} ELSE dbs[e]]
  <2>1. create_database(c, d) = Cat(new, c.current, c.users, c.tables)
    BY <1>1 DEF create_database, Cat
  <2>2. new \in [D \cup {d} -> SchemaSets]
    BY <1>1, <1>3
  <2>3. D \cup {d} \in SUBSET DbNames /\ "defaultdb" \in D \cup {d}
    BY <1>1
  <2> HIDE DEF new, D
  <2>4. QED
    BY <1>1, <2>1, <2>2, <2>3, MakeCatalog DEF new
<1>5. ASSUME NEW d \in Databases
      PROVE  /\ drop_database(c, d)
                  = Cat([e \in D \ {d} |-> dbs[e]],
                        IF c.current = d THEN "defaultdb" ELSE c.current,
                        c.users, c.tables)
             /\ drop_database(c, d) \in Catalogs
  <2> DEFINE new == [e \in D \ {d} |-> dbs[e]]
             cur == IF c.current = d THEN "defaultdb" ELSE c.current
  <2>1. drop_database(c, d) = Cat(new, cur, c.users, c.tables)
    <3>1. drop_database(c, d) = [c EXCEPT !.databases = new, !.current = cur]
      BY DEF drop_database
    <3> HIDE DEF new, cur
    <3>2. QED
      BY <1>1, <3>1 DEF Cat
  <2>2. new \in [D \ {d} -> SchemaSets]
    BY <1>1
  <2>3. D \ {d} \in SUBSET DbNames /\ "defaultdb" \in D \ {d} /\ cur \in DbNames
    BY <1>1, <1>2
  <2> HIDE DEF new, D, cur
  <2>4. Cat(new, cur, c.users, c.tables) \in Catalogs
    BY <1>1, <2>2, <2>3, MakeCatalog
  <2>5. QED
    BY <2>1, <2>4 DEF new, D, cur
<1>6. ASSUME NEW d \in D, NEW s \in Schemas
      PROVE  /\ create_schema(c, d, s)
                  = Cat([e \in D |-> IF e = d THEN dbs[e] \cup {s} ELSE dbs[e]],
                        c.current, c.users, c.tables)
             /\ create_schema(c, d, s) \in Catalogs
  <2> DEFINE new == [e \in D |-> IF e = d THEN dbs[e] \cup {s} ELSE dbs[e]]
  <2>1. create_schema(c, d, s) = Cat(new, c.current, c.users, c.tables)
    <3>1. [dbs EXCEPT ![d] = @ \cup {s}] = new
      BY <1>1
    <3>2. QED
      BY <1>1, <3>1 DEF create_schema, Cat
  <2>2. new \in [D -> SchemaSets]
    BY <1>1, <1>3
  <2> HIDE DEF new, D
  <2>3. Cat(new, c.current, c.users, c.tables) \in Catalogs
    BY <1>1, <2>2, MakeCatalog
  <2>4. QED
    BY <2>1, <2>3 DEF new, D
<1>7. ASSUME NEW u \in SUBSET Users
      PROVE  /\ [c EXCEPT !.users = u] = Cat(dbs, c.current, u, c.tables)
             /\ [c EXCEPT !.users = u] \in Catalogs
  <2>1. [c EXCEPT !.users = u] = Cat(dbs, c.current, u, c.tables)
    BY <1>1 DEF Cat
  <2>2. QED
    BY <1>1, <2>1, MakeCatalog
<1>8. ASSUME NEW t \in SUBSET (DbNames \X Tables)
      PROVE  /\ [c EXCEPT !.tables = t] = Cat(dbs, c.current, c.users, t)
             /\ [c EXCEPT !.tables = t] \in Catalogs
  <2>1. [c EXCEPT !.tables = t] = Cat(dbs, c.current, c.users, t)
    BY <1>1 DEF Cat
  <2>2. QED
    BY <1>1, <2>1, MakeCatalog
<1>9. ASSUME NEW d \in DbNames
      PROVE  /\ [c EXCEPT !.current = d] = Cat(dbs, d, c.users, c.tables)
             /\ [c EXCEPT !.current = d] \in Catalogs
  <2>1. [c EXCEPT !.current = d] = Cat(dbs, d, c.users, c.tables)
    BY <1>1 DEF Cat
  <2>2. QED
    BY <1>1, <2>1, MakeCatalog
<1>10. QED
  BY <1>4, <1>5, <1>6, <1>7, <1>8, <1>9

\* Replay keeps catalogs apart from the throw, and a good catalog is never
\* that; a record of a schema needs its database.
LEMMA ReplayKeeps ==
    ASSUME NEW c \in Catalogs, c # Threw, NEW f, IsFrame(f)
    PROVE  /\ replay_record(c, f) \in Catalogs \cup {Threw}
           /\ Good(c) => Good(replay_record(c, f)) \/ replay_record(c, f) = Threw
           /\ (f.op = "kCreateSchema" => Exists(c, f.table))
                 => replay_record(c, f) \in Catalogs
                    /\ (Good(c) => Good(replay_record(c, f)))
<1> DEFINE r == replay_record(c, f)
<1>1. /\ c = Cat(c.databases, c.current, c.users, c.tables)
      /\ "defaultdb" \in DOMAIN c.databases
      /\ c.users \in SUBSET Users
      /\ c.tables \in SUBSET (DbNames \X Tables)
  BY CatalogFields
<1>2. f.op \in Ops /\ f.table \in About(f.op) /\ (f.op = "kCreateSchema" => f.name \in Schemas)
  BY DEF IsFrame
<1>3. Databases \subseteq DbNames
  BY DEF DbNames
<1>4. CASE f.op = "kCreateDatabase"
  <2>1. f.table \in DbNames
    BY <1>2, <1>3, <1>4 DEF About
  <2>2. r = IF Exists(c, f.table) THEN c ELSE create_database(c, f.table)
    BY <1>4 DEF replay_record
  <2>3. create_database(c, f.table) \in Catalogs
    BY <2>1, Operations
  <2>4. Good(c) => Good(create_database(c, f.table))
    <3>1. create_database(c, f.table).current = c.current
          /\ DOMAIN c.databases \subseteq DOMAIN create_database(c, f.table).databases
      <4>1. create_database(c, f.table)
              = Cat([e \in DOMAIN c.databases \cup {f.table} |->
                       IF e = f.table THEN {"public"} ELSE c.databases[e]],
                    c.current, c.users, c.tables)
        BY <2>1, Operations
      <4>2. QED
        BY <4>1 DEF Cat
    <3>2. QED
      BY <2>3, <3>1 DEF Good, Exists
  <2>5. QED
    BY <1>4, <2>2, <2>3, <2>4
<1>5. CASE f.op = "kDropDatabase"
  <2>1. f.table \in Databases
    BY <1>2, <1>5 DEF About
  <2>2. r = IF Exists(c, f.table) THEN drop_database(c, f.table) ELSE c
    BY <1>5 DEF replay_record
  <2>3. drop_database(c, f.table) \in Catalogs
    BY <2>1, Operations
  <2>4. Good(c) => Good(drop_database(c, f.table))
    <3>1. /\ drop_database(c, f.table).current
               = IF c.current = f.table THEN "defaultdb" ELSE c.current
          /\ DOMAIN drop_database(c, f.table).databases = DOMAIN c.databases \ {f.table}
      <4>1. drop_database(c, f.table)
              = Cat([e \in DOMAIN c.databases \ {f.table} |-> c.databases[e]],
                    IF c.current = f.table THEN "defaultdb" ELSE c.current,
                    c.users, c.tables)
        BY <2>1, Operations
      <4>2. QED
        BY <4>1 DEF Cat
    <3>2. f.table # "defaultdb"
      BY <2>1, CatalogAssumption DEF CatalogAssumption
    <3>3. QED
      BY <1>1, <2>3, <3>1, <3>2 DEF Good, Exists
  <2>5. QED
    BY <1>5, <2>2, <2>3, <2>4
<1>6. CASE f.op = "kCreateSchema"
  <2>1. f.name \in Schemas
    BY <1>2, <1>6
  <2>2. r = IF Exists(c, f.table) THEN create_schema(c, f.table, f.name) ELSE Threw
    BY <1>6 DEF replay_record
  <2>3. CASE Exists(c, f.table)
    <3>1. /\ create_schema(c, f.table, f.name) \in Catalogs
          /\ create_schema(c, f.table, f.name).current = c.current
          /\ DOMAIN create_schema(c, f.table, f.name).databases = DOMAIN c.databases
      BY <2>1, <2>3, Operations DEF Cat, Exists
    <3>2. QED
      BY <1>6, <2>2, <2>3, <3>1 DEF Good, Exists
  <2>4. CASE ~Exists(c, f.table)
    BY <1>6, <2>2, <2>4
  <2>5. QED
    BY <2>3, <2>4
<1>7. CASE f.op = "kCreateUser"
  BY <1>7 DEF replay_record
<1>8. CASE f.op = "kDropUser"
  <2>1. /\ r = [c EXCEPT !.users = c.users \ {f.table}]
        /\ c.users \ {f.table} \in SUBSET Users
    BY <1>1, <1>8 DEF replay_record
  <2>2. r = Cat(c.databases, c.current, c.users \ {f.table}, c.tables) /\ r \in Catalogs
    <3> DEFINE x == c.users \ {f.table}
    <3>1. x \in SUBSET Users
      BY <2>1
    <3> HIDE DEF x
    <3>2. [c EXCEPT !.users = x] = Cat(c.databases, c.current, x, c.tables) /\ [c EXCEPT !.users = x] \in Catalogs
      BY <3>1, Operations
    <3>3. QED
      BY <2>1, <3>2 DEF x
  <2>3. QED
    BY <1>8, <2>2 DEF Good, Exists, Cat
<1>9. CASE f.op = "kCreateTable"
  <2>1. r = [c EXCEPT !.tables = c.tables \cup {f.table}]
    BY <1>9 DEF replay_record
  <2>2. f.table \in DbNames \X Tables
    BY <1>2, <1>9 DEF About
  <2>3. r = Cat(c.databases, c.current, c.users, c.tables \cup {f.table}) /\ r \in Catalogs
    BY <1>1, <2>1, <2>2, Operations
  <2>4. QED
    BY <1>9, <2>3 DEF Good, Exists, Cat
<1>10. CASE f.op = "kDropTable"
  <2>1. /\ r = [c EXCEPT !.tables = c.tables \ {f.table}]
        /\ c.tables \ {f.table} \in SUBSET (DbNames \X Tables)
    BY <1>1, <1>10 DEF replay_record
  <2>2. r = Cat(c.databases, c.current, c.users, c.tables \ {f.table}) /\ r \in Catalogs
    <3> DEFINE x == c.tables \ {f.table}
    <3>1. x \in SUBSET (DbNames \X Tables)
      BY <2>1
    <3> HIDE DEF x
    <3>2. [c EXCEPT !.tables = x] = Cat(c.databases, c.current, c.users, x) /\ [c EXCEPT !.tables = x] \in Catalogs
      BY <3>1, Operations
    <3>3. QED
      BY <2>1, <3>2 DEF x
  <2>3. QED
    BY <1>10, <2>2 DEF Good, Exists, Cat
<1>11. QED
  BY <1>2, <1>4, <1>5, <1>6, <1>7, <1>8, <1>9, <1>10 DEF Ops

\* Replaying a record on a catalog that follows another gives one that follows.
LEMMA ReplayFollows ==
    ASSUME NEW c \in Catalogs, c # Threw, NEW b \in Catalogs, b # Threw,
           Follows(c, b), NEW f, IsFrame(f),
           f.op = "kCreateSchema" => Exists(b, f.table)
    PROVE  Follows(replay_record(c, f), replay_record(b, f))
<1>1. /\ \A x \in {b, c} : /\ x.users \in SUBSET Users
                           /\ x.tables \in SUBSET (DbNames \X Tables)
      /\ c.databases = b.databases /\ b.tables \subseteq c.tables /\ c.users \subseteq b.users
  BY CatalogFields DEF Follows
<1>2. f.op \in Ops /\ f.table \in About(f.op) /\ (f.op = "kCreateSchema" => f.name \in Schemas)
  BY DEF IsFrame
<1>3. Databases \subseteq DbNames
  BY DEF DbNames
<1>4. CASE f.op = "kCreateDatabase"
  <2>1. f.table \in DbNames
    BY <1>2, <1>3, <1>4 DEF About
  <2>2. \A x \in {b, c} :
          /\ replay_record(x, f) = IF Exists(x, f.table) THEN x ELSE create_database(x, f.table)
          /\ create_database(x, f.table)
               = Cat([e \in DOMAIN x.databases \cup {f.table} |->
                        IF e = f.table THEN {"public"} ELSE x.databases[e]],
                     x.current, x.users, x.tables)
    BY <1>4, <2>1, Operations DEF replay_record
  <2>3. QED
    BY <1>1, <2>2 DEF Follows, Cat, Exists
<1>5. CASE f.op = "kDropDatabase"
  <2>1. f.table \in Databases
    BY <1>2, <1>5 DEF About
  <2>2. \A x \in {b, c} :
          /\ replay_record(x, f) = IF Exists(x, f.table) THEN drop_database(x, f.table) ELSE x
          /\ drop_database(x, f.table)
               = Cat([e \in DOMAIN x.databases \ {f.table} |-> x.databases[e]],
                     IF x.current = f.table THEN "defaultdb" ELSE x.current,
                     x.users, x.tables)
    BY <1>5, <2>1, Operations DEF replay_record
  <2>3. QED
    BY <1>1, <2>2 DEF Follows, Cat, Exists
<1>6. CASE f.op = "kCreateSchema"
  <2>1. f.name \in Schemas /\ \A x \in {b, c} : f.table \in DOMAIN x.databases
    BY <1>1, <1>2, <1>6 DEF Exists
  <2>2. \A x \in {b, c} :
          /\ replay_record(x, f) = create_schema(x, f.table, f.name)
          /\ create_schema(x, f.table, f.name)
               = Cat([e \in DOMAIN x.databases |->
                        IF e = f.table THEN x.databases[e] \cup {f.name} ELSE x.databases[e]],
                     x.current, x.users, x.tables)
    BY <1>6, <2>1, Operations DEF replay_record, Exists
  <2>3. QED
    BY <1>1, <2>2 DEF Follows, Cat
<1>7. CASE f.op = "kCreateUser"
  BY <1>1, <1>7 DEF replay_record, Follows
<1>8. CASE f.op = "kDropUser"
  <2>1. \A x \in {b, c} :
          /\ replay_record(x, f) = [x EXCEPT !.users = x.users \ {f.table}]
          /\ x.users \ {f.table} \in SUBSET Users
    BY <1>1, <1>8 DEF replay_record
  <2>2. \A x \in {b, c} :
          replay_record(x, f) = Cat(x.databases, x.current, x.users \ {f.table}, x.tables)
    BY <2>1, Operations
  <2>3. QED
    BY <1>1, <2>2 DEF Follows, Cat
<1>9. CASE f.op = "kCreateTable"
  <2>1. f.table \in DbNames \X Tables
    BY <1>2, <1>9 DEF About
  <2>2. \A x \in {b, c} :
          /\ replay_record(x, f) = [x EXCEPT !.tables = x.tables \cup {f.table}]
          /\ x.tables \cup {f.table} \in SUBSET (DbNames \X Tables)
    BY <1>1, <1>9, <2>1 DEF replay_record
  <2>3. \A x \in {b, c} :
          replay_record(x, f) = Cat(x.databases, x.current, x.users, x.tables \cup {f.table})
    BY <2>2, Operations
  <2>4. QED
    BY <1>1, <2>3 DEF Follows, Cat
<1>10. CASE f.op = "kDropTable"
  <2>1. \A x \in {b, c} :
          /\ replay_record(x, f) = [x EXCEPT !.tables = x.tables \ {f.table}]
          /\ x.tables \ {f.table} \in SUBSET (DbNames \X Tables)
    BY <1>1, <1>10 DEF replay_record
  <2>2. \A x \in {b, c} :
          replay_record(x, f) = Cat(x.databases, x.current, x.users, x.tables \ {f.table})
    BY <2>1, Operations
  <2>3. QED
    BY <1>1, <2>2 DEF Follows, Cat
<1>11. QED
  BY <1>2, <1>4, <1>5, <1>6, <1>7, <1>8, <1>9, <1>10 DEF Ops

\* A set of naturals that has 0, and each number with the one before it.
LEMMA Upward ==
    ASSUME NEW n \in Nat, NEW S, 0 \in S, \A i \in 1 .. n : i - 1 \in S => i \in S
    PROVE  0 .. n \subseteq S
<1> DEFINE bad == {i \in 0 .. n : i \notin S}
<1>1. SUFFICES ASSUME bad # {}
               PROVE  FALSE
  OBVIOUS
<1>2. PICK i \in bad : \A k \in bad : i <= k
  <2>1. bad \in SUBSET Nat
    OBVIOUS
  <2> HIDE DEF bad
  <2>2. QED
    BY <1>1, <2>1, Least
<1>3. i \in 1 .. n /\ i \notin S
  OBVIOUS
<1>4. i - 1 \in 0 .. n /\ i - 1 \notin S
  BY <1>3
<1>5. ~(i <= i - 1)
  BY <1>3
<1>6. QED
  BY <1>2, <1>4, <1>5

LEMMA CatalogsNotThrown == \A c \in Catalogs : c # Threw
<1>1. DOMAIN Threw.databases = {}
  BY DEF Threw, Fresh
<1>2. QED
  BY <1>1 DEF Catalogs, Exists

\* What load ends with, if it does not throw, is a catalog with its current
\* database.
LEMMA LoadedType ==
    ASSUME NEW bytes \in Catalogs, NEW records, IsLog(records)
    PROVE  Good(Loaded(bytes, records)) \/ Loaded(bytes, records) = Threw
<1>1. Len(records) \in Nat /\ \A i \in 1 .. Len(records) : IsFrame(records[i])
  BY DEF IsLog
<1>2. PICK g : Stages(bytes, records, g) /\ Loaded(bytes, records) = g[Len(records)]
  BY <1>1, LoadedStages
<1> DEFINE n == Len(records)
           Right(c) == Good(c) \/ c = Threw
           S == {i \in 0 .. n : Right(g[i])}
<1>3. 0 \in S
  <2>1. g[0] = IF Exists(bytes, bytes.current) THEN bytes ELSE Threw
    BY <1>2 DEF Stages, catalog_decode
  <2>2. QED
    BY <1>1, <2>1 DEF Good
<1>4. ASSUME NEW i \in 1 .. n, i - 1 \in S
      PROVE  i \in S
  <2>1. g[i] = replay_record(g[i - 1], records[i]) /\ Right(g[i - 1]) /\ IsFrame(records[i])
    BY <1>1, <1>2, <1>4 DEF Stages
  <2>2. CASE g[i - 1] = Threw
    <3>1. g[i] = Threw
      BY <2>1, <2>2 DEF replay_record
    <3>2. QED
      BY <1>1, <3>1
  <2>3. CASE g[i - 1] # Threw
    <3>1. g[i - 1] \in Catalogs
      BY <2>1, <2>3 DEF Good
    <3>2. /\ g[i] \in Catalogs \cup {Threw}
          /\ Good(g[i - 1]) => Good(g[i]) \/ g[i] = Threw
      BY <2>1, <2>3, <3>1, ReplayKeeps
    <3>3. Right(g[i])
      BY <2>1, <2>3, <3>2
    <3>4. QED
      BY <1>1, <3>3
  <2>4. QED
    BY <2>2, <2>3
<1>5. n \in S
  <2> HIDE DEF S
  <2>1. 0 .. n \subseteq S
    BY <1>1, <1>3, <1>4, Upward
  <2>2. QED
    BY <1>1, <2>1
<1>6. QED
  BY <1>2, <1>5

\* The first frames of the log, replayed on the checkpoint.
LEMMA LoadedFollows ==
    ASSUME TypeInv, Loadable, NEW n \in 0 .. Len(log), Linear(n)
    PROVE  LET c == Loaded(ckp.catalog, [i \in 1 .. n |-> log[i]])
           IN  Good(c) /\ Follows(c, AfterFrame(n))
<1> DEFINE records == [i \in 1 .. n |-> log[i]]
<1>1. /\ Len(log) \in Nat /\ n \in Nat /\ Len(records) = n
      /\ \A i \in 1 .. n : i \in 1 .. Len(log) /\ records[i] = log[i] /\ IsFrame(log[i])
  BY DEF TypeInv, IsLog
<1>2. \A i \in 0 .. n : AfterFrame(i) \in Catalogs
  <2>1. ckp.catalog \in Catalogs
    BY DEF TypeInv
  <2>2. \A i \in 1 .. n : log[i].after \in Catalogs
    BY <1>1 DEF IsFrame
  <2>3. QED
    BY <1>1, <2>1, <2>2 DEF AfterFrame
<1> HIDE DEF records
<1>3. PICK g : Stages(ckp.catalog, records, g) /\ Loaded(ckp.catalog, records) = g[n]
  BY <1>1, LoadedStages
<1> DEFINE S == {i \in 0 .. n : Good(g[i]) /\ Follows(g[i], AfterFrame(i))}
<1>4. 0 \in S
  <2>1. AfterFrame(0) = ckp.catalog
    BY DEF AfterFrame
  <2>2. g[0] = ckp.catalog /\ Good(ckp.catalog)
    BY <1>1, <1>3 DEF Stages, catalog_decode, Loadable, TypeInv, Good
  <2>3. 0 \in 0 .. n
    BY <1>1
  <2>4. QED
    BY <1>2, <2>1, <2>2, <2>3 DEF Follows
<1>5. ASSUME NEW i \in 1 .. n, i - 1 \in S
      PROVE  i \in S
  <2> DEFINE b == AfterFrame(i - 1)
             f == log[i]
             c == g[i - 1]
  <2>1. /\ g[i] = replay_record(c, f) /\ Good(c) /\ Follows(c, b)
        /\ b \in Catalogs /\ IsFrame(f) /\ AfterFrame(i) = f.after
    BY <1>1, <1>2, <1>3, <1>5 DEF Stages, AfterFrame
  <2>2. Linked(b, f)
    BY DEF Linear
  <2> HIDE DEF b, f, c
  <2>3. c \in Catalogs /\ b \in Catalogs /\ c # Threw /\ b # Threw
    BY <2>1, CatalogsNotThrown DEF Good
  <2>4. f.op = "kCreateSchema" => Exists(b, f.table) /\ Exists(c, f.table)
    BY <2>1, <2>2 DEF Linked, Follows, Exists
  <2>5. Good(g[i])
    BY <2>1, <2>3, <2>4, ReplayKeeps
  <2>6. Follows(g[i], replay_record(b, f))
    BY <2>1, <2>3, <2>4, ReplayFollows
  <2>7. Follows(g[i], AfterFrame(i))
    BY <2>1, <2>2, <2>6 DEF Linked, Follows
  <2>8. QED
    BY <1>1, <2>5, <2>7
<1>6. n \in S
  <2> HIDE DEF S
  <2>1. 0 .. n \subseteq S
    BY <1>1, <1>4, <1>5, Upward
  <2>2. QED
    BY <1>1, <2>1
<1>7. QED
  BY <1>3, <1>6 DEF records

-----------------------------------------------------------------------------
(* The calls.                                                              *)

Call ==
    \/ \E d \in Databases : CreateDatabase(d) \/ DropDatabase(d)
    \/ \E s \in Schemas : CreateSchema(s)
    \/ \E u \in Users : CreateUser(u) \/ DropUser(u)
    \/ \E t \in Tables : CreateTable(t) \/ DropTable(t)

\* The frame a call writes.
Written(seq, c, op, table, name) ==
    [seq |-> seq, op |-> op, table |-> table, name |-> name, state |-> Whole, after |-> c]

\* A catalog, operation, and names that go together.
Does(c, op, table, name) ==
    /\ c \in Catalogs
    /\ Good(catalog) => Good(c)
    /\ op \in Ops /\ table \in About(op)
    /\ op = "kCreateSchema" => name \in Schemas
    /\ catalog # Threw => \A seq \in Nat : Linked(catalog, Written(seq, c, op, table, name))

LEMMA CallIs ==
    ASSUME catalog \in Catalogs, Call
    PROVE  \E c, op, table, name : Does(c, op, table, name) /\ Logged(c, op, table, name)
<1>1. /\ DOMAIN catalog.databases \in SUBSET DbNames
      /\ "defaultdb" \in DOMAIN catalog.databases
      /\ catalog.users \in SUBSET Users
      /\ catalog.tables \in SUBSET (DbNames \X Tables)
      /\ catalog.current \in DbNames
  BY CatalogFields
<1>2. "defaultdb" \notin Databases /\ Databases \subseteq DbNames
  BY CatalogAssumption DEF CatalogAssumption, DbNames
<1>3. ASSUME NEW d \in Databases, CreateDatabase(d)
      PROVE  \E c, op, table, name : Does(c, op, table, name) /\ Logged(c, op, table, name)
  <2> DEFINE c == create_database(catalog, d)
  <2>1. /\ c = Cat([e \in DOMAIN catalog.databases \cup {d} |->
                      IF e = d THEN {"public"} ELSE catalog.databases[e]],
                   catalog.current, catalog.users, catalog.tables)
        /\ c \in Catalogs
    BY <1>2, Operations
  <2>2. Good(catalog) => Good(c)
    BY <2>1 DEF Good, Exists, Cat
  <2>3. ~Exists(catalog, d) /\ Logged(c, "kCreateDatabase", d, NoDb)
    BY <1>3 DEF CreateDatabase
  <2> HIDE DEF c
  <2>4. ASSUME NEW seq, catalog # Threw
        PROVE  Linked(catalog, Written(seq, c, "kCreateDatabase", d, NoDb))
    <3>1. replay_record(catalog, Written(seq, c, "kCreateDatabase", d, NoDb)) = c
      BY <2>3, <2>4 DEF replay_record, Written, c
    <3>2. QED
      BY <3>1 DEF Linked, Written, Follows
  <2>5. Does(c, "kCreateDatabase", d, NoDb)
    BY <2>1, <2>2, <2>4 DEF Does, Ops, About
  <2>6. QED
    BY <2>3, <2>5
<1>4. ASSUME NEW d \in Databases, DropDatabase(d)
      PROVE  \E c, op, table, name : Does(c, op, table, name) /\ Logged(c, op, table, name)
  <2> DEFINE dropped == drop_database(catalog, d)
             left == {t \in dropped.tables : t[1] # d}
             c == [dropped EXCEPT !.tables = left]
  <2>1. /\ dropped = Cat([e \in DOMAIN catalog.databases \ {d} |-> catalog.databases[e]],
                         IF catalog.current = d THEN "defaultdb" ELSE catalog.current,
                         catalog.users, catalog.tables)
        /\ dropped \in Catalogs
    BY Operations
  <2>2. Exists(catalog, d) /\ Logged(c, "kDropDatabase", d, NoDb)
    BY <1>4 DEF DropDatabase
  <2>3. left \in SUBSET (DbNames \X Tables) /\ left \subseteq dropped.tables
    BY <2>1, CatalogFields
  <2> HIDE DEF dropped, left
  <2>4. /\ c = Cat(dropped.databases, dropped.current, dropped.users, left)
        /\ c \in Catalogs
    BY <2>1, <2>3, Operations
  <2>5. Good(catalog) => Good(c)
    <3>1. /\ c.current = IF catalog.current = d THEN "defaultdb" ELSE catalog.current
          /\ DOMAIN c.databases = DOMAIN catalog.databases \ {d}
      BY <2>1, <2>4 DEF Cat
    <3>2. QED
      BY <1>1, <1>2, <2>4, <3>1 DEF Good, Exists
  <2> HIDE DEF c
  <2>6. ASSUME NEW seq, catalog # Threw
        PROVE  Linked(catalog, Written(seq, c, "kDropDatabase", d, NoDb))
    <3>1. replay_record(catalog, Written(seq, c, "kDropDatabase", d, NoDb)) = dropped
      BY <2>2, <2>6 DEF replay_record, Written, dropped
    <3>2. Follows(dropped, c)
      BY <2>3, <2>4 DEF Follows, Cat
    <3>3. QED
      BY <3>1, <3>2 DEF Linked, Written
  <2>7. Does(c, "kDropDatabase", d, NoDb)
    BY <2>4, <2>5, <2>6 DEF Does, Ops, About
  <2>8. QED
    BY <2>2, <2>7
<1>5. ASSUME NEW s \in Schemas, CreateSchema(s)
      PROVE  \E c, op, table, name : Does(c, op, table, name) /\ Logged(c, op, table, name)
  <2> DEFINE d == catalog.current
             c == create_schema(catalog, d, s)
  <2>1. d \in DOMAIN catalog.databases /\ Logged(c, "kCreateSchema", d, s)
    BY <1>5 DEF CreateSchema, Exists
  <2>2. /\ c = Cat([e \in DOMAIN catalog.databases |->
                      IF e = d THEN catalog.databases[e] \cup {s} ELSE catalog.databases[e]],
                   catalog.current, catalog.users, catalog.tables)
        /\ c \in Catalogs
    BY <2>1, Operations
  <2>3. Good(catalog) => Good(c)
    BY <2>2 DEF Good, Exists, Cat
  <2> HIDE DEF c
  <2>4. ASSUME NEW seq, catalog # Threw
        PROVE  Linked(catalog, Written(seq, c, "kCreateSchema", d, s))
    <3>1. replay_record(catalog, Written(seq, c, "kCreateSchema", d, s)) = c
      BY <2>1, <2>4 DEF replay_record, Written, c, Exists
    <3>2. QED
      BY <2>1, <3>1 DEF Linked, Written, Follows, Exists
  <2>5. Does(c, "kCreateSchema", d, s)
    BY <1>1, <2>2, <2>3, <2>4 DEF Does, Ops, About
  <2>6. QED
    BY <2>1, <2>5
<1>6. ASSUME NEW u \in Users, CreateUser(u)
      PROVE  \E c, op, table, name : Does(c, op, table, name) /\ Logged(c, op, table, name)
  <2> DEFINE new == catalog.users \cup {u}
             c == [catalog EXCEPT !.users = new]
  <2>1. Logged(c, "kCreateUser", u, NoDb) /\ new \in SUBSET Users /\ catalog.users \subseteq new
    BY <1>1, <1>6 DEF CreateUser
  <2> HIDE DEF new
  <2>2. c = Cat(catalog.databases, catalog.current, new, catalog.tables) /\ c \in Catalogs
    BY <2>1, Operations
  <2> HIDE DEF c
  <2>3. Good(catalog) => Good(c)
    BY <2>2 DEF Good, Exists, Cat
  <2>4. ASSUME NEW seq, catalog # Threw
        PROVE  Linked(catalog, Written(seq, c, "kCreateUser", u, NoDb))
    <3>1. replay_record(catalog, Written(seq, c, "kCreateUser", u, NoDb)) = catalog
      BY <2>4 DEF replay_record, Written
    <3>2. Follows(catalog, c)
      BY <2>1, <2>2 DEF Follows, Cat
    <3>3. QED
      BY <3>1, <3>2 DEF Linked, Written
  <2>5. Does(c, "kCreateUser", u, NoDb)
    BY <2>2, <2>3, <2>4 DEF Does, Ops, About
  <2>6. QED
    BY <2>1, <2>5
<1>7. ASSUME NEW u \in Users, DropUser(u)
      PROVE  \E c, op, table, name : Does(c, op, table, name) /\ Logged(c, op, table, name)
  <2> DEFINE new == catalog.users \ {u}
             c == [catalog EXCEPT !.users = new]
  <2>1. Logged(c, "kDropUser", u, NoDb) /\ new \in SUBSET Users
    BY <1>1, <1>7 DEF DropUser
  <2>2. ASSUME NEW seq, catalog # Threw
        PROVE  replay_record(catalog, Written(seq, c, "kDropUser", u, NoDb)) = c
    BY <2>2 DEF replay_record, Written
  <2> HIDE DEF new
  <2>3. c = Cat(catalog.databases, catalog.current, new, catalog.tables) /\ c \in Catalogs
    BY <2>1, Operations
  <2> HIDE DEF c
  <2>4. Good(catalog) => Good(c)
    BY <2>3 DEF Good, Exists, Cat
  <2>5. ASSUME NEW seq, catalog # Threw
        PROVE  Linked(catalog, Written(seq, c, "kDropUser", u, NoDb))
    BY <2>2, <2>5 DEF Linked, Written, Follows
  <2>6. Does(c, "kDropUser", u, NoDb)
    BY <2>3, <2>4, <2>5 DEF Does, Ops, About
  <2>7. QED
    BY <2>1, <2>6
<1>8. ASSUME NEW t \in Tables, CreateTable(t)
      PROVE  \E c, op, table, name : Does(c, op, table, name) /\ Logged(c, op, table, name)
  <2> DEFINE q == qualify_table_name(catalog, t)
             new == catalog.tables \cup {q}
             c == [catalog EXCEPT !.tables = new]
  <2>1. q \in DbNames \X Tables
    BY <1>1 DEF qualify_table_name
  <2>2. Logged(c, "kCreateTable", q, NoDb)
    BY <1>8 DEF CreateTable
  <2> HIDE DEF q
  <2>3. new \in SUBSET (DbNames \X Tables)
    BY <1>1, <2>1
  <2>4. ASSUME NEW seq, catalog # Threw
        PROVE  replay_record(catalog, Written(seq, c, "kCreateTable", q, NoDb)) = c
    BY <2>4 DEF replay_record, Written
  <2> HIDE DEF new
  <2>5. c = Cat(catalog.databases, catalog.current, catalog.users, new) /\ c \in Catalogs
    BY <2>3, Operations
  <2> HIDE DEF c
  <2>6. Good(catalog) => Good(c)
    BY <2>5 DEF Good, Exists, Cat
  <2>7. ASSUME NEW seq, catalog # Threw
        PROVE  Linked(catalog, Written(seq, c, "kCreateTable", q, NoDb))
    BY <2>4, <2>7 DEF Linked, Written, Follows
  <2>8. Does(c, "kCreateTable", q, NoDb)
    BY <2>1, <2>5, <2>6, <2>7 DEF Does, Ops, About
  <2>9. QED
    BY <2>2, <2>8
<1>9. ASSUME NEW t \in Tables, DropTable(t)
      PROVE  \E c, op, table, name : Does(c, op, table, name) /\ Logged(c, op, table, name)
  <2> DEFINE q == qualify_table_name(catalog, t)
             new == catalog.tables \ {q}
             c == [catalog EXCEPT !.tables = new]
  <2>1. q \in DbNames \X Tables
    BY <1>1 DEF qualify_table_name
  <2>2. Logged(c, "kDropTable", q, NoDb)
    BY <1>9 DEF DropTable
  <2> HIDE DEF q
  <2>3. new \in SUBSET (DbNames \X Tables)
    BY <1>1
  <2>4. ASSUME NEW seq, catalog # Threw
        PROVE  replay_record(catalog, Written(seq, c, "kDropTable", q, NoDb)) = c
    BY <2>4 DEF replay_record, Written
  <2> HIDE DEF new
  <2>5. c = Cat(catalog.databases, catalog.current, catalog.users, new) /\ c \in Catalogs
    BY <2>3, Operations
  <2> HIDE DEF c
  <2>6. Good(catalog) => Good(c)
    BY <2>5 DEF Good, Exists, Cat
  <2>7. ASSUME NEW seq, catalog # Threw
        PROVE  Linked(catalog, Written(seq, c, "kDropTable", q, NoDb))
    BY <2>4, <2>7 DEF Linked, Written, Follows
  <2>8. Does(c, "kDropTable", q, NoDb)
    BY <2>1, <2>5, <2>6, <2>7 DEF Does, Ops, About
  <2>9. QED
    BY <2>2, <2>8
<1>10. QED
  BY <1>3, <1>4, <1>5, <1>6, <1>7, <1>8, <1>9 DEF Call

-----------------------------------------------------------------------------
(* Types.                                                                  *)

LEMMA InitType == Init => TypeInv
<1>1. SUFFICES ASSUME Init PROVE TypeInv
  OBVIOUS
<1>2. Fresh \in Catalogs
  <2>1. Fresh = Cat([d \in {"defaultdb"} |-> {"public"}], "defaultdb", {}, {})
    BY DEF Fresh, Cat
  <2>2. [d \in {"defaultdb"} |-> {"public"}] \in [{"defaultdb"} -> SchemaSets]
    BY DEF SchemaSets
  <2>3. "defaultdb" \in DbNames
    BY DEF DbNames
  <2>4. QED
    BY <2>1, <2>2, <2>3, MakeCatalog
<1>3. IsLog(<<>>)
  BY DEF IsLog
<1>4. QED
  BY <1>1, <1>2, <1>3 DEF Init, TypeInv

\* A checkpoint leaves frames of the file it truncates.
LEMMA CheckpointType ==
    ASSUME NEW c \in Catalogs, NEW seq \in Nat, NEW file, IsLog(file), NEW last \in Nat,
           Checkpoint(c, seq, file, last)
    PROVE  /\ ckp' = [last_seq |-> seq, catalog |-> c]
           /\ IsLog(log') /\ synced' \in 0 .. Len(log')
           /\ {wal_seq', log_seq'} \subseteq Nat
           /\ \A n \in 1 .. Len(log') : \E i \in 1 .. Len(file) : log'[n] = file[i]
<1>1. /\ ckp' = [last_seq |-> seq, catalog |-> c]
      /\ log' = replay(file, seq)
      /\ synced' = Len(log')
      /\ log_seq' = IF log' = <<>> THEN last ELSE log'[Len(log')].seq
      /\ wal_seq' = log_seq'
  BY DEF Checkpoint, truncate
<1>2. /\ IsLog(log')
      /\ \A n \in 1 .. Len(log') : \E i \in 1 .. Len(file) : log'[n] = file[i]
  BY <1>1, ReplayLog
<1>3. ASSUME log' # <<>>
      PROVE  log'[Len(log')].seq \in Nat
  <2>1. Len(log') \in Nat /\ log' = [i \in 1 .. Len(log') |-> log'[i]]
    BY <1>2 DEF IsLog
  <2>2. Len(log') # 0
    <3>1. [i \in 1 .. 0 |-> log'[i]] = <<>>
      OBVIOUS
    <3>2. QED
      BY <1>3, <2>1, <3>1
  <2>3. Len(log') \in 1 .. Len(log')
    BY <2>1, <2>2
  <2>4. QED
    BY <1>2, <2>3 DEF IsLog, IsFrame
<1>4. Len(log') \in Nat
  BY <1>2 DEF IsLog
<1>5. QED
  BY <1>1, <1>2, <1>3, <1>4

\* A log with one more frame.
LEMMA AppendLog ==
    ASSUME NEW file, IsLog(file), NEW f, IsFrame(f)
    PROVE  /\ IsLog(Append(file, f))
           /\ Len(Append(file, f)) = Len(file) + 1
           /\ \A i \in 1 .. Len(file) : Append(file, f)[i] = file[i]
           /\ Append(file, f)[Len(file) + 1] = f
<1> DEFINE n == Len(file)
           F == {file[i] : i \in 1 .. n} \cup {f}
<1>1. n \in Nat /\ file = [i \in 1 .. n |-> file[i]] /\ \A i \in 1 .. n : IsFrame(file[i])
  BY DEF IsLog
<1>2. file \in Seq(F)
  <2>1. \A i \in 1 .. n : file[i] \in F
    OBVIOUS
  <2> HIDE DEF F
  <2>2. [i \in 1 .. n |-> file[i]] \in Seq(F)
    BY <1>1, <2>1
  <2>3. QED
    BY <1>1, <2>2
<1>3. f \in F
  OBVIOUS
<1> HIDE DEF F
<1>4. /\ Append(file, f) \in Seq(F)
      /\ Len(Append(file, f)) = n + 1
      /\ \A i \in 1 .. n : Append(file, f)[i] = file[i]
      /\ Append(file, f)[n + 1] = f
  BY <1>2, <1>3, AppendProperties
<1>5. ASSUME NEW i \in 1 .. n + 1
      PROVE  IsFrame(Append(file, f)[i])
  <2>1. CASE i \in 1 .. n
    <3>1. Append(file, f)[i] = file[i] /\ IsFrame(file[i])
      BY <1>1, <1>4, <2>1
    <3>2. QED
      BY <3>1
  <2>2. CASE i = n + 1
    <3>1. Append(file, f)[i] = f
      BY <1>4, <2>2
    <3>2. QED
      BY <3>1
  <2>3. i \in 1 .. n \/ i = n + 1
    BY <1>1
  <2>4. QED
    BY <2>1, <2>2, <2>3
<1>6. Append(file, f) = [i \in 1 .. n + 1 |-> Append(file, f)[i]]
  <2> DEFINE s == Append(file, f)
  <2>1. s \in Seq(F) /\ Len(s) = n + 1
    BY <1>4
  <2> HIDE DEF s, n
  <2>2. s = [i \in 1 .. Len(s) |-> s[i]]
    BY <2>1
  <2>3. QED
    BY <2>1, <2>2 DEF s
<1>7. QED
  BY <1>1, <1>4, <1>5, <1>6 DEF IsLog

\* The file of a call, before the checkpoint it may end with.
LEMMA WrittenLog ==
    ASSUME TypeInv, NEW c, NEW op, NEW table, NEW name, Does(c, op, table, name)
    PROVE  LET f == Written(wal_seq + 1, c, op, table, name)
           IN  /\ IsFrame(f)
               /\ IsLog(Append(log, f))
               /\ Len(Append(log, f)) = Len(log) + 1
               /\ \A i \in 1 .. Len(log) : Append(log, f)[i] = log[i]
               /\ Append(log, f)[Len(log) + 1] = f
<1>1. IsFrame(Written(wal_seq + 1, c, op, table, name))
  BY DEF TypeInv, Does, IsFrame, Written
<1>2. IsLog(log)
  BY DEF TypeInv
<1>3. QED
  BY <1>1, <1>2, AppendLog

LEMMA LoggedType ==
    ASSUME TypeInv, NEW c, NEW op, NEW table, NEW name,
           Does(c, op, table, name), Logged(c, op, table, name)
    PROVE  TypeInv'
<1> DEFINE f == Written(wal_seq + 1, c, op, table, name)
           file == Append(log, f)
           seq == wal_seq + 1
<1>1. IsLog(file) /\ Len(file) = Len(log) + 1 /\ Len(log) \in Nat /\ seq \in Nat /\ c \in Catalogs
  BY WrittenLog DEF TypeInv, Does, IsLog
<1>2. /\ status = "up" /\ catalog' = c
      /\ \/ Checkpoint(c, seq, file, seq)
         \/ log' = file /\ wal_seq' = seq /\ log_seq' = seq /\ UNCHANGED <<synced, ckp>>
      /\ UNCHANGED <<using, status, crashes>>
  BY DEF Logged, Written
<1> HIDE DEF seq, file
<1>3. CASE Checkpoint(c, seq, file, seq)
  <2>1. /\ ckp' = [last_seq |-> seq, catalog |-> c]
        /\ IsLog(log') /\ synced' \in 0 .. Len(log')
        /\ {wal_seq', log_seq'} \subseteq Nat
    BY <1>1, <1>3, CheckpointType
  <2>2. QED
    BY <1>1, <1>2, <2>1 DEF TypeInv
<1>4. CASE log' = file /\ wal_seq' = seq /\ log_seq' = seq /\ UNCHANGED <<synced, ckp>>
  <2>1. synced' \in 0 .. Len(log')
    BY <1>1, <1>4 DEF TypeInv
  <2>2. QED
    BY <1>1, <1>2, <1>4, <2>1 DEF TypeInv
<1>5. QED
  BY <1>2, <1>3, <1>4

LEMMA UseType ==
    ASSUME TypeInv,
           \E s \in Sessions : UseAssign(s)
              \/ \E d \in Databases \cup {"defaultdb"} : UseFound(s, d)
    PROVE  TypeInv'
<1>1. UNCHANGED <<wal_seq, log, log_seq, synced, ckp, status, crashes>> /\ status = "up"
  BY DEF UseAssign, UseFound
<1>2. ASSUME NEW s \in Sessions, UseAssign(s)
      PROVE  TypeInv'
  <2>1. using[s] \in DbNames /\ catalog \in Catalogs
    BY <1>1, <1>2 DEF UseAssign, TypeInv
  <2>2. catalog' \in Catalogs
    BY <1>2, <2>1, Operations DEF UseAssign
  <2>3. using' \in [Sessions -> DbNames \cup {NoDb}]
    BY <1>2 DEF UseAssign, TypeInv
  <2>4. QED
    BY <1>1, <2>2, <2>3 DEF TypeInv
<1>3. ASSUME NEW s \in Sessions, NEW d \in Databases \cup {"defaultdb"}, UseFound(s, d)
      PROVE  TypeInv'
  <2>1. using' \in [Sessions -> DbNames \cup {NoDb}] /\ catalog' = catalog
    BY <1>3 DEF UseFound, TypeInv, DbNames
  <2>2. QED
    BY <1>1, <2>1 DEF TypeInv
<1>4. QED
  BY <1>2, <1>3

LEMMA StopType ==
    ASSUME TypeInv, Stop
    PROVE  TypeInv'
<1>1. /\ status = "up" /\ status' = "stopped"
      /\ Checkpoint(catalog, wal_seq, log, log_seq)
      /\ UNCHANGED <<catalog, using, crashes>>
  BY DEF Stop
<1>2. /\ ckp' = [last_seq |-> wal_seq, catalog |-> catalog]
      /\ IsLog(log') /\ synced' \in 0 .. Len(log')
      /\ {wal_seq', log_seq'} \subseteq Nat
  BY <1>1, CheckpointType DEF TypeInv
<1>3. QED
  BY <1>1, <1>2 DEF TypeInv

\* The first frames of a log, and a piece of the next one.
LEMMA CrashLog ==
    ASSUME TypeInv, NEW n \in 0 .. Len(log), Crash(n)
    PROVE  /\ IsLog(log') /\ Len(log') \in {n, n + 1} /\ Len(log') <= Len(log)
           /\ \A i \in 1 .. n : log'[i] = log[i]
           /\ Len(log') = n + 1 =>
                 \E tear \in Tears : log'[n + 1] = [log[n + 1] EXCEPT !.state = tear]
<1> DEFINE head == SubSeq(log, 1, n)
<1>1. Len(log) \in Nat /\ n \in Nat /\ \A i \in 1 .. Len(log) : IsFrame(log[i])
  BY DEF TypeInv, IsLog
<1>2. /\ head = [i \in 1 .. n |-> log[i]]
      /\ Len(head) = n
  <2> DEFINE F == {log[i] : i \in 1 .. Len(log)}
  <2>1. log \in Seq(F)
    <3>1. log = [i \in 1 .. Len(log) |-> log[i]]
      BY DEF TypeInv, IsLog
    <3>2. [i \in 1 .. Len(log) |-> log[i]] \in Seq(F)
      BY <1>1
    <3> HIDE DEF F
    <3>3. QED
      BY <3>1, <3>2
  <2> HIDE DEF F
  <2>2. QED
    BY <1>1, <2>1
<1> HIDE DEF head
<1>3. \A i \in 1 .. n : head[i] = log[i] /\ IsFrame(log[i])
  BY <1>1, <1>2
<1>4. IsLog(head)
  BY <1>1, <1>2, <1>3 DEF IsLog
<1>5. CASE log' = head
  BY <1>1, <1>2, <1>3, <1>4, <1>5
<1>6. ASSUME n < Len(log), NEW tear \in Tears,
             log' = Append(head, [log[n + 1] EXCEPT !.state = tear])
      PROVE  /\ IsLog(log') /\ Len(log') = n + 1
             /\ \A i \in 1 .. n : log'[i] = log[i]
             /\ log'[n + 1] = [log[n + 1] EXCEPT !.state = tear]
  <2> DEFINE f == [log[n + 1] EXCEPT !.state = tear]
  <2>1. IsFrame(f)
    <3>1. IsFrame(log[n + 1])
      BY <1>1, <1>6
    <3>2. f = [seq |-> log[n + 1].seq, op |-> log[n + 1].op, table |-> log[n + 1].table,
               name |-> log[n + 1].name, state |-> tear, after |-> log[n + 1].after]
      BY <3>1 DEF IsFrame
    <3> HIDE DEF f
    <3>3. QED
      BY <1>6, <3>1, <3>2 DEF IsFrame
  <2> HIDE DEF f
  <2>2. /\ IsLog(Append(head, f)) /\ Len(Append(head, f)) = n + 1
        /\ \A i \in 1 .. n : Append(head, f)[i] = head[i]
        /\ Append(head, f)[n + 1] = f
    BY <1>2, <1>4, <2>1, AppendLog
  <2>3. QED
    BY <1>3, <1>6, <2>2 DEF f
<1>7. \/ log' = head
      \/ n < Len(log) /\ \E tear \in Tears :
            log' = Append(head, [log[n + 1] EXCEPT !.state = tear])
  BY DEF Crash, head
<1>8. CASE n < Len(log) /\ \E tear \in Tears :
             log' = Append(head, [log[n + 1] EXCEPT !.state = tear])
  <2>1. PICK tear \in Tears : log' = Append(head, [log[n + 1] EXCEPT !.state = tear])
    BY <1>8
  <2>2. /\ IsLog(log') /\ Len(log') = n + 1
        /\ \A i \in 1 .. n : log'[i] = log[i]
        /\ log'[n + 1] = [log[n + 1] EXCEPT !.state = tear]
    BY <1>6, <1>8, <2>1
  <2>3. Len(log') <= Len(log)
    BY <1>1, <1>8, <2>2
  <2>4. QED
    BY <2>2, <2>3
<1>9. QED
  BY <1>5, <1>7, <1>8

LEMMA CrashType ==
    ASSUME TypeInv, NEW n \in 0 .. Len(log), Crash(n)
    PROVE  TypeInv'
<1>1. /\ n \in synced .. Len(log) /\ status = "up" /\ status' = "crashed"
      /\ crashes' = crashes + 1
      /\ using' = [s \in Sessions |-> NoDb]
      /\ UNCHANGED <<catalog, wal_seq, log_seq, synced, ckp>>
  BY DEF Crash
<1>2. IsLog(log') /\ Len(log') \in {n, n + 1}
  BY CrashLog
<1>3. synced' \in 0 .. Len(log')
  <2>1. Len(log) \in Nat /\ synced \in Nat
    BY DEF TypeInv, IsLog
  <2>2. QED
    BY <1>1, <1>2, <2>1
<1>4. QED
  BY <1>1, <1>2, <1>3 DEF TypeInv

\* The start: what load ends with, and the two counters.
LEMMA StartIs ==
    ASSUME TypeInv, Start
    PROVE  /\ status \in {"stopped", "crashed"}
           /\ LET loaded == Loaded(ckp.catalog, replay(log, ckp.last_seq))
              IN  /\ catalog' = loaded
                  /\ status' = IF loaded = Threw THEN "failed" ELSE "up"
                  /\ Good(loaded) \/ loaded = Threw
           /\ wal_seq' = ckp.last_seq
           /\ UNCHANGED <<using, log, ckp, due, crashes>>
<1>1. IsLog(log) /\ ckp.catalog \in Catalogs
  BY DEF TypeInv
<1>2. IsLog(replay(log, ckp.last_seq))
  BY <1>1, ReplayLog
<1>3. QED
  BY <1>1, <1>2, LoadedType DEF Start

LEMMA StartType ==
    ASSUME TypeInv, Start
    PROVE  TypeInv'
<1>1. /\ status' \in {"up", "failed"}
      /\ status' # "failed" => catalog' \in Catalogs
      /\ wal_seq' = ckp.last_seq
      /\ UNCHANGED <<using, log, ckp, crashes>>
  BY StartIs DEF Good
<1>2. log_seq' \in Nat /\ synced' = Len(log) /\ Len(log) \in Nat
  <2>1. IsLog(log)
    BY DEF TypeInv
  <2>2. LastSeq(log) \in Nat
    BY <2>1, LastSeqType
  <2>3. QED
    BY <2>1, <2>2 DEF Start, IsLog
<1>3. QED
  BY <1>1, <1>2 DEF TypeInv

LEMMA TypeStep == TypeInv /\ [Next]_vars => TypeInv'
<1>1. SUFFICES ASSUME TypeInv, [Next]_vars
               PROVE  TypeInv'
  OBVIOUS
<1>2. CASE Call
  <2>1. catalog \in Catalogs
    BY <1>1, <1>2 DEF TypeInv, Call, CreateDatabase, DropDatabase, CreateSchema, CreateUser,
                      DropUser, CreateTable, DropTable, Logged
  <2>2. QED
    BY <1>1, <1>2, <2>1, CallIs, LoggedType
<1>3. CASE \E s \in Sessions : UseAssign(s)
              \/ \E d \in Databases \cup {"defaultdb"} : UseFound(s, d)
  BY <1>1, <1>3, UseType
<1>4. CASE Stop
  BY <1>1, <1>4, StopType
<1>5. CASE \E n \in 0 .. Len(log) : Crash(n)
  BY <1>1, <1>5, CrashType
<1>6. CASE Start
  BY <1>1, <1>6, StartType
<1>7. CASE UNCHANGED vars
  BY <1>1, <1>7 DEF vars, TypeInv, IsLog
<1>8. QED
  BY <1>1, <1>2, <1>3, <1>4, <1>5, <1>6, <1>7 DEF Next, Call

-----------------------------------------------------------------------------
(* Until the first crash, and the start after it.                          *)

\* A file without later frames is truncated to nothing.
LEMMA ReplayNothing ==
    ASSUME NEW file, NEW seq \in Nat, Len(file) \in Nat,
           \A i \in 1 .. Len(file) : file[i].seq \in Nat /\ file[i].seq <= seq
    PROVE  replay(file, seq) = <<>>
<1>1. {i \in Records(file) : file[i].seq > seq} = {}
  BY DEF Records
<1>2. Cardinality({}) = 0
  BY FS_EmptySet
<1>3. Frames(file, {}) = <<>>
  BY <1>2 DEF Frames
<1>4. QED
  BY <1>1, <1>3 DEF replay

\* The numbers of the frames.
LEMMA LinearSeq ==
    ASSUME TypeInv, BeforeCrash, status = "up"
    PROVE  /\ Len(log) \in Nat /\ ckp.last_seq \in Nat /\ wal_seq \in Nat
           /\ \A i \in 1 .. Len(log) :
                 /\ log[i].seq \in Nat /\ log[i].seq <= wal_seq
                 /\ log[i].state = Whole
<1>1. Len(log) \in Nat /\ ckp.last_seq \in Nat
  BY DEF TypeInv, IsLog
<1>2. wal_seq = ckp.last_seq + Len(log)
      /\ \A i \in 1 .. Len(log) : log[i].seq = ckp.last_seq + i /\ log[i].state = Whole
  BY DEF BeforeCrash, Linear
<1>3. QED
  BY <1>1, <1>2

LEMMA FollowsSame ==
    ASSUME NEW c \in Catalogs, NEW b \in Catalogs, SameBut(b, c),
           NEW f, IsFrame(f), Linked(c, f)
    PROVE  Linked(b, f)
<1>1. Follows(b, c) /\ b.databases = c.databases
  BY DEF SameBut, Follows
<1>2. Follows(replay_record(b, f), replay_record(c, f))
  BY <1>1, CatalogsNotThrown, ReplayFollows DEF Linked
<1>3. QED
  BY <1>1, <1>2 DEF Linked, Follows, Exists

LEMMA BeforeCrashAtCall ==
    ASSUME TypeInv, BeforeCrash,
           NEW c, NEW op, NEW table, NEW name,
           Does(c, op, table, name), Logged(c, op, table, name)
    PROVE  BeforeCrash'
<1> DEFINE f == Written(wal_seq + 1, c, op, table, name)
           file == Append(log, f)
           seq == wal_seq + 1
           n == Len(log)
<1>1. /\ IsLog(file) /\ Len(file) = n + 1 /\ IsFrame(f)
      /\ \A i \in 1 .. n : file[i] = log[i]
      /\ file[n + 1] = f
  BY WrittenLog
<1>2. /\ status = "up" /\ status' = "up" /\ catalog' = c /\ due' = NoCatalog
      /\ \/ Checkpoint(c, seq, file, seq)
         \/ log' = file /\ wal_seq' = seq /\ UNCHANGED ckp
  BY DEF Logged, Written
<1>3. /\ n \in Nat /\ ckp.last_seq \in Nat /\ wal_seq \in Nat /\ seq \in Nat
      /\ \A i \in 1 .. n : log[i].seq \in Nat /\ log[i].seq <= wal_seq
  BY <1>2, LinearSeq
<1>4. /\ f.seq = seq /\ f.state = Whole /\ f.after = c
      /\ wal_seq = ckp.last_seq + n
  BY <1>2 DEF Written, BeforeCrash
<1>5. due'.kind = "none"
  BY <1>2 DEF NoCatalog
<1>6. Linked(AfterFrame(n), f)
  <2>1. catalog \in Catalogs /\ SameBut(AfterFrame(n), catalog)
    BY <1>2 DEF TypeInv, BeforeCrash
  <2>2. AfterFrame(n) \in Catalogs
    BY <1>3 DEF AfterFrame, TypeInv, IsLog, IsFrame
  <2>3. Linked(catalog, f)
    BY <1>3, <2>1, CatalogsNotThrown DEF Does
  <2> HIDE DEF f
  <2>4. QED
    BY <1>1, <2>1, <2>2, <2>3, FollowsSame
<1> HIDE DEF f, file, seq, n
<1>7. CASE Checkpoint(c, seq, file, seq)
  <2>1. ASSUME NEW i \in 1 .. Len(file)
        PROVE  file[i].seq \in Nat /\ file[i].seq <= seq
    <3>1. CASE i \in 1 .. n
      BY <1>1, <1>3, <3>1 DEF seq
    <3>2. CASE i = n + 1
      BY <1>1, <1>3, <1>4, <3>2
    <3>3. QED
      BY <1>1, <1>3, <3>1, <3>2
  <2>2. replay(file, seq) = <<>>
    BY <1>1, <1>3, <2>1, ReplayNothing
  <2>3. /\ ckp' = [last_seq |-> seq, catalog |-> c] /\ log' = <<>> /\ wal_seq' = seq
    BY <1>7, <2>2 DEF Checkpoint, truncate
  <2>4. Len(log') = 0 /\ AfterFrame(0)' = c
    BY <2>3 DEF AfterFrame
  <2>5. Linear(0)'
    BY DEF Linear
  <2>6. wal_seq' = ckp'.last_seq + Len(log')
    BY <1>3, <2>3, <2>4
  <2>7. QED
    BY <1>2, <1>5, <2>4, <2>5, <2>6 DEF BeforeCrash, SameBut
<1>8. CASE log' = file /\ wal_seq' = seq /\ UNCHANGED ckp
  <2>1. ASSUME NEW i \in 0 .. n
        PROVE  AfterFrame(i)' = AfterFrame(i)
    BY <1>1, <1>3, <1>8 DEF AfterFrame
  <2>2. ASSUME NEW i \in 1 .. n + 1
        PROVE  /\ log'[i].seq = ckp'.last_seq + i
               /\ log'[i].state = Whole
               /\ Linked(AfterFrame(i - 1)', log'[i])
    <3>1. CASE i \in 1 .. n
      <4>1. log'[i] = log[i] /\ i - 1 \in 0 .. n
        BY <1>1, <1>3, <1>8, <3>1
      <4>2. /\ log[i].seq = ckp.last_seq + i /\ log[i].state = Whole
            /\ Linked(AfterFrame(i - 1), log[i])
        BY <1>2, <3>1 DEF BeforeCrash, Linear, n
      <4>3. QED
        BY <1>8, <2>1, <4>1, <4>2
    <3>2. CASE i = n + 1
      <4>1. log'[i] = f /\ i - 1 = n /\ n \in 0 .. n
        BY <1>1, <1>3, <1>8, <3>2
      <4>2. seq = ckp'.last_seq + i
        BY <1>3, <1>4, <1>8, <3>2 DEF seq
      <4>3. QED
        BY <1>4, <1>6, <2>1, <4>1, <4>2
    <3>3. QED
      BY <1>3, <3>1, <3>2
  <2>3. Len(log') = n + 1
    BY <1>1, <1>8
  <2>4. Linear(Len(log))'
    BY <2>2, <2>3 DEF Linear
  <2>5. wal_seq' = ckp'.last_seq + Len(log')
    BY <1>3, <1>4, <1>8, <2>3 DEF seq
  <2>6. AfterFrame(Len(log))' = c
    BY <1>1, <1>3, <1>4, <1>8, <2>3 DEF AfterFrame
  <2>7. SameBut(AfterFrame(Len(log)), catalog)'
    BY <1>2, <2>6 DEF SameBut
  <2>8. QED
    BY <1>2, <1>5, <2>4, <2>5, <2>7 DEF BeforeCrash
<1>9. QED
  BY <1>2, <1>7, <1>8

LEMMA BeforeCrashAtUse ==
    ASSUME TypeInv, BeforeCrash,
           \E s \in Sessions : UseAssign(s)
              \/ \E d \in Databases \cup {"defaultdb"} : UseFound(s, d)
    PROVE  BeforeCrash'
<1>1. UNCHANGED <<wal_seq, log, ckp, status>> /\ status = "up"
  BY DEF UseAssign, UseFound
<1>2. /\ Linear(Len(log))' /\ wal_seq' = ckp'.last_seq + Len(log')
      /\ AfterFrame(Len(log))' = AfterFrame(Len(log))
      /\ SameBut(AfterFrame(Len(log)), catalog)
  BY <1>1 DEF BeforeCrash, Linear, AfterFrame
<1>3. ASSUME NEW s \in Sessions, UseAssign(s)
      PROVE  SameBut(AfterFrame(Len(log)), catalog)' /\ due'.kind = "none"
  <2>1. /\ using[s] \in DbNames /\ catalog \in Catalogs
        /\ catalog' = [catalog EXCEPT !.current = using[s]]
        /\ due' = NoCatalog
    BY <1>1, <1>3 DEF UseAssign, TypeInv
  <2>2. catalog' = Cat(catalog.databases, using[s], catalog.users, catalog.tables)
    BY <2>1, Operations
  <2>3. QED
    BY <1>2, <2>1, <2>2 DEF SameBut, Cat, NoCatalog
<1>4. ASSUME NEW s \in Sessions, NEW d \in Databases \cup {"defaultdb"}, UseFound(s, d)
      PROVE  UNCHANGED <<catalog, due>>
  BY <1>4 DEF UseFound
<1>5. CASE \E s \in Sessions : UseAssign(s)
  BY <1>1, <1>2, <1>3, <1>5 DEF BeforeCrash
<1>6. CASE UNCHANGED <<catalog, due>>
  BY <1>1, <1>2, <1>6 DEF BeforeCrash
<1>7. QED
  BY <1>4, <1>5, <1>6

LEMMA BeforeCrashAtStop ==
    ASSUME TypeInv, BeforeCrash, Stop
    PROVE  BeforeCrash'
<1>1. /\ status = "up" /\ status' = "stopped"
      /\ Checkpoint(catalog, wal_seq, log, log_seq)
      /\ due' = [kind |-> "stop", catalog |-> catalog]
  BY DEF Stop
<1>2. replay(log, wal_seq) = <<>>
  BY <1>1, LinearSeq, ReplayNothing
<1>3. log' = <<>> /\ ckp' = [last_seq |-> wal_seq, catalog |-> catalog]
  BY <1>1, <1>2 DEF Checkpoint, truncate
<1>4. QED
  BY <1>1, <1>3 DEF BeforeCrash

\* With no record to replay, load ends with the catalog of the checkpoint.
LEMMA BeforeCrashAtStart ==
    ASSUME TypeInv, BeforeCrash, Start
    PROVE  BeforeCrash'
<1>1. /\ status = "stopped" /\ log = <<>>
      /\ due.kind = "stop" /\ due.catalog = ckp.catalog
  BY DEF BeforeCrash, Start
<1>2. /\ catalog' = Loaded(ckp.catalog, replay(log, ckp.last_seq))
      /\ status' = IF catalog' = Threw THEN "failed" ELSE "up"
      /\ wal_seq' = ckp.last_seq
      /\ UNCHANGED <<log, ckp, due>>
  BY DEF Start
<1>3. replay(log, ckp.last_seq) = <<>>
  BY <1>1, ReplayNothing DEF TypeInv
<1>4. ckp.catalog \in Catalogs /\ ckp.last_seq \in Nat
  BY DEF TypeInv
<1>5. catalog' = IF Loadable THEN ckp.catalog ELSE Threw
  <2>1. PICK g : Stages(ckp.catalog, <<>>, g) /\ Loaded(ckp.catalog, <<>>) = g[0]
    BY LoadedStages
  <2>2. QED
    BY <1>2, <1>3, <2>1 DEF Stages, catalog_decode, Loadable
<1>6. CASE ~Loadable
  <2>1. status' = "failed" /\ ~Loadable'
    BY <1>2, <1>5, <1>6 DEF Loadable
  <2>2. QED
    BY <2>1 DEF BeforeCrash
<1>7. CASE Loadable
  <2>1. catalog' = ckp.catalog /\ status' = "up"
    BY <1>2, <1>4, <1>5, <1>7, CatalogsNotThrown
  <2>2. /\ Len(log') = 0 /\ AfterFrame(Len(log))' = ckp.catalog
        /\ Linear(Len(log))'
        /\ wal_seq' = ckp'.last_seq + Len(log')
    BY <1>1, <1>2, <1>4 DEF AfterFrame, Linear
  <2>3. QED
    BY <1>1, <1>2, <2>1, <2>2 DEF BeforeCrash, SameBut
<1>8. QED
  BY <1>6, <1>7

\* The crash keeps frames that are linked, and the start owes what they say.
LEMMA FirstCrash ==
    ASSUME TypeInv, BeforeCrash, NEW n \in 0 .. Len(log), Crash(n)
    PROVE  AfterCrash'
<1>1. /\ status = "up" /\ status' = "crashed"
      /\ due' = [kind |-> "crash", catalog |-> AfterFile(SubSeq(log, 1, n))]
      /\ UNCHANGED ckp
  BY DEF Crash
<1>2. /\ IsLog(log') /\ Len(log') \in {n, n + 1} /\ Len(log') <= Len(log)
      /\ \A i \in 1 .. n : log'[i] = log[i]
      /\ Len(log') = n + 1 =>
            \E tear \in Tears : log'[n + 1] = [log[n + 1] EXCEPT !.state = tear]
  BY CrashLog
<1>3. /\ Len(log) \in Nat /\ n \in Nat
      /\ \A i \in 1 .. Len(log) : IsFrame(log[i]) /\ log[i].state = Whole
  BY <1>1, LinearSeq DEF TypeInv, IsLog
<1>4. ASSUME NEW i \in 0 .. n
      PROVE  AfterFrame(i)' = AfterFrame(i)
  BY <1>1, <1>2, <1>3 DEF AfterFrame
<1>5. Linear(n)'
  <2>1. ASSUME NEW i \in 1 .. n
        PROVE  /\ log'[i].seq = ckp'.last_seq + i
               /\ log'[i].state = Whole
               /\ Linked(AfterFrame(i - 1)', log'[i])
    <3>1. i \in 1 .. Len(log) /\ i - 1 \in 0 .. n /\ log'[i] = log[i]
      BY <1>2, <1>3
    <3>2. /\ log[i].seq = ckp.last_seq + i /\ log[i].state = Whole
          /\ Linked(AfterFrame(i - 1), log[i])
      BY <1>1, <3>1 DEF BeforeCrash, Linear
    <3>3. QED
      BY <1>1, <1>4, <3>1, <3>2
  <2>2. QED
    BY <2>1 DEF Linear
<1>6. Len(log') = n \/ (Len(log') = n + 1 /\ log'[n + 1].state.torn)
  <2>1. ASSUME Len(log') = n + 1
        PROVE  log'[n + 1].state.torn
    <3>1. n + 1 \in 1 .. Len(log) /\ IsFrame(log[n + 1])
      BY <1>2, <1>3, <2>1
    <3>2. PICK tear \in Tears : log'[n + 1] = [log[n + 1] EXCEPT !.state = tear]
      BY <1>2, <2>1
    <3>3. log'[n + 1].state = tear
      BY <3>1, <3>2 DEF IsFrame
    <3>4. QED
      BY <3>3 DEF Tears
  <2>2. QED
    BY <1>2, <2>1
<1>7. AfterFile(SubSeq(log, 1, n)) = AfterFrame(n)
  <2> DEFINE head == SubSeq(log, 1, n)
  <2>1. Len(head) = n /\ \A i \in 1 .. n : head[i] = log[i]
    <3>1. head = [i \in 1 .. n |-> log[i]]
      <4> DEFINE F == {log[i] : i \in 1 .. Len(log)}
      <4>1. log \in Seq(F)
        <5>1. log = [i \in 1 .. Len(log) |-> log[i]]
          BY DEF TypeInv, IsLog
        <5>2. [i \in 1 .. Len(log) |-> log[i]] \in Seq(F)
          BY <1>3
        <5> HIDE DEF F
        <5>3. QED
          BY <5>1, <5>2
      <4> HIDE DEF F
      <4>2. QED
        BY <1>3, <4>1
    <3>2. QED
      BY <1>3, <3>1
  <2> HIDE DEF head
  <2>2. {i \in 1 .. Len(head) : ~head[i].state.torn} = 1 .. n
    BY <1>3, <2>1 DEF Whole
  <2>3. CASE n = 0
    BY <2>2, <2>3 DEF AfterFile, AfterFrame, head
  <2>4. CASE n # 0
    <3>1. n \in 1 .. n /\ (CHOOSE i \in 1 .. n : \A j \in 1 .. n : j <= i) = n
      BY <1>3, <2>4
    <3>2. AfterFile(head) = head[n].after
      BY <2>2, <3>1 DEF AfterFile
    <3>3. QED
      BY <2>1, <2>4, <3>1, <3>2 DEF AfterFrame, head
  <2>5. QED
    BY <2>3, <2>4
<1>8. due'.kind = "crash" /\ due'.catalog = AfterFrame(n)'
  BY <1>1, <1>3, <1>4, <1>7
<1>9. n \in 0 .. Len(log')
  BY <1>2, <1>3
<1>10. QED
  BY <1>1, <1>5, <1>6, <1>8, <1>9 DEF AfterCrash

\* Of the file a crash left, replay returns the frames that are whole.
LEMMA ReplayPrefix ==
    ASSUME TypeInv, NEW n \in 0 .. Len(log), Linear(n),
           Len(log) = n \/ (Len(log) = n + 1 /\ log[n + 1].state.torn)
    PROVE  replay(log, ckp.last_seq) = [i \in 1 .. n |-> log[i]]
<1>1. /\ Len(log) \in Nat /\ n \in Nat /\ ckp.last_seq \in Nat
      /\ \A i \in 1 .. Len(log) : IsFrame(log[i])
      /\ \A i \in 1 .. n : log[i].seq = ckp.last_seq + i /\ log[i].state = Whole
  BY DEF TypeInv, IsLog, Linear
<1>2. ASSUME NEW i \in 1 .. n
      PROVE  DecodedAt(log, i) = "record"
  BY <1>1 DEF DecodedAt, Whole
<1>3. ASSUME Len(log) = n + 1
      PROVE  DecodedAt(log, n + 1) = "incomplete"
  <2>1. n + 1 \in 1 .. Len(log) /\ log[n + 1].state.torn
    <3>1. n + 1 # n /\ n + 1 \in 1 .. n + 1
      BY <1>1
    <3>2. QED
      BY <1>3, <3>1
  <2>2. log[n + 1].state \in Tears
    <3>1. log[n + 1].state \in {Whole} \cup Tears
      BY <1>1, <2>1 DEF IsFrame
    <3>2. ~Whole.torn
      BY DEF Whole
    <3>3. log[n + 1].state # Whole
      BY <2>1, <3>2
    <3>4. QED
      BY <3>1, <3>3
  <2>3. log[n + 1].state.need \in 1 .. 2
    <3>1. \A tear \in Tears : tear.need \in 1 .. 2
      BY DEF Tears
    <3>2. QED
      BY <2>2, <3>1
  <2>4. Len(log) - (n + 1) < log[n + 1].state.need
    BY <1>1, <1>3, <2>3
  <2>5. QED
    BY <2>1, <2>4 DEF DecodedAt
<1>4. Records(log) = 1 .. n
  <2>1. ASSUME NEW i \in 1 .. n
        PROVE  i \in Records(log)
    <3>1. log[1].state.magic
      BY <1>1 DEF Whole
    <3>2. \A j \in 1 .. i : DecodedAt(log, j) # "incomplete"
      BY <1>1, <1>2
    <3>3. i \in 1 .. Len(log)
      BY <1>1
    <3>4. QED
      BY <1>2, <3>1, <3>2, <3>3 DEF Records, Reached
  <2>2. ASSUME NEW i \in Records(log)
        PROVE  i \in 1 .. n
    <3>1. i \in 1 .. Len(log) /\ DecodedAt(log, i) = "record"
      BY DEF Records
    <3>2. i # n + 1
      BY <1>1, <1>3, <3>1
    <3>3. QED
      BY <1>1, <3>1, <3>2
  <2>3. QED
    BY <2>1, <2>2
<1>5. {i \in Records(log) : log[i].seq > ckp.last_seq} = 1 .. n
  <2>1. \A i \in 1 .. n : log[i].seq > ckp.last_seq
    BY <1>1
  <2>2. QED
    BY <1>4, <2>1
<1>6. replay(log, ckp.last_seq) = Frames(log, 1 .. n)
  BY <1>5 DEF replay
<1>7. QED
  BY <1>1, <1>6, FramesPrefix

LEMMA AfterCrashAtStart ==
    ASSUME TypeInv, AfterCrash, Start
    PROVE  AfterCrash'
<1>1. /\ status \in {"stopped", "crashed"}
      /\ catalog' = Loaded(ckp.catalog, replay(log, ckp.last_seq))
      /\ status' = IF catalog' = Threw THEN "failed" ELSE "up"
      /\ UNCHANGED <<ckp, due>>
  BY DEF Start
<1>2. CASE status = "stopped"
  BY <1>1, <1>2 DEF AfterCrash
<1>3. CASE status = "crashed"
  <2>1. PICK n \in 0 .. Len(log) :
           /\ Linear(n)
           /\ Len(log) = n \/ (Len(log) = n + 1 /\ log[n + 1].state.torn)
           /\ due.kind = "crash" /\ due.catalog = AfterFrame(n)
    BY <1>3 DEF AfterCrash
  <2>2. status' \in {"up", "failed"} /\ due'.kind = "crash"
    BY <1>1, <2>1
  <2>3. ASSUME Loadable
        PROVE  status' = "up" /\ Follows(catalog', due'.catalog)
    <3>1. Good(catalog') /\ Follows(catalog', AfterFrame(n))
      BY <1>1, <2>1, <2>3, ReplayPrefix, LoadedFollows
    <3>2. QED
      BY <1>1, <2>1, <3>1, CatalogsNotThrown DEF Good
  <2>4. Loadable' => Loadable
    BY <1>1 DEF Loadable
  <2>5. QED
    BY <2>2, <2>3, <2>4 DEF AfterCrash
<1>4. QED
  BY <1>1, <1>2, <1>3

LEMMA FirstCrashStep ==
    ASSUME TypeInv, FirstCrashInv, [Next]_vars
    PROVE  FirstCrashInv'
<1>1. crashes \in Nat
  BY DEF TypeInv
<1>2. CASE Call
  <2>1. /\ catalog \in Catalogs /\ UNCHANGED crashes
        /\ status' = "up" /\ due' = NoCatalog
    BY <1>2 DEF TypeInv, Call, CreateDatabase, DropDatabase, CreateSchema, CreateUser,
                DropUser, CreateTable, DropTable, Logged
  <2>2. crashes = 0 => BeforeCrash'
    BY <1>2, <2>1, CallIs, BeforeCrashAtCall DEF FirstCrashInv
  <2>3. AfterCrash'
    BY <2>1 DEF AfterCrash, NoCatalog
  <2>4. QED
    BY <2>1, <2>2, <2>3 DEF FirstCrashInv
<1>3. CASE \E s \in Sessions : UseAssign(s)
              \/ \E d \in Databases \cup {"defaultdb"} : UseFound(s, d)
  <2>1. /\ UNCHANGED <<crashes, status, ckp>> /\ status = "up"
        /\ due' = NoCatalog \/ UNCHANGED <<catalog, due>>
    BY <1>3 DEF UseAssign, UseFound
  <2>2. crashes = 0 => BeforeCrash'
    BY <1>3, BeforeCrashAtUse DEF FirstCrashInv
  <2>3. AfterCrash => AfterCrash'
    BY <2>1 DEF AfterCrash, NoCatalog, Loadable
  <2>4. QED
    BY <2>1, <2>2, <2>3 DEF FirstCrashInv
<1>4. CASE Stop
  <2>1. UNCHANGED crashes /\ status' = "stopped" /\ due'.kind = "stop"
    BY <1>4 DEF Stop
  <2>2. crashes = 0 => BeforeCrash'
    BY <1>4, BeforeCrashAtStop DEF FirstCrashInv
  <2>3. AfterCrash'
    BY <2>1 DEF AfterCrash
  <2>4. QED
    BY <2>1, <2>2, <2>3 DEF FirstCrashInv
<1>5. ASSUME NEW n \in 0 .. Len(log), Crash(n)
      PROVE  FirstCrashInv'
  <2>1. crashes' = crashes + 1
    BY <1>5 DEF Crash
  <2>2. crashes = 0 => AfterCrash'
    BY <1>5, FirstCrash DEF FirstCrashInv
  <2>3. QED
    BY <1>1, <2>1, <2>2 DEF FirstCrashInv
<1>6. CASE Start
  <2>1. UNCHANGED crashes
    BY <1>6 DEF Start
  <2>2. QED
    BY <1>6, <2>1, BeforeCrashAtStart, AfterCrashAtStart DEF FirstCrashInv
<1>7. CASE UNCHANGED vars
  BY <1>7 DEF vars, FirstCrashInv, BeforeCrash, AfterCrash, Linear, AfterFrame, Loadable
<1>8. QED
  BY <1>2, <1>3, <1>4, <1>5, <1>6, <1>7 DEF Next, Call

-----------------------------------------------------------------------------
(* The theorems.                                                           *)

\* The variables have their types, whatever crashes and however many
\* sessions: load gives a catalog or throws, and truncate a log.
THEOREM TypeCorrect == Spec => []TypeOK
<1>1. TypeInv => TypeOK
  <2>1. ASSUME NEW c \in Catalogs
        PROVE  CatalogOK(c)
    <3>1. \A d \in DOMAIN c.databases : c.databases[d] \in SchemaSets
      BY CatalogFields
    <3>2. QED
      BY <3>1, CatalogFields DEF CatalogOK, SchemaSets
  <2>2. \A c \in Catalogs : Exists(c, "defaultdb")
    BY DEF Catalogs
  <2>3. QED
    BY <2>1, <2>2 DEF TypeInv, TypeOK
<1>2. QED
  BY InitType, TypeStep, <1>1, PTL DEF Spec

\* The whole invariant (StorageEngine, DDL, load).
THEOREM Inductive == Spec => []IInv
<1>1. Init => IInv
  <2>1. SUFFICES ASSUME Init
                 PROVE  IInv
    OBVIOUS
  <2>2. TypeInv
    BY <2>1, InitType
  <2>3. Len(log) = 0 /\ AfterFrame(0) = Fresh /\ Linear(0)
    BY <2>1 DEF Init, AfterFrame, Linear
  <2>4. FirstCrashInv
    BY <2>1, <2>3 DEF Init, FirstCrashInv, BeforeCrash, SameBut, NoCatalog
  <2>5. QED
    BY <2>2, <2>4 DEF IInv
<1>2. IInv /\ [Next]_vars => IInv'
  BY TypeStep, FirstCrashStep DEF IInv
<1>3. QED
  BY <1>1, <1>2, PTL DEF Spec

\* Of any number of workers: no step leaves the current database dangling,
\* neither a DROP DATABASE nor a stop, a crash or the start after it, but the
\* assignment of a USE whose database was dropped after it was found
\* (Catalog::set_current_database and drop_database, load).
THEOREM CurrentCorrect == Spec => CurrentKept
<1>1. ASSUME TypeInv, [Next]_vars, ~Dangles, Dangles'
      PROVE  \E s \in Sessions :
                Overtaken(s) /\ catalog' = [catalog EXCEPT !.current = using[s]]
  <2>1. status' = "up" /\ ~Exists(catalog', catalog'.current)
    BY <1>1 DEF Dangles
  <2>2. ~Call
    <3>1. SUFFICES ASSUME Call
                   PROVE  FALSE
      OBVIOUS
    <3>2. status = "up" /\ catalog \in Catalogs
      BY <1>1, <3>1 DEF TypeInv, Call, CreateDatabase, DropDatabase, CreateSchema,
                        CreateUser, DropUser, CreateTable, DropTable, Logged
    <3>3. PICK c, op, table, name : Does(c, op, table, name) /\ Logged(c, op, table, name)
      BY <3>1, <3>2, CallIs
    <3>4. Good(catalog) /\ catalog' = c
      BY <1>1, <3>2, <3>3 DEF Dangles, Good, Logged
    <3>5. Good(catalog')
      BY <3>3, <3>4 DEF Does
    <3>6. QED
      BY <2>1, <3>5 DEF Good
  <2>3. ~Start
    <3>1. SUFFICES ASSUME Start
                   PROVE  FALSE
      OBVIOUS
    <3>2. /\ Good(catalog') \/ catalog' = Threw
          /\ status' = IF catalog' = Threw THEN "failed" ELSE "up"
      BY <1>1, <3>1, StartIs
    <3>3. QED
      BY <2>1, <3>2 DEF Good
  <2>4. status # "up" \/ catalog' # catalog
    BY <1>1, <2>1 DEF Dangles
  <2>5. CASE \E s \in Sessions : UseAssign(s)
    <3>1. PICK s \in Sessions : UseAssign(s)
      BY <2>5
    <3>2. /\ status = "up" /\ using[s] # NoDb /\ using[s] \in DbNames
          /\ catalog \in Catalogs
          /\ catalog' = [catalog EXCEPT !.current = using[s]]
      BY <1>1, <3>1 DEF UseAssign, TypeInv
    <3>3. catalog' = Cat(catalog.databases, using[s], catalog.users, catalog.tables)
      BY <3>2, Operations
    <3>4. ~Exists(catalog, using[s])
      BY <2>1, <3>3 DEF Exists, Cat
    <3>5. QED
      BY <3>2, <3>4 DEF Overtaken
  <2>6. QED
    BY <1>1, <2>1, <2>2, <2>3, <2>4, <2>5
       DEF Next, Call, UseFound, Stop, Crash, vars
<1>2. QED
  BY <1>1, InitType, TypeStep, PTL DEF Spec, CurrentKept

\* As long as the server has never crashed, a stop and a start keep the
\* catalog, wherever automatic checkpoints fell.
THEOREM RestartCorrect == Spec => []RestartExact
<1>1. IInv => RestartExact
  BY DEF IInv, FirstCrashInv, BeforeCrash, RestartExact, RestartKeepsCatalog, Started
<1>2. QED
  BY <1>1, Inductive, PTL

\* After the first crash the start comes up with what the calls had made up
\* to the last whole frame, but for tables of dropped databases and for users
\* created since the checkpoint.
THEOREM RecoveryCorrect == Spec => [](crashes <= 1 => RecoveredIsPrefix)
<1>1. IInv => (crashes <= 1 => RecoveredIsPrefix)
  <2>1. SUFFICES ASSUME IInv, crashes <= 1
                 PROVE  RecoveredIsPrefix
    OBVIOUS
  <2>2. crashes = 0 \/ crashes = 1
    BY <2>1 DEF IInv, TypeInv
  <2>3. CASE crashes = 0
    BY <2>1, <2>3 DEF IInv, FirstCrashInv, BeforeCrash, RecoveredIsPrefix, Started
  <2>4. CASE crashes = 1
    BY <2>1, <2>4 DEF IInv, FirstCrashInv, AfterCrash, RecoveredIsPrefix, Started, Follows
  <2>5. QED
    BY <2>2, <2>3, <2>4
<1>2. QED
  BY <1>1, Inductive, PTL
=============================================================================
