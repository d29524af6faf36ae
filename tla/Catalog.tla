------------------------------ MODULE Catalog ------------------------------
(***************************************************************************)
(* DDL: storage/catalog.cpp, the catalog calls of storage/engine.cpp, the  *)
(* statements of server.cpp that reach them, the log records they write    *)
(* (LogFile), and what a stop, a crash and a start make of them            *)
(* (checkpoint, load, replay_record, catalog_encode and catalog_decode).   *)
(*                                                                         *)
(* A DDL call holds the catalog target exclusively, so it is one step; USE *)
(* takes no lock: it tests and assigns in two.  There is one current       *)
(* database for all sessions, and it is not logged.  Tables have no rows   *)
(* here and a checkpoint is one step (Recovery models both).  DDL records  *)
(* are not synced: a crash may keep any number of the frames written since *)
(* the last sync, and tear the next one.                                   *)
(*                                                                         *)
(* For the properties each frame also carries the catalog as it was after  *)
(* the call that wrote it, and due is the catalog the next start should    *)
(* come up with.                                                           *)
(***************************************************************************)
EXTENDS Integers, Sequences, FiniteSets, LogFile

CONSTANTS Sessions,
          Databases,       \* names of databases besides defaultdb
          Schemas, Tables, Users,
          Interval,        \* checkpoint_interval_
          MaxCalls,        \* bound on the DDL calls
          MaxCrashes, MaxStops

VARIABLES catalog,   \* Catalog and tables_
          using,     \* session -> the database a USE has found, or NoDb
          wal_seq,   \* wal_seq_
          log,       \* the frames of the log file
          log_seq,   \* WriteAheadLogV3::seq_
          synced,    \* how many frames are on disk for certain
          ckp,       \* the checkpoint file
          status,    \* "up", "stopped", "crashed", or "failed": load threw
          due,       \* the catalog the start should produce, or NoCatalog
          calls, crashes, stops

vars == <<catalog, using, wal_seq, log, log_seq, synced, ckp, status, due,
          calls, crashes, stops>>

NoDb == "none"

\* drop_database refuses defaultdb, which is there from the start.
ASSUME CatalogAssumption == "defaultdb" \notin Databases /\ NoDb \notin Databases

NoCatalog == [kind |-> "none"]

Fresh == [databases |-> [d \in {"defaultdb"} |-> {"public"}],
          current |-> "defaultdb", users |-> {}, tables |-> {}]

Exists(c, d) == d \in DOMAIN c.databases

-----------------------------------------------------------------------------
(* Catalog and tables_.                                                    *)

create_database(c, d) ==
    [c EXCEPT !.databases = [e \in DOMAIN @ \cup {d} |->
                               IF e = d THEN {"public"} ELSE @[e]]]

\* Catalog::drop_database: the current database falls back to defaultdb.
drop_database_KeepCurrent(c, d) ==
    [c EXCEPT !.databases = [e \in DOMAIN @ \ {d} |-> @[e]]]
drop_database(c, d) ==
    [c EXCEPT !.databases = [e \in DOMAIN @ \ {d} |-> @[e]],
              !.current = IF @ = d THEN "defaultdb" ELSE @]

create_schema(c, d, s) == [c EXCEPT !.databases[d] = @ \cup {s}]

\* qualify_table_name: a plain name belongs to the current database.
qualify_table_name(c, t) == <<c.current, t>>

-----------------------------------------------------------------------------
(* Replay of a record on a catalog, or Threw: load did not survive it.      *)

\* No catalog has no database at all.
Threw == [Fresh EXCEPT !.databases = [d \in {} |-> {}]]

\* A dropped database leaves its tables, and a new user is not restored.
replay_record(c, rec) ==
    IF c = Threw THEN Threw
    ELSE CASE rec.op = "kCreateDatabase" ->
                IF Exists(c, rec.table) THEN c ELSE create_database(c, rec.table)
           [] rec.op = "kDropDatabase" ->
                IF Exists(c, rec.table) THEN drop_database(c, rec.table) ELSE c
           [] rec.op = "kCreateSchema" ->
                IF Exists(c, rec.table) THEN create_schema(c, rec.table, rec.name)
                ELSE Threw
           [] rec.op = "kCreateUser"  -> c
           [] rec.op = "kDropUser"    -> [c EXCEPT !.users = @ \ {rec.table}]
           [] rec.op = "kCreateTable" -> [c EXCEPT !.tables = @ \cup {rec.table}]
           [] rec.op = "kDropTable"   -> [c EXCEPT !.tables = @ \ {rec.table}]

\* catalog_decode on a new Catalog: it ends with set_current_database, which
\* throws of a database that is not there.
catalog_decode_Current(bytes) == [bytes EXCEPT !.current = "defaultdb"]
catalog_decode(bytes) == IF Exists(bytes, bytes.current) THEN bytes ELSE Threw

-----------------------------------------------------------------------------
Init ==
    /\ catalog = Fresh
    /\ using = [s \in Sessions |-> NoDb]
    /\ wal_seq = 0 /\ log_seq = 0
    /\ log = <<>> /\ synced = 0
    /\ ckp = [last_seq |-> 0, catalog |-> Fresh]
    /\ status = "up"
    /\ due = NoCatalog
    /\ calls = 0 /\ crashes = 0 /\ stops = 0

\* checkpoint, as of seq and of the log file: the truncated log is synced,
\* and the counter goes on from the last frame left or else the last written.
Checkpoint(c, seq, file, last) ==
    LET kept == truncate(file, seq)
        goes_on == IF kept = <<>> THEN last ELSE kept[Len(kept)].seq
    IN  /\ ckp' = [last_seq |-> seq, catalog |-> c]
        /\ log' = kept
        /\ synced' = Len(kept)
        /\ log_seq' = goes_on
        /\ wal_seq' = goes_on

\* The end of every DDL call, by a session that is not in the middle of a
\* USE: write_wal and maybe_checkpoint.
Logged(c, op, table, name) ==
    LET seq == wal_seq + 1
        frame == [seq |-> seq, op |-> op, table |-> table, name |-> name,
                  state |-> Whole, after |-> c]
        file == Append(log, frame)
    IN  /\ status = "up"
        /\ \E s \in Sessions : using[s] = NoDb
        /\ calls < MaxCalls
        /\ calls' = calls + 1
        /\ catalog' = c
        /\ due' = NoCatalog
        /\ IF seq % Interval = 0
           THEN Checkpoint(c, seq, file, seq)
           ELSE /\ log' = file
                /\ wal_seq' = seq
                /\ log_seq' = seq
                /\ UNCHANGED <<synced, ckp>>
        /\ UNCHANGED <<using, status, crashes, stops>>

CreateDatabase(d) ==
    /\ ~Exists(catalog, d)
    /\ Logged(create_database(catalog, d), "kCreateDatabase", d, NoDb)

\* StorageEngine::drop_database erases the tables too.
DropDatabase(d) ==
    /\ Exists(catalog, d)
    /\ Logged([drop_database(catalog, d) EXCEPT
                 !.tables = {t \in @ : t[1] # d}], "kDropDatabase", d, NoDb)

CreateSchema(s) ==
    /\ Exists(catalog, catalog.current)
    /\ s \notin catalog.databases[catalog.current]
    /\ Logged(create_schema(catalog, catalog.current, s),
              "kCreateSchema", catalog.current, s)

CreateUser(u) ==
    /\ u \notin catalog.users
    /\ Logged([catalog EXCEPT !.users = @ \cup {u}], "kCreateUser", u, NoDb)

DropUser(u) ==
    /\ u \in catalog.users
    /\ Logged([catalog EXCEPT !.users = @ \ {u}], "kDropUser", u, NoDb)

CreateTable(t) ==
    LET q == qualify_table_name(catalog, t)
    IN  /\ q \notin catalog.tables
        /\ Logged([catalog EXCEPT !.tables = @ \cup {q}], "kCreateTable", q, NoDb)

DropTable(t) ==
    LET q == qualify_table_name(catalog, t)
    IN  /\ q \in catalog.tables
        /\ Logged([catalog EXCEPT !.tables = @ \ {q}], "kDropTable", q, NoDb)

\* set_current_database: the test, and the assignment.
UseFound(s, d) ==
    /\ status = "up"
    /\ using[s] = NoDb
    /\ Exists(catalog, d)
    /\ using' = [using EXCEPT ![s] = d]
    /\ UNCHANGED <<catalog, wal_seq, log, log_seq, synced, ckp, status, due,
                   calls, crashes, stops>>

UseAssign(s) ==
    /\ status = "up"
    /\ using[s] # NoDb
    /\ catalog' = [catalog EXCEPT !.current = using[s]]
    /\ using' = [using EXCEPT ![s] = NoDb]
    /\ due' = NoCatalog
    /\ UNCHANGED <<wal_seq, log, log_seq, synced, ckp, status,
                   calls, crashes, stops>>

Idle == \A s \in Sessions : using[s] = NoDb

\* close: a checkpoint.
Stop ==
    /\ status = "up"
    /\ Idle
    /\ stops < MaxStops
    /\ stops' = stops + 1
    /\ status' = "stopped"
    /\ due' = [kind |-> "stop", catalog |-> catalog]
    /\ Checkpoint(catalog, wal_seq, log, log_seq)
    /\ UNCHANGED <<catalog, using, calls, crashes>>

\* The catalog after the last frame of a file, or the checkpoint's.
AfterFile(file) ==
    LET whole == {i \in 1 .. Len(file) : ~file[i].state.torn}
    IN  IF whole = {} THEN ckp.catalog
        ELSE file[CHOOSE i \in whole : \A j \in whole : j <= i].after

\* The first n frames stay, and perhaps a piece of the next one.
Crash(n) ==
    /\ status = "up"
    /\ crashes < MaxCrashes
    /\ crashes' = crashes + 1
    /\ n \in synced .. Len(log)
    /\ \/ log' = SubSeq(log, 1, n)
       \/ /\ n < Len(log)
          /\ \E tear \in Tears :
                log' = Append(SubSeq(log, 1, n), [log[n + 1] EXCEPT !.state = tear])
    /\ status' = "crashed"
    /\ due' = [kind |-> "crash", catalog |-> AfterFile(SubSeq(log, 1, n))]
    /\ using' = [s \in Sessions |-> NoDb]
    /\ UNCHANGED <<catalog, wal_seq, log_seq, synced, ckp, calls, stops>>

\* The catalog after a checkpoint's and the records replayed over it, in order.
Loaded(bytes, records) ==
    LET after[i \in 0 .. Len(records)] ==
            IF i = 0 THEN catalog_decode(bytes)
            ELSE replay_record(after[i - 1], records[i])
    IN  after[Len(records)]

\* load.  The engine goes on counting from the checkpoint's seq, whatever the
\* log holds.
Start ==
    LET loaded == Loaded(ckp.catalog, replay(log, ckp.last_seq))
    IN  /\ status \in {"stopped", "crashed"}
        /\ status' = IF loaded = Threw THEN "failed" ELSE "up"
        /\ catalog' = loaded
        /\ wal_seq' = ckp.last_seq
        /\ log_seq' = LastSeq(log)
        /\ synced' = Len(log)
        /\ UNCHANGED <<using, log, ckp, due, calls, crashes, stops>>

Next ==
    \/ \E d \in Databases : CreateDatabase(d) \/ DropDatabase(d)
    \/ \E s \in Schemas : CreateSchema(s)
    \/ \E u \in Users : CreateUser(u) \/ DropUser(u)
    \/ \E t \in Tables : CreateTable(t) \/ DropTable(t)
    \/ \E s \in Sessions : UseAssign(s)
         \/ \E d \in Databases \cup {"defaultdb"} : UseFound(s, d)
    \/ Stop
    \/ \E n \in 0 .. Len(log) : Crash(n)
    \/ Start

Spec == Init /\ [][Next]_vars

-----------------------------------------------------------------------------
(* What DDL promises.                                                      *)

DbNames == Databases \cup {"defaultdb"}
CatalogOK(c) ==
    /\ DOMAIN c.databases \subseteq DbNames
    /\ \A d \in DOMAIN c.databases :
         "public" \in c.databases[d] /\ c.databases[d] \subseteq Schemas \cup {"public"}
    /\ c.current \in DbNames
    /\ c.users \subseteq Users
    /\ c.tables \subseteq DbNames \X Tables

\* The catalog in memory and the one in the checkpoint have their types; a
\* database never loses its schema public, nor the server defaultdb.
TypeOK ==
    /\ status \in {"up", "stopped", "crashed", "failed"}
    /\ status = "failed" \/ (CatalogOK(catalog) /\ Exists(catalog, "defaultdb"))
    /\ CatalogOK(ckp.catalog) /\ Exists(ckp.catalog, "defaultdb")
    /\ using \in [Sessions -> DbNames \cup {NoDb}]
    /\ synced \in 0 .. Len(log)
    /\ {wal_seq, log_seq, ckp.last_seq} \subseteq Nat

\* The current database is gone.
Dangles == status = "up" /\ ~Exists(catalog, catalog.current)

\* The database a USE has found was dropped before it is made current.
Overtaken(s) == using[s] # NoDb /\ ~Exists(catalog, using[s])

\* Unqualified names mean a database that is there: no DROP DATABASE leaves the
\* current one dangling, nor does any start with what it loads and replays.  The
\* one way there is a DROP DATABASE by another worker between the two steps of a
\* USE, which no lock covers.
CurrentKept ==
    [][~Dangles /\ Dangles' =>
         \E s \in Sessions : Overtaken(s) /\ catalog' = [catalog EXCEPT !.current = using[s]]]_vars

\* The checkpoint was not written while the current database was dangling: load
\* throws of such a one, and the server never comes up again.
Loadable == Exists(ckp.catalog, ckp.catalog.current)

Started(kind) == due.kind = kind /\ status \in {"up", "failed"}

\* A stop and a start bring back the catalog exactly as it was: databases,
\* schemas, users, tables and the current database.
RestartKeepsCatalog == Started("stop") => status = "up" /\ catalog = due.catalog

\* They do as long as the server has never crashed.
RestartExact == crashes = 0 /\ Loadable => RestartKeepsCatalog

\* After a crash the server comes up with the databases and schemas that some
\* prefix of the DDL calls had made, the one up to the last frame that reached
\* the disk whole; no table of that moment is missing and no user is invented.
RecoveredIsPrefix ==
    Started("crash") /\ Loadable =>
        /\ status = "up"
        /\ catalog.databases = due.catalog.databases
        /\ due.catalog.tables \subseteq catalog.tables
        /\ catalog.users \subseteq due.catalog.users
=============================================================================
