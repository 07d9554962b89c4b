--------------------------- MODULE KeyRegistry_proof ---------------------------
(***************************************************************************)
(* Proofs about the start of the server and the key registry, for any       *)
(* number of users, keys, simultaneous requests, failures and crashes.      *)
(***************************************************************************)
EXTENDS KeyRegistry, FiniteSetTheorems, TLAPS

-----------------------------------------------------------------------------
(* The inductive invariant. *)

\* What the start has already migrated when it gets to a stage.
MigratedSoFar ==
    /\ pc \in Migrating \ {"schema"} => disk.tables = TableNames
    /\ pc \in {"users.role", "user_tokens.role"} /\ ~ skipped =>
          "leases.status" \in disk.columns
    /\ pc = "user_tokens.role" => "users.role" \in disk.columns

\* The demo lease leaves its user behind, and nothing deletes users.
DemoLeavesUser == disk.demo \in {0, 1} /\ (disk.demo = 1 => disk.users # {})

DiskInv == TypeOK /\ RolesMigrated /\ SkipEndsWithRun /\ MigratedSoFar /\ DemoLeavesUser

\* What the step and the outcome of a request say about the database.
RequestOK(r) ==
    /\ add[r].known \/ add[r].pc = "key" => add[r].user \in disk.users
    /\ add[r].pc = "user" => ~ add[r].known
    /\ add[r].out # "none" => add[r].pc = "reply"
    /\ add[r].out = "taken" => ~ add[r].known
    /\ add[r].out = "created" => [user |-> add[r].user, key |-> add[r].key] \in disk.keys

RegistryInv ==
    /\ DiskInv
    /\ add \in [Requests -> Request]
    /\ acked \in SUBSET KeyRow
    /\ AckedKeysStay
    /\ KeysHaveOwners
    /\ \A r \in Requests : RequestOK(r)

\* No step takes a user or a key away.
Grows == disk.users \subseteq disk'.users /\ disk.keys \subseteq disk'.keys

-----------------------------------------------------------------------------
(* The process: InitDB, SeedData and the end of the server. *)

\* The record of the database has its fields.
LEMMA DiskFields ==
    ASSUME NEW d \in Disk
    PROVE  /\ d.tables \in SUBSET TableNames /\ d.columns \in SUBSET Columns
           /\ d.users \in SUBSET Names /\ d.keys \in SUBSET KeyRow
           /\ d.demo \in 0 .. 2 /\ d.hosts \in SUBSET SeedHosts
  BY DEF Disk

\* A missing database and one with all tables meet the invariant.
LEMMA InitInv == RegistryInit => RegistryInv
  <1> SUFFICES ASSUME RegistryInit PROVE RegistryInv
    OBVIOUS
  <1> USE DEF RegistryInit, Init
  <1>1. /\ disk \in Disk
        /\ DemoLeavesUser
        /\ KeysHaveOwners
    <2>1. CASE disk = [tables |-> {}, columns |-> {}, users |-> {}, keys |-> {},
                       demo |-> 0, hosts |-> {}]
      BY <2>1 DEF Disk, DemoLeavesUser, KeysHaveOwners
    <2>2. ASSUME NEW columns \in SUBSET Columns, NEW hosts \in {{}, SeedHosts},
                 NEW users \in SUBSET Names,
                 NEW keys \in SUBSET [user : users, key : Keys],
                 NEW demo \in IF "admin" \in users THEN 0 .. 1 ELSE {0},
                 disk = [tables |-> TableNames, columns |-> columns, users |-> users,
                         keys |-> keys \cup IF demo = 1 THEN {MockKey} ELSE {},
                         demo |-> demo, hosts |-> hosts]
          PROVE  /\ disk \in Disk
                 /\ DemoLeavesUser
                 /\ KeysHaveOwners
      <3>1. demo \in {0, 1} /\ (demo = 1 => "admin" \in users)
        OBVIOUS
      <3>2. keys \in SUBSET KeyRow /\ MockKey \in KeyRow
        BY DEF KeyRow, MockKey, Names
      <3>3. disk \in Disk
        BY <2>2, <3>1, <3>2 DEF Disk
      <3>4. DemoLeavesUser
        BY <2>2, <3>1 DEF DemoLeavesUser
      <3>5. \A row \in disk.keys : row.user \in disk.users
        BY <2>2, <3>1 DEF MockKey
      <3> QED
        BY <3>3, <3>4, <3>5 DEF KeysHaveOwners
    <2> QED
      BY <2>1, <2>2
  <1>2. pc = "down" /\ warned = FALSE /\ skipped = FALSE /\ mishaps = 0
    OBVIOUS
  <1> HIDE DEF Init
  <1>3. TypeOK
    <2>1. warned \in BOOLEAN /\ skipped \in BOOLEAN
      BY <1>2, Zenon
    <2>2. pc \in Stages /\ mishaps \in 0 .. MaxMishaps
      BY <1>2, StartupAssumption DEF Stages
    <2> QED
      BY <1>1, <2>1, <2>2 DEF TypeOK
  <1>4. RolesMigrated /\ SkipEndsWithRun /\ MigratedSoFar
    <2>1. pc \notin Migrating \cup Seeding \cup {"serving", "stopping"}
      BY <1>2 DEF Migrating, Seeding
    <2> QED
      BY <2>1 DEF RolesMigrated, SkipEndsWithRun, MigratedSoFar, Migrating
  <1>5. add \in [Requests -> Request] /\ \A r \in Requests : RequestOK(r)
    BY DEF Request, IdleRequest, RequestOK, Names, Outcomes
  <1> QED
    BY <1>1, <1>3, <1>4, <1>5 DEF RegistryInv, DiskInv, AckedKeysStay, KeyRow

\* Most steps of the process leave the database alone; what is left to show of
\* them is that the stage they go to finds it as it should be.
LEMMA SameDisk ==
    ASSUME DiskInv, KeysHaveOwners, UNCHANGED disk, pc' \in Stages,
           warned' \in BOOLEAN, skipped' \in BOOLEAN, mishaps' \in 0 .. MaxMishaps,
           RolesMigrated', SkipEndsWithRun', MigratedSoFar'
    PROVE  DiskInv' /\ KeysHaveOwners' /\ Grows
  <1>1. disk' = disk
    OBVIOUS
  <1>2. TypeOK'
    BY <1>1 DEF DiskInv, TypeOK
  <1>3. DemoLeavesUser' /\ KeysHaveOwners' /\ Grows
    BY <1>1 DEF DiskInv, DemoLeavesUser, KeysHaveOwners, Grows
  <1> QED
    BY <1>2, <1>3 DEF DiskInv

\* InitDB: the migrations in their order.
LEMMA MigrationKeeps ==
    ASSUME DiskInv, KeysHaveOwners,
           CreateTable \/ MigrateStatus \/ \E column \in RoleColumns : AddColumnIfMissing(column)
    PROVE  DiskInv' /\ KeysHaveOwners' /\ Grows
  <1> USE DEF Goto, DiskInv
  <1>1. ASSUME NEW tables \in SUBSET TableNames, NEW columns \in SUBSET Columns,
               disk' = [disk EXCEPT !.tables = tables, !.columns = columns]
        PROVE  /\ disk' \in Disk
               /\ disk'.tables = tables /\ disk'.columns = columns
               /\ DemoLeavesUser' /\ KeysHaveOwners' /\ Grows
    <2>1. /\ disk' \in Disk
          /\ disk'.tables = tables /\ disk'.columns = columns
          /\ disk'.users = disk.users /\ disk'.keys = disk.keys
          /\ disk'.demo = disk.demo
      BY <1>1 DEF TypeOK, Disk
    <2> QED
      BY <2>1 DEF DemoLeavesUser, KeysHaveOwners, Grows
  <1>2. disk.tables \in SUBSET TableNames /\ disk.columns \in SUBSET Columns
    BY DiskFields DEF TypeOK
  <1>3. CASE CreateTable
    <2>1. PICK table \in TableNames :
            disk' = [disk EXCEPT !.tables = disk.tables \cup {table},
                                 !.columns = disk.columns \cup ColumnsOf(table)]
      BY <1>3 DEF CreateTable
    <2>2. ColumnsOf(table) \in SUBSET Columns
      BY DEF ColumnsOf, Columns, RoleColumns
    <2>3. disk' \in Disk /\ DemoLeavesUser' /\ KeysHaveOwners' /\ Grows
      BY <1>1, <1>2, <2>1, <2>2
    <2>4. pc' = "schema" /\ UNCHANGED <<warned, skipped, mishaps>>
      BY <1>3 DEF CreateTable
    <2>5. TypeOK'
      BY <2>3, <2>4 DEF TypeOK, Stages, Migrating
    <2>6. RolesMigrated' /\ SkipEndsWithRun' /\ MigratedSoFar'
      BY <2>4 DEF RolesMigrated, SkipEndsWithRun, MigratedSoFar, Migrating, Seeding
    <2> QED
      BY <2>3, <2>5, <2>6
  <1>4. CASE MigrateStatus
    <2>1. disk' = [disk EXCEPT !.tables = disk.tables,
                               !.columns = disk.columns \cup {"leases.status"}]
      BY <1>4 DEF MigrateStatus, TypeOK, Disk
    <2>0. disk.columns \cup {"leases.status"} \in SUBSET Columns
      BY <1>2 DEF Columns
    <2>2. /\ disk' \in Disk /\ DemoLeavesUser' /\ KeysHaveOwners' /\ Grows
          /\ disk'.tables = disk.tables
          /\ disk'.columns = disk.columns \cup {"leases.status"}
      BY <1>1, <1>2, <2>0, <2>1
    <2>3. pc = "leases.status" /\ pc' = "users.role" /\ UNCHANGED <<warned, skipped, mishaps>>
      BY <1>4 DEF MigrateStatus
    <2>4. TypeOK'
      BY <2>2, <2>3 DEF TypeOK, Stages, Migrating
    <2>5. RolesMigrated' /\ SkipEndsWithRun'
      BY <2>3 DEF RolesMigrated, SkipEndsWithRun, Seeding
    <2>6. MigratedSoFar'
      BY <2>2, <2>3 DEF MigratedSoFar, Migrating
    <2> QED
      BY <2>2, <2>4, <2>5, <2>6
  <1>5. ASSUME NEW column \in RoleColumns, AddColumnIfMissing(column)
        PROVE  DiskInv' /\ KeysHaveOwners' /\ Grows
    <2>1. disk' = [disk EXCEPT !.tables = disk.tables,
                               !.columns = disk.columns \cup {column}]
      BY <1>5 DEF AddColumnIfMissing, TypeOK, Disk
    <2>0. disk.columns \cup {column} \in SUBSET Columns
      BY <1>2 DEF Columns
    <2>2. /\ disk' \in Disk /\ DemoLeavesUser' /\ KeysHaveOwners' /\ Grows
          /\ disk'.tables = disk.tables
          /\ disk'.columns = disk.columns \cup {column}
      BY <1>1, <1>2, <2>0, <2>1
    <2>3. pc = column /\ pc' = AfterColumn(column) /\ UNCHANGED <<warned, skipped, mishaps>>
      BY <1>5 DEF AddColumnIfMissing
    <2>4. \/ column = "users.role" /\ pc' = "user_tokens.role"
          \/ column = "user_tokens.role" /\ pc' = "seed_user"
      BY <2>3 DEF RoleColumns, AfterColumn
    <2>5. TypeOK'
      BY <2>2, <2>3, <2>4 DEF TypeOK, Stages, Migrating, Seeding
    <2>6. disk.tables = TableNames
      BY <2>3, <2>4 DEF MigratedSoFar, Migrating
    <2>7. ~ skipped' => "leases.status" \in disk'.columns
      BY <2>2, <2>3, <2>4 DEF MigratedSoFar
    <2>8. RolesMigrated'
      BY <2>2, <2>3, <2>4, <2>6 DEF RolesMigrated, MigratedSoFar, Seeding, RoleColumns
    <2>9. SkipEndsWithRun'
      BY <2>7 DEF SkipEndsWithRun
    <2>10. MigratedSoFar'
      BY <2>2, <2>4, <2>6, <2>7 DEF MigratedSoFar
    <2> QED
      BY <2>2, <2>5, <2>8, <2>9, <2>10
  <1> QED
    BY <1>3, <1>4, <1>5

\* SeedData: the demo user goes into an empty users table only, hosts into theirs.
LEMMA SeedKeeps ==
    ASSUME DiskInv, KeysHaveOwners, SeedDemoUser \/ SeedFirstHost \/ SeedWildcard
    PROVE  DiskInv' /\ KeysHaveOwners' /\ Grows
  <1> USE DEF Goto, DiskInv
  <1>1. pc \in Seeding /\ pc' \in Seeding \cup {"serving"}
    BY DEF SeedDemoUser, SeedFirstHost, SeedWildcard, Seeding
  <1>2. disk.tables = TableNames /\ RoleColumns \subseteq disk.columns
    BY <1>1 DEF RolesMigrated
  <1>3. skipped' = skipped /\ mishaps' = mishaps
    BY DEF SeedDemoUser, SeedFirstHost, SeedWildcard
  <1>4. warned' \in BOOLEAN
    <2>1. warned' = warned \/ warned' = TRUE
      BY DEF SeedDemoUser, SeedFirstHost, SeedWildcard
    <2>2. warned \in BOOLEAN
      BY DEF TypeOK
    <2> QED
      BY <2>1, <2>2, Zenon
  <1>5. skipped \/ "leases.status" \in disk.columns
    BY <1>1 DEF SkipEndsWithRun
  <1>6. ASSUME disk' \in Disk, disk'.tables = disk.tables, disk'.columns = disk.columns
        PROVE  TypeOK' /\ RolesMigrated' /\ SkipEndsWithRun' /\ MigratedSoFar'
    <2>1. pc' \in Stages /\ pc' \notin Migrating
      BY <1>1 DEF Stages, Seeding, Migrating
    <2>2. TypeOK'
      BY <1>3, <1>4, <1>6, <2>1 DEF TypeOK
    <2>3. RolesMigrated'
      BY <1>2, <1>6 DEF RolesMigrated
    <2>4. SkipEndsWithRun'
      BY <1>3, <1>5, <1>6 DEF SkipEndsWithRun
    <2>5. MigratedSoFar'
      BY <2>1 DEF MigratedSoFar, Migrating
    <2> QED
      BY <2>2, <2>3, <2>4, <2>5
  <1>7. CASE UNCHANGED disk
    <2>1. TypeOK' /\ RolesMigrated' /\ SkipEndsWithRun' /\ MigratedSoFar'
      BY <1>6, <1>7 DEF TypeOK
    <2>2. DemoLeavesUser' /\ KeysHaveOwners' /\ Grows
      BY <1>7 DEF DemoLeavesUser, KeysHaveOwners, Grows
    <2> QED
      BY <2>1, <2>2
  <1>8. CASE FileDemo /\ disk.users = {}
    <2>1. disk.demo = 0
      BY <1>8 DEF DemoLeavesUser
    <2>2. MockKey \in KeyRow /\ "admin" \in Names /\ MockKey.user = "admin"
      BY DEF MockKey, KeyRow, Names
    <2>3. disk.users \cup {"admin"} \in SUBSET Names /\ disk.keys \cup {MockKey} \in SUBSET KeyRow
      BY <2>2, DiskFields DEF TypeOK
    <2>4. /\ disk'.tables = disk.tables /\ disk'.columns = disk.columns
          /\ disk'.users = disk.users \cup {"admin"}
          /\ disk'.keys = disk.keys \cup {MockKey}
          /\ disk'.demo = 1
          /\ disk' \in Disk
      <3>1. ASSUME NEW users \in SUBSET Names, NEW keys \in SUBSET KeyRow,
                   NEW demo \in 0 .. 2,
                   disk' = [disk EXCEPT !.users = users, !.keys = keys, !.demo = demo]
            PROVE  /\ disk'.tables = disk.tables /\ disk'.columns = disk.columns
                   /\ disk'.users = users /\ disk'.keys = keys /\ disk'.demo = demo
                   /\ disk' \in Disk
        BY <3>1 DEF TypeOK, Disk
      <3>2. disk' = [disk EXCEPT !.users = disk.users \cup {"admin"},
                                 !.keys = disk.keys \cup {MockKey}, !.demo = 1]
        BY <1>8, <2>1 DEF FileDemo
      <3>3. 1 \in 0 .. 2
        OBVIOUS
      <3> QED
        BY <3>1, <3>2, <3>3, <2>3
    <2>5. TypeOK' /\ RolesMigrated' /\ SkipEndsWithRun' /\ MigratedSoFar'
      BY <1>6, <2>4
    <2>6. DemoLeavesUser' /\ Grows
      BY <2>4 DEF DemoLeavesUser, Grows
    <2>7. KeysHaveOwners'
      BY <2>2, <2>4 DEF KeysHaveOwners
    <2> QED
      BY <2>5, <2>6, <2>7
  <1>9. ASSUME NEW hosts \in SUBSET SeedHosts, disk' = [disk EXCEPT !.hosts = hosts]
        PROVE  DiskInv' /\ KeysHaveOwners' /\ Grows
    <2>1. /\ disk' \in Disk
          /\ disk'.tables = disk.tables /\ disk'.columns = disk.columns
          /\ disk'.users = disk.users /\ disk'.keys = disk.keys /\ disk'.demo = disk.demo
      BY <1>9 DEF TypeOK, Disk
    <2>2. TypeOK' /\ RolesMigrated' /\ SkipEndsWithRun' /\ MigratedSoFar'
      BY <1>6, <2>1
    <2>3. DemoLeavesUser' /\ KeysHaveOwners' /\ Grows
      BY <2>1 DEF DemoLeavesUser, KeysHaveOwners, Grows
    <2> QED
      BY <2>2, <2>3
  <1>10. CASE SeedDemoUser
    BY <1>7, <1>8, <1>10 DEF SeedDemoUser
  <1>11. CASE SeedFirstHost
    BY <1>7, <1>9, <1>11 DEF SeedFirstHost, SeedHosts
  <1>12. CASE SeedWildcard
    <2>1. disk' = [disk EXCEPT !.hosts = disk.hosts \cup {"*"}]
      BY <1>12 DEF SeedWildcard, TypeOK, Disk
    <2>2. disk.hosts \cup {"*"} \in SUBSET SeedHosts
      BY DiskFields DEF TypeOK, SeedHosts
    <2> QED
      BY <1>9, <2>1, <2>2
  <1> QED
    BY <1>10, <1>11, <1>12

\* The other steps of the process change its stage and nothing of the database.
LEMMA LifeKeeps ==
    ASSUME DiskInv, KeysHaveOwners,
           \/ Launch \/ TablesDone \/ SkipStatus \/ InitFails \/ SeedFails
           \/ Stop \/ Exit \/ Crash
    PROVE  DiskInv' /\ KeysHaveOwners' /\ Grows
  <1> USE DEF Goto
  <1>1. UNCHANGED disk
    BY DEF Launch, TablesDone, SkipStatus, InitFails, SeedFails, Stop, Exit, Crash
  <1>2. pc' \in Stages
    BY DEF Launch, TablesDone, SkipStatus, InitFails, SeedFails, Stop, Exit, Crash,
           Stages, Migrating, Seeding
  <1>3. mishaps' \in 0 .. MaxMishaps
    <2>1. mishaps \in 0 .. MaxMishaps
      BY DEF DiskInv, TypeOK
    <2>2. mishaps' = mishaps \/ (mishaps < MaxMishaps /\ mishaps' = mishaps + 1)
      BY DEF Launch, TablesDone, SkipStatus, InitFails, SeedFails, Stop, Exit, Crash, MayFail
    <2> QED
      BY <2>1, <2>2, StartupAssumption
  <1>4. warned' \in BOOLEAN /\ skipped' \in BOOLEAN
    <2>1. (warned' = warned \/ warned' = TRUE \/ warned' = FALSE)
          /\ (skipped' = skipped \/ skipped' = TRUE \/ skipped' = FALSE)
      BY DEF Launch, TablesDone, SkipStatus, InitFails, SeedFails, Stop, Exit, Crash
    <2>2. warned \in BOOLEAN /\ skipped \in BOOLEAN
      BY DEF DiskInv, TypeOK
    <2> QED
      BY <2>1, <2>2, Zenon
  <1>5. RolesMigrated' /\ SkipEndsWithRun' /\ MigratedSoFar'
    <2> USE DEF DiskInv, RolesMigrated, SkipEndsWithRun, MigratedSoFar, Migrating, Seeding
    <2>1. CASE Launch \/ InitFails \/ Exit \/ Crash
      BY <2>1 DEF Launch, InitFails, Exit, Crash
    <2>2. CASE TablesDone
      BY <2>2 DEF TablesDone
    <2>3. CASE SkipStatus
      <3>1. pc = "leases.status" /\ pc' = "users.role" /\ disk' = disk /\ skipped'
        BY <2>3 DEF SkipStatus
      <3> QED
        BY <3>1
    <2>4. CASE SeedFails
      BY <2>4 DEF SeedFails
    <2>5. CASE Stop
      BY <2>5 DEF Stop
    <2> QED
      BY <2>1, <2>2, <2>3, <2>4, <2>5
  <1> QED
    BY <1>1, <1>2, <1>3, <1>4, <1>5, SameDisk

\* Every step of the process keeps the invariant of the database and loses no row.
LEMMA ProcessKeeps ==
    ASSUME DiskInv, KeysHaveOwners, Next
    PROVE  DiskInv' /\ KeysHaveOwners' /\ Grows
  BY MigrationKeeps, SeedKeeps, LifeKeeps DEF Next, Boot

-----------------------------------------------------------------------------
(* The registry: one action per statement of a request. *)

\* Rows that are added while the server runs are nothing to the start.
LEMMA MoreRows ==
    ASSUME DiskInv, disk' \in Disk, disk'.tables = disk.tables,
           disk'.columns = disk.columns, disk'.demo = disk.demo,
           disk.users \subseteq disk'.users, UNCHANGED <<pc, warned, skipped, mishaps>>
    PROVE  DiskInv'
  <1>1. TypeOK'
    BY DEF DiskInv, TypeOK
  <1>2. RolesMigrated' /\ SkipEndsWithRun' /\ MigratedSoFar'
    BY DEF DiskInv, RolesMigrated, SkipEndsWithRun, MigratedSoFar
  <1>3. DemoLeavesUser'
    BY DEF DiskInv, DemoLeavesUser
  <1> QED
    BY <1>1, <1>2, <1>3 DEF DiskInv

\* A step that changes no request keeps what is known of it as long as no row is lost.
LEMMA RequestStays ==
    ASSUME NEW r \in Requests, RequestOK(r), add'[r] = add[r], Grows
    PROVE  RequestOK(r)'
  BY DEF RequestOK, Grows

\* A step that puts one good request into one slot.
LEMMA RequestStep ==
    ASSUME RegistryInv, NEW r \in Requests, NEW q \in Request,
           add' = [add EXCEPT ![r] = q], DiskInv', KeysHaveOwners', Grows,
           acked' \subseteq disk'.keys, RequestOK(r)'
    PROVE  RegistryInv'
  <1> USE DEF RegistryInv
  <1>1. add' \in [Requests -> Request]
    OBVIOUS
  <1>2. \A s \in Requests : RequestOK(s)'
    <2> TAKE s \in Requests
    <2>1. CASE s = r
      BY <2>1
    <2>2. CASE s # r
      BY <2>2, RequestStays
    <2> QED
      BY <2>1, <2>2
  <1>3. disk'.keys \in SUBSET KeyRow
    BY DiskFields DEF DiskInv, TypeOK
  <1>4. acked' \in SUBSET KeyRow
    BY <1>3
  <1> QED
    BY <1>1, <1>2, <1>4 DEF AckedKeysStay

\* The same for a step that leaves the tables and the process alone.
LEMMA QuietStep ==
    ASSUME RegistryInv, UNCHANGED vars, NEW r \in Requests, NEW q \in Request,
           add' = [add EXCEPT ![r] = q], acked' \subseteq disk.keys, RequestOK(r)'
    PROVE  RegistryInv'
  <1>1. DiskInv' /\ KeysHaveOwners' /\ Grows /\ disk' = disk
    BY DEF RegistryInv, vars, DiskInv, TypeOK, RolesMigrated, SkipEndsWithRun,
           MigratedSoFar, DemoLeavesUser, KeysHaveOwners, Grows
  <1> QED
    BY <1>1, RequestStep

\* The record of a request has its fields.
LEMMA RequestFields ==
    ASSUME NEW q \in Request
    PROVE  /\ q.pc \in {"idle", "lookup", "user", "key", "reply"}
           /\ q.user \in Names /\ q.key \in Keys \cup {"mock"}
           /\ q.known \in BOOLEAN /\ q.out \in Outcomes
  BY DEF Request

\* A request comes in; known says whether its user has a row.
LEMMA BeginAddKeeps ==
    ASSUME RegistryInv, NEW r \in Requests, BeginAdd(r)
    PROVE  RegistryInv'
  <1>1. PICK u \in Names, k \in Keys :
          add' = [add EXCEPT ![r] = [pc |-> "lookup", user |-> u, key |-> k,
                                     known |-> u \in disk.users, out |-> "none"]]
    BY DEF BeginAdd
  <1> DEFINE q == [pc |-> "lookup", user |-> u, key |-> k,
                   known |-> u \in disk.users, out |-> "none"]
  <1>2. q \in Request
    BY DEF Request, Outcomes
  <1>3. add'[r] = q
    BY <1>1 DEF RegistryInv
  <1>4. UNCHANGED vars /\ disk' = disk /\ acked' \subseteq disk.keys
    BY DEF BeginAdd, RegistryInv, AckedKeysStay, vars
  <1>5. add'[r].known => u \in disk.users
    <2>1. q.known = (u \in disk.users)
      BY Zenon
    <2> HIDE DEF q
    <2> QED
      BY <1>3, <2>1, Zenon
  <1>6. add'[r].user = u /\ add'[r].pc = "lookup" /\ add'[r].out = "none"
    BY <1>3
  <1> HIDE DEF q
  <1>7. RequestOK(r)'
    BY <1>4, <1>5, <1>6 DEF RequestOK
  <1> QED
    BY <1>1, <1>2, <1>4, <1>7, QuietStep DEF q

\* A change of step and outcome in one slot.
LEMMA Changed ==
    ASSUME RegistryInv, NEW r \in Requests,
           NEW step \in {"idle", "lookup", "user", "key", "reply"}, NEW out \in Outcomes,
           add' = [add EXCEPT ![r].pc = step, ![r].out = out]
    PROVE  /\ add' = [add EXCEPT ![r] = add'[r]] /\ add'[r] \in Request
           /\ add'[r].pc = step /\ add'[r].out = out
           /\ add'[r].user = add[r].user /\ add'[r].key = add[r].key
           /\ add'[r].known = add[r].known
  <1>1. add[r] \in Request /\ add \in [Requests -> Request]
    BY DEF RegistryInv
  <1>2. add'[r] = [add[r] EXCEPT !.pc = step, !.out = out]
    BY <1>1
  <1>3. add' = [add EXCEPT ![r] = add'[r]]
    BY <1>1, <1>2
  <1>4. add'[r] \in Request
    BY <1>1, <1>2 DEF Request
  <1>5. /\ add'[r].pc = step /\ add'[r].out = out
        /\ add'[r].user = add[r].user /\ add'[r].key = add[r].key
        /\ add'[r].known = add[r].known
    BY <1>1, <1>2 DEF Request
  <1> QED
    BY <1>3, <1>4, <1>5

\* A change of step alone.
LEMMA Proceeded ==
    ASSUME RegistryInv, NEW r \in Requests, add[r].pc # "reply",
           NEW step \in {"idle", "lookup", "user", "key", "reply"}, Proceed(r, step)
    PROVE  /\ add' = [add EXCEPT ![r].pc = step, ![r].out = "none"]
           /\ "none" \in Outcomes
  <1>1. add[r] \in Request /\ add \in [Requests -> Request] /\ add[r].out = "none"
    BY DEF RegistryInv, RequestOK, Request, Outcomes
  <1>2. add[r] = [add[r] EXCEPT !.out = "none"]
    BY <1>1 DEF Request
  <1>3. add' = [add EXCEPT ![r] = [add[r] EXCEPT !.pc = step]]
    BY <1>1 DEF Proceed
  <1>4. [add[r] EXCEPT !.pc = step] = [add[r] EXCEPT !.pc = step, !.out = "none"]
    BY <1>1, <1>2 DEF Request
  <1> QED
    BY <1>1, <1>3, <1>4 DEF Outcomes

\* What the SELECT found stays true: users are not deleted.
LEMMA LookUpKeeps ==
    ASSUME RegistryInv, NEW r \in Requests, LookUp(r)
    PROVE  RegistryInv'
  <1> DEFINE step == IF add[r].user \in disk.users THEN "key" ELSE "user"
  <1>1. /\ Proceed(r, step) /\ add[r].pc = "lookup"
        /\ UNCHANGED vars /\ disk' = disk /\ acked' \subseteq disk.keys
    BY DEF LookUp, At, vars, RegistryInv, AckedKeysStay
  <1>2. step \in {"idle", "lookup", "user", "key", "reply"}
    OBVIOUS
  <1>3. /\ add' = [add EXCEPT ![r] = add'[r]] /\ add'[r] \in Request
        /\ add'[r].pc = step /\ add'[r].out = "none"
        /\ add'[r].user = add[r].user /\ add'[r].key = add[r].key
        /\ add'[r].known = add[r].known
    <2> HIDE DEF step
    <2>1. add' = [add EXCEPT ![r].pc = step, ![r].out = "none"] /\ "none" \in Outcomes
      BY <1>1, <1>2, Proceeded
    <2> QED
      BY <1>2, <2>1, Changed
  <1>4. RequestOK(r)
    BY DEF RegistryInv
  <1>5. RequestOK(r)'
    BY <1>1, <1>3, <1>4 DEF RequestOK
  <1> QED
    BY <1>1, <1>3, <1>5, QuietStep

\* The insert of the user: refused by the unique name, or one row more.
LEMMA InsertUserKeeps ==
    ASSUME RegistryInv, NEW r \in Requests, InsertUser(r)
    PROVE  RegistryInv'
  <1>1. /\ add[r].pc = "user" /\ RequestOK(r) /\ disk \in Disk /\ DiskInv
        /\ UNCHANGED <<pc, warned, skipped, mishaps>>
        /\ acked' = acked /\ acked \subseteq disk.keys
        /\ add[r] \in Request /\ add[r].user \in Names
    BY RequestFields DEF InsertUser, At, RegistryInv, DiskInv, TypeOK, AckedKeysStay
  <1>2. CASE add[r].user \in disk.users
    <2>1. /\ add' = [add EXCEPT ![r].pc = "reply", ![r].out = "taken"]
          /\ disk' = disk
      BY <1>2 DEF InsertUser, Reply
    <2>2. "taken" \in Outcomes
      BY DEF Outcomes
    <2>3. /\ add' = [add EXCEPT ![r] = add'[r]] /\ add'[r] \in Request
          /\ add'[r].pc = "reply" /\ add'[r].out = "taken"
          /\ add'[r].user = add[r].user /\ add'[r].key = add[r].key
          /\ add'[r].known = add[r].known
      BY <2>1, <2>2, Changed
    <2>4. RequestOK(r)'
      BY <1>1, <2>3 DEF RequestOK
    <2> QED
      BY <1>1, <2>1, <2>3, <2>4, QuietStep DEF vars
  <1>3. CASE add[r].user \notin disk.users
    <2>1. /\ disk' = [disk EXCEPT !.users = disk.users \cup {add[r].user}]
          /\ Proceed(r, "key")
      BY <1>3 DEF InsertUser
    <2>2. disk.users \cup {add[r].user} \in SUBSET Names
      BY <1>1, DiskFields
    <2>3. ASSUME NEW users \in SUBSET Names, disk' = [disk EXCEPT !.users = users]
          PROVE  /\ disk' \in Disk
                 /\ disk'.tables = disk.tables /\ disk'.columns = disk.columns
                 /\ disk'.users = users /\ disk'.keys = disk.keys
                 /\ disk'.demo = disk.demo
      BY <1>1, <2>3 DEF Disk
    <2>4. /\ disk' \in Disk
          /\ disk'.tables = disk.tables /\ disk'.columns = disk.columns
          /\ disk'.users = disk.users \cup {add[r].user} /\ disk'.keys = disk.keys
          /\ disk'.demo = disk.demo
      BY <2>1, <2>2, <2>3
    <2>5. add' = [add EXCEPT ![r].pc = "key", ![r].out = "none"] /\ "none" \in Outcomes
      BY <1>1, <2>1, Proceeded
    <2>6. /\ add' = [add EXCEPT ![r] = add'[r]] /\ add'[r] \in Request
          /\ add'[r].pc = "key" /\ add'[r].out = "none"
          /\ add'[r].user = add[r].user /\ add'[r].key = add[r].key
          /\ add'[r].known = add[r].known
      BY <2>5, Changed
    <2>7. RequestOK(r)'
      BY <2>4, <2>6 DEF RequestOK
    <2>8. DiskInv'
      BY <1>1, <2>4, MoreRows
    <2>9. KeysHaveOwners' /\ Grows
      BY <2>4 DEF RegistryInv, KeysHaveOwners, Grows
    <2>10. acked' \subseteq disk'.keys
      BY <1>1, <2>4
    <2> QED
      BY <2>6, <2>7, <2>8, <2>9, <2>10, RequestStep
  <1> QED
    BY <1>2, <1>3

\* The insert of the key.
LEMMA InsertKeyKeeps ==
    ASSUME RegistryInv, NEW r \in Requests, InsertKey(r)
    PROVE  RegistryInv'
  <1> DEFINE row == [user |-> add[r].user, key |-> add[r].key]
  <1>1. /\ add[r].pc = "key" /\ RequestOK(r) /\ disk \in Disk /\ DiskInv
        /\ UNCHANGED <<pc, warned, skipped, mishaps>>
        /\ acked' = acked /\ acked \subseteq disk.keys
        /\ add[r] \in Request
        /\ disk' = [disk EXCEPT !.keys = disk.keys \cup {row}]
        /\ add' = [add EXCEPT ![r].pc = "reply", ![r].out = "created"]
    BY DEF InsertKey, Reply, At, RegistryInv, DiskInv, TypeOK, AckedKeysStay
  <1>2. row \in KeyRow /\ row.user = add[r].user /\ add[r].user \in disk.users
    BY <1>1, RequestFields DEF KeyRow, RequestOK
  <1> HIDE DEF row
  <1>3. disk.keys \cup {row} \in SUBSET KeyRow
    BY <1>1, <1>2, DiskFields
  <1>4. ASSUME NEW keys \in SUBSET KeyRow, disk' = [disk EXCEPT !.keys = keys]
        PROVE  /\ disk' \in Disk
               /\ disk'.tables = disk.tables /\ disk'.columns = disk.columns
               /\ disk'.users = disk.users /\ disk'.keys = keys
               /\ disk'.demo = disk.demo
    BY <1>1, <1>4 DEF Disk
  <1>5. /\ disk' \in Disk
        /\ disk'.tables = disk.tables /\ disk'.columns = disk.columns
        /\ disk'.users = disk.users /\ disk'.keys = disk.keys \cup {row}
        /\ disk'.demo = disk.demo
    BY <1>1, <1>3, <1>4
  <1>6. "created" \in Outcomes
    BY DEF Outcomes
  <1>7. /\ add' = [add EXCEPT ![r] = add'[r]] /\ add'[r] \in Request
        /\ add'[r].pc = "reply" /\ add'[r].out = "created"
        /\ add'[r].user = add[r].user /\ add'[r].key = add[r].key
        /\ add'[r].known = add[r].known
    BY <1>1, <1>6, Changed
  <1>8. RequestOK(r)'
    BY <1>2, <1>5, <1>7 DEF RequestOK, row
  <1>9. DiskInv'
    BY <1>1, <1>5, MoreRows
  <1>10. KeysHaveOwners' /\ Grows
    BY <1>2, <1>5 DEF RegistryInv, KeysHaveOwners, Grows
  <1>11. acked' \subseteq disk'.keys
    BY <1>1, <1>5
  <1> QED
    BY <1>7, <1>8, <1>9, <1>10, <1>11, RequestStep

\* A failing statement uses up a mishap and changes no table.
LEMMA AddFailsKeeps ==
    ASSUME RegistryInv, NEW r \in Requests, AddFails(r)
    PROVE  RegistryInv'
  <1>1. /\ add[r].pc # "reply" /\ RequestOK(r) /\ DiskInv /\ KeysHaveOwners
        /\ UNCHANGED <<pc, disk, warned, skipped>> /\ mishaps < MaxMishaps
        /\ mishaps' = mishaps + 1
        /\ acked' = acked /\ acked \subseteq disk.keys
        /\ add' = [add EXCEPT ![r].pc = "reply", ![r].out = "error"]
    BY DEF AddFails, Reply, MayFail, RegistryInv, AckedKeysStay
  <1>2. "error" \in Outcomes
    BY DEF Outcomes
  <1>3. /\ add' = [add EXCEPT ![r] = add'[r]] /\ add'[r] \in Request
        /\ add'[r].pc = "reply" /\ add'[r].out = "error"
        /\ add'[r].user = add[r].user /\ add'[r].key = add[r].key
        /\ add'[r].known = add[r].known
    BY <1>1, <1>2, Changed
  <1>4. RequestOK(r)'
    BY <1>1, <1>3 DEF RequestOK
  <1>5. mishaps' \in 0 .. MaxMishaps /\ disk' = disk
    BY <1>1, StartupAssumption DEF DiskInv, TypeOK
  <1>6. TypeOK'
    BY <1>1, <1>5 DEF DiskInv, TypeOK
  <1>7. RolesMigrated' /\ SkipEndsWithRun' /\ MigratedSoFar' /\ DemoLeavesUser'
    BY <1>1 DEF DiskInv, RolesMigrated, SkipEndsWithRun, MigratedSoFar, DemoLeavesUser
  <1>8. KeysHaveOwners' /\ Grows
    BY <1>1 DEF KeysHaveOwners, Grows
  <1> QED
    BY <1>1, <1>3, <1>4, <1>6, <1>7, <1>8, RequestStep DEF DiskInv

\* The answer: what is acknowledged has been inserted.
LEMMA AnswerKeeps ==
    ASSUME RegistryInv, NEW r \in Requests, Answer(r)
    PROVE  RegistryInv'
  <1>1. /\ RequestOK(r) /\ UNCHANGED vars /\ disk' = disk /\ acked \subseteq disk.keys
        /\ add' = [add EXCEPT ![r] = IdleRequest] /\ add \in [Requests -> Request]
    BY DEF Answer, RegistryInv, AckedKeysStay, vars
  <1>2. acked' \subseteq disk.keys
    BY <1>1 DEF Answer, RequestOK
  <1>3. /\ IdleRequest \in Request /\ IdleRequest.pc = "idle"
        /\ IdleRequest.out = "none" /\ IdleRequest.known = FALSE
    BY DEF IdleRequest, Request, Names, Outcomes
  <1>4. add'[r] = IdleRequest
    BY <1>1
  <1>5. RequestOK(r)'
    BY <1>3, <1>4 DEF RequestOK
  <1> QED
    BY <1>1, <1>2, <1>3, <1>5, QuietStep

\* A step of the process: requests go on, or end with it.
LEMMA ProcessStepKeeps ==
    ASSUME RegistryInv, Next, RequestsEnd
    PROVE  RegistryInv'
  <1>1. DiskInv' /\ KeysHaveOwners' /\ Grows
    BY ProcessKeeps DEF RegistryInv
  <1>2. acked' = acked /\ acked \subseteq disk'.keys
    BY <1>1 DEF RequestsEnd, RegistryInv, AckedKeysStay, Grows
  <1>3. add' \in [Requests -> Request] /\ \A r \in Requests : RequestOK(r)'
    <2>1. CASE add' = add
      <3>1. \A r \in Requests : add'[r] = add[r] /\ RequestOK(r)
        BY <2>1 DEF RegistryInv
      <3>2. \A r \in Requests : RequestOK(r)'
        BY <3>1, <1>1, RequestStays
      <3> QED
        BY <2>1, <3>2 DEF RegistryInv
    <2>2. CASE add' = [r \in Requests |-> IdleRequest]
      <3>1. /\ IdleRequest \in Request /\ IdleRequest.pc = "idle"
            /\ IdleRequest.out = "none" /\ IdleRequest.known = FALSE
        BY DEF IdleRequest, Request, Names, Outcomes
      <3>2. \A r \in Requests : add'[r] = IdleRequest
        BY <2>2
      <3> QED
        BY <2>2, <3>1, <3>2 DEF RequestOK
    <2> QED
      BY <2>1, <2>2 DEF RequestsEnd
  <1> QED
    BY <1>1, <1>2, <1>3 DEF RegistryInv, AckedKeysStay

\* Every step keeps the invariant.
LEMMA RegistryNextInv == RegistryInv /\ [RegistryNext]_registryVars => RegistryInv'
  <1> SUFFICES ASSUME RegistryInv, [RegistryNext]_registryVars PROVE RegistryInv'
    OBVIOUS
  <1>1. CASE UNCHANGED registryVars
    <2>1. /\ UNCHANGED <<pc, disk, warned, skipped, mishaps>> /\ add' = add /\ acked' = acked
      BY <1>1 DEF registryVars, vars
    <2> QED
      BY <2>1 DEF RegistryInv, DiskInv, TypeOK, RolesMigrated, SkipEndsWithRun, MigratedSoFar,
                  DemoLeavesUser, KeysHaveOwners, AckedKeysStay, RequestOK
  <1>2. CASE RegistryNext
    BY <1>2, ProcessStepKeeps, BeginAddKeeps, LookUpKeeps, InsertUserKeeps, InsertKeyKeeps,
       AddFailsKeeps, AnswerKeeps DEF RegistryNext
  <1> QED
    BY <1>1, <1>2

\* The inductive invariant of the key registry and the server it runs in.
LEMMA RegistryInvariant == RegistrySpec => []RegistryInv
  BY InitInv, RegistryNextInv, PTL DEF RegistrySpec

-----------------------------------------------------------------------------
(* The theorems. *)

\* Types of the database file, the process and its requests (InitDB, AddSSHKey).
THEOREM RegistryTypeCorrect == RegistrySpec => []RegistryTypeOK
  <1>1. RegistryInv => RegistryTypeOK
    BY DEF RegistryInv, DiskInv, RegistryTypeOK
  <1> QED
    BY <1>1, RegistryInvariant, PTL

\* However many starts break off and wherever, a server listens with all tables and
\* role columns only (InitDB, addColumnIfMissing).
THEOREM ServesMigrated == RegistrySpec => []RolesMigrated
  <1>1. RegistryInv => RolesMigrated
    BY DEF RegistryInv, DiskInv
  <1> QED
    BY <1>1, RegistryInvariant, PTL

\* The status column is missing only in the run that skipped its migration (InitDB).
THEOREM SkipsHeal == RegistrySpec => []SkipEndsWithRun
  <1>1. RegistryInv => SkipEndsWithRun
    BY DEF RegistryInv, DiskInv
  <1> QED
    BY <1>1, RegistryInvariant, PTL

\* Any number of simultaneous registrations, failures and restarts lose no key whose
\* registration was answered with 201 (AddSSHKey, handleAddKey).
THEOREM AckedKeysAreKept == RegistrySpec => []AckedKeysStay
  <1>1. RegistryInv => AckedKeysStay
    BY DEF RegistryInv
  <1> QED
    BY <1>1, RegistryInvariant, PTL

\* No key is ever without its user (ensureUser, AddSSHKey).
THEOREM OwnersExist == RegistrySpec => []KeysHaveOwners
  <1>1. RegistryInv => KeysHaveOwners
    BY DEF RegistryInv
  <1> QED
    BY <1>1, RegistryInvariant, PTL

\* Only requests that came in before the user had a row can lose the race for the
\* username, however many there are (ensureUser).
THEOREM RacePasses == RegistrySpec => []RaceEndsWithTheFirst
  <1>1. RegistryInv => RaceEndsWithTheFirst
    BY DEF RegistryInv, RequestOK, RaceEndsWithTheFirst
  <1> QED
    BY <1>1, RegistryInvariant, PTL

\* The demo user comes into an empty database, once, and never beside registered
\* users or keys (SeedData, seedDemoUser).
THEOREM DemoIsForFreshDatabases == RegistrySpec => DemoOnlyWhenFresh
  <1> DEFINE Fresh == disk'.demo # disk.demo =>
                         disk.users = {} /\ disk.keys = {} /\ disk'.demo = 1
  <1>1. RegistryInv /\ [RegistryNext]_registryVars => [Fresh]_vars
    <2> SUFFICES ASSUME RegistryInv, RegistryNext, disk'.demo # disk.demo
                 PROVE  disk.users = {} /\ disk.keys = {} /\ disk'.demo = 1
      BY DEF registryVars, vars
    <2>1. disk \in Disk /\ DemoLeavesUser /\ KeysHaveOwners
      BY DEF RegistryInv, DiskInv, TypeOK
    <2>2. SeedDemoUser
      <3>1. ASSUME NEW r \in Requests,
                   \/ BeginAdd(r) \/ LookUp(r) \/ InsertUser(r) \/ InsertKey(r)
                   \/ AddFails(r) \/ Answer(r)
            PROVE  disk'.demo = disk.demo
        BY <2>1, <3>1 DEF BeginAdd, LookUp, InsertUser, InsertKey, AddFails, Answer, vars, Disk
      <3>2. ASSUME \/ Launch \/ TablesDone \/ SkipStatus \/ InitFails \/ SeedFails
                   \/ Stop \/ Exit \/ Crash
            PROVE  disk'.demo = disk.demo
        BY <3>2 DEF Launch, TablesDone, SkipStatus, InitFails, SeedFails, Stop, Exit, Crash
      <3>3. ASSUME \/ CreateTable \/ MigrateStatus \/ SeedFirstHost \/ SeedWildcard
                   \/ \E column \in RoleColumns : AddColumnIfMissing(column)
            PROVE  disk'.demo = disk.demo
        BY <2>1, <3>3 DEF CreateTable, MigrateStatus, SeedFirstHost, SeedWildcard,
                          AddColumnIfMissing, Disk
      <3> QED
        BY <3>1, <3>2, <3>3 DEF RegistryNext, Next, Boot
    <2>3. disk.users = {} /\ disk' = [disk EXCEPT !.users = disk.users \cup {"admin"},
                                                  !.keys = disk.keys \cup {MockKey},
                                                  !.demo = disk.demo + 1]
      BY <2>2 DEF SeedDemoUser, FileDemo
    <2>4. disk.keys = {}
      BY <2>1, <2>3 DEF KeysHaveOwners
    <2>5. disk.demo = 0
      BY <2>1, <2>3 DEF DemoLeavesUser
    <2>6. disk'.demo = disk.demo + 1
      BY <2>1, <2>3 DEF Disk
    <2> QED
      BY <2>3, <2>4, <2>5, <2>6
  <1> QED
    BY <1>1, RegistryInvariant, PTL DEF RegistrySpec, DemoOnlyWhenFresh
-----------------------------------------------------------------------------
(* The registry implements KeyStore.  Besides RegistryInv this rests on the    *)
(* fact that no request is under way while the process is not up.             *)

NobodyCalls == pc \notin {"serving", "stopping"} => \A r \in Requests : add[r].pc = "idle"

Calls == [r \in Requests |-> CallOf(add[r])]

\* The call a slot shows depends on the slot's request alone.
LEMMA CallMoves ==
    ASSUME NEW r \in Requests, NEW q, add' = [add EXCEPT ![r] = q],
           add \in [Requests -> Request]
    PROVE  /\ Calls' = [Calls EXCEPT ![r] = CallOf(q)]
           /\ Calls[r] = CallOf(add[r])
  <1> HIDE DEF CallOf
  <1>1. \A s \in Requests : add'[s] = IF s = r THEN q ELSE add[s]
    OBVIOUS
  <1>2. Calls' = [s \in Requests |-> CallOf(add'[s])]
    BY DEF Calls
  <1>3. Calls' = [s \in Requests |-> IF s = r THEN CallOf(q) ELSE CallOf(add[s])]
    BY <1>1, <1>2
  <1> QED
    BY <1>3 DEF Calls

\* Idle slots show no call, and only they do.
LEMMA IdleCalls ==
    ASSUME NEW q
    PROVE  CallOf(q) = Store!NoCall <=> q.pc = "idle"
  <1>1. CallOf(q).phase = CallPhase(q)
    BY DEF CallOf
  <1>2. q.pc # "idle" => CallPhase(q) # "idle"
    BY DEF CallPhase
  <1>3. q.pc = "idle" => CallOf(q) = Store!NoCall
    BY DEF CallOf, CallPhase, Store!NoCall
  <1> QED
    BY <1>1, <1>2, <1>3 DEF Store!NoCall

\* A call that is on its way.
LEMMA BusyCalls ==
    ASSUME NEW q, q.pc # "idle"
    PROVE  /\ CallOf(q) = [phase |-> CallPhase(q), user |-> q.user, key |-> q.key]
           /\ q.pc \in {"lookup", "user", "key"} => CallPhase(q) = "open"
           /\ q.pc = "reply" /\ q.out = "created" => CallPhase(q) = "filed"
           /\ q.pc = "reply" /\ q.out # "created" => CallPhase(q) = "refused"
  BY DEF CallOf, CallPhase

\* Requests come in while the server is up, and end when it goes down.
LEMMA NobodyCallsKept ==
    ASSUME RegistryInv, NobodyCalls, RegistryNext
    PROVE  NobodyCalls'
  <1>1. CASE Next /\ RequestsEnd
    <2>1. CASE pc' = "down"
      BY <1>1, <2>1 DEF RequestsEnd, IdleRequest, NobodyCalls
    <2>2. CASE pc' # "down"
      <3>1. add' = add
        BY <1>1, <2>2 DEF RequestsEnd
      <3>2. pc \in {"serving", "stopping"} => pc' \in {"serving", "stopping"}
        BY <1>1, <2>2
           DEF Next, Boot, Launch, CreateTable, TablesDone, MigrateStatus, AddColumnIfMissing,
               RoleColumns, SeedDemoUser, SeedFirstHost, SeedWildcard, Exit, SkipStatus,
               InitFails, SeedFails, Stop, Crash, Goto, Migrating, Seeding
      <3> QED
        BY <3>1, <3>2 DEF NobodyCalls
    <2> QED
      BY <2>1, <2>2
  <1>2. ASSUME NEW r \in Requests,
               \/ BeginAdd(r) \/ LookUp(r) \/ InsertUser(r) \/ InsertKey(r)
               \/ AddFails(r) \/ Answer(r)
        PROVE  pc \in {"serving", "stopping"} /\ pc' = pc
    BY <1>2 DEF BeginAdd, LookUp, InsertUser, InsertKey, AddFails, Answer, At, Up, vars
  <1> QED
    BY <1>1, <1>2 DEF RegistryNext, NobodyCalls

\* A call that changes to phase ph.
LEMMA CallTurns ==
    ASSUME RegistryInv, NEW r \in Requests, NEW q \in Request, add[r].pc # "idle",
           q.pc # "idle", q.user = add[r].user, q.key = add[r].key,
           add' = [add EXCEPT ![r] = q]
    PROVE  Calls' = [Calls EXCEPT ![r].phase = CallPhase(q)]
  <1>1. /\ Calls' = [Calls EXCEPT ![r] = CallOf(q)]
        /\ Calls[r] = CallOf(add[r])
    BY CallMoves DEF RegistryInv
  <1>2. /\ CallOf(q) = [phase |-> CallPhase(q), user |-> q.user, key |-> q.key]
        /\ CallOf(add[r]) = [phase |-> CallPhase(add[r]), user |-> add[r].user,
                             key |-> add[r].key]
    BY BusyCalls
  <1>3. CallOf(q) = [Calls[r] EXCEPT !.phase = CallPhase(q)]
    BY <1>1, <1>2
  <1> HIDE DEF Calls
  <1> QED
    BY <1>1, <1>3

LEMMA BeginAddAsks ==
    ASSUME RegistryInv, NEW r \in Requests, BeginAdd(r)
    PROVE  Store!Ask(r)
  <1>1. PICK u \in Names, k \in Keys :
          add' = [add EXCEPT ![r] = [pc |-> "lookup", user |-> u, key |-> k,
                                     known |-> u \in disk.users, out |-> "none"]]
    BY DEF BeginAdd
  <1> DEFINE q == [pc |-> "lookup", user |-> u, key |-> k,
                   known |-> u \in disk.users, out |-> "none"]
  <1>2. q.pc = "lookup" /\ q.user = u /\ q.key = k
    OBVIOUS
  <1>3. add' = [add EXCEPT ![r] = q]
    BY <1>1
  <1> HIDE DEF q
  <1>4. Calls' = [Calls EXCEPT ![r] = CallOf(q)] /\ Calls[r] = CallOf(add[r])
    BY <1>3, CallMoves DEF RegistryInv
  <1>5. CallOf(q) = [phase |-> "open", user |-> u, key |-> k]
    BY <1>2, BusyCalls
  <1>6. Calls[r] = Store!NoCall
    BY <1>4, IdleCalls DEF BeginAdd
  <1>7. disk' = disk /\ acked' = acked
    BY DEF BeginAdd, vars
  <1>8. k \in Keys \cup {"mock"}
    OBVIOUS
  <1> QED
    BY <1>4, <1>5, <1>6, <1>7, <1>8 DEF Store!Ask, Calls

LEMMA InsertUserJoins ==
    ASSUME RegistryInv, NEW r \in Requests, InsertUser(r)
    PROVE  Store!Join(r) \/ Store!Refuse(r)
  <1>1. /\ add[r].pc = "user" /\ RequestOK(r) /\ disk \in Disk /\ acked' = acked
        /\ add \in [Requests -> Request] /\ add[r] \in Request
    BY DEF InsertUser, At, RegistryInv, DiskInv, TypeOK
  <1>2. Calls[r].phase = "open" /\ Calls[r].user = add[r].user
    BY <1>1, BusyCalls DEF Calls
  <1>3. CASE add[r].user \in disk.users
    <2>1. add' = [add EXCEPT ![r].pc = "reply", ![r].out = "taken"] /\ disk' = disk
      BY <1>3 DEF InsertUser, Reply
    <2>2. /\ add' = [add EXCEPT ![r] = add'[r]] /\ add'[r] \in Request
          /\ add'[r].pc = "reply" /\ add'[r].out = "taken"
          /\ add'[r].user = add[r].user /\ add'[r].key = add[r].key
      <3>1. "taken" \in Outcomes
        BY DEF Outcomes
      <3> QED
        BY <2>1, <3>1, Changed
    <2>3. CallPhase(add'[r]) = "refused"
      BY <2>2, BusyCalls
    <2>4. Calls' = [Calls EXCEPT ![r].phase = "refused"]
      BY <1>1, <2>2, <2>3, CallTurns
    <2> QED
      BY <1>1, <1>2, <2>1, <2>4 DEF Store!Refuse, Calls
  <1>4. CASE add[r].user \notin disk.users
    <2>1. /\ disk' = [disk EXCEPT !.users = disk.users \cup {add[r].user}]
          /\ Proceed(r, "key")
      BY <1>4 DEF InsertUser
    <2>2. disk'.users = disk.users \cup {add[r].user} /\ disk'.keys = disk.keys
      BY <1>1, <2>1 DEF Disk
    <2>3. /\ add' = [add EXCEPT ![r] = add'[r]] /\ add'[r] \in Request
          /\ add'[r].pc = "key"
          /\ add'[r].user = add[r].user /\ add'[r].key = add[r].key
      <3>1. add' = [add EXCEPT ![r].pc = "key", ![r].out = "none"] /\ "none" \in Outcomes
        BY <1>1, <2>1, Proceeded
      <3> QED
        BY <3>1, Changed
    <2>4. CallPhase(add'[r]) = "open" /\ CallPhase(add[r]) = "open"
      BY <1>1, <2>3, BusyCalls
    <2>5. Calls' = [Calls EXCEPT ![r].phase = "open"]
      BY <1>1, <2>3, <2>4, CallTurns
    <2>6. Calls[r] = [Calls[r] EXCEPT !.phase = "open"]
      BY <1>2 DEF Calls, CallOf
    <2>7. Calls' = Calls
      <3>1. [Calls EXCEPT ![r].phase = "open"] = [Calls EXCEPT ![r] = Calls[r]]
        BY <2>6
      <3> QED
        BY <2>5, <3>1 DEF Calls
    <2> QED
      BY <1>1, <1>2, <1>4, <2>2, <2>7 DEF Store!Join, Calls
  <1> QED
    BY <1>3, <1>4

LEMMA InsertKeyFiles ==
    ASSUME RegistryInv, NEW r \in Requests, InsertKey(r)
    PROVE  Store!File(r)
  <1>1. /\ add[r].pc = "key" /\ RequestOK(r) /\ disk \in Disk /\ acked' = acked
        /\ add \in [Requests -> Request] /\ add[r] \in Request
        /\ disk' = [disk EXCEPT !.keys = disk.keys \cup
                                           {[user |-> add[r].user, key |-> add[r].key]}]
        /\ add' = [add EXCEPT ![r].pc = "reply", ![r].out = "created"]
    BY DEF InsertKey, Reply, At, RegistryInv, DiskInv, TypeOK
  <1>2. /\ Calls[r].phase = "open"
        /\ Calls[r].user = add[r].user /\ Calls[r].key = add[r].key
        /\ add[r].user \in disk.users
    BY <1>1, BusyCalls DEF Calls, RequestOK
  <1>3. /\ add' = [add EXCEPT ![r] = add'[r]] /\ add'[r] \in Request
        /\ add'[r].pc = "reply" /\ add'[r].out = "created"
        /\ add'[r].user = add[r].user /\ add'[r].key = add[r].key
    <2>1. "created" \in Outcomes
      BY DEF Outcomes
    <2> QED
      BY <1>1, <2>1, Changed
  <1>4. CallPhase(add'[r]) = "filed"
    BY <1>3, BusyCalls
  <1>5. Calls' = [Calls EXCEPT ![r].phase = "filed"]
    <2>1. add[r].pc # "idle" /\ add'[r].pc # "idle"
      BY <1>1, <1>3
    <2> QED
      BY <1>3, <1>4, <2>1, CallTurns
  <1>6. /\ disk'.keys = disk.keys \cup {[user |-> add[r].user, key |-> add[r].key]}
        /\ disk'.users = disk.users
    BY <1>1 DEF Disk
  <1> QED
    BY <1>1, <1>2, <1>5, <1>6 DEF Store!File, Store!RowOf, Calls

LEMMA AddFailsRefuses ==
    ASSUME RegistryInv, NEW r \in Requests, AddFails(r)
    PROVE  Store!Refuse(r)
  <1>1. /\ add[r].pc \in {"lookup", "user", "key"} /\ disk' = disk /\ acked' = acked
        /\ add \in [Requests -> Request] /\ add[r] \in Request
        /\ add' = [add EXCEPT ![r].pc = "reply", ![r].out = "error"]
    BY DEF AddFails, Reply, RegistryInv
  <1>2. Calls[r].phase = "open"
    BY <1>1, BusyCalls DEF Calls
  <1>3. /\ add' = [add EXCEPT ![r] = add'[r]] /\ add'[r] \in Request
        /\ add'[r].pc = "reply" /\ add'[r].out = "error"
        /\ add'[r].user = add[r].user /\ add'[r].key = add[r].key
    <2>1. "error" \in Outcomes
      BY DEF Outcomes
    <2> QED
      BY <1>1, <2>1, Changed
  <1>4. CallPhase(add'[r]) = "refused"
    BY <1>3, BusyCalls
  <1>5. Calls' = [Calls EXCEPT ![r].phase = "refused"]
    <2>1. add[r].pc # "idle" /\ add'[r].pc # "idle"
      BY <1>1, <1>3
    <2> QED
      BY <1>3, <1>4, <2>1, CallTurns
  <1> QED
    BY <1>1, <1>2, <1>5 DEF Store!Refuse, Calls

LEMMA AnswerAnswers ==
    ASSUME RegistryInv, NEW r \in Requests, Answer(r)
    PROVE  Store!Answer(r)
  <1>1. /\ add[r].pc = "reply" /\ disk' = disk
        /\ add \in [Requests -> Request]
        /\ add' = [add EXCEPT ![r] = IdleRequest]
    BY DEF Answer, At, RegistryInv, vars
  <1>2. /\ Calls' = [Calls EXCEPT ![r] = CallOf(IdleRequest)]
        /\ Calls[r] = CallOf(add[r])
    BY <1>1, CallMoves
  <1>3. CallOf(IdleRequest) = Store!NoCall
    BY IdleCalls DEF IdleRequest
  <1>4. /\ Calls[r].user = add[r].user /\ Calls[r].key = add[r].key
        /\ Calls[r].phase \in {"filed", "refused"}
        /\ Calls[r].phase = "filed" <=> add[r].out = "created"
    BY <1>1, <1>2, BusyCalls
  <1>5. acked' = IF Calls[r].phase = "filed"
                 THEN acked \cup {[user |-> Calls[r].user, key |-> Calls[r].key]} ELSE acked
    BY <1>4 DEF Answer
  <1> QED
    BY <1>1, <1>2, <1>3, <1>4, <1>5 DEF Store!Answer, Store!RowOf, Calls

\* The process moves no rows but the demo user's, and hangs up on everybody or nobody.
LEMMA ProcessSeeds ==
    ASSUME RegistryInv, NobodyCalls, Next, RequestsEnd
    PROVE  [Store!StoreNext]_<<disk.users, disk.keys, Calls, acked>>
  <1>1. acked' = acked /\ disk \in Disk
    BY DEF RequestsEnd, RegistryInv, DiskInv, TypeOK
  <1>2. Calls' = Calls \/ Calls' = [r \in Requests |-> Store!NoCall]
    <2>1. CASE add' = add
      BY <2>1 DEF Calls
    <2>2. CASE add' = [r \in Requests |-> IdleRequest]
      <3>1. CallOf(IdleRequest) = Store!NoCall
        BY IdleCalls DEF IdleRequest
      <3> HIDE DEF CallOf
      <3>2. \A r \in Requests : CallOf(add'[r]) = Store!NoCall
        BY <2>2, <3>1
      <3> QED
        BY <3>2 DEF Calls
    <2> QED
      BY <2>1, <2>2 DEF RequestsEnd
  <1>3. CASE disk'.users = disk.users /\ disk'.keys = disk.keys
    BY <1>1, <1>2, <1>3 DEF Store!StoreNext, Store!HangUp, Calls
  <1>4. CASE SeedDemoUser /\ disk.users = {} /\ FileDemo
    <2>1. disk'.users = {"admin"} /\ disk'.keys = disk.keys \cup {MockKey}
      BY <1>1, <1>4 DEF FileDemo, Disk
    <2>2. disk.keys = {}
      BY <1>4 DEF RegistryInv, KeysHaveOwners
    <2>3. pc = "seed_user" /\ pc' # "down"
      BY <1>4 DEF SeedDemoUser, Goto
    <2>4. Calls' = Calls
      BY <2>3 DEF RequestsEnd, Calls
    <2>5. \A r \in Requests : Calls[r] = Store!NoCall
      <3>1. \A r \in Requests : add[r].pc = "idle"
        BY <2>3 DEF NobodyCalls
      <3> HIDE DEF CallOf
      <3>2. \A r \in Requests : CallOf(add[r]) = Store!NoCall
        BY <3>1, IdleCalls
      <3> QED
        BY <3>2 DEF Calls
    <2>6. "admin" \in Names /\ "mock" \in Keys \cup {"mock"}
      BY DEF Names
    <2>7. Store!Seed
      BY <1>1, <1>4, <2>1, <2>2, <2>4, <2>5, <2>6 DEF Store!Seed, MockKey, Calls
    <2> QED
      BY <2>7 DEF Store!StoreNext
  <1>5. CASE SeedDemoUser /\ UNCHANGED disk
    BY <1>3, <1>5
  <1>6. CASE \/ CreateTable \/ MigrateStatus \/ SeedFirstHost \/ SeedWildcard
             \/ \E column \in RoleColumns : AddColumnIfMissing(column)
    <2>1. disk'.users = disk.users /\ disk'.keys = disk.keys
      BY <1>1, <1>6 DEF CreateTable, MigrateStatus, SeedFirstHost, SeedWildcard,
                        AddColumnIfMissing, Disk
    <2> QED
      BY <1>3, <2>1
  <1>7. CASE \/ Launch \/ TablesDone \/ SkipStatus \/ InitFails \/ SeedFails
             \/ Stop \/ Exit \/ Crash
    <2>1. disk' = disk
      BY <1>7 DEF Launch, TablesDone, SkipStatus, InitFails, SeedFails, Stop, Exit, Crash
    <2> QED
      BY <1>3, <2>1
  <1> QED
    BY <1>4, <1>5, <1>6, <1>7 DEF Next, Boot, SeedDemoUser

\* Every step of the registry is a step of the store, or none.
LEMMA StoreStep ==
    ASSUME RegistryInv, NobodyCalls, [RegistryNext]_registryVars
    PROVE  [Store!StoreNext]_<<disk.users, disk.keys, Calls, acked>>
  <1>1. CASE UNCHANGED registryVars
    BY <1>1 DEF registryVars, vars, Calls
  <1>2. CASE Next /\ RequestsEnd
    BY <1>2, ProcessSeeds
  <1>3. ASSUME NEW r \in Requests, LookUp(r)
        PROVE  UNCHANGED <<disk.users, disk.keys, Calls, acked>>
    <2>1. PICK step \in {"user", "key"} : Proceed(r, step)
      BY <1>3 DEF LookUp
    <2>2. add[r].pc = "lookup" /\ disk' = disk /\ acked' = acked /\ add[r] \in Request
      BY <1>3 DEF LookUp, At, vars, RegistryInv
    <2>3. /\ add' = [add EXCEPT ![r] = add'[r]] /\ add'[r] \in Request
          /\ add'[r].pc = step
          /\ add'[r].user = add[r].user /\ add'[r].key = add[r].key
      <3>1. add' = [add EXCEPT ![r].pc = step, ![r].out = "none"] /\ "none" \in Outcomes
        BY <2>1, <2>2, Proceeded
      <3> QED
        BY <3>1, Changed
    <2>4. CallPhase(add'[r]) = "open" /\ CallPhase(add[r]) = "open"
      BY <2>2, <2>3, BusyCalls
    <2>5. CallOf(add'[r]) = CallOf(add[r])
      BY <2>2, <2>3, <2>4, BusyCalls
    <2>6. /\ Calls' = [Calls EXCEPT ![r] = CallOf(add'[r])]
          /\ Calls[r] = CallOf(add[r])
      BY <2>3, CallMoves DEF RegistryInv
    <2>7. Calls' = Calls
      BY <2>5, <2>6 DEF Calls
    <2> QED
      BY <2>2, <2>7
  <1>4. ASSUME NEW r \in Requests,
               BeginAdd(r) \/ InsertUser(r) \/ InsertKey(r) \/ AddFails(r) \/ Answer(r)
        PROVE  Store!StoreNext
    BY <1>4, BeginAddAsks, InsertUserJoins, InsertKeyFiles, AddFailsRefuses, AnswerAnswers
       DEF Store!StoreNext
  <1> QED
    BY <1>1, <1>2, <1>3, <1>4 DEF RegistryNext

\* A database at the start is a store that nobody calls.
LEMMA StoreStart == RegistryInit => Store!StoreInit /\ NobodyCalls
  <1> SUFFICES ASSUME RegistryInit PROVE Store!StoreInit /\ NobodyCalls
    OBVIOUS
  <1>1. RegistryInv
    BY InitInv
  <1>2. disk.users \in SUBSET Names /\ disk.keys \in SUBSET KeyRow
    BY <1>1, DiskFields DEF RegistryInv, DiskInv, TypeOK
  <1>3. disk.keys \in SUBSET [user : disk.users, key : Keys \cup {"mock"}]
    BY <1>1, <1>2 DEF RegistryInv, KeysHaveOwners, KeyRow
  <1>4. \A r \in Requests : add[r].pc = "idle"
    BY DEF RegistryInit, IdleRequest
  <1>5. Calls = [r \in Requests |-> Store!NoCall]
    <2> HIDE DEF CallOf
    <2>1. \A r \in Requests : CallOf(add[r]) = Store!NoCall
      BY <1>4, IdleCalls
    <2> QED
      BY <2>1 DEF Calls
  <1>6. acked = {}
    BY DEF RegistryInit
  <1> QED
    BY <1>2, <1>3, <1>4, <1>5, <1>6 DEF Store!StoreInit, NobodyCalls, Calls

\* Any number of overlapping requests, failures and restarts implement the store in
\* which a key is filed in one step: nobody is answered 201 for a key that is not
\* filed, a refused key is not, and the demo user never meets a registration
\* (handleAddKey, AddSSHKey, ensureUser, SeedData).
THEOREM StoreRefined == RegistrySpec => ImplementsKeyStore
  <1>1. RegistryInv /\ NobodyCalls /\ [RegistryNext]_registryVars => NobodyCalls'
    <2>1. NobodyCalls /\ UNCHANGED registryVars => NobodyCalls'
      BY DEF NobodyCalls, registryVars, vars
    <2> QED
      BY <2>1, NobodyCallsKept
  <1>2. RegistryInv /\ NobodyCalls /\ [RegistryNext]_registryVars
          => [Store!StoreNext]_<<disk.users, disk.keys, Calls, acked>>
    BY StoreStep
  <1> QED
    BY <1>1, <1>2, StoreStart, RegistryInvariant, PTL
       DEF RegistrySpec, ImplementsKeyStore, Store!StoreSpec, Store!storeVars, Calls

-----------------------------------------------------------------------------
(* Why the server keeps coming up: the safety half of KeepsComingUp. *)

Remaining(stage) ==
    CASE stage = "stopping" -> 9
      [] stage = "down" -> 8
      [] stage = "schema" -> 7
      [] stage = "leases.status" -> 6
      [] stage = "users.role" -> 5
      [] stage = "user_tokens.role" -> 4
      [] stage = "seed_user" -> 3
      [] stage = "seed_hosts" -> 2
      [] stage = "seed_wildcard" -> 1
      [] OTHER -> 0

Missing == TableNames \ disk.tables

\* The steps between here and a server that listens, at most.
Ahead == Remaining(pc) + Cardinality(Missing)

\* Until the server listens, whatever an earlier start left behind, every step of the
\* start brings it nearer; nothing but a failing statement or a crash sends it back,
\* and each of those uses up one of a number that does not grow again (InitDB,
\* addColumnIfMissing, SeedData).
StartStep ==
    /\ mishaps <= mishaps'
    /\ pc # "serving" /\ mishaps' = mishaps =>
          /\ Ahead' <= Ahead
          /\ Boot => Ahead' < Ahead

\* The tables can be counted, and there are fewer missing when one is created.
LEMMA TablesCounted ==
    ASSUME RegistryInv, RegistryInv'
    PROVE  /\ Cardinality(Missing) \in Nat /\ Cardinality(Missing') \in Nat
           /\ Missing' = Missing => Cardinality(Missing') = Cardinality(Missing)
           /\ \A table \in Missing :
                 Missing' = Missing \ {table} => Cardinality(Missing') < Cardinality(Missing)
  <1>1. IsFiniteSet(TableNames)
    <2>1. TableNames = {"users"} \cup {"ssh_keys"} \cup {"leases"} \cup {"hosts"}
                         \cup {"audit_logs"} \cup {"user_tokens"}
      BY DEF TableNames
    <2> QED
      BY <2>1, FS_Singleton, FS_Union
  <1>2. Missing \subseteq TableNames /\ Missing' \subseteq TableNames
    BY DEF Missing
  <1>3. /\ IsFiniteSet(Missing) /\ Cardinality(Missing) \in Nat
        /\ IsFiniteSet(Missing') /\ Cardinality(Missing') \in Nat
    BY <1>1, <1>2, FS_Subset, FS_CardinalityType
  <1>4. ASSUME NEW table \in Missing
        PROVE  Cardinality(Missing \ {table}) = Cardinality(Missing) - 1
    BY <1>3, FS_RemoveElement
  <1> HIDE DEF Missing
  <1> QED
    BY <1>3, <1>4

\* Every step but a stop is a step towards a server that listens, or a mishap.
LEMMA StartForward ==
    ASSUME RegistryInv, RegistryInv', RegistryNext
    PROVE  StartStep
  <1> DEFINE less == Cardinality(Missing') < Cardinality(Missing)
             same == Cardinality(Missing') = Cardinality(Missing)
  <1>1. /\ Cardinality(Missing) \in Nat /\ Cardinality(Missing') \in Nat
        /\ disk'.tables = disk.tables => same
    BY TablesCounted DEF Missing
  <1>2. disk \in Disk /\ mishaps \in Nat
    BY DEF RegistryInv, DiskInv, TypeOK
  <1>3. \A stage : Remaining(stage) \in Nat
    BY DEF Remaining
  <1>4. CASE CreateTable
    <2>1. PICK table \in Missing :
            disk' = [disk EXCEPT !.tables = disk.tables \cup {table},
                                 !.columns = disk.columns \cup ColumnsOf(table)]
      BY <1>4 DEF CreateTable, Missing
    <2>2. disk'.tables = disk.tables \cup {table}
      BY <1>2, <2>1 DEF Disk
    <2>3. less
      BY <2>2, TablesCounted DEF Missing
    <2>4. pc' = pc /\ mishaps' = mishaps
      BY <1>4 DEF CreateTable, Goto
    <2> HIDE DEF Missing
    <2> QED
      BY <1>1, <1>2, <1>3, <2>3, <2>4 DEF StartStep, Ahead
  <1>5. CASE \/ TablesDone \/ MigrateStatus \/ SeedDemoUser \/ SeedFirstHost \/ SeedWildcard
             \/ Launch \/ Exit \/ \E column \in RoleColumns : AddColumnIfMissing(column)
    <2>1. same
      <3>1. disk'.tables = disk.tables
        BY <1>2, <1>5
           DEF TablesDone, MigrateStatus, SeedDemoUser, FileDemo, SeedFirstHost, SeedWildcard,
               Launch, Exit, AddColumnIfMissing, Disk
      <3> QED
        BY <1>1, <3>1
    <2>2. mishaps' = mishaps
      BY <1>5 DEF TablesDone, MigrateStatus, SeedDemoUser, SeedFirstHost, SeedWildcard,
                  Launch, Exit, AddColumnIfMissing, Goto
    <2>3. Remaining(pc') < Remaining(pc)
      <3>1. \/ pc = "stopping" /\ pc' = "down"
            \/ pc = "down" /\ pc' = "schema"
            \/ pc = "schema" /\ pc' = "leases.status"
            \/ pc = "leases.status" /\ pc' = "users.role"
            \/ pc = "users.role" /\ pc' = "user_tokens.role"
            \/ pc = "user_tokens.role" /\ pc' = "seed_user"
            \/ pc = "seed_user" /\ pc' \in {"seed_hosts", "serving"}
            \/ pc = "seed_hosts" /\ pc' \in {"seed_wildcard", "serving"}
            \/ pc = "seed_wildcard" /\ pc' = "serving"
        BY <1>5 DEF TablesDone, MigrateStatus, SeedDemoUser, SeedFirstHost, SeedWildcard,
                    Launch, Exit, AddColumnIfMissing, AfterColumn, RoleColumns, Goto
      <3> QED
        BY <3>1 DEF Remaining
    <2> HIDE DEF Missing
    <2> QED
      BY <1>1, <1>2, <1>3, <2>1, <2>2, <2>3 DEF StartStep, Ahead
  <1>6. CASE SkipStatus \/ InitFails \/ SeedFails \/ Crash
    BY <1>2, <1>6 DEF SkipStatus, InitFails, SeedFails, Crash, StartStep
  <1>7. CASE Stop
    BY <1>2, <1>7 DEF Stop, Goto, StartStep
  <1>8. ASSUME NEW r \in Requests,
               \/ BeginAdd(r) \/ LookUp(r) \/ InsertUser(r) \/ InsertKey(r)
               \/ AddFails(r) \/ Answer(r)
        PROVE  StartStep
    <2>1. pc' = pc /\ (mishaps' = mishaps \/ mishaps' = mishaps + 1)
      BY <1>8 DEF BeginAdd, LookUp, InsertUser, InsertKey, AddFails, Answer, vars
    <2>2. same
      <3>1. disk'.tables = disk.tables
        BY <1>2, <1>8 DEF BeginAdd, LookUp, InsertUser, InsertKey, AddFails, Answer, vars, Disk
      <3> QED
        BY <1>1, <3>1
    <2>3. pc \in {"serving", "stopping"}
      BY <1>8 DEF BeginAdd, LookUp, InsertUser, InsertKey, AddFails, Answer, At, Up
    <2>4. Boot => pc' # pc \/ pc \notin {"serving", "stopping"}
      BY DEF Boot, Launch, CreateTable, TablesDone, MigrateStatus, AddColumnIfMissing,
             SeedDemoUser, SeedFirstHost, SeedWildcard, Exit, Goto, RoleColumns
    <2> HIDE DEF Missing
    <2> QED
      BY <1>1, <1>2, <1>3, <2>1, <2>2, <2>3, <2>4 DEF StartStep, Ahead
  <1> QED
    BY <1>4, <1>5, <1>6, <1>7, <1>8 DEF RegistryNext, Next, Boot

\* Whatever state a start finds the database in, it takes at most eight statements and
\* one for each missing table until the server listens, unless it fails or crashes.
THEOREM StartsGoForward == RegistrySpec => [][StartStep]_registryVars
  <1>1. RegistryInv /\ RegistryInv' /\ [RegistryNext]_registryVars => [StartStep]_registryVars
    BY StartForward
  <1> QED
    BY <1>1, RegistryInvariant, PTL DEF RegistrySpec
=============================================================================
