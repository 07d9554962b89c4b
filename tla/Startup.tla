------------------------------- MODULE Startup -------------------------------
(***************************************************************************)
(* How the server comes up (cmd/server run): InitDB creates and migrates    *)
(* the schema of warden.db, SeedData files the demo data, then the server   *)
(* listens.  Neither runs in a transaction, so the process can die between  *)
(* any two statements and finds its own leftovers when it is started again. *)
(***************************************************************************)
EXTENDS Naturals

CONSTANTS
    Clients,    \* users that a running server is asked to add keys for
    Keys,       \* public keys they send
    MaxMishaps  \* bound: failing statements and crashes, together

ASSUME StartupAssumption == MaxMishaps \in Nat

VARIABLES
    pc,       \* where the process is; "down" when there is none
    disk,     \* warden.db
    warned,   \* did SeedData return an error in this run?
    skipped,  \* history: did this run skip the migration of the leases table?
    mishaps   \* failures and crashes so far

vars == <<pc, disk, warned, skipped, mishaps>>

TableNames == {"users", "ssh_keys", "leases", "hosts", "audit_logs", "user_tokens"}
\* Columns later releases added, with the table each belongs to.
RoleColumns == {"users.role", "user_tokens.role"}
Columns == {"leases.status"} \cup RoleColumns
ColumnsOf(table) ==
    CASE table = "leases" -> {"leases.status"}
      [] table = "users" -> {"users.role"}
      [] table = "user_tokens" -> {"user_tokens.role"}
      [] OTHER -> {}

SeedHosts == {"srv-test-01", "*"}

\* The demo user, with a key of its own, may be sent further keys by name.
Names == Clients \cup {"admin"}
KeyRow == [user : Names, key : Keys \cup {"mock"}]
MockKey == [user |-> "admin", key |-> "mock"]

Disk ==
    [tables  : SUBSET TableNames,
     columns : SUBSET Columns,
     users   : SUBSET Names,          \* usernames are unique
     keys    : SUBSET KeyRow,
     demo    : 0 .. 2,                \* demo leases filed so far
     hosts   : SUBSET SeedHosts]

Migrating == {"schema", "leases.status", "users.role", "user_tokens.role"}
Seeding == {"seed_user", "seed_hosts", "seed_wildcard"}
Stages == {"down", "serving", "stopping"} \cup Migrating \cup Seeding

\* warden.db is missing, or was left by a release with all six tables and any of the later
\* columns, in use or not.  Fewer tables come of starts that broke off only.
Init ==
    /\ pc = "down"
    /\ warned = FALSE
    /\ skipped = FALSE
    /\ mishaps = 0
    /\ \/ disk = [tables |-> {}, columns |-> {}, users |-> {}, keys |-> {},
                   demo |-> 0, hosts |-> {}]
       \/ \E columns \in SUBSET Columns, hosts \in {{}, SeedHosts}, users \in SUBSET Names :
          \E keys \in SUBSET [user : users, key : Keys],
             demo \in IF "admin" \in users THEN 0 .. 1 ELSE {0} :
            disk = [tables |-> TableNames, columns |-> columns, users |-> users,
                    keys |-> keys \cup IF demo = 1 THEN {MockKey} ELSE {},
                    demo |-> demo, hosts |-> hosts]

MayFail == mishaps < MaxMishaps

Goto(stage) == pc' = stage /\ UNCHANGED <<warned, skipped, mishaps>>

-----------------------------------------------------------------------------
(* InitDB *)

Launch ==
    /\ pc = "down"
    /\ pc' = "schema"
    /\ warned' = FALSE
    /\ skipped' = FALSE
    /\ UNCHANGED <<disk, mishaps>>

\* CREATE TABLE IF NOT EXISTS, one statement after the other in the source's
\* order, which does not matter; a new table has every column.
CreateTable ==
    /\ pc = "schema"
    /\ \E table \in TableNames \ disk.tables :
         disk' = [disk EXCEPT !.tables = @ \cup {table},
                              !.columns = @ \cup ColumnsOf(table)]
    /\ Goto("schema")

TablesDone ==
    /\ pc = "schema"
    /\ disk.tables = TableNames
    /\ Goto("leases.status")
    /\ UNCHANGED disk

\* Faulty variant: the look-up finds the column in another table.
StatusTakenForPresent ==
    /\ pc = "leases.status"
    /\ UNCHANGED disk
    /\ Goto("users.role")

\* The column of the leases table.
MigrateStatus ==
    /\ pc = "leases.status"
    /\ disk' = [disk EXCEPT !.columns = @ \cup {"leases.status"}]
    /\ Goto("users.role")

\* The SELECT that looks for the column fails: its error is not looked at and
\* the migration is skipped.
SkipStatus ==
    /\ pc = "leases.status"
    /\ MayFail
    /\ pc' = "users.role"
    /\ skipped' = TRUE
    /\ mishaps' = mishaps + 1
    /\ UNCHANGED <<disk, warned>>

AfterColumn(column) == IF column = "users.role" THEN "user_tokens.role" ELSE "seed_user"

\* Faulty variants: ALTER TABLE without looking first, which fails when the
\* column is there and ends the process; and looking without altering.
AddAlways(column) ==
    /\ pc = column
    /\ IF column \in disk.columns
       THEN Goto("down") /\ UNCHANGED disk
       ELSE /\ disk' = [disk EXCEPT !.columns = @ \cup {column}]
            /\ Goto(AfterColumn(column))
AddNever(column) ==
    /\ pc = column
    /\ Goto(AfterColumn(column))
    /\ UNCHANGED disk

\* addColumnIfMissing, for the two role columns.
AddColumnIfMissing(column) ==
    /\ pc = column
    /\ disk' = [disk EXCEPT !.columns = @ \cup {column}]
    /\ Goto(AfterColumn(column))

\* Any other error of InitDB ends the process.
InitFails ==
    /\ pc \in Migrating
    /\ MayFail
    /\ pc' = "down"
    /\ mishaps' = mishaps + 1
    /\ UNCHANGED <<disk, warned, skipped>>

-----------------------------------------------------------------------------
(* SeedData *)

FileDemo ==
    disk' = [disk EXCEPT !.users = @ \cup {"admin"}, !.keys = @ \cup {MockKey},
                         !.demo = @ + 1]

\* Faulty variant: the demo user is seeded when there are no hosts yet.
SeedWithHosts ==
    /\ pc = "seed_user"
    /\ IF disk.hosts = {} THEN FileDemo ELSE UNCHANGED disk
    /\ Goto("seed_hosts")

\* seedDemoUser, one transaction, and only into an empty users table.  A leases
\* table whose migration was skipped refuses the demo lease: all is rolled back,
\* and SeedData ends there.
SeedDemoUser ==
    /\ pc = "seed_user"
    /\ \/ disk.users # {} /\ Goto("seed_hosts") /\ UNCHANGED disk
       \/ /\ disk.users = {} /\ "leases.status" \in disk.columns
          /\ FileDemo
          /\ Goto("seed_hosts")
       \/ /\ disk.users = {} /\ "leases.status" \notin disk.columns
          /\ pc' = "serving"
          /\ warned' = TRUE
          /\ UNCHANGED <<disk, skipped, mishaps>>

\* Two inserts of their own, and only when the hosts table was empty.
SeedFirstHost ==
    /\ pc = "seed_hosts"
    /\ \/ /\ disk.hosts = {}
          /\ disk' = [disk EXCEPT !.hosts = {"srv-test-01"}]
          /\ Goto("seed_wildcard")
       \/ /\ disk.hosts # {}
          /\ Goto("serving")
          /\ UNCHANGED disk

SeedWildcard ==
    /\ pc = "seed_wildcard"
    /\ disk' = [disk EXCEPT !.hosts = @ \cup {"*"}]
    /\ Goto("serving")

\* An error of SeedData is logged and the server comes up all the same.
SeedFails ==
    /\ pc \in Seeding
    /\ MayFail
    /\ pc' = "serving"
    /\ warned' = TRUE
    /\ mishaps' = mishaps + 1
    /\ UNCHANGED <<disk, skipped>>

-----------------------------------------------------------------------------
(* The end of the server.  What it does while it runs is left to the modules   *)
(* of its handlers; KeyRegistry composes the key registry with this one.        *)

\* SIGTERM: nothing new is let in ...
Stop ==
    /\ pc = "serving"
    /\ Goto("stopping")
    /\ UNCHANGED disk

\* ... and the process ends, with the last handler or after five seconds.
Exit ==
    /\ pc = "stopping"
    /\ Goto("down")
    /\ UNCHANGED disk

Crash ==
    /\ pc # "down"
    /\ MayFail
    /\ pc' = "down"
    /\ mishaps' = mishaps + 1
    /\ UNCHANGED <<disk, warned, skipped>>

-----------------------------------------------------------------------------
Boot ==
    \/ Launch \/ CreateTable \/ TablesDone \/ MigrateStatus
    \/ \E column \in RoleColumns : AddColumnIfMissing(column)
    \/ SeedDemoUser \/ SeedFirstHost \/ SeedWildcard
    \/ Exit

Next ==
    \/ Boot
    \/ SkipStatus \/ InitFails \/ SeedFails
    \/ Stop \/ Crash

Spec == Init /\ [][Next]_vars

-----------------------------------------------------------------------------
TypeOK ==
    /\ pc \in Stages
    /\ disk \in Disk
    /\ warned \in BOOLEAN
    /\ skipped \in BOOLEAN
    /\ mishaps \in 0 .. MaxMishaps

\* Whichever columns the database has and wherever earlier starts broke off, the
\* server never listens without its tables and the role columns
\* (addColumnIfMissing, InitDB).
RolesMigrated ==
    pc \in Seeding \cup {"serving", "stopping"} =>
        disk.tables = TableNames /\ RoleColumns \subseteq disk.columns

\* A start whose look-up fails serves a leases table without its status column, but
\* no longer than it runs: the next start that gets past the look-up repairs it,
\* also when the demo data was refused meanwhile (InitDB, seedDemoUser).
SkipEndsWithRun ==
    pc \in Seeding \cup {"serving", "stopping"} /\ ~ skipped =>
        "leases.status" \in disk.columns

\* The demo lease is filed at most once in the life of a database, and never
\* beside users or keys that were there before, also when it was the registration
\* of a key that broke off (SeedData, seedDemoUser).
DemoOnlyWhenFresh ==
    [][disk'.demo # disk.demo =>
          disk.users = {} /\ disk.keys = {} /\ disk'.demo = 1]_vars

\* A start that broke off never keeps later starts from succeeding.
KeepsComingUp == []<>(pc = "serving")

-----------------------------------------------------------------------------
(* A claim of the comments that the code does not keep. *)

\* SeedData injects "two host entries ... whenever the hosts table is empty"
\* (db.go): a server whose SeedData reported no error has both.
BothHostsSeeded == pc = "serving" /\ ~ warned => disk.hosts = SeedHosts
=============================================================================
