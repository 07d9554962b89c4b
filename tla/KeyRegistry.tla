----------------------------- MODULE KeyRegistry -----------------------------
(***************************************************************************)
(* POST /api/v1/keys: handleAddKey, AddSSHKey and ensureUser, statement by  *)
(* statement and several requests at once, in a server that stops, crashes  *)
(* and starts again (Startup).  No two statements share a transaction.      *)
(***************************************************************************)
EXTENDS Startup

CONSTANT Requests  \* slots for requests that are handled at the same time

VARIABLES
    add,   \* the request in each slot
    acked  \* history: keys whose registration was answered with 201

registryVars == <<vars, add, acked>>

\* What became of a request: the username turned out to be taken between the two
\* statements of ensureUser, or another statement failed.
Outcomes == {"none", "created", "taken", "error"}

\* known is history: was there a row for the user when the request came in?
Request == [pc : {"idle", "lookup", "user", "key", "reply"},
            user : Names, key : Keys \cup {"mock"}, known : BOOLEAN, out : Outcomes]
IdleRequest == [pc |-> "idle", user |-> "admin", key |-> "mock", known |-> FALSE,
                out |-> "none"]

RegistryInit ==
    /\ Init
    /\ add = [r \in Requests |-> IdleRequest]
    /\ acked = {}

Up == pc \in {"serving", "stopping"}

\* Request r is at step s of a server that runs.
At(r, s) == Up /\ add[r].pc = s

Proceed(r, s) == add' = [add EXCEPT ![r].pc = s]
Reply(r, out) == add' = [add EXCEPT ![r].pc = "reply", ![r].out = out]

\* handleAddKey up to the first statement; a request without a user or with a key
\* that does not parse ends here and changes nothing.
BeginAdd(r) ==
    /\ pc = "serving"
    /\ add[r].pc = "idle"
    /\ \E u \in Names, k \in Keys :
         add' = [add EXCEPT ![r] = [pc |-> "lookup", user |-> u, key |-> k,
                                    known |-> u \in disk.users, out |-> "none"]]
    /\ UNCHANGED <<vars, acked>>

\* Faulty variant: insert without looking first.
LookNowhere(r) ==
    /\ At(r, "lookup")
    /\ Proceed(r, "user")
    /\ UNCHANGED <<vars, acked>>

\* The SELECT of ensureUser.
LookUp(r) ==
    /\ At(r, "lookup")
    /\ Proceed(r, IF add[r].user \in disk.users THEN "key" ELSE "user")
    /\ UNCHANGED <<vars, acked>>

\* Faulty variant: a name that is taken counts as a user who is there already, and
\* the request ends as if that were all there was to do.
TakenIsDone(r) ==
    /\ At(r, "user")
    /\ IF add[r].user \in disk.users
       THEN Reply(r, "created") /\ UNCHANGED disk
       ELSE /\ disk' = [disk EXCEPT !.users = @ \cup {add[r].user}]
            /\ Proceed(r, "key")
    /\ UNCHANGED <<pc, warned, skipped, mishaps, acked>>

\* Its INSERT, which the unique username refuses when another request was faster.
InsertUser(r) ==
    /\ At(r, "user")
    /\ IF add[r].user \in disk.users
       THEN Reply(r, "taken") /\ UNCHANGED disk
       ELSE /\ disk' = [disk EXCEPT !.users = @ \cup {add[r].user}]
            /\ Proceed(r, "key")
    /\ UNCHANGED <<pc, warned, skipped, mishaps, acked>>

\* The INSERT of AddSSHKey; a key may be filed twice, which shows nowhere.
InsertKey(r) ==
    /\ At(r, "key")
    /\ disk' = [disk EXCEPT !.keys = @ \cup {[user |-> add[r].user, key |-> add[r].key]}]
    /\ Reply(r, "created")
    /\ UNCHANGED <<pc, warned, skipped, mishaps, acked>>

\* Faulty variant: the error of ensureUser is not looked at.
UserErrorDropped(r) ==
    /\ Up /\ add[r].pc \in {"lookup", "user", "key"}
    /\ MayFail
    /\ mishaps' = mishaps + 1
    /\ IF add[r].pc = "key" THEN Reply(r, "error") ELSE Proceed(r, "key")
    /\ UNCHANGED <<pc, disk, warned, skipped, acked>>

\* Faulty variant: the error of the last statement is not looked at.
KeyErrorDropped(r) ==
    /\ Up /\ add[r].pc \in {"lookup", "user", "key"}
    /\ MayFail
    /\ mishaps' = mishaps + 1
    /\ Reply(r, IF add[r].pc = "key" THEN "created" ELSE "error")
    /\ UNCHANGED <<pc, disk, warned, skipped, acked>>

\* A statement fails: the answer is 400, and a user who has just been inserted
\* stays without a key.
AddFails(r) ==
    /\ Up /\ add[r].pc \in {"lookup", "user", "key"}
    /\ MayFail
    /\ mishaps' = mishaps + 1
    /\ Reply(r, "error")
    /\ UNCHANGED <<pc, disk, warned, skipped, acked>>

\* 201, or 400 with the error.
Answer(r) ==
    /\ At(r, "reply")
    /\ acked' = IF add[r].out = "created"
                THEN acked \cup {[user |-> add[r].user, key |-> add[r].key]} ELSE acked
    /\ add' = [add EXCEPT ![r] = IdleRequest]
    /\ UNCHANGED vars

\* Requests end with the process that serves them.
RequestsEnd ==
    /\ add' = IF pc' = "down" THEN [r \in Requests |-> IdleRequest] ELSE add
    /\ UNCHANGED acked

-----------------------------------------------------------------------------
RegistryNext ==
    \/ Next /\ RequestsEnd
    \/ \E r \in Requests :
          \/ BeginAdd(r) \/ LookUp(r) \/ InsertUser(r) \/ InsertKey(r)
          \/ AddFails(r) \/ Answer(r)

RegistrySpec == RegistryInit /\ [][RegistryNext]_registryVars

\* The service manager starts the server again, a statement that does not fail
\* ends, and so does the five-second wait of a stop.
FairSpec == RegistrySpec /\ WF_registryVars(Boot /\ RequestsEnd)

-----------------------------------------------------------------------------
RegistryTypeOK ==
    /\ TypeOK
    /\ add \in [Requests -> Request]
    /\ acked \in SUBSET KeyRow

\* A registration that was answered with 201 is in the database from then on,
\* whatever fails, crashes or is seeded later (AddSSHKey, handleAddKey).
AckedKeysStay == acked \subseteq disk.keys

\* Every key has its user, whatever statement fails or crash comes between the two
\* inserts.  The schema does not see to it: InitDB turns foreign keys on for the one
\* connection it uses, not for those the pool opens later (ensureUser, AddSSHKey).
KeysHaveOwners == \A row \in disk.keys : row.user \in disk.users

\* Two first keys of one user race and one of them may be refused, but that passes:
\* once there is a row for the user, whether or not its request got any further,
\* no request that comes in later is refused because the name is taken (ensureUser).
RaceEndsWithTheFirst == \A r \in Requests : add[r].out = "taken" => ~ add[r].known

-----------------------------------------------------------------------------
(* The requests as the calls KeyStore tells of. *)

CallPhase(q) ==
    CASE q.pc = "idle" -> "idle"
      [] q.pc = "reply" /\ q.out = "created" -> "filed"
      [] q.pc = "reply" /\ q.out # "created" -> "refused"
      [] OTHER -> "open"

CallOf(q) ==
    [phase |-> CallPhase(q),
     user |-> IF q.pc = "idle" THEN "-" ELSE q.user,
     key |-> IF q.pc = "idle" THEN "-" ELSE q.key]

Store ==
    INSTANCE KeyStore WITH Keys <- Keys \cup {"mock"}, users <- disk.users,
                           keys <- disk.keys, call <- [r \in Requests |-> CallOf(add[r])]

\* Whatever requests overlap, fail or break off, and however often the server starts
\* again, a registration takes effect in one step, is answered with 201 only if it
\* did, and never meets the seeding of the demo user (handleAddKey, AddSSHKey,
\* ensureUser, SeedData).
ImplementsKeyStore == Store!StoreSpec
=============================================================================
