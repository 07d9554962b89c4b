---------------------------- MODULE AccessService ----------------------------
(***************************************************************************)
(* The warden server at work: HTTP handlers of internal/api running as      *)
(* concurrent requests over one leases table and one audit log.  net/http   *)
(* runs every request in a goroutine of its own and no handler opens a      *)
(* transaction, so requests interleave between any two database statements. *)
(* In particular time.Now() is read into a local variable BEFORE the        *)
(* statement that uses it; the model keeps the two steps apart.             *)
(***************************************************************************)
EXTENDS LeaseTable, FiniteSets

CONSTANTS
    Requests,    \* the HTTP requests that can be in flight at once
    KnownUsers,  \* users with a row in the users table
    KeyHolders,  \* users with at least one row in ssh_keys
    Durations,   \* lease durations asked for; ParseDuration accepts <= 0
    MaxTime,     \* bound: the clock stops here
    MaxAudit,    \* bound: no audited request starts with this many audit rows
    WebhookOn    \* is a webhook URL configured?

ASSUME ServiceAssumption ==
    /\ KnownUsers \subseteq Users
    /\ KeyHolders \subseteq KnownUsers
    /\ Durations \subseteq Int
    /\ MaxTime \in Nat
    /\ MaxAudit \in Nat
    /\ WebhookOn \in BOOLEAN

VARIABLES
    now,     \* the wall clock, assumed not to step back
    leases,  \* the leases table
    req,     \* the local state of every request
    audit,   \* the rows of audit_logs, as a set
    outbox,  \* events handed to the notifier and not yet sent or given up
    acked    \* history: leases whose revocation was answered with 200

vars == <<now, leases, req, audit, outbox, acked>>

-----------------------------------------------------------------------------
(* Local state of a request. *)

Steps == {"idle", "query", "insert", "update", "exists", "log", "reply"}
Ops == {"none", "keys", "create", "decide", "revoke"}
Outcomes ==
    {"none", "ok", "error", "forbidden", "not_found", "not_pending",
     "already_expired", "KEY_REQUEST_GRANTED", "KEY_REQUEST_DENIED",
     "HOST_AUTH_FAILED"}

\* What a request was asked to do, with the time.Now() (plus the duration, for a
\* new lease) its handler read, and the leases already acked at that moment.
Job ==
    [op     : Ops,
     user   : Users \cup {"none"},
     host   : Targets \cup {"none"},
     lease  : LeaseIds \cup {0},
     status : Statuses \cup {"none"},  \* of the lease to insert, or the verdict
     at     : Int,
     dead   : SUBSET LeaseIds]

\* How far it is, what it found, and the leases that let its keys through.
Request == [job : Job, pc : Steps, out : Outcomes, by : SUBSET LeaseIds]

NoJob ==
    [op |-> "none", user |-> "none", host |-> "none", lease |-> 0,
     status |-> "none", at |-> 0, dead |-> {}]
KeyJob(u, h) ==
    [op |-> "keys", user |-> u, host |-> h, lease |-> 0,
     status |-> "none", at |-> now, dead |-> acked]
CreateJob(u, h, status, expires) ==
    [op |-> "create", user |-> u, host |-> h, lease |-> 0,
     status |-> status, at |-> expires, dead |-> {}]
DecideJob(l, verdict) ==
    [op |-> "decide", user |-> "none", host |-> Star, lease |-> l,
     status |-> verdict, at |-> 0, dead |-> {}]
RevokeJob(l) ==
    [op |-> "revoke", user |-> "none", host |-> "none", lease |-> l,
     status |-> "none", at |-> now, dead |-> {}]

Idle == [job |-> NoJob, pc |-> "idle", out |-> "none", by |-> {}]

AuditRow ==
    [action : {"KEY_REQUEST_GRANTED", "KEY_REQUEST_DENIED", "HOST_AUTH_FAILED",
               "LEASE_APPROVED", "LEASE_REJECTED"},
     user   : Users \cup {"none"},
     host   : Targets \cup {"none"},
     lease  : LeaseIds \cup {0}]

\* Faulty variant: the outcome of the handler is taken for the action.
RowOfOutcome(r) ==
    [action |-> r.out,
     user |-> r.job.user, host |-> r.job.host, lease |-> r.job.lease]

\* The row a request writes.  Approve and reject name the lease, in the reason
\* text, and stand for the user "-" and the host "*".
RowOf(r) ==
    [action |-> IF r.job.op = "keys" THEN r.out
                ELSE IF r.job.status = "approved" THEN "LEASE_APPROVED"
                ELSE "LEASE_REJECTED",
     user |-> r.job.user, host |-> r.job.host, lease |-> r.job.lease]

At(p, op, pc) == req[p].job.op = op /\ req[p].pc = pc

Become(p, r) == req' = [req EXCEPT ![p] = r]

Start(p, job, pc, out) ==
    /\ req[p].pc = "idle"
    /\ Become(p, [job |-> job, pc |-> pc, out |-> out, by |-> {}])

\* Turned away before the handler did anything.
Refuse(p, out) == Start(p, NoJob, "reply", out)

Advance(p, pc, out, by) ==
    Become(p, [job |-> req[p].job, pc |-> pc, out |-> out, by |-> by])

\* The handler answers with an outcome that needs no audit row.
Answer(p, out) == Advance(p, "reply", out, {})

Init ==
    /\ now = 0
    /\ leases = [l \in LeaseIds |-> NoLease]
    /\ req = [p \in Requests |-> Idle]
    /\ audit = {}
    /\ outbox = {}
    /\ acked = {}

-----------------------------------------------------------------------------
(* GET /api/v1/keys/{username}: hostAuth, then handleGetUserKeys. *)

LogRoom == Cardinality(audit) < MaxAudit

RefuseHost(p, u, h) ==
    /\ LogRoom
    /\ Start(p, KeyJob(u, h), "log", "HOST_AUTH_FAILED")
    /\ UNCHANGED <<now, leases, audit, outbox, acked>>

BeginFetch(p, u, h) ==
    /\ LogRoom
    /\ Start(p, KeyJob(u, h), "query", "none")
    /\ UNCHANGED <<now, leases, audit, outbox, acked>>

Covering(job) == {l \in LeaseIds : Covers(leases[l], job.user, job.host, job.at)}

QueryKeys(p) ==
    /\ At(p, "keys", "query")
    /\ LET job == req[p].job IN
       \/ /\ Covering(job) # {}
          /\ job.user \in KeyHolders
          /\ Advance(p, "log", "KEY_REQUEST_GRANTED", Covering(job))
       \/ /\ Covering(job) = {} \/ job.user \notin KeyHolders
          /\ Advance(p, "log", "KEY_REQUEST_DENIED", {})
    /\ UNCHANGED <<now, leases, audit, outbox, acked>>

-----------------------------------------------------------------------------
(* POST /api/v1/leases: handleCreateLease, Create(Pending)Lease. *)

\* Rows in the table or about to be inserted; keeps the table within bound.
TableRoom ==
    Cardinality({l \in LeaseIds : Exists(leases[l])})
      + Cardinality({p \in Requests : At(p, "create", "insert")}) < MaxLeases

BeginCreate(p, u, h, d, status) ==
    /\ TableRoom
    /\ \/ /\ u \in KnownUsers
          /\ Start(p, CreateJob(u, h, status, now + d), "insert", "none")
       \* no such user, or the SELECT failed
       \/ Refuse(p, "error")
    /\ UNCHANGED <<now, leases, audit, outbox, acked>>

InsertLease(p, l) ==
    /\ At(p, "create", "insert")
    /\ IsNextId(leases, l)
    /\ leases' = [leases EXCEPT ![l] =
                    [owner |-> req[p].job.user, host |-> req[p].job.host,
                     expires |-> req[p].job.at, status |-> req[p].job.status]]
    /\ Answer(p, "ok")
    /\ UNCHANGED <<now, audit, outbox, acked>>

-----------------------------------------------------------------------------
(* POST /api/v1/leases/{id}/approve and /reject: requireAdmin, then the     *)
(* handler; the two differ in the verdict only.                             *)

BeginDecide(p, l, verdict, role) ==
    /\ LogRoom
    /\ \/ /\ role = "admin"
          /\ Start(p, DecideJob(l, verdict), "update", "none")
       \/ /\ role # "admin"
          /\ Refuse(p, "forbidden")
    /\ UNCHANGED <<now, leases, audit, outbox, acked>>

DecideLease(p) ==
    /\ At(p, "decide", "update")
    /\ LET job == req[p].job IN
       \/ /\ IsPending(leases[job.lease])
          /\ leases' = [leases EXCEPT ![job.lease].status = job.status]
          /\ Advance(p, "log", "ok", {})
       \/ /\ ~ IsPending(leases[job.lease])
          /\ Advance(p, "exists", "none", {})
          /\ UNCHANGED leases
    /\ UNCHANGED <<now, audit, outbox, acked>>

-----------------------------------------------------------------------------
(* DELETE /api/v1/leases/{id}: handleRevokeLease, RevokeLease. *)

\* An admin revokes any lease, a regular user a lease found to be their own.
MayRevoke(l, u, role) ==
    \/ role = "admin"
    \/ Exists(leases[l]) /\ leases[l].owner = u

BeginRevoke(p, l, u, role) ==
    /\ \/ /\ MayRevoke(l, u, role)
          /\ Start(p, RevokeJob(l), "update", "none")
       \* not the owner, or the lookup failed
       \/ /\ role # "admin"
          /\ Refuse(p, "forbidden")
    /\ UNCHANGED <<now, leases, audit, outbox, acked>>

RevokeLease(p) ==
    /\ At(p, "revoke", "update")
    /\ LET job == req[p].job IN
       \/ /\ IsUnexpired(leases[job.lease], job.at)
          /\ leases' = [leases EXCEPT ![job.lease] = Expired(@, job.at)]
          /\ Answer(p, "ok")
       \/ /\ ~ IsUnexpired(leases[job.lease], job.at)
          /\ Advance(p, "exists", "none", {})
          /\ UNCHANGED leases
    /\ UNCHANGED <<now, audit, outbox, acked>>

\* No row was affected: a second statement tells the reasons apart.
CheckExists(p) ==
    /\ req[p].pc = "exists"
    /\ LET job == req[p].job IN
       \/ ~ Exists(leases[job.lease]) /\ Answer(p, "not_found")
       \/ /\ Exists(leases[job.lease])
          /\ Answer(p, IF job.op = "revoke" THEN "already_expired" ELSE "not_pending")
    /\ UNCHANGED <<now, leases, audit, outbox, acked>>

-----------------------------------------------------------------------------
(* Steps every handler shares. *)

\* A statement fails (locked or full database): the handler answers 500.
StatementFails(p) ==
    /\ req[p].pc \in {"query", "insert", "update", "exists"}
    /\ Answer(p, "error")
    /\ UNCHANGED <<now, leases, audit, outbox, acked>>

\* logAudit: record the row, then hand it to the notifier.
LogAudit(p) ==
    /\ req[p].pc = "log"
    /\ audit' = audit \cup {RowOf(req[p])}
    /\ outbox' = IF WebhookOn THEN outbox \cup {RowOf(req[p])} ELSE outbox
    /\ Advance(p, "reply", req[p].out, req[p].by)
    /\ UNCHANGED <<now, leases, acked>>

\* Faulty variant: the early return is missing and the event is sent regardless.
NotifyRegardless(p) ==
    /\ req[p].pc = "log"
    /\ Advance(p, "reply", req[p].out, req[p].by)
    /\ outbox' = IF WebhookOn THEN outbox \cup {RowOf(req[p])} ELSE outbox
    /\ UNCHANGED <<now, leases, audit, acked>>

\* RecordAudit fails: logAudit returns early and the decision stands.
LogAuditFails(p) ==
    /\ req[p].pc = "log"
    /\ Advance(p, "reply", req[p].out, req[p].by)
    /\ UNCHANGED <<now, leases, audit, outbox, acked>>

\* The response is sent.
Reply(p) ==
    /\ req[p].pc = "reply"
    /\ acked' = IF req[p].job.op = "revoke" /\ req[p].out = "ok"
                THEN acked \cup {req[p].job.lease} ELSE acked
    /\ Become(p, Idle)
    /\ UNCHANGED <<now, leases, audit, outbox>>

\* The notifier's goroutine ends, delivered or not: one attempt, no retry.
NotifyEnds(row) ==
    /\ row \in outbox
    /\ outbox' = outbox \ {row}
    /\ UNCHANGED <<now, leases, req, audit, acked>>

\* The process dies and is started again: the database is what is left.
Crash ==
    /\ req' = [p \in Requests |-> Idle]
    /\ outbox' = {}
    /\ UNCHANGED <<now, leases, audit, acked>>

Tick ==
    /\ now < MaxTime
    /\ now' = now + 1
    /\ UNCHANGED <<leases, req, audit, outbox, acked>>

-----------------------------------------------------------------------------
(* What the service must guarantee. *)

\* Type correctness of the service state.
TypeOK ==
    /\ now \in 0 .. MaxTime
    /\ leases \in Tables
    /\ req \in [Requests -> Request]
    /\ audit \subseteq AuditRow
    /\ outbox \subseteq AuditRow
    /\ acked \subseteq LeaseIds

\* A revocation is final: a key request that read the clock after the revocation
\* of a lease was answered (RevokeLease, GetValidKeysForUser) is never let
\* through by that lease, whatever approvals and revocations run meanwhile.
CutIsFinal == \A p \in Requests : req[p].by \cap req[p].job.dead = {}

\* Every KEY_REQUEST_GRANTED row of the audit log can be explained by an approved
\* lease of that user for that host, however late the row was written and
\* whatever happened to the lease since (handleGetUserKeys, logAudit).
GrantedRowsAreBacked ==
    \A row \in audit : row.action = "KEY_REQUEST_GRANTED" =>
        \E l \in LeaseIds :
            /\ leases[l].status = "approved"
            /\ leases[l].owner = row.user
            /\ leases[l].host \in {row.host, Star}

\* A decision is under way when its UPDATE took effect and its audit row is due.
Decided(p) == req[p].job.op = "decide" /\ req[p].out = "ok"

\* No two requests decide the same lease.
OneDecider ==
    \A p, q \in Requests :
        Decided(p) /\ Decided(q) /\ req[p].job.lease = req[q].job.lease => p = q

\* While a decision waits to be logged, no other row names its lease.
NotYetLogged ==
    \A p \in Requests :
        At(p, "decide", "log") => \A row \in audit : row.lease # req[p].job.lease

\* The verdict in the log is the one in the table.
LogMatches ==
    \A row \in audit : row.lease # 0 =>
        leases[row.lease].status =
            IF row.action = "LEASE_APPROVED" THEN "approved" ELSE "denied"

\* A pending lease gets one verdict: two approvers racing (ApproveLease,
\* RejectLease) are never both told they succeeded, and the verdict that is
\* logged is the one in the table, for ever.
OneVerdict == OneDecider /\ NotYetLogged /\ LogMatches

\* No event reaches the notifier that is not in the audit log (logAudit returns
\* before Notify when RecordAudit failed).
NotifiedIsRecorded == outbox \subseteq audit

\* A step never lengthens, moves, re-assigns or deletes a lease, and changes the
\* status of pending leases only (leases.go as a whole).
LeaseStep ==
    \A l \in LeaseIds : Exists(leases[l]) =>
        /\ leases'[l].expires <= leases[l].expires
        /\ leases'[l].owner = leases[l].owner
        /\ leases'[l].host = leases[l].host
        /\ \/ leases'[l].status = leases[l].status
           \/ leases[l].status = "pending" /\ leases'[l].status \in Statuses

LeasesOnlyShrink == [][LeaseStep]_vars

\* The life of a lease as LeaseLifecycle tells it.
PhaseOf(l) ==
    IF ~ Exists(leases[l]) THEN "unused"
    ELSE IF leases[l].expires <= now THEN "over"
    ELSE leases[l].status

Lifecycle ==
    INSTANCE LeaseLifecycle WITH phase <- [l \in LeaseIds |-> PhaseOf(l)]

\* The service implements the lease lifecycle: no interleaving of handlers,
\* crash or passage of time takes a lease out of "denied" or "over".
ImplementsLifecycle == Lifecycle!LifecycleSpec

-----------------------------------------------------------------------------
Roles == {"admin", "user"}

Begin(p) ==
    \/ \E u \in Users, h \in Targets : RefuseHost(p, u, h) \/ BeginFetch(p, u, h)
    \/ \E u \in Users, h \in Targets, d \in Durations,
          status \in {"pending", "approved"} : BeginCreate(p, u, h, d, status)
    \/ \E l \in LeaseIds, role \in Roles :
          \/ \E verdict \in {"approved", "denied"} : BeginDecide(p, l, verdict, role)
          \/ \E u \in Users : BeginRevoke(p, l, u, role)

\* The statements of a handler that is under way.
Step(p) ==
    \/ QueryKeys(p)
    \/ \E l \in LeaseIds : InsertLease(p, l)
    \/ DecideLease(p)
    \/ RevokeLease(p)
    \/ CheckExists(p)
    \/ StatementFails(p)
    \/ LogAudit(p)
    \/ LogAuditFails(p)
    \/ Reply(p)

Next ==
    \/ \E p \in Requests : Begin(p) \/ Step(p)
    \/ \E row \in outbox : NotifyEnds(row)
    \/ Crash
    \/ Tick

Spec == Init /\ [][Next]_vars

\* net/http keeps running a handler it has started.
Fairness == \A p \in Requests : WF_vars(Step(p))

FairSpec == Spec /\ Fairness

-----------------------------------------------------------------------------
(* A claim of the documentation that the code does not keep. *)

\* "Lease #%d approved. SSH access has been granted." (cmd/cli/approve.go): a
\* lease that turns approved is a lease whose window is still open.
ApprovalGrantsAccess ==
    [][\A l \in LeaseIds :
          IsPending(leases[l]) /\ leases'[l].status = "approved"
             => leases'[l].expires > now]_vars

-----------------------------------------------------------------------------
\* Once a revocation was answered, the requests that slipped in before it drain:
\* from some point on no request holds keys because of that lease.
CutTakesEffect ==
    \A l \in LeaseIds :
        [](l \in acked => <>[](\A p \in Requests : l \notin req[p].by))
=============================================================================
