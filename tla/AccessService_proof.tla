------------------------ MODULE AccessService_proof ------------------------
(***************************************************************************)
(* Proofs about AccessService, for any sets of users, hosts, requests and   *)
(* durations and any bounds.                                                *)
(***************************************************************************)
EXTENDS AccessInvariant, TLAPS

-----------------------------------------------------------------------------
(* Type correctness, together with the shape of every request. *)

\* A request that becomes a well-shaped record leaves the others alone.
LEMMA BecomeTyped ==
  ASSUME TypeOK, Shape, NEW p \in Requests, NEW r \in Request,
         ShapeOf(r), Become(p, r), now' = now
  PROVE  req' \in [Requests -> Request] /\ Shape'
<1>1. req' \in [Requests -> Request]
  BY DEF Become, TypeOK
<1>2. \A q \in Requests : req'[q] = IF q = p THEN r ELSE req[q]
  BY DEF Become, TypeOK
<1>3. \A q \in Requests : ShapeOf(req'[q])
  BY <1>2 DEF Shape
<1>4. \A q \in Requests : ShapeOf(req[q])'
  BY <1>3 DEF ShapeOf
<1> QED BY <1>1, <1>4 DEF Shape

\* What the constructors of jobs build.
LEMMA JobsTyped ==
  ASSUME TypeOK
  PROVE  /\ NoJob \in Job
         /\ \A u \in Users, h \in Targets : KeyJob(u, h) \in Job
         /\ \A u \in Users, h \in Targets, s \in Statuses, t \in Int :
               CreateJob(u, h, s, t) \in Job
         /\ \A l \in LeaseIds, v \in Verdicts : DecideJob(l, v) \in Job
         /\ \A l \in LeaseIds : RevokeJob(l) \in Job
  BY ServiceAssumption
     DEF TypeOK, Job, NoJob, KeyJob, CreateJob, DecideJob, RevokeJob, Ops,
         Statuses, Verdicts, Targets

\* Starting a request keeps the types.
LEMMA StartTyped ==
  ASSUME TypeOK, Shape, NEW p \in Requests, NEW job \in Job,
         NEW pc \in Steps, NEW out \in Outcomes,
         ShapeOf([job |-> job, pc |-> pc, out |-> out, by |-> {}]),
         Start(p, job, pc, out), UNCHANGED <<now, leases, audit, outbox, acked>>
  PROVE  TypeOK' /\ Shape'
<1> DEFINE r == [job |-> job, pc |-> pc, out |-> out, by |-> {}]
<1>1. r \in Request /\ Become(p, r)
  BY DEF Request, Start
<1>2. QED
  BY <1>1, BecomeTyped DEF TypeOK

\* So does moving one to its next step.
LEMMA AdvanceTyped ==
  ASSUME TypeOK, Shape, NEW p \in Requests, NEW pc \in Steps,
         NEW out \in Outcomes, NEW by \in SUBSET LeaseIds,
         ShapeOf([job |-> req[p].job, pc |-> pc, out |-> out, by |-> by]),
         Advance(p, pc, out, by), now' = now
  PROVE  req' \in [Requests -> Request] /\ Shape'
<1> DEFINE r == [job |-> req[p].job, pc |-> pc, out |-> out, by |-> by]
<1>1. r \in Request /\ Become(p, r)
  BY DEF Request, Advance, TypeOK
<1>2. QED
  BY <1>1, BecomeTyped

\* Every Begin action keeps the types.
LEMMA BeginTyped ==
  ASSUME TypeOK, Shape, NEW p \in Requests, Begin(p)
  PROVE  TypeOK' /\ Shape'
<1> USE JobsTyped DEF Steps, Outcomes
<1>0. ASSUME NEW out \in {"error", "forbidden"}, Refuse(p, out),
             UNCHANGED <<now, leases, audit, outbox, acked>>
      PROVE  TypeOK' /\ Shape'
  <2>1. ShapeOf([job |-> NoJob, pc |-> "reply", out |-> out, by |-> {}])
    BY DEF ShapeOf, NoJob
  <2>2. QED
    BY <1>0, <2>1, StartTyped DEF Refuse
<1>1. ASSUME NEW u \in Users, NEW h \in Targets, RefuseHost(p, u, h)
      PROVE  TypeOK' /\ Shape'
  <2>1. ShapeOf([job |-> KeyJob(u, h), pc |-> "log", out |-> "HOST_AUTH_FAILED",
                 by |-> {}])
    BY ServiceAssumption DEF ShapeOf, KeyJob, KeyOutcomes, TypeOK
  <2>2. QED
    BY <1>1, <2>1, StartTyped DEF RefuseHost
<1>2. ASSUME NEW u \in Users, NEW h \in Targets, BeginFetch(p, u, h)
      PROVE  TypeOK' /\ Shape'
  <2>1. ShapeOf([job |-> KeyJob(u, h), pc |-> "query", out |-> "none", by |-> {}])
    BY ServiceAssumption DEF ShapeOf, KeyJob, TypeOK
  <2>2. QED
    BY <1>2, <2>1, StartTyped DEF BeginFetch
<1>3. ASSUME NEW u \in Users, NEW h \in Targets, NEW d \in Durations,
             NEW status \in {"pending", "approved"}, BeginCreate(p, u, h, d, status)
      PROVE  TypeOK' /\ Shape'
  <2>1. CASE Refuse(p, "error")
    BY <1>0, <1>3, <2>1 DEF BeginCreate
  <2>2. CASE Start(p, CreateJob(u, h, status, now + d), "insert", "none")
    <3>1. now + d \in Int /\ status \in Statuses
      BY ServiceAssumption DEF TypeOK, Statuses
    <3>2. CreateJob(u, h, status, now + d) \in Job
      BY <3>1
    <3>3. ShapeOf([job |-> CreateJob(u, h, status, now + d), pc |-> "insert",
                   out |-> "none", by |-> {}])
      BY <3>1 DEF ShapeOf, CreateJob
    <3>4. QED
      BY <1>3, <2>2, <3>2, <3>3, StartTyped DEF BeginCreate
  <2>3. QED
    BY <1>3, <2>1, <2>2 DEF BeginCreate
<1>4. ASSUME NEW l \in LeaseIds, NEW role \in Roles,
             NEW verdict \in {"approved", "denied"}, BeginDecide(p, l, verdict, role)
      PROVE  TypeOK' /\ Shape'
  <2>1. CASE Refuse(p, "forbidden")
    BY <1>0, <1>4, <2>1 DEF BeginDecide
  <2>2. CASE Start(p, DecideJob(l, verdict), "update", "none")
    <3>1. ShapeOf([job |-> DecideJob(l, verdict), pc |-> "update", out |-> "none",
                   by |-> {}])
      BY DEF ShapeOf, DecideJob, Verdicts
    <3>2. DecideJob(l, verdict) \in Job
      BY DEF Verdicts
    <3>3. QED
      BY <1>4, <2>2, <3>1, <3>2, StartTyped DEF BeginDecide
  <2>3. QED
    BY <1>4, <2>1, <2>2 DEF BeginDecide
<1>5. ASSUME NEW l \in LeaseIds, NEW role \in Roles, NEW u \in Users,
             BeginRevoke(p, l, u, role)
      PROVE  TypeOK' /\ Shape'
  <2>1. CASE Refuse(p, "forbidden")
    BY <1>0, <1>5, <2>1 DEF BeginRevoke
  <2>2. CASE Start(p, RevokeJob(l), "update", "none")
    <3>1. ShapeOf([job |-> RevokeJob(l), pc |-> "update", out |-> "none", by |-> {}])
      BY ServiceAssumption DEF ShapeOf, RevokeJob, TypeOK
    <3>2. QED
      BY <1>5, <2>2, <3>1, StartTyped DEF BeginRevoke
  <2>3. QED
    BY <1>5, <2>1, <2>2 DEF BeginRevoke
<1>6. QED
  BY <1>1, <1>2, <1>3, <1>4, <1>5 DEF Begin

\* Every statement of a handler keeps the types.
LEMMA StepTyped ==
  ASSUME TypeOK, Shape, NEW p \in Requests, Step(p)
  PROVE  TypeOK' /\ Shape'
<1> DEFINE r(pc, out, by) == [job |-> req[p].job, pc |-> pc, out |-> out, by |-> by]
<1>0. /\ req[p] \in Request /\ req[p].job \in Job
      /\ req[p].out \in Outcomes /\ req[p].by \in SUBSET LeaseIds
      /\ ShapeOf(req[p]) /\ {} \in SUBSET LeaseIds
  BY DEF TypeOK, Shape, Request
<1>a. now' = now
  BY DEF Step, QueryKeys, InsertLease, DecideLease, RevokeLease, CheckExists,
         StatementFails, LogAudit, LogAuditFails, Reply
<1>b. ASSUME NEW pc \in Steps, NEW out \in Outcomes, NEW by \in SUBSET LeaseIds,
             ShapeOf(r(pc, out, by)), Advance(p, pc, out, by)
      PROVE  req' \in [Requests -> Request] /\ Shape'
  BY <1>0, <1>a, <1>b, AdvanceTyped
<1>c. /\ "log" \in Steps /\ "exists" \in Steps /\ "reply" \in Steps
      /\ "none" \in Outcomes /\ "ok" \in Outcomes /\ "error" \in Outcomes
      /\ "KEY_REQUEST_GRANTED" \in Outcomes /\ "KEY_REQUEST_DENIED" \in Outcomes
      /\ \A out \in {"not_found", "already_expired", "not_pending"} : out \in Outcomes
  BY DEF Steps, Outcomes
<1>1. CASE QueryKeys(p)
  <2> DEFINE by == Covering(req[p].job)
  <2>1. by \in SUBSET LeaseIds /\ {} \in SUBSET LeaseIds
    BY DEF Covering
  <2>2. /\ ShapeOf(r("log", "KEY_REQUEST_GRANTED", by))
        /\ ShapeOf(r("log", "KEY_REQUEST_DENIED", {}))
    BY <1>0, <1>1 DEF QueryKeys, At, ShapeOf, KeyOutcomes
  <2>3. \/ Advance(p, "log", "KEY_REQUEST_GRANTED", by)
        \/ Advance(p, "log", "KEY_REQUEST_DENIED", {})
    BY <1>1 DEF QueryKeys
  <2>4. req' \in [Requests -> Request] /\ Shape'
    BY <1>b, <1>c, <2>1, <2>2, <2>3
  <2>5. QED
    BY <1>1, <2>4 DEF QueryKeys, TypeOK
<1>2. ASSUME NEW l \in LeaseIds, InsertLease(p, l)
      PROVE  TypeOK' /\ Shape'
  <2>1. ShapeOf(r("reply", "ok", {}))
    BY <1>0, <1>2 DEF ShapeOf, InsertLease, At
  <2>2. req' \in [Requests -> Request] /\ Shape'
    BY <1>0, <1>b, <1>c, <1>2, <2>1 DEF InsertLease, Answer
  <2>3. leases' \in Tables
    BY <1>0, <1>2 DEF InsertLease, At, ShapeOf, Tables, Lease, TypeOK, Job
  <2>4. QED
    BY <1>2, <2>2, <2>3 DEF InsertLease, TypeOK
<1>3. CASE DecideLease(p)
  <2>1. /\ ShapeOf(r("log", "ok", {}))
        /\ ShapeOf(r("exists", "none", {}))
    BY <1>0, <1>3 DEF ShapeOf, DecideLease, At
  <2>2. Advance(p, "log", "ok", {}) \/ Advance(p, "exists", "none", {})
    BY <1>3 DEF DecideLease
  <2>3. req' \in [Requests -> Request] /\ Shape'
    BY <1>0, <1>b, <1>c, <2>1, <2>2
  <2>4. leases' \in Tables
    <3>1. /\ req[p].job.lease \in LeaseIds
          /\ req[p].job.status \in Statuses
      BY <1>0, <1>3 DEF ShapeOf, DecideLease, At, Verdicts, Statuses
    <3>2. leases[req[p].job.lease] \in Lease
               \/ ~ IsPending(leases[req[p].job.lease])
      BY <3>1 DEF TypeOK, Tables, NoLease, IsPending
    <3>3. QED
      BY <1>3, <3>1, <3>2 DEF DecideLease, Tables, Lease, TypeOK
  <2>5. QED
    BY <1>3, <2>3, <2>4 DEF DecideLease, TypeOK
<1>4. CASE RevokeLease(p)
  <2>1. /\ ShapeOf(r("reply", "ok", {}))
        /\ ShapeOf(r("exists", "none", {}))
    BY <1>0, <1>4 DEF ShapeOf, RevokeLease, At
  <2>2. Advance(p, "reply", "ok", {}) \/ Advance(p, "exists", "none", {})
    BY <1>4 DEF RevokeLease, Answer
  <2>3. req' \in [Requests -> Request] /\ Shape'
    BY <1>0, <1>b, <1>c, <2>1, <2>2
  <2>4. leases' \in Tables
    <3>1. req[p].job.lease \in LeaseIds /\ req[p].job.at \in Int
      BY <1>0, <1>4 DEF ShapeOf, RevokeLease, At, Job
    <3>2. leases[req[p].job.lease] \in Lease
               \/ ~ IsUnexpired(leases[req[p].job.lease], req[p].job.at)
      BY <3>1 DEF TypeOK, Tables, NoLease, IsUnexpired, Exists
    <3>3. QED
      BY <1>4, <3>1, <3>2 DEF RevokeLease, Expired, Tables, Lease, TypeOK
  <2>5. QED
    BY <1>4, <2>3, <2>4 DEF RevokeLease, TypeOK
<1>5. CASE CheckExists(p)
  <2>1. \A out \in {"not_found", "already_expired", "not_pending"} :
           ShapeOf(r("reply", out, {}))
    BY <1>0, <1>5 DEF ShapeOf, CheckExists
  <2>2. PICK out \in {"not_found", "already_expired", "not_pending"} :
           Advance(p, "reply", out, {})
    BY <1>5 DEF CheckExists, Answer
  <2>3. req' \in [Requests -> Request] /\ Shape'
    BY <1>0, <1>b, <1>c, <2>1, <2>2
  <2>4. QED
    BY <1>5, <2>3 DEF CheckExists, TypeOK
<1>6. CASE StatementFails(p)
  <2>1. ShapeOf(r("reply", "error", {}))
    BY <1>0, <1>6 DEF ShapeOf, StatementFails
  <2>2. req' \in [Requests -> Request] /\ Shape'
    BY <1>0, <1>b, <1>c, <1>6, <2>1 DEF StatementFails, Answer
  <2>3. QED
    BY <1>6, <2>2 DEF StatementFails, TypeOK
<1>7. CASE LogAudit(p) \/ LogAuditFails(p)
  <2>1. ShapeOf(r("reply", req[p].out, req[p].by))
    BY <1>0, <1>7 DEF ShapeOf, LogAudit, LogAuditFails
  <2>2. Advance(p, "reply", req[p].out, req[p].by)
    BY <1>7 DEF LogAudit, LogAuditFails
  <2>3. req' \in [Requests -> Request] /\ Shape'
    BY <1>0, <1>b, <1>c, <2>1, <2>2
  <2>4. RowOf(req[p]) \in AuditRow
    BY <1>0, <1>7 DEF LogAudit, LogAuditFails, ShapeOf, RowOf, AuditRow, Job, KeyOutcomes
  <2>5. QED
    BY <1>7, <2>3, <2>4 DEF LogAudit, LogAuditFails, TypeOK
<1>8. CASE Reply(p)
  <2>1. Idle \in Request /\ ShapeOf(Idle)
    BY JobsTyped DEF Idle, NoJob, Request, ShapeOf, Steps, Outcomes
  <2>2. req' \in [Requests -> Request] /\ Shape'
    BY <1>8, <1>a, <2>1, BecomeTyped DEF Reply
  <2>3. acked' \subseteq LeaseIds
    BY <1>0, <1>8 DEF Reply, ShapeOf, TypeOK
  <2>4. QED
    BY <1>8, <2>2, <2>3 DEF Reply, TypeOK
<1>9. QED
  BY <1>1, <1>2, <1>3, <1>4, <1>5, <1>6, <1>7, <1>8 DEF Step

\* A crash, the clock and the notifier keep the types.
LEMMA OthersTyped ==
  ASSUME TypeOK, Shape,
         \/ \E row \in outbox : NotifyEnds(row)
         \/ Crash
         \/ Tick
         \/ UNCHANGED vars
  PROVE  TypeOK' /\ Shape'
<1>0. \A p \in Requests : req[p] \in Request /\ req[p].job.at \in Int
  BY DEF TypeOK, Request, Job
<1>1. ASSUME NEW row \in outbox, NotifyEnds(row)
      PROVE  TypeOK' /\ Shape'
  BY <1>1 DEF NotifyEnds, TypeOK, Shape, ShapeOf
<1>2. CASE Crash
  <2>1. Idle \in Request
    BY JobsTyped DEF Idle, Request, Steps, Outcomes
  <2>2. TypeOK'
    BY <1>2, <2>1 DEF Crash, TypeOK
  <2>3. Shape'
    BY <1>2 DEF Crash, Shape, ShapeOf, Idle, NoJob
  <2>4. QED
    BY <2>2, <2>3
<1>3. CASE Tick
  <2>1. TypeOK'
    BY <1>3, ServiceAssumption DEF Tick, TypeOK
  <2>2. Shape'
    <3>1. now' = now + 1 /\ now \in Int /\ req' = req
      BY <1>3, ServiceAssumption DEF Tick, TypeOK
    <3>2. \A p \in Requests : ShapeOf(req[p]) => ShapeOf(req[p])'
      BY <1>0, <3>1 DEF ShapeOf
    <3>3. QED
      BY <3>1, <3>2 DEF Shape
  <2>3. QED
    BY <2>1, <2>2
<1>4. CASE UNCHANGED vars
  BY <1>4 DEF vars, TypeOK, Shape, ShapeOf
<1>5. QED
  BY <1>1, <1>2, <1>3, <1>4

\* The state of the service stays well typed, and every request well shaped.
THEOREM TypeCorrect == Spec => [](TypeOK /\ Shape)
<1>1. Init => TypeOK /\ Shape
  <2>1. ASSUME Init PROVE TypeOK
    <3>1. NoJob \in Job
      BY DEF NoJob, Job, Ops
    <3>2. Idle \in Request
      BY <3>1 DEF Idle, Request, Steps, Outcomes
    <3>3. QED
      BY <2>1, <3>2, ServiceAssumption DEF Init, TypeOK, Tables
  <2>2. Init => Shape
    BY DEF Init, Shape, ShapeOf, Idle, NoJob
  <2>3. QED
    BY <2>1, <2>2
<1>2. TypeOK /\ Shape /\ [Next]_vars => TypeOK' /\ Shape'
  BY BeginTyped, StepTyped, OthersTyped DEF Next
<1>3. QED
  BY <1>1, <1>2, PTL DEF Spec
-----------------------------------------------------------------------------
(* The leases table only shrinks. *)

\* No step lengthens, moves, re-assigns or deletes a lease.
LEMMA LeasesShrink ==
  ASSUME TypeOK, Shape, [Next]_vars
  PROVE  LeaseStep
<1>0. \A l \in LeaseIds : Exists(leases[l]) => leases[l] \in Lease
  BY DEF TypeOK, Tables, Exists, NoLease
<1>1. ASSUME leases' = leases
      PROVE  LeaseStep
  BY <1>0, <1>1 DEF LeaseStep, Lease
<1>2. ASSUME NEW p \in Requests, NEW k \in LeaseIds, InsertLease(p, k)
      PROVE  LeaseStep
  <2>1. ~ Exists(leases[k])
    BY <1>2 DEF InsertLease, IsNextId
  <2>2. \A l \in LeaseIds : Exists(leases[l]) => leases'[l] = leases[l]
    BY <1>2, <2>1 DEF InsertLease, TypeOK, Tables
  <2>3. QED
    BY <1>0, <2>2 DEF LeaseStep, Lease
<1>3. ASSUME NEW p \in Requests, DecideLease(p)
      PROVE  LeaseStep
  <2>1. CASE leases' = leases
    BY <1>1, <2>1
  <2>2. CASE /\ IsPending(leases[req[p].job.lease])
             /\ leases' = [leases EXCEPT ![req[p].job.lease].status = req[p].job.status]
    <3>1. req[p].job.lease \in LeaseIds /\ req[p].job.status \in Statuses
      BY <1>3 DEF DecideLease, At, Shape, ShapeOf, Verdicts, Statuses
    <3>2. leases[req[p].job.lease] \in Lease
      BY <1>0, <2>2, <3>1 DEF IsPending, Exists
    <3>3. QED
      BY <1>0, <2>2, <3>1, <3>2 DEF LeaseStep, Lease, IsPending, TypeOK, Tables
  <2>3. QED
    BY <1>3, <2>1, <2>2 DEF DecideLease
<1>4. ASSUME NEW p \in Requests, RevokeLease(p)
      PROVE  LeaseStep
  <2>1. CASE leases' = leases
    BY <1>1, <2>1
  <2>2. CASE /\ IsUnexpired(leases[req[p].job.lease], req[p].job.at)
             /\ leases' = [leases EXCEPT ![req[p].job.lease] = Expired(@, req[p].job.at)]
    <3>1. req[p].job.lease \in LeaseIds /\ req[p].job.at \in Int
      BY <1>4 DEF RevokeLease, At, Shape, ShapeOf, TypeOK, Request, Job
    <3>2. leases[req[p].job.lease] \in Lease
      BY <1>0, <2>2, <3>1 DEF IsUnexpired
    <3>3. QED
      BY <1>0, <2>2, <3>1, <3>2 DEF LeaseStep, Lease, IsUnexpired, Expired, TypeOK, Tables
  <2>3. QED
    BY <1>4, <2>1, <2>2 DEF RevokeLease
<1>5. \/ leases' = leases
      \/ \E p \in Requests : \/ \E k \in LeaseIds : InsertLease(p, k)
                             \/ DecideLease(p)
                             \/ RevokeLease(p)
  BY DEF Next, Begin, Step, RefuseHost, BeginFetch, BeginCreate, BeginDecide,
         BeginRevoke, QueryKeys, CheckExists, StatementFails, LogAudit,
         LogAuditFails, Reply, NotifyEnds, Crash, Tick, vars
<1>6. QED
  BY <1>1, <1>2, <1>3, <1>4, <1>5

\* The expiry of a lease never grows and only pending leases change status, for
\* every number of requests, leases and durations.
THEOREM OnlyShrink == Spec => LeasesOnlyShrink
  BY LeasesShrink, TypeCorrect, PTL DEF Spec, LeasesOnlyShrink

\* What a request remembers of a lease stays true of it.
LEMMA TableKeeps ==
  ASSUME TypeOK, Shape, [Next]_vars, NEW l \in LeaseIds, Exists(leases[l])
  PROVE  /\ Exists(leases'[l])
         /\ \A t \in Int : leases[l].expires <= t => leases'[l].expires <= t
         /\ ~ IsPending(leases[l]) => leases'[l].status = leases[l].status
         /\ \A u, h : Backs(leases[l], u, h) => Backs(leases'[l], u, h)
<1>1. LeaseStep
  BY LeasesShrink
<1>2. leases[l] \in Lease
  BY DEF TypeOK, Tables, Exists, NoLease
<1>3. TypeOK'
  BY BeginTyped, StepTyped, OthersTyped DEF Next
<1>4. Exists(leases'[l])
  BY <1>1, <1>2 DEF LeaseStep, Exists, Lease, Statuses
<1>5. leases'[l] \in Lease
  BY <1>3, <1>4 DEF TypeOK, Tables, Exists, NoLease
<1>6. QED
  BY <1>1, <1>2, <1>4, <1>5 DEF LeaseStep, Lease, Backs, IsPending
-----------------------------------------------------------------------------
(* How a step moves the requests. *)

\* A request that starts remembers the clock and the revocations of that moment.
LEMMA BeginMoves ==
  ASSUME TypeOK, NEW p \in Requests, Begin(p)
  PROVE  /\ UNCHANGED <<now, leases, audit, outbox, acked>>
         /\ \A q \in Requests : q # p => req'[q] = req[q]
         /\ req'[p].by = {}
         /\ req'[p].out \in {"none", "error", "forbidden", "HOST_AUTH_FAILED"}
         /\ \/ req'[p].job.dead = {} /\ req'[p].job.op # "keys"
            \/ req'[p].job.dead = acked /\ req'[p].job.at = now
<1>1. UNCHANGED <<now, leases, audit, outbox, acked>>
  BY DEF Begin, RefuseHost, BeginFetch, BeginCreate, BeginDecide, BeginRevoke
<1> DEFINE Fresh(job) == \/ job.dead = {} /\ job.op # "keys"
                         \/ job.dead = acked /\ job.at = now
           Early == {"none", "error", "forbidden", "HOST_AUTH_FAILED"}
           Started == /\ \A q \in Requests : q # p => req'[q] = req[q]
                      /\ req'[p].by = {} /\ req'[p].out \in Early
                      /\ Fresh(req'[p].job)
<1>2. ASSUME NEW job, NEW pc, NEW out \in Early, Start(p, job, pc, out), Fresh(job)
      PROVE  Started
  BY <1>2 DEF Start, Become, TypeOK
<1>3. Started
  <2>1. Fresh(NoJob)
    BY Zenon DEF NoJob
  <2>2. ASSUME NEW out \in Early, Refuse(p, out)
        PROVE  Started
    <3>1. Start(p, NoJob, "reply", out)
      BY <2>2 DEF Refuse
    <3>2. QED
      BY <1>2, <2>1, <3>1
  <2>3. ASSUME NEW u \in Users, NEW h \in Targets, RefuseHost(p, u, h) \/ BeginFetch(p, u, h)
        PROVE  Started
    <3>1. Fresh(KeyJob(u, h))
      BY DEF KeyJob
    <3>2. QED
      BY <1>2, <2>3, <3>1 DEF RefuseHost, BeginFetch
  <2>4. ASSUME NEW u \in Users, NEW h \in Targets, NEW d \in Durations,
               NEW status \in {"pending", "approved"}, BeginCreate(p, u, h, d, status)
        PROVE  Started
    <3>1. Fresh(CreateJob(u, h, status, now + d))
      BY Zenon DEF CreateJob
    <3>2. QED
      BY <1>2, <2>2, <2>4, <3>1 DEF BeginCreate
  <2>5. ASSUME NEW l \in LeaseIds, NEW role \in Roles, NEW verdict \in {"approved", "denied"},
               BeginDecide(p, l, verdict, role)
        PROVE  Started
    <3>1. Fresh(DecideJob(l, verdict))
      BY Zenon DEF DecideJob
    <3>2. QED
      BY <1>2, <2>2, <2>5, <3>1 DEF BeginDecide
  <2>6. ASSUME NEW l \in LeaseIds, NEW role \in Roles, NEW u \in Users,
               BeginRevoke(p, l, u, role)
        PROVE  Started
    <3>1. Fresh(RevokeJob(l))
      BY Zenon DEF RevokeJob
    <3>2. QED
      BY <1>2, <2>2, <2>6, <3>1 DEF BeginRevoke
  <2>7. QED
    BY <2>3, <2>4, <2>5, <2>6 DEF Begin
<1>4. QED
  BY <1>1, <1>3

\* A request under way keeps its job until it is answered.
LEMMA StepMoves ==
  ASSUME TypeOK, NEW p \in Requests, Step(p)
  PROVE  /\ now' = now
         /\ \A q \in Requests : q # p => req'[q] = req[q]
         /\ req'[p].job = req[p].job \/ req'[p] = Idle
<1>1. now' = now
  BY DEF Step, QueryKeys, InsertLease, DecideLease, RevokeLease, CheckExists,
         StatementFails, LogAudit, LogAuditFails, Reply
<1>2. (\E pc, out, by : Advance(p, pc, out, by)) \/ Become(p, Idle)
  BY DEF Step, QueryKeys, InsertLease, DecideLease, RevokeLease, CheckExists,
         StatementFails, LogAudit, LogAuditFails, Reply, Answer
<1>3. QED
  BY <1>1, <1>2 DEF Advance, Become, TypeOK

-----------------------------------------------------------------------------
(* Revocation is final. *)

\* No step undoes a revocation that was answered, or is about to be.
LEMMA CutsInductive ==
  ASSUME TypeOK, Shape, CutsHold, CutIsFinal, [Next]_vars
  PROVE  CutsHold' /\ CutIsFinal'
<1>1. TypeOK' /\ now \in Int /\ now' \in Int /\ now <= now'
  BY BeginTyped, StepTyped, OthersTyped, BeginMoves, StepMoves, ServiceAssumption
     DEF Next, TypeOK, NotifyEnds, Crash, Tick, vars
<1>2. \A l \in LeaseIds, t, s \in Int : Closed(l, t) /\ t <= s =>
         Exists(leases'[l]) /\ leases'[l].expires <= s
  <2>1. SUFFICES ASSUME NEW l \in LeaseIds, NEW t \in Int, NEW s \in Int,
                        Closed(l, t), t <= s
                 PROVE  Exists(leases'[l]) /\ leases'[l].expires <= s
    OBVIOUS
  <2>2. leases[l].expires \in Int
    BY <2>1 DEF TypeOK, Tables, Lease, NoLease
  <2>3. leases[l].expires <= s
    BY <2>1, <2>2 DEF Closed
  <2>4. QED
    BY <2>1, <2>3, TableKeeps DEF Closed
<1>3. ASSUME NEW l \in acked
      PROVE  Closed(l, now)'
  BY <1>1, <1>2, <1>3 DEF CutsHold, TypeOK, Closed
<1> DEFINE Kept(q) ==
             /\ req'[q].job.op = "revoke" /\ req'[q].out = "ok"
                  => Closed(req[q].job.lease, now)'
             /\ \A l \in req'[q].job.dead : Closed(l, req[q].job.at)'
             /\ req'[q].by \cap req'[q].job.dead = {}
<1>4. ASSUME NEW q \in Requests, req'[q] = req[q]
      PROVE  Kept(q)
  <2>1. /\ req[q].job.op = "revoke" => req[q].job.lease \in LeaseIds
        /\ req[q].job.at \in Int /\ req[q].job.dead \subseteq LeaseIds
    BY DEF TypeOK, Shape, ShapeOf, Request, Job
  <2>2. QED
    BY <1>1, <1>2, <1>4, <2>1 DEF CutsHold, CutIsFinal, Closed
<1>5. ASSUME NEW q \in Requests, req'[q] = Idle
      PROVE  Kept(q)
  BY <1>5 DEF Idle, NoJob
<1>6. ASSUME NEW p \in Requests, Begin(p)
      PROVE  acked' = acked /\ Kept(p)
  <2>1. CASE req'[p].job.dead = {}
    BY <1>6, <2>1, BeginMoves
  <2>2. CASE req'[p].job.dead = acked /\ req'[p].job.at = now
    BY <1>3, <1>6, <2>2, BeginMoves DEF Closed
  <2>3. QED
    BY <1>6, <2>1, <2>2, BeginMoves
<1>7. ASSUME NEW p \in Requests, Step(p), req'[p].job = req[p].job
      PROVE  Kept(p)
  <2>1. /\ req[p].job.op = "revoke" => req[p].job.lease \in LeaseIds
        /\ req[p].job.at \in Int /\ req[p].job.dead \subseteq LeaseIds
    BY DEF TypeOK, Shape, ShapeOf, Request, Job
  <2>2. \A l \in req'[p].job.dead : Closed(l, req[p].job.at)'
    BY <1>2, <1>7, <2>1 DEF CutsHold, Closed
  <2>3. req'[p].by \cap req'[p].job.dead = {}
    <3>1. CASE req'[p].by \subseteq req[p].by
      BY <1>7, <3>1 DEF CutIsFinal
    <3>2. CASE At(p, "keys", "query") /\ req'[p].by = Covering(req[p].job)
      BY <1>7, <2>1, <3>2 DEF CutsHold, Closed, Covering, Covers, TypeOK, Tables, Lease, NoLease
    <3>3. QED
      BY <1>7, <3>1, <3>2
         DEF Step, QueryKeys, InsertLease, DecideLease, RevokeLease, CheckExists,
             StatementFails, LogAudit, LogAuditFails, Reply, Answer, Advance,
             Become, TypeOK, Idle
  <2>4. ASSUME req'[p].job.op = "revoke", req'[p].out = "ok"
        PROVE  Closed(req[p].job.lease, now)'
    <3>1. CASE req[p].out = "ok"
      BY <1>1, <1>2, <1>7, <2>1, <2>4, <3>1 DEF CutsHold, Closed
    <3>2. CASE RevokeLease(p)
      <4>1. /\ req[p].job.op = "revoke" /\ req[p].job.lease \in LeaseIds
            /\ req[p].job.at <= now /\ req[p].job.at \in Int
        BY <2>1, <3>2 DEF RevokeLease, At, Shape, ShapeOf
      <4>2. leases' = [leases EXCEPT ![req[p].job.lease] = Expired(@, req[p].job.at)]
            /\ Exists(leases[req[p].job.lease])
        BY <2>4, <3>2 DEF RevokeLease, Answer, Advance, Become, TypeOK, IsUnexpired
      <4>3. leases[req[p].job.lease] \in Lease
        BY <4>1, <4>2 DEF TypeOK, Tables, Exists, NoLease
      <4>4. /\ leases'[req[p].job.lease].expires = req[p].job.at
            /\ leases'[req[p].job.lease].status = leases[req[p].job.lease].status
        BY <4>1, <4>2, <4>3 DEF Expired, TypeOK, Tables, Lease
      <4>5. QED
        BY <1>1, <1>7, <4>1, <4>2, <4>4 DEF Closed, Exists
    <3>3. QED
      BY <1>7, <2>4, <3>1, <3>2
         DEF Step, QueryKeys, InsertLease, DecideLease, CheckExists,
             StatementFails, LogAudit, LogAuditFails, Reply, Answer, Advance,
             Become, TypeOK, Idle, At
  <2>5. QED
    BY <2>2, <2>3, <2>4
<1>8. \A q \in Requests : Kept(q)
  BY <1>4, <1>5, <1>6, <1>7, BeginMoves, StepMoves DEF Next, NotifyEnds, Crash, Tick, vars
<1>9. \A l \in acked' : Closed(l, now)'
  <2>1. ASSUME NEW p \in Requests, Reply(p), NEW l, l = req[p].job.lease,
               req[p].job.op = "revoke", req[p].out = "ok"
        PROVE  Closed(l, now)'
    <3>1. l \in LeaseIds
      BY <2>1 DEF Shape, ShapeOf
    <3>2. Closed(l, now)
      BY <2>1 DEF CutsHold
    <3>3. QED
      BY <1>1, <1>2, <3>1, <3>2 DEF Closed
  <2>2. \A p \in Requests : Reply(p) =>
           \/ acked' = acked
           \/ /\ req[p].job.op = "revoke" /\ req[p].out = "ok"
              /\ acked' = acked \cup {req[p].job.lease}
    BY DEF Reply
  <2>3. acked' = acked \/ \E p \in Requests : Reply(p)
    BY BeginMoves
       DEF Next, Step, QueryKeys, InsertLease, DecideLease, RevokeLease, CheckExists,
           StatementFails, LogAudit, LogAuditFails, NotifyEnds, Crash, Tick, vars
  <2>4. QED
    BY <1>3, <2>1, <2>2, <2>3
<1>10. QED
  BY <1>8, <1>9 DEF CutsHold, CutIsFinal

\* A revocation that was answered is final for every key request that starts
\* afterwards, for any number of requests, leases, users, hosts and ticks.
THEOREM RevocationIsFinal == Spec => []CutIsFinal
<1>1. Init => CutsHold /\ CutIsFinal
  BY DEF Init, CutsHold, CutIsFinal, Idle, NoJob
<1>2. TypeOK /\ Shape /\ CutsHold /\ CutIsFinal /\ [Next]_vars
         => CutsHold' /\ CutIsFinal'
  BY CutsInductive
<1>3. QED
  BY <1>1, <1>2, TypeCorrect, PTL DEF Spec

-----------------------------------------------------------------------------
(* What makes a revocation take effect: the safety half of CutTakesEffect.  *)

\* The key requests that read the clock before the revocation of lease l was
\* answered and may still hand out keys because of l, or already do.
Slipped(l) ==
    {p \in Requests : l \notin req[p].job.dead /\ (At(p, "keys", "query") \/ l \in req[p].by)}

\* The steps a handler has still before it, at most.
StepsLeft(r) ==
    CASE r.pc \in {"query", "insert", "update"} -> 3
      [] r.pc \in {"exists", "log"} -> 2
      [] r.pc = "reply" -> 1
      [] OTHER -> 0

\* Every statement brings a handler nearer to its end.
LEMMA HandlersEnd ==
  ASSUME TypeOK, NEW p \in Requests, Step(p)
  PROVE  StepsLeft(req'[p]) < StepsLeft(req[p])
<1>1. /\ req[p].pc \in {"query", "insert", "update"} => StepsLeft(req[p]) = 3
      /\ req[p].pc \in {"exists", "log"} => StepsLeft(req[p]) = 2
      /\ req[p].pc = "reply" => StepsLeft(req[p]) = 1
  BY DEF StepsLeft
<1>2. /\ req'[p].pc \in {"exists", "log"} => StepsLeft(req'[p]) = 2
      /\ req'[p].pc = "reply" => StepsLeft(req'[p]) = 1
      /\ req'[p].pc = "idle" => StepsLeft(req'[p]) = 0
  BY DEF StepsLeft
<1>3. ASSUME NEW pc, NEW out, NEW by, Advance(p, pc, out, by)
      PROVE  req'[p].pc = pc
  BY <1>3 DEF Advance, Become, TypeOK
<1>4. CASE QueryKeys(p) \/ DecideLease(p) \/ RevokeLease(p) \/ \E l \in LeaseIds : InsertLease(p, l)
  <2>1. req[p].pc \in {"query", "insert", "update"}
    BY <1>4 DEF QueryKeys, InsertLease, DecideLease, RevokeLease, At
  <2>2. req'[p].pc \in {"log", "exists", "reply"}
    BY <1>3, <1>4 DEF QueryKeys, InsertLease, DecideLease, RevokeLease, Answer
  <2>3. QED
    BY <1>1, <1>2, <2>1, <2>2
<1>5. CASE CheckExists(p) \/ LogAudit(p) \/ LogAuditFails(p) \/ StatementFails(p)
  <2>1. req[p].pc \in {"query", "insert", "update", "exists", "log"}
    BY <1>5 DEF CheckExists, LogAudit, LogAuditFails, StatementFails
  <2>2. req'[p].pc = "reply"
    BY <1>3, <1>5 DEF CheckExists, LogAudit, LogAuditFails, StatementFails, Answer
  <2>3. QED
    BY <1>1, <1>2, <2>1, <2>2
<1>6. CASE Reply(p)
  <2>1. req[p].pc = "reply" /\ req'[p].pc = "idle"
    BY <1>6 DEF Reply, Become, TypeOK, Idle
  <2>2. QED
    BY <1>1, <1>2, <2>1
<1>7. QED
  BY <1>4, <1>5, <1>6 DEF Step

\* No step adds a key request to those that slipped in, and none of them starts over.
LEMMA SlippedDrain ==
  ASSUME TypeOK, [Next]_vars, NEW l \in acked, NEW q \in Slipped(l)',
         CutIsFinal'
  PROVE  q \in Slipped(l) /\ StepsLeft(req'[q]) <= StepsLeft(req[q])
<1>1. q \in Requests /\ l \notin req'[q].job.dead
      /\ (At(q, "keys", "query")' \/ l \in req'[q].by)
  BY DEF Slipped
<1>2. \A r : StepsLeft(r) \in Int
  BY DEF StepsLeft
<1>3. CASE req'[q] = req[q]
  BY <1>1, <1>2, <1>3 DEF Slipped, At
<1>4. CASE req'[q] = Idle
  BY <1>1, <1>4 DEF At, Idle, NoJob
<1>5. CASE Begin(q)
  BY <1>1, <1>5, BeginMoves DEF At
<1>6. CASE Step(q) /\ req'[q].job = req[q].job
  <2>1. req'[q].pc # "query"
    BY <1>1, <1>6
       DEF Step, QueryKeys, InsertLease, DecideLease, RevokeLease, CheckExists,
           StatementFails, LogAudit, LogAuditFails, Reply, Answer, Advance,
           Become, TypeOK, Idle
  <2>2. l \in req'[q].by
    BY <1>1, <2>1 DEF At
  <2>3. l \in req[q].by \/ At(q, "keys", "query")
    BY <1>1, <1>6, <2>2
       DEF Step, QueryKeys, InsertLease, DecideLease, RevokeLease, CheckExists,
           StatementFails, LogAudit, LogAuditFails, Reply, Answer, Advance,
           Become, TypeOK, Idle
  <2>4. QED
    BY <1>1, <1>2, <1>6, <2>3, HandlersEnd DEF Slipped
<1>7. QED
  BY <1>1, <1>3, <1>4, <1>5, <1>6, BeginMoves, StepMoves DEF Next, NotifyEnds, Crash, Tick, vars

\* After the revocation of a lease was answered, the key requests that slipped in
\* before it only get fewer, a request that holds keys because of the lease is one of
\* them, and each of their steps brings them nearer to the end (RevokeLease,
\* handleGetUserKeys).  Under Fairness this is why CutTakesEffect holds.
DrainStep ==
    \A l \in acked :
        /\ Slipped(l)' \subseteq Slipped(l)
        /\ \A p \in Requests : l \in req[p].by => p \in Slipped(l)
        /\ \A p \in Slipped(l)' : StepsLeft(req'[p]) <= StepsLeft(req[p])
        /\ \A p \in Slipped(l) : Step(p) => StepsLeft(req'[p]) < StepsLeft(req[p])

\* A cut drains, for any number of requests and leases.
THEOREM CutDrains == Spec => [][DrainStep]_vars
<1>1. TypeOK /\ CutIsFinal /\ CutIsFinal' /\ [Next]_vars => DrainStep
  <2> SUFFICES ASSUME TypeOK, CutIsFinal, CutIsFinal', [Next]_vars PROVE DrainStep
    OBVIOUS
  <2>1. ASSUME NEW l \in acked, NEW p \in Requests, l \in req[p].by
        PROVE  p \in Slipped(l)
    BY <2>1 DEF Slipped, CutIsFinal
  <2>2. ASSUME NEW l \in acked, NEW p \in Slipped(l), Step(p)
        PROVE  StepsLeft(req'[p]) < StepsLeft(req[p])
    BY <2>2, HandlersEnd DEF Slipped
  <2>3. QED
    BY <2>1, <2>2, SlippedDrain DEF DrainStep
<1>2. QED
  BY <1>1, RevocationIsFinal, TypeCorrect, PTL DEF Spec

-----------------------------------------------------------------------------
(* Grants are backed by leases. *)

\* No step takes away the leases behind a grant.
LEMMA GrantsInductive ==
  ASSUME TypeOK, Shape, GrantsAreBacked, GrantedRowsAreBacked, [Next]_vars
  PROVE  GrantsAreBacked' /\ GrantedRowsAreBacked'
<1>1. ASSUME NEW l \in LeaseIds, NEW u, NEW h, Backs(leases[l], u, h)
      PROVE  Backs(leases'[l], u, h)
  <2>1. Exists(leases[l])
    BY <1>1 DEF Backs, Exists
  <2>2. QED
    BY <1>1, <2>1, TableKeeps
<1> DEFINE Kept(q) ==
             /\ req'[q].out = "KEY_REQUEST_GRANTED"
                  => req'[q].job.op = "keys" /\ req'[q].by # {}
             /\ \A l \in req'[q].by :
                   Backs(leases'[l], req'[q].job.user, req'[q].job.host)
<1>2. ASSUME NEW q \in Requests, req'[q] = req[q]
      PROVE  Kept(q)
  <2>1. req[q].by \subseteq LeaseIds
    BY DEF TypeOK, Request
  <2>2. QED
    BY <1>1, <1>2, <2>1 DEF GrantsAreBacked
<1>3. ASSUME NEW q \in Requests, req'[q] = Idle
      PROVE  Kept(q)
  BY <1>3 DEF Idle
<1>4. ASSUME NEW p \in Requests, Begin(p)
      PROVE  Kept(p)
  BY <1>4, BeginMoves
<1>5. ASSUME NEW p \in Requests, Step(p), req'[p].job = req[p].job
      PROVE  Kept(p)
  <2>1. CASE QueryKeys(p) /\ req'[p].out = "KEY_REQUEST_GRANTED"
    <3>1. /\ req[p].job.op = "keys" /\ leases' = leases
          /\ req'[p].by = Covering(req[p].job) /\ req'[p].by # {}
      BY <2>1 DEF QueryKeys, At, Advance, Become, TypeOK
    <3>2. QED
      BY <1>5, <3>1 DEF Covering, Covers, Backs
  <2>2. CASE /\ req'[p].out = req[p].out
             /\ req'[p].by = req[p].by
    <3>1. req[p].by \subseteq LeaseIds
      BY DEF TypeOK, Request
    <3>2. QED
      BY <1>1, <1>5, <2>2, <3>1 DEF GrantsAreBacked
  <2>3. CASE req'[p].out # "KEY_REQUEST_GRANTED" /\ req'[p].by = {}
    BY <2>3
  <2>4. QED
    BY <1>5, <2>1, <2>2, <2>3
       DEF Step, QueryKeys, InsertLease, DecideLease, RevokeLease, CheckExists,
           StatementFails, LogAudit, LogAuditFails, Reply, Answer, Advance,
           Become, TypeOK, Idle
<1>6. \A q \in Requests : Kept(q)
  BY <1>2, <1>3, <1>4, <1>5, BeginMoves, StepMoves DEF Next, NotifyEnds, Crash, Tick, vars
<1> DEFINE BackedNow(u, h) == \E l \in LeaseIds : Backs(leases[l], u, h)
           BackedNext(u, h) == \E l \in LeaseIds : Backs(leases'[l], u, h)
<1>7. \A u, h : BackedNow(u, h) => BackedNext(u, h)
  BY <1>1
<1>8. ASSUME NEW row \in audit', row.action = "KEY_REQUEST_GRANTED"
      PROVE  BackedNext(row.user, row.host)
  <2>1. CASE row \in audit
    <3>1. BackedNow(row.user, row.host)
      BY <1>8, <2>1 DEF GrantedRowsAreBacked, Backs
    <3>2. QED
      BY <1>7, <3>1
  <2>2. ASSUME NEW p \in Requests, LogAudit(p), row = RowOf(req[p])
        PROVE  BackedNext(row.user, row.host)
    <3>1. req[p].out = "KEY_REQUEST_GRANTED"
      BY <1>8, <2>2 DEF RowOf
    <3>2. row.user = req[p].job.user /\ row.host = req[p].job.host
      BY <2>2 DEF RowOf
    <3>3. req[p].by \subseteq LeaseIds
      BY DEF TypeOK, Request
    <3>4. BackedNow(row.user, row.host)
      BY <3>1, <3>2, <3>3 DEF GrantsAreBacked
    <3>5. QED
      BY <1>7, <3>4
  <2>3. row \in audit \/ \E p \in Requests : LogAudit(p) /\ row = RowOf(req[p])
    BY <1>8, BeginMoves
       DEF Next, Step, QueryKeys, InsertLease, DecideLease, RevokeLease, CheckExists,
           StatementFails, LogAudit, LogAuditFails, Reply, NotifyEnds, Crash, Tick, vars
  <2>4. QED
    BY <2>1, <2>2, <2>3
<1>9. QED
  BY <1>6, <1>8 DEF GrantsAreBacked, GrantedRowsAreBacked, Backs

\* Every KEY_REQUEST_GRANTED row is explained by an approved lease, for ever.
THEOREM GrantsHaveLeases == Spec => []GrantedRowsAreBacked
<1>1. Init => GrantsAreBacked /\ GrantedRowsAreBacked
  BY DEF Init, GrantsAreBacked, GrantedRowsAreBacked, Idle
<1>2. TypeOK /\ Shape /\ GrantsAreBacked /\ GrantedRowsAreBacked /\ [Next]_vars
         => GrantsAreBacked' /\ GrantedRowsAreBacked'
  BY GrantsInductive
<1>3. QED
  BY <1>1, <1>2, TypeCorrect, PTL DEF Spec

-----------------------------------------------------------------------------
(* A lease gets one verdict. *)

\* Request q found its lease pending and gave it its verdict in this very step.
Settles(q) ==
    /\ At(q, "decide", "update")
    /\ IsPending(leases[req[q].job.lease])
    /\ leases'[req[q].job.lease].status = req[q].job.status
    /\ audit' = audit
    /\ \A p \in Requests : p # q => req'[p] = req[p]

\* Where decisions come from.
LEMMA DecisionMoves ==
  ASSUME TypeOK, Shape, [Next]_vars, NEW q \in Requests, Decided(q)'
  PROVE  /\ req'[q].job = req[q].job
         /\ Decided(q) \/ Settles(q)
         /\ ~ Settles(q) /\ req'[q].pc = "log" => req'[q] = req[q]
<1>1. CASE req'[q] = req[q]
  <2>1. ~ At(q, "decide", "update") \/ Decided(q)
    BY <1>1 DEF Decided
  <2>2. QED
    BY <1>1, <2>1 DEF Decided
<1>2. CASE req'[q] = Idle
  BY <1>2 DEF Idle, Decided
<1>3. ASSUME Begin(q)
      PROVE  FALSE
  BY <1>3, BeginMoves DEF Decided
<1>4. ASSUME Step(q), req'[q].job = req[q].job
      PROVE  /\ Decided(q) \/ Settles(q)
             /\ ~ Settles(q) /\ req'[q].pc = "log" => req'[q] = req[q]
  <2>1. CASE DecideLease(q) /\ IsPending(leases[req[q].job.lease])
    <3>1. /\ req[q].job.lease \in LeaseIds /\ At(q, "decide", "update")
          /\ leases' = [leases EXCEPT ![req[q].job.lease].status = req[q].job.status]
          /\ audit' = audit
      BY <2>1 DEF DecideLease, At, Shape, ShapeOf
    <3>2. leases[req[q].job.lease] \in Lease
      BY <2>1, <3>1 DEF TypeOK, Tables, NoLease, IsPending
    <3>3. leases'[req[q].job.lease].status = req[q].job.status
      BY <3>1, <3>2 DEF TypeOK, Tables, Lease
    <3>4. QED
      BY <1>4, <2>1, <3>1, <3>3, StepMoves DEF Settles
  <2>2. CASE DecideLease(q) /\ ~ IsPending(leases[req[q].job.lease])
    BY <1>4, <2>2 DEF DecideLease, Advance, Become, TypeOK, Decided
  <2>3. CASE ~ DecideLease(q)
    <3>1. Decided(q) /\ req'[q].pc # "log"
      BY <1>4, <2>3
         DEF Step, QueryKeys, InsertLease, RevokeLease, CheckExists, StatementFails,
             LogAudit, LogAuditFails, Reply, Answer, Advance, Become, TypeOK,
             Idle, Decided, At
    <3>2. QED
      BY <3>1
  <2>4. QED
    BY <2>1, <2>2, <2>3
<1>5. \/ req'[q] = req[q] \/ req'[q] = Idle \/ Begin(q)
      \/ Step(q) /\ req'[q].job = req[q].job
  BY BeginMoves, StepMoves DEF Next, NotifyEnds, Crash, Tick, vars
<1>6. QED
  BY <1>1, <1>2, <1>3, <1>4, <1>5

\* A request whose verdict is due to be logged has decided.
LEMMA LogMeansDecided ==
  ASSUME Shape, NEW p \in Requests, At(p, "decide", "log")
  PROVE  Decided(p)
BY DEF Shape, ShapeOf, At, Decided

\* Audit rows come from LogAudit; then no request but that one moves.
LEMMA AuditMoves ==
  ASSUME TypeOK, [Next]_vars
  PROVE  \/ audit' = audit
         \/ \E p \in Requests :
               /\ LogAudit(p) /\ audit' = audit \cup {RowOf(req[p])}
               /\ req'[p].pc = "reply"
               /\ \A q \in Requests : q # p => req'[q] = req[q]
<1>1. audit' = audit \/ \E p \in Requests : LogAudit(p)
  BY BeginMoves
     DEF Next, Step, QueryKeys, InsertLease, DecideLease, RevokeLease, CheckExists,
         StatementFails, LogAuditFails, Reply, NotifyEnds, Crash, Tick, vars
<1>2. QED
  BY <1>1 DEF LogAudit, Advance, Become, TypeOK

\* No step contradicts a verdict.
LEMMA VerdictsInductive ==
  ASSUME TypeOK, Shape, RowsAreShaped, VerdictStands, OneVerdict, [Next]_vars
  PROVE  RowsAreShaped' /\ VerdictStands' /\ OneVerdict'
<1>1. OneDecider /\ NotYetLogged /\ LogMatches
  BY DEF OneVerdict
<1>2. ASSUME NEW p \in Requests, Decided(p)
      PROVE  /\ req[p].job.lease \in LeaseIds /\ req[p].job.status \in Verdicts
             /\ leases[req[p].job.lease].status = req[p].job.status
  BY <1>2 DEF Decided, Shape, ShapeOf, VerdictStands
<1>3. ASSUME NEW l \in LeaseIds, leases[l].status \in Verdicts
      PROVE  leases'[l].status = leases[l].status
  <2>1. Exists(leases[l]) /\ ~ IsPending(leases[l])
    BY <1>3 DEF Exists, IsPending, Verdicts
  <2>2. QED
    BY <2>1, TableKeeps
<1>4. VerdictStands'
  <2>1. SUFFICES ASSUME NEW q \in Requests, Decided(q)'
                 PROVE  leases'[req'[q].job.lease].status = req'[q].job.status
    BY DEF VerdictStands
  <2>2. CASE Decided(q)
    BY <1>2, <1>3, <2>1, <2>2, DecisionMoves
  <2>3. CASE Settles(q)
    BY <2>1, <2>3, DecisionMoves DEF Settles
  <2>4. QED
    BY <2>1, <2>2, <2>3, DecisionMoves
<1>5. ASSUME NEW q \in Requests, NEW p \in Requests, Settles(q), Decided(p)
      PROVE  req[p].job.lease # req[q].job.lease
  BY <1>2, <1>5 DEF Settles, IsPending, Verdicts
<1>6. OneDecider'
  <2>1. SUFFICES ASSUME NEW p \in Requests, NEW q \in Requests,
                        Decided(p)', Decided(q)',
                        req'[p].job.lease = req'[q].job.lease, p # q
                 PROVE  FALSE
    BY DEF OneDecider
  <2>2. req[p].job.lease = req[q].job.lease
    BY <2>1, DecisionMoves
  <2>3. ~ (Decided(p) /\ Decided(q))
    BY <1>1, <2>1, <2>2 DEF OneDecider
  <2>4. ASSUME NEW r \in Requests, NEW s \in Requests, Settles(r), s # r, Decided(s)'
        PROVE  Decided(s)
    BY <2>4 DEF Settles, Decided
  <2>5. Decided(p) \/ Settles(p)
    BY <2>1, DecisionMoves
  <2>6. Decided(q) \/ Settles(q)
    BY <2>1, DecisionMoves
  <2>7. QED
    BY <1>5, <2>1, <2>2, <2>3, <2>4, <2>5, <2>6
<1>7. ASSUME NEW row \in audit, row.lease # 0
      PROVE  row.lease \in LeaseIds /\ leases[row.lease].status \in Verdicts
  BY <1>1, <1>7 DEF TypeOK, AuditRow, LogMatches, Verdicts
<1>8. ASSUME NEW p \in Requests, req[p].pc = "log"
      PROVE  \/ /\ req[p].job.op = "keys" /\ RowOf(req[p]).lease = 0
                /\ RowOf(req[p]).action \in KeyOutcomes
             \/ /\ Decided(p) /\ At(p, "decide", "log")
                /\ RowOf(req[p]).lease = req[p].job.lease
                /\ RowOf(req[p]).action = IF req[p].job.status = "approved"
                                          THEN "LEASE_APPROVED" ELSE "LEASE_REJECTED"
  BY <1>8 DEF Shape, ShapeOf, RowOf, Decided, At
<1>9. RowsAreShaped'
  <2>1. CASE audit' = audit
    BY <2>1 DEF RowsAreShaped
  <2>2. ASSUME NEW p \in Requests, req[p].pc = "log", audit' = audit \cup {RowOf(req[p])}
        PROVE  RowsAreShaped'
    <3>1. RowOf(req[p]).action \in KeyOutcomes <=> RowOf(req[p]).lease = 0
      <4>1. CASE RowOf(req[p]).lease = 0 /\ RowOf(req[p]).action \in KeyOutcomes
        BY <4>1
      <4>2. CASE /\ Decided(p) /\ RowOf(req[p]).lease = req[p].job.lease
                 /\ RowOf(req[p]).action \in {"LEASE_APPROVED", "LEASE_REJECTED"}
        BY <1>2, <4>2 DEF LeaseIds, KeyOutcomes
      <4>3. QED
        BY <1>8, <2>2, <4>1, <4>2
    <3>2. QED
      BY <2>2, <3>1 DEF RowsAreShaped
  <2>3. QED
    BY <2>1, <2>2, AuditMoves DEF LogAudit
<1>10. NotYetLogged'
  <2>1. SUFFICES ASSUME NEW q \in Requests, At(q, "decide", "log")', NEW row \in audit'
                 PROVE  row.lease # req'[q].job.lease
    BY DEF NotYetLogged
  <2>2. Decided(q)' /\ req'[q].job = req[q].job
    <3>1. Shape'
      BY BeginTyped, StepTyped, OthersTyped DEF Next
    <3>2. Decided(q)'
      BY <2>1, <3>1 DEF Shape, ShapeOf, At, Decided
    <3>3. QED
      BY <3>2, DecisionMoves
  <2>3. CASE Settles(q)
    <3>1. row \in audit /\ IsPending(leases[req[q].job.lease])
      BY <2>1, <2>3 DEF Settles
    <3>2. req[q].job.lease # 0
      BY <2>2, <2>3 DEF Settles, At, Shape, ShapeOf, LeaseIds
    <3>3. QED
      BY <1>7, <2>2, <3>1, <3>2 DEF IsPending, Verdicts
  <2>4. CASE ~ Settles(q)
    <3>1. req'[q] = req[q] /\ At(q, "decide", "log") /\ Decided(q)
      BY <2>1, <2>2, <2>4, DecisionMoves DEF At
    <3>2. CASE row \in audit
      BY <1>1, <3>1, <3>2 DEF NotYetLogged
    <3>3. ASSUME NEW p \in Requests, p # q, req[p].pc = "log", row = RowOf(req[p])
          PROVE  row.lease # req[q].job.lease
      BY <1>1, <1>2, <1>8, <3>1, <3>3 DEF OneDecider, LeaseIds
    <3>4. row \in audit \/ \E p \in Requests :
             p # q /\ req[p].pc = "log" /\ row = RowOf(req[p])
      BY <2>1, <3>1, AuditMoves DEF LogAudit, At
    <3>5. QED
      BY <3>1, <3>2, <3>3, <3>4
  <2>5. QED
    BY <2>3, <2>4
<1>11. LogMatches'
  <2>1. SUFFICES ASSUME NEW row \in audit', row.lease # 0
                 PROVE  leases'[row.lease].status =
                          IF row.action = "LEASE_APPROVED" THEN "approved" ELSE "denied"
    BY DEF LogMatches
  <2>2. CASE row \in audit
    BY <1>1, <1>3, <1>7, <2>1, <2>2 DEF LogMatches
  <2>3. ASSUME NEW p \in Requests, req[p].pc = "log", row = RowOf(req[p])
        PROVE  leases'[row.lease].status =
                 IF row.action = "LEASE_APPROVED" THEN "approved" ELSE "denied"
    BY <1>2, <1>3, <1>8, <2>1, <2>3 DEF Verdicts
  <2>4. QED
    BY <2>1, <2>2, <2>3, AuditMoves DEF LogAudit
<1>12. QED
  BY <1>4, <1>6, <1>9, <1>10, <1>11 DEF OneVerdict

\* Two approvers racing for a lease never both succeed, and the audit log never
\* contradicts the table, for any number of requests and leases.
THEOREM VerdictIsUnique == Spec => []OneVerdict
<1>1. Init => RowsAreShaped /\ VerdictStands /\ OneVerdict
  BY DEF Init, RowsAreShaped, VerdictStands, OneVerdict, OneDecider, NotYetLogged,
         LogMatches, Decided, At, Idle
<1>2. TypeOK /\ Shape /\ RowsAreShaped /\ VerdictStands /\ OneVerdict /\ [Next]_vars
         => RowsAreShaped' /\ VerdictStands' /\ OneVerdict'
  BY VerdictsInductive
<1>3. QED
  BY <1>1, <1>2, TypeCorrect, PTL DEF Spec

-----------------------------------------------------------------------------
(* The notifier sends what was recorded. *)

\* Only LogAudit hands events to the notifier.
LEMMA OutboxMoves ==
  ASSUME TypeOK, [Next]_vars
  PROVE  outbox' \subseteq outbox \/ \E p \in Requests : LogAudit(p)
<1>1. ASSUME NEW p \in Requests, Step(p), ~ LogAudit(p)
      PROVE  outbox' = outbox
  BY <1>1
     DEF Step, QueryKeys, InsertLease, DecideLease, RevokeLease, CheckExists,
         StatementFails, LogAuditFails, Reply
<1>2. (\E row \in outbox : NotifyEnds(row)) \/ Crash \/ Tick \/ UNCHANGED vars
        => outbox' \subseteq outbox
  BY DEF NotifyEnds, Crash, Tick, vars
<1>3. QED
  BY <1>1, <1>2, BeginMoves DEF Next

\* However handlers, failing writes and crashes interleave, the notifier never
\* holds an event that the audit log does not have.
THEOREM NotifiedAreRecorded == Spec => []NotifiedIsRecorded
<1>1. Init => NotifiedIsRecorded
  BY DEF Init, NotifiedIsRecorded
<1>2. TypeOK /\ NotifiedIsRecorded /\ [Next]_vars => NotifiedIsRecorded'
  <2>1. SUFFICES ASSUME TypeOK, NotifiedIsRecorded, [Next]_vars
                 PROVE  NotifiedIsRecorded'
    OBVIOUS
  <2>2. audit \subseteq audit'
    BY <2>1, AuditMoves
  <2>3. CASE outbox' \subseteq outbox
    BY <2>1, <2>2, <2>3 DEF NotifiedIsRecorded
  <2>4. ASSUME NEW p \in Requests, LogAudit(p)
        PROVE  outbox' \subseteq audit'
    BY <2>1, <2>4 DEF LogAudit, NotifiedIsRecorded
  <2>5. QED
    BY <2>1, <2>3, <2>4, OutboxMoves DEF NotifiedIsRecorded
<1>3. QED
  BY <1>1, <1>2, TypeCorrect, PTL DEF Spec

-----------------------------------------------------------------------------
(* The service implements the lease lifecycle. *)

Phase == [l \in LeaseIds |-> PhaseOf(l)]

\* A step that leaves the table and the clock alone leaves every phase alone.
LEMMA PhaseStays ==
  ASSUME leases' = leases, now' = now
  PROVE  Phase' = Phase
BY DEF Phase, PhaseOf, Exists

\* A step that touches one row changes at most that lease's phase.
LEMMA PhaseMoves ==
  ASSUME NEW l \in LeaseIds, now' = now,
         \A k \in LeaseIds \ {l} : leases'[k] = leases[k]
  PROVE  Phase' = [Phase EXCEPT ![l] = PhaseOf(l)']
BY DEF Phase, PhaseOf, Exists

\* Closing the leases of S, once the fields of the instance are written out.
LEMMA PhaseCloses ==
  ASSUME NEW S \in SUBSET LeaseIds, \A l \in S : PhaseOf(l) # "unused",
         \A l \in LeaseIds : PhaseOf(l)' = IF l \in S THEN "over" ELSE PhaseOf(l)
  PROVE  Lifecycle!LifecycleNext
<1>1. Phase' = [l \in LeaseIds |-> IF l \in S THEN "over" ELSE Phase[l]]
  BY DEF Phase
<1>2. Lifecycle!Close(S)
  BY <1>1 DEF Lifecycle!Close, Phase
<1>3. QED
  BY <1>2 DEF Lifecycle!LifecycleNext

\* Every step of the service is a step of the lifecycle, or changes no phase.
LEMMA LifecycleStep ==
  ASSUME TypeOK, Shape, [Next]_vars
  PROVE  [Lifecycle!LifecycleNext]_Phase
<1>1. now \in Int /\ \A l \in LeaseIds : Exists(leases[l]) => leases[l] \in Lease
  BY DEF TypeOK, Tables, Exists, NoLease
<1>2. ASSUME NEW p \in Requests, NEW l \in LeaseIds, InsertLease(p, l)
      PROVE  Lifecycle!LifecycleNext
  <2>1. /\ PhaseOf(l) = "unused" /\ now' = now
        /\ \A k \in LeaseIds \ {l} : leases'[k] = leases[k]
    BY <1>2 DEF InsertLease, IsNextId, PhaseOf, TypeOK, Tables
  <2>2. leases'[l].status \in {"pending", "approved"}
    BY <1>2 DEF InsertLease, At, Shape, ShapeOf, TypeOK, Tables
  <2>3. PhaseOf(l)' \in {"pending", "approved", "over"}
    BY <2>2 DEF PhaseOf, Exists
  <2>4. Lifecycle!File(l)
    BY <2>1, <2>3, PhaseMoves DEF Lifecycle!File, Phase
  <2>5. QED
    BY <2>4 DEF Lifecycle!LifecycleNext
<1>3. ASSUME NEW p \in Requests, DecideLease(p), leases' # leases
      PROVE  [Lifecycle!LifecycleNext]_Phase
  <2>1. PICK l \in LeaseIds :
          /\ l = req[p].job.lease /\ IsPending(leases[l]) /\ now' = now
          /\ leases' = [leases EXCEPT ![l].status = req[p].job.status]
          /\ req[p].job.status \in Verdicts
    BY <1>3 DEF DecideLease, At, Shape, ShapeOf
  <2>2. leases[l] \in Lease
    BY <1>1, <2>1 DEF IsPending, Exists
  <2>3. /\ \A k \in LeaseIds \ {l} : leases'[k] = leases[k]
        /\ leases'[l].status = req[p].job.status
        /\ leases'[l].expires = leases[l].expires
    BY <2>1, <2>2 DEF TypeOK, Tables, Lease
  <2>4. CASE leases[l].expires <= now
    <3>1. PhaseOf(l) = "over" /\ PhaseOf(l)' = "over"
      BY <2>1, <2>3, <2>4 DEF PhaseOf, Exists, IsPending, Verdicts
    <3>2. Phase' = Phase
      BY <2>1, <2>3, <3>1, PhaseMoves DEF Phase
    <3>3. QED
      BY <3>2
  <2>5. CASE ~ (leases[l].expires <= now)
    <3>1. PhaseOf(l) = "pending" /\ PhaseOf(l)' \in {"approved", "denied"}
      BY <2>1, <2>3, <2>5 DEF PhaseOf, Exists, IsPending, Verdicts
    <3>2. Lifecycle!Decide(l)
      BY <2>1, <2>3, <3>1, PhaseMoves DEF Lifecycle!Decide, Phase
    <3>3. QED
      BY <3>2 DEF Lifecycle!LifecycleNext
  <2>6. QED
    BY <2>4, <2>5
<1>4. ASSUME NEW p \in Requests, RevokeLease(p), leases' # leases
      PROVE  Lifecycle!LifecycleNext
  <2>1. PICK l \in LeaseIds :
          /\ l = req[p].job.lease /\ Exists(leases[l]) /\ now' = now
          /\ leases' = [leases EXCEPT ![l] = Expired(@, req[p].job.at)]
          /\ req[p].job.at <= now
    BY <1>4 DEF RevokeLease, At, Shape, ShapeOf, IsUnexpired
  <2>2. leases[l] \in Lease
    BY <1>1, <2>1
  <2>3. /\ \A k \in LeaseIds \ {l} : leases'[k] = leases[k]
        /\ leases'[l].status = leases[l].status
        /\ leases'[l].expires <= now
    BY <2>1, <2>2 DEF TypeOK, Tables, Lease, Expired
  <2>4. PhaseOf(l) # "unused" /\ PhaseOf(l)' = "over"
    BY <2>1, <2>2, <2>3 DEF PhaseOf, Exists, Lease, Statuses
  <2>5. \A k \in LeaseIds : PhaseOf(k)' = IF k \in {l} THEN "over" ELSE PhaseOf(k)
    BY <2>1, <2>3, <2>4 DEF PhaseOf, Exists
  <2>6. QED
    BY <2>4, <2>5, PhaseCloses
<1>5. ASSUME Tick
      PROVE  Lifecycle!LifecycleNext
  <2> DEFINE S == {l \in LeaseIds : Exists(leases[l]) /\ leases[l].expires <= now + 1}
  <2>1. \A l \in S : PhaseOf(l) # "unused"
    BY <1>1 DEF PhaseOf, Exists, Lease, Statuses
  <2>2. ASSUME NEW l \in LeaseIds
        PROVE  PhaseOf(l)' = IF l \in S THEN "over" ELSE PhaseOf(l)
    <3>1. leases'[l] = leases[l] /\ now' = now + 1
      BY <1>5 DEF Tick
    <3>2. Exists(leases[l]) => leases[l].expires \in Int
      BY <1>1 DEF Lease
    <3>3. QED
      BY <1>1, <3>1, <3>2 DEF PhaseOf, Exists
  <2>3. QED
    BY <2>1, <2>2, PhaseCloses
<1>6. \/ leases' = leases /\ now' = now
      \/ Tick
      \/ \E p \in Requests : \/ \E l \in LeaseIds : InsertLease(p, l)
                             \/ DecideLease(p) /\ leases' # leases
                             \/ RevokeLease(p) /\ leases' # leases
  BY BeginMoves, StepMoves
     DEF Next, Step, QueryKeys, CheckExists, StatementFails, LogAudit,
         LogAuditFails, Reply, NotifyEnds, Crash, vars
<1>7. QED
  BY <1>2, <1>3, <1>4, <1>5, <1>6, PhaseStays

\* The handlers, however they interleave with each other, with crashes and with
\* the clock, never take a lease off the path LeaseLifecycle lays out.
THEOREM LifecycleRefined == Spec => ImplementsLifecycle
<1>1. Init => Lifecycle!LifecycleInit
  BY DEF Init, Lifecycle!LifecycleInit, PhaseOf, Exists, NoLease
<1>2. TypeOK /\ Shape /\ [Next]_vars => [Lifecycle!LifecycleNext]_Phase
  BY LifecycleStep
<1>3. QED
  BY <1>1, <1>2, TypeCorrect, PTL
     DEF Spec, ImplementsLifecycle, Lifecycle!LifecycleSpec, Phase
=============================================================================
