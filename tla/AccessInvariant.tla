--------------------------- MODULE AccessInvariant ---------------------------
(***************************************************************************)
(* The inductive strengthening of AccessService's invariants: what holds of *)
(* a request at each step, and what the table and the log keep of it.       *)
(***************************************************************************)
EXTENDS AccessService

KeyOutcomes == {"KEY_REQUEST_GRANTED", "KEY_REQUEST_DENIED", "HOST_AUTH_FAILED"}
Verdicts == {"approved", "denied"}

\* What the local state of a request says, step by step.
ShapeOf(r) ==
    /\ r.pc = "query" => r.job.op = "keys"
    /\ r.pc = "insert" => /\ r.job.op = "create"
                          /\ r.job.user \in Users /\ r.job.host \in Targets
                          /\ r.job.status \in {"pending", "approved"}
    /\ r.pc \in {"update", "exists"} => r.job.op \in {"decide", "revoke"}
    /\ r.pc = "log" => \/ r.job.op = "keys" /\ r.out \in KeyOutcomes
                       \/ r.job.op = "decide" /\ r.out = "ok"
    /\ r.job.op = "keys" => r.job.lease = 0 /\ r.job.at <= now
    /\ r.job.op = "decide" => r.job.lease \in LeaseIds
    /\ r.job.op = "decide" /\ (r.pc = "update" \/ r.out = "ok") => r.job.status \in Verdicts
    /\ r.job.op = "revoke" => r.job.lease \in LeaseIds /\ r.job.at <= now

Shape == \A p \in Requests : ShapeOf(req[p])

\* A revoked lease stays closed: for the clock once the revocation is answered
\* or about to be, and for a key request from the moment it read the clock.
Closed(l, t) == Exists(leases[l]) /\ leases[l].expires <= t

CutsHold ==
    /\ \A l \in acked : Closed(l, now)
    /\ \A p \in Requests :
          /\ req[p].job.op = "revoke" /\ req[p].out = "ok" => Closed(req[p].job.lease, now)
          /\ \A l \in req[p].job.dead : Closed(l, req[p].job.at)

\* What let a key request through is still in the table, but for the expiry.
Backs(row, u, h) == row.status = "approved" /\ row.owner = u /\ row.host \in {h, Star}

GrantsAreBacked ==
    \A p \in Requests :
        /\ req[p].out = "KEY_REQUEST_GRANTED" => req[p].job.op = "keys" /\ req[p].by # {}
        /\ \A l \in req[p].by : Backs(leases[l], req[p].job.user, req[p].job.host)

\* A verdict given is the verdict in the table.
VerdictStands ==
    \A p \in Requests : Decided(p) => leases[req[p].job.lease].status = req[p].job.status

\* Only rows about a lease name one.
RowsAreShaped ==
    \A row \in audit : row.action \in KeyOutcomes <=> row.lease = 0

IInv ==
    /\ TypeOK
    /\ Shape
    /\ CutsHold
    /\ CutIsFinal
    /\ GrantsAreBacked
    /\ GrantedRowsAreBacked
    /\ RowsAreShaped
    /\ VerdictStands
    /\ OneVerdict
=============================================================================
