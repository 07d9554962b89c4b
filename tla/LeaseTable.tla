----------------------------- MODULE LeaseTable -----------------------------
(***************************************************************************)
(* The leases table (internal/database/db.go) and the SQL that              *)
(* internal/database/leases.go and keys.go run on it.  A table value maps   *)
(* every id the model has room for to a row, or to NoLease while SQLite has *)
(* not handed that id out.  Rows are never deleted.                         *)
(***************************************************************************)
EXTENDS Integers

CONSTANTS
    Users,      \* usernames
    Hosts,      \* hostnames a lease or a key request can name
    Star,       \* the catch-all target host "*"
    MaxLeases   \* bound: the number of rows the table can hold

ASSUME MaxLeasesAssumption == MaxLeases \in Nat

LeaseIds == 1 .. MaxLeases
Targets == Hosts \cup {Star}
Statuses == {"pending", "approved", "denied"}

Lease == [owner : Users, host : Targets, expires : Int, status : Statuses]
NoLease == [owner |-> "none", host |-> "none", expires |-> 0, status |-> "none"]
Tables == [LeaseIds -> Lease \cup {NoLease}]

Exists(row) == row.status # "none"

\* AUTOINCREMENT: the id of the next row that is inserted.
IsNextId(table, l) ==
    /\ ~ Exists(table[l])
    /\ \A k \in LeaseIds : k < l => Exists(table[k])

\* Faulty variants of the guard below: the verdict is given without looking at
\* the status, or a denied lease may still be approved.
AnyExists(row) == Exists(row)
PendingOrDenied(row) == row.status \in {"pending", "denied"}

\* WHERE status = 'pending', the guard of ApproveLease and RejectLease.
IsPending(row) == row.status = "pending"

\* Faulty variant: revoke whatever the expiry, which re-dates a closed lease.
ExistsAtAll(row, t) == Exists(row)

\* WHERE expires_at > t, the guard of RevokeLease.
IsUnexpired(row, t) == Exists(row) /\ row.expires > t

\* Faulty variants: the row is deleted instead, or the assignment is lost.
Deleted(row, t) == NoLease
Untouched(row, t) == row

\* SET expires_at = t, the assignment of RevokeLease; the status stays.
Expired(row, t) == [row EXCEPT !.expires = t]

\* Faulty variants: the join forgets the status, or the user and the host.
CoversAnyStatus(row, u, h, t) ==
    row.owner = u /\ row.host \in {h, Star} /\ row.expires > t
CoversAnybody(row, u, h, t) == row.status = "approved" /\ row.expires > t

\* The join of GetValidKeysForUser on one lease: does this row let user u log
\* in to host h, as seen at time t?
Covers(row, u, h, t) ==
    /\ row.status = "approved"
    /\ row.owner = u
    /\ row.host \in {h, Star}
    /\ row.expires > t
=============================================================================
