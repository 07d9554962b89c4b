------------------------------ MODULE Analytics ------------------------------
(***************************************************************************)
(* The numbers behind the dashboard: handleOverview and handleListHosts of  *)
(* internal/api/metrics_handler.go over internal/database/analytics.go.     *)
(* Every panel is a query of its own, so leases are approved, keys are      *)
(* asked for and midnights pass while one page is being put together.  The  *)
(* clock counts ticks, DayTicks of them to a day; a tick stands for the     *)
(* second, which is what created_at is kept to.                             *)
(***************************************************************************)
EXTENDS Integers, Sequences, FiniteSets, FiniteSetsExt

CONSTANTS
    Users,     \* usernames
    Hosts,     \* target hosts that key requests name
    DayTicks,  \* ticks of the clock in a day
    Days,      \* overviewDays: buckets of the timeline
    Limit,     \* hosts the "top hosts" panel shows
    MaxTime,   \* bound: the clock stops here
    MaxLog,    \* bound: rows in the audit log
    MaxLeases  \* bound: rows in the leases table

ASSUME AnalyticsAssumption ==
    /\ DayTicks \in Nat \ {0} /\ Days \in Nat \ {0} /\ Limit \in Nat \ {0}
    /\ MaxTime \in Nat /\ MaxLog \in Nat /\ MaxLeases \in Nat
    /\ "all" \notin Users /\ "-" \notin Users /\ "*" \notin Hosts

\* overviewDays is 7.  With two buckets the last 24 hours would not fit into the
\* timeline when midnight passes while the page is put together.
ASSUME WindowAssumption == Days >= 3

VARIABLES
    now,     \* the clock
    log,     \* audit_logs
    leases,  \* the leases table
    page     \* the page a handler is putting together, and where it is

vars == <<now, log, leases, page>>

KeyActions == {"KEY_REQUEST_GRANTED", "KEY_REQUEST_DENIED", "HOST_AUTH_FAILED"}
Targets == Hosts \cup {"*"}  \* "*" stands for no host named
Rows ==
    [action : KeyActions \cup {"LEASE_APPROVED", "LEASE_REJECTED"},
     user : Users \cup {"-"}, host : Targets, at : 0 .. MaxTime]
Leases ==
    [owner : Users, created : 0 .. MaxTime, expires : Int,
     status : {"pending", "approved", "denied"}]

Buckets == 0 .. Days - 1
Point == [granted : Nat, denied : Nat, active : Nat]
NoPoints == [b \in Buckets |-> [granted |-> 0, denied |-> 0, active |-> 0]]

Day(t) == t \div DayTicks
DayStart(t) == Day(t) * DayTicks

\* forcedUsername: a regular user sees their own rows, an administrator all.
Callers == Users \cup {"all"}
Sees(caller, user) == caller \in {"all", user}

Stages ==
    {"idle", "active", "pending", "granted", "denied", "window", "timeline",
     "overlay", "top", "overview", "hosts", "users", "machines"}

\* began and seen are history: when the page was asked for, and how much of the
\* log there was.
Page ==
    [pc : Stages, caller : Callers, began : 0 .. MaxTime, seen : 0 .. MaxLog,
     active : Nat, pending : Nat, since : Int, granted : Nat, denied : Nat,
     start : Int, counts : [Buckets -> Point], out : [Buckets -> Point],
     top : SUBSET (Targets \X Nat), stats : SUBSET Targets,
     users : [Targets -> SUBSET (Users \cup {"-"})]]

NoPage ==
    [pc |-> "idle", caller |-> "all", began |-> 0, seen |-> 0,
     active |-> 0, pending |-> 0, since |-> 0, granted |-> 0, denied |-> 0,
     start |-> 0, counts |-> NoPoints, out |-> NoPoints, top |-> {}, stats |-> {},
     users |-> [h \in Targets |-> {}]]

Init == now = 0 /\ log = <<>> /\ leases = <<>> /\ page = NoPage

-----------------------------------------------------------------------------
(* The rest of the server, as far as it shows here. *)

LogRow(action, user, host) ==
    /\ Len(log) < MaxLog
    /\ log' = Append(log, [action |-> action, user |-> user, host |-> host, at |-> now])
    /\ UNCHANGED <<now, leases, page>>

FileLease(owner, ticks, status) ==
    /\ Len(leases) < MaxLeases
    /\ leases' = Append(leases, [owner |-> owner, created |-> now,
                                 expires |-> now + ticks, status |-> status])
    /\ UNCHANGED <<now, log, page>>

\* Faulty variant: the status is set to a word the table does not know.
ApproveAsActive(l) ==
    /\ leases[l].status = "pending"
    /\ leases' = [leases EXCEPT ![l].status = "active"]
    /\ UNCHANGED <<now, log, page>>

\* A verdict is followed by a row of the log that names no user and no host; a row that
\* cannot be written is dropped.
Decide(l, status, action) ==
    /\ leases[l].status = "pending"
    /\ leases' = [leases EXCEPT ![l].status = status]
    /\ log' = IF Len(log) < MaxLog
              THEN Append(log, [action |-> action, user |-> "-", host |-> "*", at |-> now])
              ELSE log
    /\ UNCHANGED <<now, page>>

ApproveLease(l) == Decide(l, "approved", "LEASE_APPROVED")
RejectLease(l) == Decide(l, "denied", "LEASE_REJECTED")

\* A revocation leaves no row.
RevokeLease(l) ==
    /\ leases[l].expires > now
    /\ leases' = [leases EXCEPT ![l].expires = now]
    /\ UNCHANGED <<now, log, page>>

\* Assumed: a page is put together in less than a day.
Tick ==
    /\ now < MaxTime
    /\ page.pc # "idle" => now + 1 < page.began + DayTicks
    /\ now' = now + 1
    /\ UNCHANGED <<log, leases, page>>

-----------------------------------------------------------------------------
(* GET /api/v1/overview *)

Show(fields) == page' = fields /\ UNCHANGED <<now, log, leases>>

Ask(pc, caller) ==
    /\ page.pc = "idle"
    /\ Show([NoPage EXCEPT !.pc = pc, !.caller = caller, !.began = now,
                           !.seen = Len(log)])

\* Faulty variant: the status of the lease is not looked at.
UnexpiredLeases(caller, t) ==
    {l \in DOMAIN leases : Sees(caller, leases[l].owner) /\ leases[l].expires > t}

ActiveLeases(caller, t) ==
    {l \in DOMAIN leases : /\ Sees(caller, leases[l].owner)
                           /\ leases[l].status = "approved"
                           /\ leases[l].expires > t}

CountActiveLeases ==
    /\ page.pc = "active"
    /\ Show([page EXCEPT !.pc = "pending",
                         !.active = Cardinality(ActiveLeases(page.caller, now))])

\* CountPendingLeases, then handleOverview fixes the start of the last day.
CountPendingLeases ==
    /\ page.pc = "pending"
    /\ Show([page EXCEPT !.pc = "granted",
                         !.pending = Cardinality(
                            {l \in DOMAIN leases : /\ Sees(page.caller, leases[l].owner)
                                                   /\ leases[l].status = "pending"}),
                         !.since = now - DayTicks])

\* "created_at >= ?" compares texts.  CURRENT_TIMESTAMP writes no zone, so what was
\* created in the very second of t is a prefix of t's text and sorts below it.
FromOn(created, t) == created > t

Logged(caller, action) ==
    {i \in DOMAIN log : Sees(caller, log[i].user) /\ log[i].action = action}

RowsSince(caller, action, t) == {i \in Logged(caller, action) : FromOn(log[i].at, t)}

CountGranted ==
    /\ page.pc = "granted"
    /\ Show([page EXCEPT !.pc = "denied",
                         !.granted = Cardinality(RowsSince(page.caller,
                                        "KEY_REQUEST_GRANTED", page.since))])

CountDenied ==
    /\ page.pc = "denied"
    /\ Show([page EXCEPT !.pc = "window",
                         !.denied = Cardinality(RowsSince(page.caller,
                                        "KEY_REQUEST_DENIED", page.since))])

\* Faulty variant: one day short.
ShortWindow(t) == DayStart(t) - (Days - 2) * DayTicks

\* Midnight of the first of Days days, today being the last.
WindowStart(t) == DayStart(t) - (Days - 1) * DayTicks

\* ActivityTimeline reads the clock ...
OpenWindow ==
    /\ page.pc = "window"
    /\ Show([page EXCEPT !.pc = "timeline", !.start = WindowStart(now)])

\* Faulty variant: rows are counted from the day after.
NextDay(i, b) == Day(log[i].at) - Day(page.start) = b + 1

\* The bucket labelled with the row's calendar day.
InBucket(i, b) == Day(log[i].at) - Day(page.start) = b

\* ... and then counts; a row of a later day than the window's last has no
\* bucket.  The points are copied out before the leases are laid over them.
CountTimeline ==
    /\ page.pc = "timeline"
    /\ LET In(b, action) ==
             {i \in RowsSince(page.caller, action, page.start) : InBucket(i, b)}
           points == [b \in Buckets |->
                        [granted |-> Cardinality(In(b, "KEY_REQUEST_GRANTED")),
                         denied |-> Cardinality(In(b, "KEY_REQUEST_DENIED")),
                         active |-> 0]]
       IN Show([page EXCEPT !.pc = "overlay", !.counts = points, !.out = points])

\* dayIndex: -1 for a time before the window, and also for one after it.
dayIndex(base, t) ==
    LET diff == Day(t) - Day(base) IN IF diff \in Buckets THEN diff ELSE -1

\* fillActiveLeases: the buckets one lease is counted in.  The last tick of the
\* lease is the one before it expires.
LeaseBuckets(lease, begin) ==
    LET s == dayIndex(begin, lease.created)
        e == dayIndex(begin, lease.expires - 1)
    IN (IF s < 0 THEN 0 ELSE s) .. (IF e >= Days THEN Days - 1 ELSE e)

OverlayLeases ==
    /\ page.pc = "overlay"
    /\ LET begin == WindowStart(now)
           overlap == {l \in DOMAIN leases :
                         /\ Sees(page.caller, leases[l].owner)
                         /\ leases[l].status = "approved"
                         /\ ~ FromOn(leases[l].created, DayStart(now) + DayTicks)
                         /\ leases[l].expires > begin}
           On(b) == {l \in overlap : b \in LeaseBuckets(leases[l], begin)}
       IN Show([page EXCEPT !.pc = "top",
                            !.counts = [b \in Buckets |->
                               [page.counts[b] EXCEPT !.active = Cardinality(On(b))]]])

\* Faulty variant: of the last day only, like the totals.
GrantsOfLastDay(caller) == RowsSince(caller, "KEY_REQUEST_GRANTED", page.since)

\* TopHosts looks at the whole log.
GrantsOf(caller) == Logged(caller, "KEY_REQUEST_GRANTED")

GrantsOn(caller, h) == {i \in GrantsOf(caller) : log[i].host = h}

\* GROUP BY target_host ORDER BY c DESC LIMIT ?; which of two hosts with as many grants
\* comes first is up to the database.
TopHosts ==
    /\ page.pc = "top"
    /\ LET Count(h) == Cardinality(GrantsOn(page.caller, h))
           asked == {h \in Targets : GrantsOn(page.caller, h) # {}}
       IN \E shown \in SUBSET asked :
             /\ Cardinality(shown) = Min({Limit, Cardinality(asked)})
             /\ \A h \in shown, g \in asked \ shown : Count(h) >= Count(g)
             /\ Show([page EXCEPT !.pc = "overview",
                                  !.top = {<<h, Count(h)>> : h \in shown}])

-----------------------------------------------------------------------------
(* GET /api/v1/hosts: two queries. *)

Seen(caller, h) == {i \in DOMAIN log : Sees(caller, log[i].user) /\ log[i].host = h}

\* The hosts in the log; how many grants and refusals each had, and when it was
\* last seen, is left out.
HostTotals ==
    /\ page.pc = "hosts"
    /\ Show([page EXCEPT !.pc = "users",
                         !.stats = {h \in Targets : Seen(page.caller, h) # {}}])

\* Faulty variant: the second query is not scoped to the caller.
EveryVisitor(caller, h) == {log[i].user : i \in Seen("all", h)}

Visitors(caller, h) == {log[i].user : i \in Seen(caller, h)}

\* The users of the hosts the first query found.
HostUsers ==
    /\ page.pc = "users"
    /\ Show([page EXCEPT !.pc = "machines",
                         !.users = [h \in DOMAIN @ |->
                            IF h \in page.stats THEN Visitors(page.caller, h) ELSE {}]])

\* The page is sent, or a query failed and the answer is a 500.
Respond == page.pc # "idle" /\ Show(NoPage)

-----------------------------------------------------------------------------
Build ==
    \/ CountActiveLeases \/ CountPendingLeases \/ CountGranted \/ CountDenied
    \/ OpenWindow \/ CountTimeline \/ OverlayLeases \/ TopHosts
    \/ HostTotals \/ HostUsers \/ Respond

Next ==
    \/ \E action \in KeyActions, u \in Users, h \in Targets : LogRow(action, u, h)
    \/ \E u \in Users, ticks \in 1 .. DayTicks, status \in {"pending", "approved"} :
          FileLease(u, ticks, status)
    \/ \E l \in DOMAIN leases : ApproveLease(l) \/ RejectLease(l) \/ RevokeLease(l)
    \/ Tick
    \/ \E pc \in {"active", "hosts"}, caller \in Callers : Ask(pc, caller)
    \/ Build

Spec == Init /\ [][Next]_vars

-----------------------------------------------------------------------------
TypeOK ==
    /\ now \in 0 .. MaxTime
    /\ log \in Seq(Rows) /\ Len(log) <= MaxLog
    /\ leases \in Seq(Leases) /\ Len(leases) <= MaxLeases
    /\ page \in Page

\* A lease that is approved while the overview is put together is missed by
\* both counts or counted by one of them, never by both (handleOverview counts
\* active leases before pending ones).
CountedOnce ==
    page.pc = "overview" =>
        page.active + page.pending
            <= Cardinality({l \in DOMAIN leases : Sees(page.caller, leases[l].owner)})

\* One column of a timeline, added up.
Total(points, field) == SumFunction([b \in Buckets |-> points[b][field]])

InTimeline(field) == Total(page.out, field)

\* The panels of one overview do not contradict each other: the last day's totals
\* fit into the timeline, whatever is logged and whatever midnight passes between
\* the queries (handleOverview, ActivityTimeline).
TotalsFitTimeline ==
    page.pc = "overview" =>
        page.granted <= InTimeline("granted") /\ page.denied <= InTimeline("denied")

DecisionsAfter(t) ==
    {i \in DOMAIN log : /\ Sees(page.caller, log[i].user)
                        /\ log[i].action \in {"KEY_REQUEST_GRANTED", "KEY_REQUEST_DENIED"}
                        /\ FromOn(log[i].at, t)}

\* The timeline counts every decision that was logged after the first second of its window
\* and before the page was asked for, and none twice (ActivityTimeline).  What was logged
\* in that first second is left out: see FromOn.
TimelineComplete ==
    page.pc = "overview" =>
        LET counted == InTimeline("granted") + InTimeline("denied")
            rows == DecisionsAfter(page.start)
        IN /\ Cardinality({i \in rows : i <= page.seen}) <= counted
           /\ counted <= Cardinality(rows)

\* The grants of the panel, added up.
InTop(top) == SumFunction([entry \in top |-> entry[2]])

\* The panel "top hosts" does not contradict the timeline above it, which was counted
\* earlier and over fewer days: as long as it has room for every host, it accounts for
\* every grant that is in the timeline (handleOverview, TopHosts).
TopCoversTimeline ==
    page.pc = "overview" /\ Cardinality(page.top) < Limit =>
        InTimeline("granted") <= InTop(page.top)

\* The machines page shows a regular user no machine and nobody's name but what
\* their own rows say, and lists everybody who was counted (HostStats).
MachinesAreScoped ==
    page.pc = "machines" =>
        \A h \in page.stats :
            /\ page.users[h] # {}
            /\ page.caller # "all" => page.users[h] = {page.caller}
            /\ {log[i].user : i \in {j \in Seen(page.caller, h) : j <= page.seen}}
                   \subseteq page.users[h]

-----------------------------------------------------------------------------
(* A claim of the comments that the code does not keep. *)

\* Approved leases of the caller that overlap the day of bucket b.
OverlapBucket(b) ==
    {l \in DOMAIN leases :
        /\ Sees(page.caller, leases[l].owner)
        /\ leases[l].status = "approved"
        /\ Day(leases[l].created) <= Day(page.start) + b
        /\ Day(leases[l].expires - 1) >= Day(page.start) + b}

LaidOver == page.pc = "overlay" /\ page'.pc = "top" /\ WindowStart(now) = page.start

\* "ActiveLeases is how many approved leases were valid on that bucket's day"
\* (models.go): so says the timeline that is sent, of the moment the leases are
\* laid over it.
TimelineShowsLeases ==
    [][LaidOver => \A b \in Buckets :
          page'.out[b].active = Cardinality(OverlapBucket(b))]_vars
=============================================================================
