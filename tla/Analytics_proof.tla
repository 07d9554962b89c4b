---------------------------- MODULE Analytics_proof ----------------------------
(***************************************************************************)
(* Proofs about Analytics, for any users, hosts, days and bounds.  The sums  *)
(* over the timeline are in Timeline_proof.                                 *)
(***************************************************************************)
EXTENDS Analytics, SequenceTheorems, FiniteSetTheorems, TLAPS

-----------------------------------------------------------------------------
(* Rows of the tables, and how many. *)

\* Any part of a table can be counted.
LEMMA Countable ==
  ASSUME TypeOK
  PROVE  /\ DOMAIN log = 1 .. Len(log) /\ Len(log) \in Nat
         /\ DOMAIN leases = 1 .. Len(leases) /\ Len(leases) \in Nat
         /\ \A S \in SUBSET DOMAIN log : IsFiniteSet(S) /\ Cardinality(S) \in Nat
         /\ \A S \in SUBSET DOMAIN leases : IsFiniteSet(S) /\ Cardinality(S) \in Nat
<1>1. log \in Seq(Rows) /\ leases \in Seq(Leases)
  BY DEF TypeOK
<1>2. /\ DOMAIN log = 1 .. Len(log) /\ Len(log) \in Nat
      /\ DOMAIN leases = 1 .. Len(leases) /\ Len(leases) \in Nat
  BY <1>1, LenProperties
<1>3. \A n \in Nat : IsFiniteSet(1 .. n)
  BY FS_Interval
<1>4. \A n \in Nat : \A S \in SUBSET (1 .. n) : IsFiniteSet(S) /\ Cardinality(S) \in Nat
  BY <1>3, FS_Subset, FS_CardinalityType
<1>5. QED
  BY <1>2, <1>4

\* A larger part counts no less.
LEMMA MoreCounts ==
  ASSUME NEW n \in Nat, NEW S, NEW T \in SUBSET (1 .. n), S \subseteq T
  PROVE  /\ Cardinality(S) \in Nat /\ Cardinality(T) \in Nat
         /\ Cardinality(S) <= Cardinality(T)
<1>1. IsFiniteSet(1 .. n)
  BY FS_Interval
<1>2. IsFiniteSet(T)
  BY <1>1, FS_Subset
<1>3. QED
  BY <1>2, FS_Subset, FS_CardinalityType

\* The rows of the tables.
LEMMA RowTypes ==
  ASSUME TypeOK
  PROVE  /\ \A i \in DOMAIN log : log[i] \in Rows
         /\ \A l \in DOMAIN leases : leases[l] \in Leases
  BY Countable, ElementOfSeq DEF TypeOK

-----------------------------------------------------------------------------
(* What the rest of the server does while a page is put together. *)

\* Rows are added and leases approved; nothing is taken back.
Grows ==
    /\ page' = page
    /\ Len(log) <= Len(log') /\ \A i \in DOMAIN log : i \in DOMAIN log' /\ log'[i] = log[i]
    /\ \A l \in DOMAIN leases :
          /\ l \in DOMAIN leases' /\ leases'[l].owner = leases[l].owner
          /\ leases[l].status = "approved" => leases'[l].status = "approved"

World ==
    \/ \E action \in KeyActions, u \in Users, h \in Targets : LogRow(action, u, h)
    \/ \E u \in Users, ticks \in 1 .. DayTicks, status \in {"pending", "approved"} :
          FileLease(u, ticks, status)
    \/ \E l \in DOMAIN leases : ApproveLease(l) \/ RejectLease(l) \/ RevokeLease(l)
    \/ Tick

\* A row is appended to the log.
LEMMA LogAppends ==
  ASSUME TypeOK, NEW row \in Rows, Len(log) < MaxLog, log' = Append(log, row)
  PROVE  /\ log' \in Seq(Rows) /\ Len(log') <= MaxLog /\ Len(log) <= Len(log')
         /\ \A i \in DOMAIN log : i \in DOMAIN log' /\ log'[i] = log[i]
<1>1. log \in Seq(Rows) /\ MaxLog \in Nat
  BY AnalyticsAssumption DEF TypeOK
<1>2. /\ log' \in Seq(Rows) /\ Len(log') = Len(log) + 1
      /\ \A i \in 1 .. Len(log) : log'[i] = log[i]
  BY <1>1, AppendProperties
<1>3. DOMAIN log' = 1 .. Len(log')
  BY <1>2, LenProperties
<1>4. Len(log) \in Nat /\ DOMAIN log = 1 .. Len(log)
  BY Countable
<1>5. QED
  BY <1>1, <1>2, <1>3, <1>4

\* Every such step keeps the types and takes nothing back.
LEMMA WorldTyped ==
  ASSUME TypeOK, World
  PROVE  TypeOK' /\ Grows
<1>1. /\ now \in 0 .. MaxTime /\ now \in Int /\ MaxTime \in Nat
      /\ leases \in Seq(Leases) /\ page \in Page
  BY AnalyticsAssumption DEF TypeOK
<1>2. ASSUME NEW action \in KeyActions, NEW u \in Users, NEW h \in Targets,
             LogRow(action, u, h)
      PROVE  TypeOK' /\ Grows
  <2>1. [action |-> action, user |-> u, host |-> h, at |-> now] \in Rows
    BY <1>1 DEF Rows
  <2>2. /\ log' \in Seq(Rows) /\ Len(log') <= MaxLog /\ Len(log) <= Len(log')
        /\ \A i \in DOMAIN log : i \in DOMAIN log' /\ log'[i] = log[i]
    BY <1>2, <2>1, LogAppends DEF LogRow
  <2>3. UNCHANGED <<now, leases, page>>
    BY <1>2 DEF LogRow
  <2>4. QED
    BY <2>2, <2>3 DEF TypeOK, Grows
<1>3. ASSUME NEW u \in Users, NEW ticks \in 1 .. DayTicks,
             NEW status \in {"pending", "approved"}, FileLease(u, ticks, status)
      PROVE  TypeOK' /\ Grows
  <2> DEFINE row == [owner |-> u, created |-> now, expires |-> now + ticks,
                     status |-> status]
  <2>1. now + ticks \in Int
    BY <1>1, AnalyticsAssumption
  <2>2. row \in Leases
    BY <1>1, <2>1 DEF Leases
  <2>3. leases' = Append(leases, row) /\ UNCHANGED <<now, log, page>> /\ Len(leases) < MaxLeases
    BY <1>3 DEF FileLease
  <2> HIDE DEF row
  <2>4. /\ leases' \in Seq(Leases) /\ Len(leases') = Len(leases) + 1
        /\ \A l \in 1 .. Len(leases) : leases'[l] = leases[l]
    BY <1>1, <2>2, <2>3, AppendProperties
  <2>5. DOMAIN leases' = 1 .. Len(leases')
    BY <2>4, LenProperties
  <2>6. Len(leases) \in Nat /\ DOMAIN leases = 1 .. Len(leases) /\ Len(log) \in Nat
    BY Countable
  <2>7. Len(leases') <= MaxLeases
    BY <2>3, <2>4, <2>6, AnalyticsAssumption
  <2>8. \A l \in DOMAIN leases : l \in DOMAIN leases' /\ leases'[l] = leases[l]
    BY <2>4, <2>5, <2>6
  <2>9. QED
    BY <2>3, <2>4, <2>6, <2>7, <2>8 DEF TypeOK, Grows
<1>4. ASSUME NEW l \in DOMAIN leases, NEW status \in {"approved", "denied"},
             NEW action \in {"LEASE_APPROVED", "LEASE_REJECTED"}, Decide(l, status, action)
      PROVE  TypeOK' /\ Grows
  <2>1. /\ leases' = [leases EXCEPT ![l].status = status] /\ UNCHANGED <<now, page>>
        /\ leases[l].status = "pending"
        /\ \/ log' = log
           \/ /\ Len(log) < MaxLog
              /\ log' = Append(log, [action |-> action, user |-> "-",
                                     host |-> "*", at |-> now])
    BY <1>4 DEF Decide
  <2>2. [leases[l] EXCEPT !.status = status] \in Leases
    BY RowTypes DEF Leases
  <2>3. l \in 1 .. Len(leases)
    BY Countable
  <2>4. /\ leases' \in Seq(Leases) /\ Len(leases') = Len(leases)
        /\ \A k \in 1 .. Len(leases) :
              leases'[k] = IF k = l THEN [leases[l] EXCEPT !.status = status] ELSE leases[k]
    BY <1>1, <2>1, <2>2, <2>3, ExceptSeq
  <2>5. DOMAIN leases' = DOMAIN leases
    BY <2>1
  <2>6. [leases[l] EXCEPT !.status = status].owner = leases[l].owner
    BY RowTypes DEF Leases
  <2>7. /\ log' \in Seq(Rows) /\ Len(log') <= MaxLog /\ Len(log) <= Len(log')
        /\ \A i \in DOMAIN log : i \in DOMAIN log' /\ log'[i] = log[i]
    <3>1. CASE log' = log
      <4>1. Len(log) \in Nat
        BY Countable
      <4>2. Len(log) <= Len(log)
        BY <4>1
      <4>3. QED
        BY <3>1, <4>2 DEF TypeOK
    <3>2. CASE Len(log) < MaxLog /\ log' = Append(log, [action |-> action,
                                        user |-> "-", host |-> "*", at |-> now])
      <4>1. [action |-> action, user |-> "-", host |-> "*", at |-> now] \in Rows
        BY <1>1 DEF Rows, Targets
      <4>2. QED
        BY <3>2, <4>1, LogAppends
    <3>3. QED
      BY <2>1, <3>1, <3>2
  <2>8. Len(leases') <= MaxLeases
    BY <2>4 DEF TypeOK
  <2>9. \A k \in DOMAIN leases : /\ leases'[k].owner = leases[k].owner
                                 /\ leases[k].status = "approved" => leases'[k].status = "approved"
    BY <2>1, <2>4, <2>6, Countable
  <2>10. QED
    BY <1>1, <2>1, <2>4, <2>5, <2>7, <2>8, <2>9 DEF TypeOK, Grows
<1>5. ASSUME NEW l \in DOMAIN leases, RevokeLease(l)
      PROVE  TypeOK' /\ Grows
  <2>1. leases' = [leases EXCEPT ![l].expires = now] /\ UNCHANGED <<now, log, page>>
    BY <1>5 DEF RevokeLease
  <2>2. [leases[l] EXCEPT !.expires = now] \in Leases
    BY <1>1, RowTypes DEF Leases
  <2>3. l \in 1 .. Len(leases) /\ Len(log) \in Nat
    BY Countable
  <2>4. /\ leases' \in Seq(Leases) /\ Len(leases') = Len(leases)
        /\ \A k \in 1 .. Len(leases) :
              leases'[k] = IF k = l THEN [leases[l] EXCEPT !.expires = now] ELSE leases[k]
    BY <1>1, <2>1, <2>2, <2>3, ExceptSeq
  <2>5. DOMAIN leases' = DOMAIN leases
    BY <2>1
  <2>6. /\ [leases[l] EXCEPT !.expires = now].owner = leases[l].owner
        /\ [leases[l] EXCEPT !.expires = now].status = leases[l].status
    BY RowTypes DEF Leases
  <2>7. \A k \in DOMAIN leases : /\ leases'[k].owner = leases[k].owner
                                 /\ leases'[k].status = leases[k].status
    BY <2>4, <2>6, Countable
  <2>8. Len(leases') <= MaxLeases
    BY <2>4 DEF TypeOK
  <2>9. QED
    BY <1>1, <2>1, <2>3, <2>4, <2>5, <2>7, <2>8 DEF TypeOK, Grows
<1>6. CASE Tick
  <2>1. now' \in 0 .. MaxTime /\ UNCHANGED <<log, leases, page>>
    BY <1>1, <1>6 DEF Tick
  <2>2. Len(log) \in Nat
    BY Countable
  <2>3. QED
    BY <2>1, <2>2 DEF TypeOK, Grows
<1>7. QED
  BY <1>2, <1>3, <1>4, <1>5, <1>6 DEF World, ApproveLease, RejectLease

-----------------------------------------------------------------------------
(* What a handler does: one panel after the other, on a page of its own. *)

\* A handler writes its page only.
LEMMA PanelTyped ==
  ASSUME TypeOK, NEW fields \in Page, Show(fields)
  PROVE  TypeOK' /\ page' = fields /\ UNCHANGED <<now, log, leases>>
BY DEF TypeOK, Show

\* The fields the panels of an overview fill in.
LEMMA OverviewFields ==
  ASSUME NEW pg \in Page, NEW pc \in Stages
  PROVE  /\ \A n \in Nat : /\ [pg EXCEPT !.pc = pc, !.active = n] \in Page
                           /\ [pg EXCEPT !.pc = pc, !.granted = n] \in Page
                           /\ [pg EXCEPT !.pc = pc, !.denied = n] \in Page
         /\ \A n \in Nat, k \in Int : [pg EXCEPT !.pc = pc, !.pending = n, !.since = k] \in Page
         /\ \A k \in Int : [pg EXCEPT !.pc = pc, !.start = k] \in Page
         /\ \A points \in [Buckets -> Point] :
               /\ [pg EXCEPT !.pc = pc, !.counts = points, !.out = points] \in Page
               /\ [pg EXCEPT !.pc = pc, !.counts = points] \in Page
         /\ \A top \in SUBSET (Targets \X Nat) : [pg EXCEPT !.pc = pc, !.top = top] \in Page
BY DEF Page

\* The fields of the machines page.
LEMMA MachineFields ==
  ASSUME NEW pg \in Page, NEW pc \in Stages
  PROVE  /\ \A stats \in SUBSET Targets : [pg EXCEPT !.pc = pc, !.stats = stats] \in Page
         /\ \A users \in [Targets -> SUBSET (Users \cup {"-"})] :
               [pg EXCEPT !.pc = pc, !.users = users] \in Page
BY DEF Page

\* The empty page, and one that was just asked for.
LEMMA NewPage ==
  ASSUME TypeOK
  PROVE  /\ NoPage \in Page
         /\ \A pc \in Stages, caller \in Callers :
               [NoPage EXCEPT !.pc = pc, !.caller = caller, !.began = now,
                              !.seen = Len(log)] \in Page
<1>1. NoPoints \in [Buckets -> Point]
  BY DEF NoPoints, Point
<1>2. 0 \in 0 .. MaxTime /\ 0 \in 0 .. MaxLog /\ 0 \in Nat /\ 0 \in Int
  BY AnalyticsAssumption
<1>3. "idle" \in Stages /\ "all" \in Callers
  BY DEF Stages, Callers
<1>4. [h \in Targets |-> {}] \in [Targets -> SUBSET (Users \cup {"-"})]
  OBVIOUS
<1>5. NoPage \in Page
  BY <1>1, <1>2, <1>3, <1>4 DEF NoPage, Page
<1>6. now \in 0 .. MaxTime /\ Len(log) \in 0 .. MaxLog
  BY Countable, AnalyticsAssumption DEF TypeOK
<1>7. ASSUME NEW pc \in Stages, NEW caller \in Callers,
             NEW began \in 0 .. MaxTime, NEW seen \in 0 .. MaxLog
      PROVE  [NoPage EXCEPT !.pc = pc, !.caller = caller, !.began = began,
                            !.seen = seen] \in Page
  BY <1>5 DEF Page
<1>8. QED
  BY <1>5, <1>6, <1>7

\* Days and the beginnings of days are numbers.
LEMMA Times ==
  ASSUME NEW t \in Int
  PROVE  WindowStart(t) \in Int
<1>1. t \div DayTicks \in Int
  BY AnalyticsAssumption
<1>2. \A a, b \in Int : a * b \in Int /\ a - b \in Int
  OBVIOUS
<1>3. DayTicks \in Int /\ Days - 1 \in Int
  BY AnalyticsAssumption
<1>4. QED
  BY <1>1, <1>2, <1>3, Zenon DEF WindowStart, DayStart, Day

\* Every panel keeps the types.
LEMMA BuildTyped ==
  ASSUME TypeOK, Build
  PROVE  TypeOK' /\ UNCHANGED <<now, log, leases>>
<1>1. page \in Page /\ now \in Int
  BY AnalyticsAssumption DEF TypeOK
<1>2. /\ \A caller, t : ActiveLeases(caller, t) \in SUBSET DOMAIN leases
      /\ \A caller, action, t : RowsSince(caller, action, t) \in SUBSET DOMAIN log
  BY DEF ActiveLeases, RowsSince, Logged
<1>3. /\ "pending" \in Stages /\ "granted" \in Stages /\ "denied" \in Stages
      /\ "window" \in Stages /\ "timeline" \in Stages /\ "overlay" \in Stages
      /\ "top" \in Stages /\ "overview" \in Stages /\ "users" \in Stages
      /\ "machines" \in Stages
  BY DEF Stages
<1>4. CASE CountActiveLeases
  <2>1. Cardinality(ActiveLeases(page.caller, now)) \in Nat
    BY <1>2, Countable
  <2>2. [page EXCEPT !.pc = "pending",
                     !.active = Cardinality(ActiveLeases(page.caller, now))] \in Page
    BY <1>1, <1>3, <2>1, OverviewFields
  <2>3. QED
    BY <1>4, <2>2, PanelTyped DEF CountActiveLeases
<1>5. CASE CountPendingLeases
  <2> DEFINE open == {l \in DOMAIN leases : /\ Sees(page.caller, leases[l].owner)
                                            /\ leases[l].status = "pending"}
  <2>1. open \in SUBSET DOMAIN leases
    OBVIOUS
  <2>2. Show([page EXCEPT !.pc = "granted", !.pending = Cardinality(open),
                          !.since = now - DayTicks])
    BY <1>5 DEF CountPendingLeases
  <2> HIDE DEF open
  <2>3. Cardinality(open) \in Nat /\ now - DayTicks \in Int
    BY <1>1, <2>1, Countable, AnalyticsAssumption
  <2>4. [page EXCEPT !.pc = "granted", !.pending = Cardinality(open),
                     !.since = now - DayTicks] \in Page
    BY <1>1, <1>3, <2>3, OverviewFields
  <2>5. QED
    BY <2>2, <2>4, PanelTyped
<1>6. CASE CountGranted
  <2> DEFINE n == Cardinality(RowsSince(page.caller, "KEY_REQUEST_GRANTED", page.since))
  <2>1. Show([page EXCEPT !.pc = "denied", !.granted = n])
    BY <1>6 DEF CountGranted
  <2>2. n \in Nat
    BY <1>2, Countable
  <2> HIDE DEF n
  <2>3. [page EXCEPT !.pc = "denied", !.granted = n] \in Page
    BY <1>1, <1>3, <2>2, OverviewFields
  <2>4. QED
    BY <2>1, <2>3, PanelTyped
<1>7. CASE CountDenied
  <2> DEFINE n == Cardinality(RowsSince(page.caller, "KEY_REQUEST_DENIED", page.since))
  <2>1. Show([page EXCEPT !.pc = "window", !.denied = n])
    BY <1>7 DEF CountDenied
  <2>2. n \in Nat
    BY <1>2, Countable
  <2> HIDE DEF n
  <2>3. [page EXCEPT !.pc = "window", !.denied = n] \in Page
    BY <1>1, <1>3, <2>2, OverviewFields
  <2>4. QED
    BY <2>1, <2>3, PanelTyped
<1>8. CASE OpenWindow
  <2>1. Show([page EXCEPT !.pc = "timeline", !.start = WindowStart(now)])
    BY <1>8 DEF OpenWindow
  <2>2. [page EXCEPT !.pc = "timeline", !.start = WindowStart(now)] \in Page
    BY <1>1, <1>3, Times, OverviewFields
  <2>3. QED
    BY <2>1, <2>2, PanelTyped
<1>9. CASE CountTimeline
  <2> DEFINE In(b, action) ==
               {i \in RowsSince(page.caller, action, page.start) : InBucket(i, b)}
             points == [b \in Buckets |->
                          [granted |-> Cardinality(In(b, "KEY_REQUEST_GRANTED")),
                           denied |-> Cardinality(In(b, "KEY_REQUEST_DENIED")),
                           active |-> 0]]
  <2>1. Show([page EXCEPT !.pc = "overlay", !.counts = points, !.out = points])
    BY <1>9 DEF CountTimeline
  <2>2. \A b, action : In(b, action) \in SUBSET DOMAIN log
    BY <1>2
  <2>3. \A b, action : Cardinality(In(b, action)) \in Nat
    BY <2>2, Countable
  <2> HIDE DEF In
  <2>4. points \in [Buckets -> Point]
    BY <2>3 DEF Point
  <2> HIDE DEF points
  <2>5. [page EXCEPT !.pc = "overlay", !.counts = points, !.out = points] \in Page
    BY <1>1, <1>3, <2>4, OverviewFields
  <2>6. QED
    BY <2>1, <2>5, PanelTyped
<1>10. CASE OverlayLeases
  <2> DEFINE begin == WindowStart(now)
             overlap == {l \in DOMAIN leases :
                           /\ Sees(page.caller, leases[l].owner)
                           /\ leases[l].status = "approved"
                           /\ ~ FromOn(leases[l].created, DayStart(now) + DayTicks)
                           /\ leases[l].expires > begin}
             On(b) == {l \in overlap : b \in LeaseBuckets(leases[l], begin)}
             counts == [b \in Buckets |-> [page.counts[b] EXCEPT !.active = Cardinality(On(b))]]
  <2>1. Show([page EXCEPT !.pc = "top", !.counts = counts])
    BY <1>10 DEF OverlayLeases
  <2>2. \A b : On(b) \in SUBSET DOMAIN leases
    OBVIOUS
  <2>3. \A b : Cardinality(On(b)) \in Nat
    BY <2>2, Countable
  <2> HIDE DEF On
  <2>4. page.counts \in [Buckets -> Point]
    BY <1>1 DEF Page
  <2>5. \A b \in Buckets : [page.counts[b] EXCEPT !.active = Cardinality(On(b))] \in Point
    BY <2>3, <2>4 DEF Point
  <2>6. counts \in [Buckets -> Point]
    BY <2>5
  <2> HIDE DEF counts
  <2>7. [page EXCEPT !.pc = "top", !.counts = counts] \in Page
    BY <1>1, <1>3, <2>6, OverviewFields
  <2>8. QED
    BY <2>1, <2>7, PanelTyped
<1>11. CASE TopHosts
  <2> DEFINE Count(h) == Cardinality(GrantsOn(page.caller, h))
             asked == {h \in Targets : GrantsOn(page.caller, h) # {}}
  <2>1. PICK shown \in SUBSET asked :
           Show([page EXCEPT !.pc = "overview", !.top = {<<h, Count(h)>> : h \in shown}])
    BY <1>11 DEF TopHosts
  <2>2. \A h : Count(h) \in Nat
    BY Countable DEF GrantsOn, GrantsOf, Logged
  <2> HIDE DEF Count
  <2>3. {<<h, Count(h)>> : h \in shown} \in SUBSET (Targets \X Nat)
    BY <2>2
  <2>4. [page EXCEPT !.pc = "overview", !.top = {<<h, Count(h)>> : h \in shown}] \in Page
    BY <1>1, <1>3, <2>3, OverviewFields
  <2>5. QED
    BY <2>1, <2>4, PanelTyped
<1>12. CASE HostTotals
  <2> DEFINE stats == {h \in Targets : Seen(page.caller, h) # {}}
  <2>1. Show([page EXCEPT !.pc = "users", !.stats = stats])
    BY <1>12 DEF HostTotals
  <2>2. stats \in SUBSET Targets
    OBVIOUS
  <2> HIDE DEF stats
  <2>3. [page EXCEPT !.pc = "users", !.stats = stats] \in Page
    BY <1>1, <1>3, <2>2, MachineFields
  <2>4. QED
    BY <2>1, <2>3, PanelTyped
<1>13. CASE HostUsers
  <2> DEFINE users == [h \in DOMAIN page.users |->
                         IF h \in page.stats THEN Visitors(page.caller, h) ELSE {}]
  <2>1. Show([page EXCEPT !.pc = "machines", !.users = users])
    BY <1>13 DEF HostUsers
  <2>2. DOMAIN page.users = Targets
    BY <1>1 DEF Page
  <2>3. \A i \in DOMAIN log : log[i].user \in Users \cup {"-"}
    BY RowTypes DEF Rows
  <2>4. \A h : Visitors(page.caller, h) \subseteq Users \cup {"-"}
    BY <2>3 DEF Visitors, Seen
  <2>5. users \in [Targets -> SUBSET (Users \cup {"-"})]
    BY <2>2, <2>4
  <2> HIDE DEF users
  <2>6. [page EXCEPT !.pc = "machines", !.users = users] \in Page
    BY <1>1, <1>3, <2>5, MachineFields
  <2>7. QED
    BY <2>1, <2>6, PanelTyped
<1>14. CASE Respond
  BY <1>14, NewPage, PanelTyped DEF Respond
<1>15. QED
  BY <1>4, <1>5, <1>6, <1>7, <1>8, <1>9, <1>10, <1>11, <1>12, <1>13, <1>14 DEF Build

\* A page that was just asked for is typed, too.
LEMMA AskTyped ==
  ASSUME TypeOK, NEW pc \in {"active", "hosts"}, NEW caller \in Callers, Ask(pc, caller)
  PROVE  /\ TypeOK' /\ UNCHANGED <<now, log, leases>>
         /\ page' = [NoPage EXCEPT !.pc = pc, !.caller = caller, !.began = now,
                                   !.seen = Len(log)]
<1>1. pc \in Stages
  BY DEF Stages
<1>2. [NoPage EXCEPT !.pc = pc, !.caller = caller, !.began = now, !.seen = Len(log)] \in Page
  BY <1>1, NewPage
<1>3. QED
  BY <1>2, PanelTyped DEF Ask

-----------------------------------------------------------------------------
(* The inductive invariant. *)

Visible(caller) == {l \in DOMAIN leases : Sees(caller, leases[l].owner)}
Approved(caller) == {l \in Visible(caller) : leases[l].status = "approved"}

\* The page was asked for when the log was no longer than it is.
SeenOK == page.seen <= Len(log)

\* Why no lease is counted twice: what was counted as active is approved for good.
CountsOK ==
    /\ page.pc = "active" => page.pending = 0
    /\ page.pc = "pending" => page.active <= Cardinality(Approved(page.caller))
    /\ page.active + page.pending <= Cardinality(Visible(page.caller))

\* The machines that are listed have rows the caller may see.
StatsOK == page.pc = "users" => \A h \in page.stats : Seen(page.caller, h) # {}

AnalyticsInv ==
    TypeOK /\ SeenOK /\ CountsOK /\ StatsOK /\ MachinesAreScoped

\* The panels that leave the counts of leases alone.
Passes ==
    \/ CountGranted \/ CountDenied \/ OpenWindow \/ CountTimeline \/ OverlayLeases
    \/ TopHosts \/ HostTotals \/ HostUsers

\* Those panels leave the counts, and the order of the queries, as they are.
LEMMA PassesOn ==
  ASSUME TypeOK, Passes
  PROVE  /\ page'.caller = page.caller /\ page'.seen = page.seen
         /\ page'.active = page.active /\ page'.pending = page.pending
         /\ page'.pc \notin {"active", "pending"}
         /\ HostTotals \/ page'.pc # "users"
         /\ HostUsers \/ page'.pc # "machines"
<1>1. page \in Page
  BY DEF TypeOK
<1>2. CASE CountGranted
  BY <1>1, <1>2 DEF CountGranted, Show, Page
<1>3. CASE CountDenied
  BY <1>1, <1>3 DEF CountDenied, Show, Page
<1>4. CASE OpenWindow
  BY <1>1, <1>4 DEF OpenWindow, Show, Page
<1>5. CASE CountTimeline
  BY <1>1, <1>5 DEF CountTimeline, Show, Page
<1>6. CASE OverlayLeases
  BY <1>1, <1>6 DEF OverlayLeases, Show, Page
<1>7. CASE TopHosts
  <2>1. PICK top : page' = [page EXCEPT !.pc = "overview", !.top = top]
    BY <1>7 DEF TopHosts, Show
  <2>2. QED
    BY <1>1, <1>7, <2>1 DEF Page
<1>8. CASE HostTotals
  BY <1>1, <1>8 DEF HostTotals, Show, Page
<1>9. CASE HostUsers
  BY <1>1, <1>9 DEF HostUsers, Show, Page
<1>10. QED
  BY <1>2, <1>3, <1>4, <1>5, <1>6, <1>7, <1>8, <1>9 DEF Passes

\* A page that is empty, or was just asked for, breaks nothing.
LEMMA EmptyPage ==
  ASSUME TypeOK', page'.pc \in {"idle", "active", "hosts"}, page'.active = 0,
         page'.pending = 0, page'.seen <= Len(log')
  PROVE  AnalyticsInv'
<1>1. SeenOK' /\ StatsOK' /\ MachinesAreScoped'
  BY DEF SeenOK, StatsOK, MachinesAreScoped
<1>2. Visible(page.caller)' \in SUBSET DOMAIN leases'
  BY DEF Visible
<1>3. Cardinality(Visible(page.caller)') \in Nat
  <2>1. DOMAIN leases' = 1 .. Len(leases') /\ Len(leases') \in Nat
    BY LenProperties DEF TypeOK
  <2>2. QED
    BY <1>2, <2>1, MoreCounts
<1>4. CountsOK'
  BY <1>3 DEF CountsOK
<1>5. QED
  BY <1>1, <1>4 DEF AnalyticsInv

-----------------------------------------------------------------------------
(* The steps. *)

\* Rows below a mark are the same before and after the log has grown.
LEMMA Prefix ==
  ASSUME TypeOK, TypeOK', Grows, SeenOK
  PROVE  \A i : (i \in DOMAIN log' /\ i <= page.seen) <=> (i \in DOMAIN log /\ i <= page.seen)
<1>1. /\ DOMAIN log = 1 .. Len(log) /\ Len(log) \in Nat
      /\ DOMAIN log' = 1 .. Len(log') /\ Len(log') \in Nat
  BY LenProperties DEF TypeOK
<1>2. page.seen \in 0 .. MaxLog
  BY DEF TypeOK, Page
<1>3. page.seen \in Int
  BY <1>2, AnalyticsAssumption
<1>4. page.seen <= Len(log) /\ Len(log) <= Len(log')
  BY DEF SeenOK, Grows
<1>5. QED
  BY <1>1, <1>3, <1>4

\* What the rest of the server does leaves a page as right as it was.
LEMMA WorldKeeps ==
  ASSUME AnalyticsInv, World
  PROVE  AnalyticsInv'
<1>1. TypeOK /\ TypeOK' /\ Grows /\ SeenOK
  BY WorldTyped DEF AnalyticsInv
<1>2. page' = page
  BY <1>1 DEF Grows
<1>3. SeenOK'
  <2>1. page.seen \in 0 .. MaxLog /\ Len(log) \in Nat /\ Len(log') \in Nat
    BY <1>1, LenProperties DEF TypeOK, Page
  <2>2. page.seen \in Int /\ page.seen <= Len(log) /\ Len(log) <= Len(log')
    BY <1>1, <2>1, AnalyticsAssumption DEF SeenOK, Grows
  <2>3. page.seen <= Len(log')
    BY <2>1, <2>2
  <2>4. QED
    BY <1>2, <2>3 DEF SeenOK
<1>4. CountsOK'
  <2>1. DOMAIN leases' = 1 .. Len(leases') /\ Len(leases') \in Nat
    BY <1>1, LenProperties DEF TypeOK
  <2>2. \A l \in DOMAIN leases :
           /\ l \in DOMAIN leases' /\ leases'[l].owner = leases[l].owner
           /\ leases[l].status = "approved" => leases'[l].status = "approved"
    BY <1>1 DEF Grows
  <2>3. /\ Visible(page.caller) \subseteq Visible(page.caller)'
        /\ Approved(page.caller) \subseteq Approved(page.caller)'
    BY <1>2, <2>2 DEF Visible, Approved, Sees
  <2>4. /\ Visible(page.caller)' \in SUBSET (1 .. Len(leases'))
        /\ Approved(page.caller)' \in SUBSET (1 .. Len(leases'))
    BY <2>1 DEF Visible, Approved
  <2>5. /\ Cardinality(Visible(page.caller)) \in Nat
        /\ Cardinality(Visible(page.caller)') \in Nat
        /\ Cardinality(Visible(page.caller)) <= Cardinality(Visible(page.caller)')
        /\ Cardinality(Approved(page.caller)) \in Nat
        /\ Cardinality(Approved(page.caller)') \in Nat
        /\ Cardinality(Approved(page.caller)) <= Cardinality(Approved(page.caller)')
    BY <2>1, <2>3, <2>4, MoreCounts
  <2>6. page.active \in Nat /\ page.pending \in Nat
    BY <1>1 DEF TypeOK, Page
  <2>7. CountsOK
    BY DEF AnalyticsInv
  <2>8. page.pc = "pending" => page.active <= Cardinality(Approved(page.caller)')
    <3>1. SUFFICES ASSUME page.pc = "pending"
                   PROVE  page.active <= Cardinality(Approved(page.caller)')
      OBVIOUS
    <3>2. page.active <= Cardinality(Approved(page.caller))
      BY <2>7, <3>1 DEF CountsOK
    <3>3. QED
      BY <2>5, <2>6, <3>2
  <2>9. page.active + page.pending <= Cardinality(Visible(page.caller)')
    BY <2>5, <2>6, <2>7 DEF CountsOK
  <2>10. QED
    BY <1>2, <2>7, <2>8, <2>9 DEF CountsOK
<1>5. StatsOK'
  <2>1. \A h : Seen(page.caller, h) \subseteq Seen(page.caller, h)'
    BY <1>1, <1>2 DEF Seen, Grows
  <2>2. QED
    BY <1>2, <2>1 DEF AnalyticsInv, StatsOK
<1>6. MachinesAreScoped'
  <2>1. \A h : {log[i].user : i \in {j \in Seen(page.caller, h) : j <= page.seen}}'
              = {log[i].user : i \in {j \in Seen(page.caller, h) : j <= page.seen}}
    <3>1. \A h : {j \in Seen(page.caller, h) : j <= page.seen}'
                = {j \in Seen(page.caller, h) : j <= page.seen}
      BY <1>1, <1>2, Prefix DEF Seen, Grows
    <3>2. \A h : \A i \in {j \in Seen(page.caller, h) : j <= page.seen} : log'[i] = log[i]
      BY <1>1 DEF Seen, Grows
    <3>3. QED
      BY <3>1, <3>2
  <2>2. QED
    BY <1>2, <2>1 DEF AnalyticsInv, MachinesAreScoped
<1>7. QED
  BY <1>1, <1>3, <1>4, <1>5, <1>6 DEF AnalyticsInv

\* A page is asked for, and one is sent.
LEMMA PageTurns ==
  ASSUME AnalyticsInv,
         Respond \/ \E pc \in {"active", "hosts"}, caller \in Callers : Ask(pc, caller)
  PROVE  AnalyticsInv'
<1>1. TypeOK /\ Len(log) \in Nat
  BY Countable DEF AnalyticsInv
<1>2. CASE Respond
  <2>1. TypeOK' /\ page' = NoPage /\ log' = log
    BY <1>1, <1>2, NewPage, PanelTyped DEF Respond
  <2>2. page'.pc = "idle" /\ page'.active = 0 /\ page'.pending = 0 /\ page'.seen <= Len(log')
    BY <1>1, <2>1 DEF NoPage
  <2>3. QED
    BY <2>1, <2>2, EmptyPage
<1>3. ASSUME NEW pc \in {"active", "hosts"}, NEW caller \in Callers, Ask(pc, caller)
      PROVE  AnalyticsInv'
  <2>1. /\ TypeOK' /\ log' = log
        /\ page' = [NoPage EXCEPT !.pc = pc, !.caller = caller, !.began = now,
                                  !.seen = Len(log)]
    BY <1>1, <1>3, AskTyped
  <2>2. page'.pc \in {"active", "hosts"} /\ page'.active = 0 /\ page'.pending = 0
        /\ page'.seen = Len(log)
    BY <2>1 DEF NoPage
  <2>3. page'.seen <= Len(log')
    BY <1>1, <2>1, <2>2
  <2>4. QED
    BY <2>1, <2>2, <2>3, EmptyPage
<1>4. QED
  BY <1>2, <1>3

\* Active leases are counted first ...
LEMMA ActiveKeeps ==
  ASSUME AnalyticsInv, CountActiveLeases
  PROVE  AnalyticsInv'
<1>1. TypeOK /\ TypeOK' /\ UNCHANGED <<now, log, leases>>
  BY BuildTyped DEF AnalyticsInv, Build
<1> DEFINE n == Cardinality(ActiveLeases(page.caller, now))
<1>2. page \in Page /\ page.pc = "active" /\ page' = [page EXCEPT !.pc = "pending", !.active = n]
  BY <1>1 DEF TypeOK, CountActiveLeases, Show
<1> HIDE DEF n
<1>3. page'.pc = "pending" /\ page'.active = n /\ page'.pending = page.pending
      /\ page'.caller = page.caller /\ page'.seen = page.seen
  BY <1>2 DEF Page
<1>4. page.pending = 0
  BY <1>2 DEF AnalyticsInv, CountsOK
<1>5. DOMAIN leases = 1 .. Len(leases) /\ Len(leases) \in Nat
  BY <1>1, Countable
<1>6. /\ ActiveLeases(page.caller, now) \subseteq Approved(page.caller)
      /\ Approved(page.caller) \subseteq Visible(page.caller)
      /\ Visible(page.caller) \in SUBSET (1 .. Len(leases))
      /\ Approved(page.caller) \in SUBSET (1 .. Len(leases))
  BY <1>5 DEF ActiveLeases, Approved, Visible
<1>7. /\ n \in Nat /\ n <= Cardinality(Approved(page.caller))
      /\ Cardinality(Approved(page.caller)) <= Cardinality(Visible(page.caller))
      /\ Cardinality(Approved(page.caller)) \in Nat /\ Cardinality(Visible(page.caller)) \in Nat
  BY <1>5, <1>6, MoreCounts DEF n
<1>8. n + 0 <= Cardinality(Visible(page.caller))
  BY <1>7
<1>9. /\ Approved(page.caller)' = Approved(page.caller)
      /\ Visible(page.caller)' = Visible(page.caller)
  BY <1>1, <1>3 DEF Approved, Visible
<1>10. CountsOK'
  BY <1>3, <1>4, <1>7, <1>8, <1>9 DEF CountsOK
<1>11. SeenOK' /\ StatsOK' /\ MachinesAreScoped'
  BY <1>1, <1>3 DEF AnalyticsInv, SeenOK, StatsOK, MachinesAreScoped
<1>12. QED
  BY <1>1, <1>10, <1>11 DEF AnalyticsInv

\* ... and pending ones after them: no approved lease is pending again.
LEMMA PendingKeeps ==
  ASSUME AnalyticsInv, CountPendingLeases
  PROVE  AnalyticsInv'
<1>1. TypeOK /\ TypeOK' /\ UNCHANGED <<now, log, leases>>
  BY BuildTyped DEF AnalyticsInv, Build
<1> DEFINE open == {l \in DOMAIN leases : /\ Sees(page.caller, leases[l].owner)
                                          /\ leases[l].status = "pending"}
           n == Cardinality(open)
<1>2. page \in Page /\ page.pc = "pending"
      /\ page' = [page EXCEPT !.pc = "granted", !.pending = n, !.since = now - DayTicks]
  BY <1>1 DEF TypeOK, CountPendingLeases, Show
<1>3. DOMAIN leases = 1 .. Len(leases) /\ Len(leases) \in Nat
  BY <1>1, Countable
<1>4. /\ open \cap Approved(page.caller) = {}
      /\ open \cup Approved(page.caller) \subseteq Visible(page.caller)
      /\ Visible(page.caller) \in SUBSET (1 .. Len(leases))
      /\ open \in SUBSET DOMAIN leases /\ Approved(page.caller) \in SUBSET DOMAIN leases
  BY <1>3 DEF Approved, Visible
<1> HIDE DEF open
<1>5. IsFiniteSet(open) /\ IsFiniteSet(Approved(page.caller))
      /\ n \in Nat /\ Cardinality(Approved(page.caller)) \in Nat
  BY <1>1, <1>4, Countable
<1>6. Cardinality(open \cup Approved(page.caller))
        = Cardinality(open) + Cardinality(Approved(page.caller))
            - Cardinality(open \cap Approved(page.caller))
  BY <1>5, FS_Union
<1>7. Cardinality(open \cap Approved(page.caller)) = 0
  BY <1>4, FS_EmptySet
<1>8. /\ Cardinality(open \cup Approved(page.caller)) <= Cardinality(Visible(page.caller))
      /\ Cardinality(Visible(page.caller)) \in Nat
  BY <1>3, <1>4, MoreCounts
<1>9. page.active \in Nat /\ page.active <= Cardinality(Approved(page.caller))
  BY <1>2 DEF AnalyticsInv, CountsOK, Page
<1> HIDE DEF n
<1>10. n = Cardinality(open)
  BY DEF n
<1>11. page.active + n <= Cardinality(Visible(page.caller))
  BY <1>5, <1>6, <1>7, <1>8, <1>9, <1>10
<1>12. page'.pc = "granted" /\ page'.active = page.active /\ page'.pending = n
       /\ page'.caller = page.caller /\ page'.seen = page.seen
  BY <1>2 DEF Page
<1>13. Visible(page.caller)' = Visible(page.caller)
  BY <1>1, <1>12 DEF Visible
<1>14. CountsOK'
  BY <1>11, <1>12, <1>13 DEF CountsOK
<1>15. SeenOK' /\ StatsOK' /\ MachinesAreScoped'
  BY <1>1, <1>12 DEF AnalyticsInv, SeenOK, StatsOK, MachinesAreScoped
<1>16. QED
  BY <1>1, <1>14, <1>15 DEF AnalyticsInv

\* The second query of the machines page finds users for every machine of the first.
LEMMA UsersKeep ==
  ASSUME AnalyticsInv, HostUsers
  PROVE  MachinesAreScoped'
<1>1. page \in Page /\ StatsOK
  BY DEF AnalyticsInv, TypeOK
<1>2. /\ page.pc = "users" /\ log' = log
      /\ page' = [page EXCEPT !.pc = "machines",
                              !.users = [h \in DOMAIN page.users |->
                                 IF h \in page.stats THEN Visitors(page.caller, h) ELSE {}]]
  BY DEF HostUsers, Show
<1>3. /\ page'.caller = page.caller /\ page'.seen = page.seen /\ page'.stats = page.stats
      /\ page'.users = [h \in DOMAIN page.users |->
                           IF h \in page.stats THEN Visitors(page.caller, h) ELSE {}]
  BY <1>1, <1>2 DEF Page
<1>4. \A h \in page.stats : page'.users[h] = Visitors(page.caller, h)
  BY <1>1, <1>3 DEF Page
<1>5. \A h \in page.stats : Visitors(page.caller, h) # {}
  BY <1>1, <1>2 DEF StatsOK, Visitors
<1>6. ASSUME NEW h, page.caller # "all"
      PROVE  Visitors(page.caller, h) \subseteq {page.caller}
  BY <1>6 DEF Visitors, Seen, Sees
<1>7. \A h : {log[i].user : i \in {j \in Seen(page.caller, h) : j <= page.seen}}'
              \subseteq Visitors(page.caller, h)
  BY <1>2, <1>3 DEF Visitors, Seen
<1>8. ASSUME NEW h \in page.stats
      PROVE  /\ page'.users[h] # {}
             /\ page.caller # "all" => page'.users[h] = {page.caller}
             /\ {log[i].user : i \in {j \in Seen(page.caller, h) : j <= page.seen}}'
                    \subseteq page'.users[h]
  BY <1>4, <1>5, <1>6, <1>7
<1>9. QED
  BY <1>3, <1>8 DEF MachinesAreScoped

\* The other panels.
LEMMA PassesKeep ==
  ASSUME AnalyticsInv, Passes
  PROVE  AnalyticsInv'
<1>1. TypeOK /\ TypeOK' /\ UNCHANGED <<now, log, leases>>
  BY BuildTyped DEF AnalyticsInv, Build, Passes
<1>2. /\ page'.caller = page.caller /\ page'.seen = page.seen
      /\ page'.active = page.active /\ page'.pending = page.pending
      /\ page'.pc \notin {"active", "pending"}
      /\ HostTotals \/ page'.pc # "users"
      /\ HostUsers \/ page'.pc # "machines"
  BY <1>1, PassesOn
<1>3. SeenOK'
  BY <1>1, <1>2 DEF AnalyticsInv, SeenOK
<1>4. Visible(page.caller)' = Visible(page.caller)
  BY <1>1, <1>2 DEF Visible
<1>5. CountsOK'
  BY <1>2, <1>4 DEF AnalyticsInv, CountsOK
<1>6. StatsOK'
  <2>1. CASE HostTotals
    <3>1. page \in Page
            /\ page' = [page EXCEPT !.pc = "users",
                         !.stats = {h \in Targets : Seen(page.caller, h) # {}}]
      BY <1>1, <2>1 DEF TypeOK, HostTotals, Show
    <3>2. page'.stats = {h \in Targets : Seen(page.caller, h) # {}}
      BY <3>1 DEF Page
    <3>3. \A h : Seen(page.caller, h)' = Seen(page.caller, h)
      BY <1>1, <1>2 DEF Seen
    <3>4. QED
      BY <3>2, <3>3 DEF StatsOK
  <2>2. CASE page'.pc # "users"
    BY <2>2 DEF StatsOK
  <2>3. QED
    BY <1>2, <2>1, <2>2
<1>7. MachinesAreScoped'
  <2>1. CASE HostUsers
    BY <2>1, UsersKeep
  <2>2. CASE page'.pc # "machines"
    BY <2>2 DEF MachinesAreScoped
  <2>3. QED
    BY <1>2, <2>1, <2>2
<1>8. QED
  BY <1>1, <1>3, <1>5, <1>6, <1>7 DEF AnalyticsInv

\* The invariant holds in every behaviour.
LEMMA AnalyticsInvariant == Spec => []AnalyticsInv
<1>1. Init => AnalyticsInv
  <2>1. SUFFICES ASSUME Init
                 PROVE  AnalyticsInv
    OBVIOUS
  <2>2. /\ now = 0 /\ log = <<>> /\ leases = <<>> /\ page = NoPage
        /\ Len(log) = 0 /\ Len(leases) = 0 /\ DOMAIN leases = {}
    BY <2>1 DEF Init
  <2>3. /\ NoPage.pc = "idle" /\ NoPage.active = 0 /\ NoPage.pending = 0 /\ NoPage.seen = 0
    BY DEF NoPage
  <2>4. NoPage \in Page
    <3>1. NoPoints \in [Buckets -> Point]
      BY DEF NoPoints, Point
    <3>2. 0 \in 0 .. MaxTime /\ 0 \in 0 .. MaxLog /\ 0 \in Nat /\ 0 \in Int
      BY AnalyticsAssumption
    <3>3. "idle" \in Stages /\ "all" \in Callers
      BY DEF Stages, Callers
    <3>4. QED
      BY <3>1, <3>2, <3>3 DEF NoPage, Page
  <2>5. TypeOK
    BY <2>2, <2>4, AnalyticsAssumption DEF TypeOK
  <2>6. Visible(page.caller) = {}
    BY <2>2 DEF Visible
  <2>7. CountsOK
    BY <2>2, <2>3, <2>6, FS_EmptySet DEF CountsOK
  <2>8. SeenOK
    BY <2>2, <2>3 DEF SeenOK
  <2>9. StatsOK /\ MachinesAreScoped
    BY <2>2, <2>3 DEF StatsOK, MachinesAreScoped
  <2>10. QED
    BY <2>5, <2>7, <2>8, <2>9 DEF AnalyticsInv
<1>2. AnalyticsInv /\ [Next]_vars => AnalyticsInv'
  <2>1. SUFFICES ASSUME AnalyticsInv, [Next]_vars
                 PROVE  AnalyticsInv'
    OBVIOUS
  <2>2. CASE UNCHANGED vars
    BY <2>1, <2>2 DEF vars, AnalyticsInv, TypeOK, SeenOK, CountsOK, Visible, Approved,
                      StatsOK, Seen, MachinesAreScoped
  <2>3. CASE World
    BY <2>1, <2>3, WorldKeeps
  <2>4. CASE Next /\ ~ World
    BY <2>1, <2>4, PageTurns, ActiveKeeps, PendingKeeps, PassesKeep
       DEF Next, World, Build, Passes
  <2>5. QED
    BY <2>1, <2>2, <2>3, <2>4
<1>3. QED
  BY <1>1, <1>2, PTL DEF Spec

-----------------------------------------------------------------------------
(* What the pages promise. *)

\* Types of the log, the leases and the page, with any number of rows.
THEOREM AnalyticsTypeCorrect == Spec => []TypeOK
BY AnalyticsInvariant, PTL DEF AnalyticsInv

\* No lease is counted as active and as pending, however many are approved or filed
\* between the two counts.
THEOREM LeasesCountedOnce == Spec => []CountedOnce
<1>1. AnalyticsInv => CountedOnce
  BY DEF AnalyticsInv, CountsOK, CountedOnce, Visible
<1>2. QED
  BY <1>1, AnalyticsInvariant, PTL

\* No regular user is shown anybody else's row on the machines page, and no machine
\* is listed without its users.
THEOREM MachinesStayScoped == Spec => []MachinesAreScoped
BY AnalyticsInvariant, PTL DEF AnalyticsInv
=============================================================================
