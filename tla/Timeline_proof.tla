---------------------------- MODULE Timeline_proof ----------------------------
(***************************************************************************)
(* Proofs about the activity timeline: what its buckets add up to, for any   *)
(* number of days, rows and ticks to a day.                                 *)
(***************************************************************************)
EXTENDS Analytics_proof, WellFoundedInduction

-----------------------------------------------------------------------------
(* Sums.  A sum is a fold; it is known once its recursion is, by induction   *)
(* over the sets of terms that are added up.                                *)

Pick(s) == CHOOSE x \in s : TRUE

\* The sum over each set of terms, one term after the other.
Sums(w, g) ==
    g = [s \in SUBSET DOMAIN w |-> IF s = {} THEN 0 ELSE w[Pick(s)] + g[s \ {Pick(s)}]]

\* The fold, unfolded once.
LEMMA SumUnfolds ==
  ASSUME NEW w
  PROVE  SumFunction(w) = (CHOOSE g : Sums(w, g))[DOMAIN w]
BY DEF SumFunction, SumFunctionOnSet, FoldFunctionOnSet, MapThenFoldSet, Pick, Sums

\* There is one way to add up.
LEMMA SumsAgree ==
  ASSUME NEW w, IsFiniteSet(DOMAIN w), NEW f, NEW g, Sums(w, f), Sums(w, g)
  PROVE  f = g
<1> DEFINE S == DOMAIN w
<1>1. /\ f = [s \in SUBSET S |-> f[s]] /\ g = [s \in SUBSET S |-> g[s]]
      /\ f[{}] = 0 /\ g[{}] = 0
      /\ \A s \in SUBSET S : s # {} =>
            /\ f[s] = w[Pick(s)] + f[s \ {Pick(s)}]
            /\ g[s] = w[Pick(s)] + g[s \ {Pick(s)}]
  BY DEF Sums
<1>2. IsFiniteSet(S)
  OBVIOUS
<1> HIDE DEF S
<1> DEFINE bad == {s \in SUBSET S : f[s] # g[s]}
<1>3. IsWellFoundedOn(StrictSubsetOrdering(S), SUBSET S)
  BY <1>2, FS_FiniteSubsetsOfFinite, FS_StrictSubsetOrderingWellFounded
<1>4. ASSUME bad # {}
      PROVE  FALSE
  <2>1. PICK s \in bad : \A t \in bad : <<t, s>> \notin StrictSubsetOrdering(S)
    BY <1>3, <1>4, WFMin
  <2>2. s \in SUBSET S /\ s # {}
    BY <1>1
  <2>3. Pick(s) \in s
    BY <2>2 DEF Pick
  <2>4. s \ {Pick(s)} \in SUBSET S /\ s \ {Pick(s)} # s /\ s \ {Pick(s)} \subseteq s
    BY <2>2, <2>3
  <2>5. <<s \ {Pick(s)}, s>> \in StrictSubsetOrdering(S)
    BY <2>2, <2>4 DEF StrictSubsetOrdering
  <2>6. f[s \ {Pick(s)}] = g[s \ {Pick(s)}]
    BY <2>1, <2>4, <2>5
  <2>7. f[s] = g[s]
    BY <1>1, <2>2, <2>6
  <2>8. QED
    BY <2>1, <2>7
<1>5. QED
  BY <1>1, <1>4

\* The rows of R that are of kind b, and those that are of a kind in S.
RowsOf(R, of, b) == {i \in R : of[i] = b}
RowsWithin(R, of, S) == {i \in R : of[i] \in S}

\* The terms count the rows that are of their kind.
CountsRows(w, R, of) == \A b \in DOMAIN w : w[b] = Cardinality(RowsOf(R, of, b))

\* Terms that count rows add up to the number of rows that are of any of their kinds.
LEMMA SumCounts ==
  ASSUME NEW n \in Nat, NEW R \in SUBSET (1 .. n), NEW of,
         NEW w, IsFiniteSet(DOMAIN w), CountsRows(w, R, of)
  PROVE  SumFunction(w) = Cardinality(RowsWithin(R, of, DOMAIN w))
<1> DEFINE S == DOMAIN w
           In(s) == {i \in R : of[i] \in s}
           count == [s \in SUBSET S |-> Cardinality(In(s))]
<1>1. \A s : In(s) \in SUBSET (1 .. n) /\ IsFiniteSet(In(s)) /\ Cardinality(In(s)) \in Nat
  <2>1. IsFiniteSet(1 .. n)
    BY FS_Interval
  <2>2. QED
    BY <2>1, FS_Subset, FS_CardinalityType
<1>2. Cardinality(In({})) = 0
  <2>1. In({}) = {}
    OBVIOUS
  <2>2. QED
    BY <2>1, FS_EmptySet
<1>3. ASSUME NEW s \in SUBSET S, s # {}
      PROVE  Cardinality(In(s)) = w[Pick(s)] + Cardinality(In(s \ {Pick(s)}))
  <2>1. Pick(s) \in s /\ Pick(s) \in S
    BY <1>3 DEF Pick
  <2>2. RowsOf(R, of, Pick(s)) = In({Pick(s)})
    BY DEF RowsOf
  <2>3. /\ In(s) = In({Pick(s)}) \cup In(s \ {Pick(s)})
        /\ In({Pick(s)}) \cap In(s \ {Pick(s)}) = {}
    BY <2>1
  <2>4. Cardinality(In({Pick(s)}) \cap In(s \ {Pick(s)})) = 0
    BY <2>3, FS_EmptySet
  <2> HIDE DEF In
  <2>5. Cardinality(In({Pick(s)}) \cup In(s \ {Pick(s)}))
          = Cardinality(In({Pick(s)})) + Cardinality(In(s \ {Pick(s)}))
              - Cardinality(In({Pick(s)}) \cap In(s \ {Pick(s)}))
    BY <1>1, FS_Union
  <2>6. w[Pick(s)] = Cardinality(In({Pick(s)}))
    BY <2>1, <2>2 DEF CountsRows
  <2>7. Cardinality(In({Pick(s)})) \in Nat /\ Cardinality(In(s \ {Pick(s)})) \in Nat
    BY <1>1
  <2>8. Cardinality(In({Pick(s)}) \cup In(s \ {Pick(s)}))
          = Cardinality(In({Pick(s)})) + Cardinality(In(s \ {Pick(s)}))
    BY <2>4, <2>5, <2>7
  <2>9. QED
    BY <2>3, <2>6, <2>8
<1> HIDE DEF In
<1>4. Sums(w, count)
  <2>1. \A s \in SUBSET S :
           Cardinality(In(s)) = IF s = {} THEN 0
                                ELSE w[Pick(s)] + count[s \ {Pick(s)}]
    <3>1. \A s \in SUBSET S : s \ {Pick(s)} \in SUBSET S
      OBVIOUS
    <3>2. QED
      BY <1>2, <1>3, <3>1
  <2>2. count = [s \in SUBSET S |-> Cardinality(In(s))]
    OBVIOUS
  <2> HIDE DEF count
  <2>3. count = [s \in SUBSET S |->
                    IF s = {} THEN 0 ELSE w[Pick(s)] + count[s \ {Pick(s)}]]
    BY <2>1, <2>2, Zenon
  <2>4. QED
    BY <2>3 DEF Sums
<1>5. Sums(w, CHOOSE g : Sums(w, g))
  BY <1>4
<1>6. (CHOOSE g : Sums(w, g)) = count
  BY <1>4, <1>5, SumsAgree
<1>7. SumFunction(w) = Cardinality(In(S))
  BY <1>6, SumUnfolds
<1>8. In(S) = RowsWithin(R, of, DOMAIN w)
  BY DEF In, RowsWithin
<1>9. QED
  BY <1>7, <1>8

-----------------------------------------------------------------------------
(* The calendar. *)

\* Division by a positive number.
LEMMA Quotient ==
  ASSUME NEW t \in Int, NEW d \in Int, d > 0
  PROVE  /\ t \div d \in Int
         /\ (t \div d) * d <= t /\ t < (t \div d) * d + d
         /\ \A u \in Int : t <= u => t \div d <= u \div d
         /\ \A q \in Int : t = q * d => t \div d = q
<1>1. \A u \in Int : u \div d \in Int /\ (u \div d) * d <= u /\ u < (u \div d) * d + d
  OBVIOUS
<1>2. ASSUME NEW u \in Int, t <= u
      PROVE  t \div d <= u \div d
  BY <1>1, <1>2
<1>3. ASSUME NEW q \in Int, t = q * d
      PROVE  t \div d = q
  BY <1>1, <1>3
<1>4. QED
  BY <1>1, <1>2, <1>3

\* The window that is opened at time t: today is its last day, and it begins more
\* than a day before t.
LEMMA Window ==
  ASSUME NEW t \in Int
  PROVE  /\ WindowStart(t) \in Int /\ Day(t) \in Int
         /\ Day(WindowStart(t)) = Day(t) - (Days - 1)
         /\ WindowStart(t) <= t - 2 * DayTicks
         /\ \A u \in Int : Day(u) \in Int /\ (u <= t => Day(u) <= Day(t))
<1>1. DayTicks \in Int /\ DayTicks > 0 /\ Days \in Int /\ Days >= 3
  BY AnalyticsAssumption, WindowAssumption
<1>2. /\ Day(t) \in Int /\ Day(t) * DayTicks <= t
      /\ \A u \in Int : Day(u) \in Int /\ (u <= t => Day(u) <= Day(t))
  BY <1>1, Quotient DEF Day
<1>3. \A a, b \in Int : a * DayTicks - b * DayTicks = (a - b) * DayTicks
  BY <1>1
<1>4. WindowStart(t) = (Day(t) - (Days - 1)) * DayTicks
  BY <1>1, <1>2, <1>3 DEF WindowStart, DayStart
<1>5. Day(t) - (Days - 1) \in Int /\ (Day(t) - (Days - 1)) * DayTicks \in Int
  BY <1>1, <1>2
<1>6. Day(WindowStart(t)) = Day(t) - (Days - 1)
  BY <1>1, <1>4, <1>5, Quotient DEF Day
<1>7. (Days - 1) * DayTicks >= 2 * DayTicks
  BY <1>1
<1>8. WindowStart(t) <= t - 2 * DayTicks
  <2>1. \A x, y \in Int : x <= t /\ y >= 2 * DayTicks => x - y <= t - 2 * DayTicks
    BY <1>1
  <2>2. Day(t) * DayTicks \in Int /\ (Days - 1) * DayTicks \in Int
    BY <1>1, <1>2
  <2>3. QED
    BY <1>2, <1>7, <2>1, <2>2 DEF WindowStart, DayStart
<1>9. QED
  BY <1>2, <1>4, <1>5, <1>6, <1>8

-----------------------------------------------------------------------------
(* The inductive invariant, beside AnalyticsInv. *)

LastDay == Day(page.start) + Days - 1

\* No row is younger than the clock, or than the page if it was there before it; a
\* page is put together in less than a day.
ClockOK ==
    /\ \A i \in DOMAIN log :
          log[i].at <= now /\ (i <= page.seen => log[i].at <= page.began)
    /\ page.pc # "idle" => page.began <= now /\ now < page.began + DayTicks

\* The last 24 hours, fixed before the window, lie inside it, whatever midnight
\* passes in between; and so does the moment the page was asked for.
WindowOK ==
    /\ page.pc \in {"granted", "denied", "window"} => page.began - DayTicks <= page.since
    /\ page.pc = "timeline" => page.start <= page.since /\ Day(page.began) <= LastDay

\* Rows of the last 24 hours, as far as they are in the window once there is one.
Recent(action) ==
    {i \in RowsSince(page.caller, action, page.since) :
        page.pc = "timeline" => Day(log[i].at) <= LastDay}

\* The totals of the last 24 hours counted such rows.
PartsOK ==
    /\ page.pc \in {"denied", "window", "timeline"} =>
          page.granted <= Cardinality(Recent("KEY_REQUEST_GRANTED"))
    /\ page.pc \in {"window", "timeline"} =>
          page.denied <= Cardinality(Recent("KEY_REQUEST_DENIED"))

\* What the properties say of a page that is shown holds as soon as there are points.
SumsOK ==
    page.pc \in {"overlay", "top", "overview"} =>
        /\ InTimeline("granted") \in Nat /\ InTimeline("denied") \in Nat
        /\ page.granted <= InTimeline("granted") /\ page.denied <= InTimeline("denied")
        /\ Cardinality({i \in DecisionsAfter(page.start) : i <= page.seen})
              <= InTimeline("granted") + InTimeline("denied")
        /\ InTimeline("granted") + InTimeline("denied")
              <= Cardinality(DecisionsAfter(page.start))
        /\ InTimeline("granted") <= Cardinality(GrantsOf(page.caller))

TimelineInv == ClockOK /\ WindowOK /\ PartsOK /\ SumsOK /\ TopCoversTimeline

\* The rows the definitions above count, in a log of any length.
LEMMA Counts ==
  ASSUME TypeOK
  PROVE  /\ now \in Int /\ page.began \in Int /\ page.since \in Int /\ page.start \in Int
         /\ page.seen \in Int /\ page.granted \in Nat /\ page.denied \in Nat
         /\ DayTicks \in Int /\ DayTicks > 0
         /\ DOMAIN log = 1 .. Len(log) /\ Len(log) \in Nat
         /\ \A i \in DOMAIN log : log[i].at \in Int
<1>1. page \in Page /\ now \in 0 .. MaxTime /\ MaxTime \in Int /\ MaxLog \in Int
      /\ DayTicks \in Int /\ DayTicks > 0
  BY AnalyticsAssumption DEF TypeOK
<1>2. /\ page.began \in 0 .. MaxTime /\ page.since \in Int /\ page.start \in Int
      /\ page.seen \in 0 .. MaxLog /\ page.granted \in Nat /\ page.denied \in Nat
  BY <1>1 DEF Page
<1>3. \A i \in DOMAIN log : log[i].at \in 0 .. MaxTime
  BY RowTypes DEF Rows
<1>4. QED
  BY <1>1, <1>2, <1>3, Countable

\* The queries count no more than all rows.
LEMMA Subsets ==
  ASSUME TypeOK
  PROVE  /\ \A action, t : RowsSince(page.caller, action, t) \in SUBSET (1 .. Len(log))
         /\ \A t : DecisionsAfter(t) \in SUBSET (1 .. Len(log))
         /\ \A action : Recent(action) \in SUBSET (1 .. Len(log))
         /\ GrantsOf(page.caller) \in SUBSET (1 .. Len(log))
BY Counts DEF RowsSince, Logged, DecisionsAfter, Recent, GrantsOf

-----------------------------------------------------------------------------
(* What the rest of the server does. *)

\* New rows carry the time of the clock, which ticks only while a page has time left.
LEMMA WorldTimes ==
  ASSUME TypeOK, World
  PROVE  /\ now' \in Int /\ now <= now'
         /\ \A i \in DOMAIN log' : i \in DOMAIN log \/ log'[i].at = now
         /\ page.pc # "idle" => now' = now \/ now' < page.began + DayTicks
<1>1. now \in Int /\ now <= now /\ log \in Seq(Rows) /\ DOMAIN log = 1 .. Len(log)
  BY Counts DEF TypeOK
<1>2. ASSUME NEW row, row.at = now, log' = Append(log, row), now' = now
      PROVE  \A i \in DOMAIN log' : i \in DOMAIN log \/ log'[i].at = now
  <2>1. DOMAIN log' = 1 .. Len(log) + 1 /\ log'[Len(log) + 1] = row
    BY <1>1, <1>2, AppendProperties, LenProperties
  <2>2. Len(log) \in Nat
    BY Counts
  <2>3. QED
    BY <1>1, <1>2, <2>1, <2>2
<1>3. ASSUME NEW action \in KeyActions, NEW u \in Users, NEW h \in Targets, LogRow(action, u, h)
      PROVE  now' = now /\ \A i \in DOMAIN log' : i \in DOMAIN log \/ log'[i].at = now
  BY <1>2, <1>3 DEF LogRow
<1>4. ASSUME NEW l \in DOMAIN leases, ApproveLease(l) \/ RejectLease(l) \/ RevokeLease(l)
      PROVE  now' = now /\ \A i \in DOMAIN log' : i \in DOMAIN log \/ log'[i].at = now
  BY <1>2, <1>4 DEF ApproveLease, RejectLease, Decide, RevokeLease
<1>5. ASSUME NEW u \in Users, NEW ticks \in 1 .. DayTicks,
             NEW status \in {"pending", "approved"}, FileLease(u, ticks, status)
      PROVE  now' = now /\ log' = log
  BY <1>5 DEF FileLease
<1>6. CASE Tick
  BY <1>1, <1>6 DEF Tick
<1>7. QED
  BY <1>1, <1>3, <1>4, <1>5, <1>6 DEF World

\* The log grows and the clock ticks under a page without taking anything from it.
LEMMA WorldKeepsTimeline ==
  ASSUME AnalyticsInv, AnalyticsInv', TimelineInv, World
  PROVE  TimelineInv'
<1>1. TypeOK /\ TypeOK' /\ SeenOK /\ Grows /\ page' = page
  BY WorldTyped DEF AnalyticsInv, Grows
<1>2. /\ now' \in Int /\ now <= now'
      /\ \A i \in DOMAIN log' : i \in DOMAIN log \/ log'[i].at = now
      /\ page.pc # "idle" => now' = now \/ now' < page.began + DayTicks
  BY <1>1, WorldTimes
<1>3. /\ now \in Int /\ page.began \in Int /\ page.seen \in Int /\ page.granted \in Nat
      /\ page.denied \in Nat /\ Len(log) \in Nat /\ DOMAIN log = 1 .. Len(log)
      /\ DayTicks \in Int /\ \A i \in DOMAIN log : log[i].at \in Int
  BY <1>1, Counts
<1>4. Len(log') \in Nat /\ DOMAIN log' = 1 .. Len(log')
  BY <1>1, LenProperties DEF TypeOK
<1>5. \A i \in DOMAIN log : i \in DOMAIN log' /\ log'[i] = log[i]
  BY <1>1 DEF Grows
<1>6. ClockOK'
  <2>1. ClockOK
    BY DEF TimelineInv
  <2>2. ASSUME NEW i \in DOMAIN log'
        PROVE  log'[i].at <= now' /\ (i <= page.seen => log'[i].at <= page.began)
    <3>1. CASE i \in DOMAIN log
      <4>1. log[i].at \in Int /\ log[i].at <= now /\ log'[i] = log[i]
            /\ (i <= page.seen => log[i].at <= page.began)
        BY <1>3, <1>5, <2>1, <3>1 DEF ClockOK
      <4>2. QED
        BY <1>2, <1>3, <4>1
    <3>2. CASE i \notin DOMAIN log
      <4>1. log'[i].at = now /\ i \in Nat /\ i > Len(log)
        BY <1>2, <1>3, <1>4, <3>2
      <4>2. page.seen <= Len(log)
        BY <1>1 DEF SeenOK
      <4>3. QED
        BY <1>2, <1>3, <4>1, <4>2
    <3>3. QED
      BY <3>1, <3>2
  <2>3. page.pc # "idle" => page.began <= now' /\ now' < page.began + DayTicks
    BY <1>2, <1>3, <2>1 DEF ClockOK
  <2>4. QED
    BY <1>1, <2>2, <2>3 DEF ClockOK
<1>7. WindowOK'
  BY <1>1 DEF TimelineInv, WindowOK, LastDay
<1>8. ASSUME NEW S \in SUBSET DOMAIN log, NEW T \in SUBSET DOMAIN log', S \subseteq T
      PROVE  /\ Cardinality(S) \in Nat /\ Cardinality(T) \in Nat
             /\ Cardinality(S) <= Cardinality(T)
  BY <1>4, <1>8, MoreCounts
<1>9. PartsOK'
  <2>1. ASSUME NEW action
        PROVE  /\ Cardinality(Recent(action)) \in Nat /\ Cardinality(Recent(action)') \in Nat
               /\ Cardinality(Recent(action)) <= Cardinality(Recent(action)')
    <3>1. Recent(action) \in SUBSET DOMAIN log /\ Recent(action)' \in SUBSET DOMAIN log'
      BY DEF Recent, RowsSince, Logged
    <3>2. Recent(action) \subseteq Recent(action)'
      BY <1>1, <1>5 DEF Recent, RowsSince, Logged, LastDay
    <3>3. QED
      BY <1>8, <3>1, <3>2
  <2>2. \A a, b, c \in Nat : a <= b /\ b <= c => a <= c
    OBVIOUS
  <2>3. /\ page.pc \in {"denied", "window", "timeline"} =>
              page.granted <= Cardinality(Recent("KEY_REQUEST_GRANTED")')
        /\ page.pc \in {"window", "timeline"} =>
              page.denied <= Cardinality(Recent("KEY_REQUEST_DENIED")')
    BY <1>3, <2>1, <2>2 DEF TimelineInv, PartsOK
  <2>4. QED
    BY <1>1, <2>3 DEF PartsOK
<1>10. SumsOK'
  <2>1. {i \in DecisionsAfter(page.start) : i <= page.seen}'
          = {i \in DecisionsAfter(page.start) : i <= page.seen}
    <3>1. \A i : (i \in DOMAIN log' /\ i <= page.seen) <=> (i \in DOMAIN log /\ i <= page.seen)
      BY <1>1, Prefix
    <3>2. QED
      BY <1>1, <1>5, <3>1 DEF DecisionsAfter
  <2>2. /\ Cardinality(DecisionsAfter(page.start)) \in Nat
        /\ Cardinality(DecisionsAfter(page.start)') \in Nat
        /\ Cardinality(DecisionsAfter(page.start)) <= Cardinality(DecisionsAfter(page.start)')
    <3>1. /\ DecisionsAfter(page.start) \in SUBSET DOMAIN log
          /\ DecisionsAfter(page.start)' \in SUBSET DOMAIN log'
      BY DEF DecisionsAfter
    <3>2. DecisionsAfter(page.start) \subseteq DecisionsAfter(page.start)'
      BY <1>1, <1>5 DEF DecisionsAfter
    <3>3. QED
      BY <1>8, <3>1, <3>2
  <2>3. \A field : InTimeline(field)' = InTimeline(field)
    BY <1>1 DEF InTimeline
  <2>4. \A a, b \in Nat : \A c, d \in Nat : a + b <= c /\ c <= d => a + b <= d
    OBVIOUS
  <2>5. SumsOK
    BY DEF TimelineInv
  <2>6. page.pc \in {"overlay", "top", "overview"} =>
          InTimeline("granted") + InTimeline("denied") <= Cardinality(DecisionsAfter(page.start)')
    BY <2>2, <2>4, <2>5 DEF SumsOK
  <2>7. page'.pc = page.pc /\ page'.granted = page.granted /\ page'.denied = page.denied
    BY <1>1
  <2>8. /\ Cardinality(GrantsOf(page.caller)) \in Nat
        /\ Cardinality(GrantsOf(page.caller)') \in Nat
        /\ Cardinality(GrantsOf(page.caller)) <= Cardinality(GrantsOf(page.caller)')
    <3>1. /\ GrantsOf(page.caller) \in SUBSET DOMAIN log
          /\ GrantsOf(page.caller)' \in SUBSET DOMAIN log'
      BY DEF GrantsOf, Logged
    <3>2. GrantsOf(page.caller) \subseteq GrantsOf(page.caller)'
      BY <1>1, <1>5 DEF GrantsOf, Logged
    <3>3. QED
      BY <1>8, <3>1, <3>2
  <2>9. page.pc \in {"overlay", "top", "overview"} =>
          InTimeline("granted") <= Cardinality(GrantsOf(page.caller)')
    BY <2>5, <2>8 DEF SumsOK
  <2>10. QED
    BY <2>1, <2>3, <2>5, <2>6, <2>7, <2>9 DEF SumsOK
<1>11. TopCoversTimeline'
  BY <1>1 DEF TimelineInv, TopCoversTimeline, InTimeline
<1>12. QED
  BY <1>6, <1>7, <1>9, <1>10, <1>11 DEF TimelineInv

-----------------------------------------------------------------------------
(* What the handler does. *)

\* A page under way gets its next panel.
Panel ==
    \/ CountActiveLeases \/ CountPendingLeases \/ CountGranted \/ CountDenied
    \/ OpenWindow \/ CountTimeline \/ OverlayLeases \/ TopHosts
    \/ HostTotals \/ HostUsers

\* A panel leaves alone when the page was asked for and by whom.
LEMMA SamePage ==
  ASSUME TypeOK, Panel
  PROVE  /\ UNCHANGED <<now, log, leases>> /\ page \in Page
         /\ page'.caller = page.caller /\ page'.began = page.began /\ page'.seen = page.seen
         /\ page.pc # "idle"
<1>1. page \in Page
  BY DEF TypeOK
<1>2. CASE CountActiveLeases
  BY <1>1, <1>2 DEF CountActiveLeases, Show, Page
<1>3. CASE CountPendingLeases
  BY <1>1, <1>3 DEF CountPendingLeases, Show, Page
<1>4. CASE CountGranted
  BY <1>1, <1>4 DEF CountGranted, Show, Page
<1>5. CASE CountDenied
  BY <1>1, <1>5 DEF CountDenied, Show, Page
<1>6. CASE OpenWindow
  BY <1>1, <1>6 DEF OpenWindow, Show, Page
<1>7. CASE CountTimeline
  BY <1>1, <1>7 DEF CountTimeline, Show, Page
<1>8. CASE OverlayLeases
  BY <1>1, <1>8 DEF OverlayLeases, Show, Page
<1>9. CASE TopHosts
  <2>1. PICK top : Show([page EXCEPT !.pc = "overview", !.top = top])
    BY <1>9 DEF TopHosts
  <2>2. QED
    BY <1>1, <1>9, <2>1 DEF TopHosts, Show, Page
<1>10. CASE HostTotals
  BY <1>1, <1>10 DEF HostTotals, Show, Page
<1>11. CASE HostUsers
  BY <1>1, <1>11 DEF HostUsers, Show, Page
<1>12. QED
  BY <1>2, <1>3, <1>4, <1>5, <1>6, <1>7, <1>8, <1>9, <1>10, <1>11 DEF Panel

\* So the clock is right about the page after a panel as well.
LEMMA ClockGoesOn ==
  ASSUME TypeOK, ClockOK, Panel
  PROVE  ClockOK'
BY SamePage DEF ClockOK

\* A page is asked for, and one is sent.
LEMMA TurnsKeepTimeline ==
  ASSUME TypeOK, TimelineInv,
         Respond \/ \E pc \in {"active", "hosts"}, caller \in Callers : Ask(pc, caller)
  PROVE  TimelineInv'
<1>1. /\ now \in Int /\ DayTicks \in Int /\ DayTicks > 0
      /\ DOMAIN log = 1 .. Len(log) /\ Len(log) \in Nat
      /\ \A i \in DOMAIN log : log[i].at \in Int
  BY Counts
<1>2. \A i \in DOMAIN log : log[i].at <= now
  BY DEF TimelineInv, ClockOK
<1>3. /\ UNCHANGED <<now, log>> /\ page'.pc \in {"idle", "active", "hosts"}
      /\ \/ page'.began = now /\ page'.pc # "idle"
         \/ page'.seen = 0 /\ page'.pc = "idle"
  <2>1. CASE Respond
    BY <2>1 DEF Respond, Show, NoPage
  <2>2. ASSUME NEW pc \in {"active", "hosts"}, NEW caller \in Callers, Ask(pc, caller)
        PROVE  UNCHANGED <<now, log>> /\ page'.pc = pc /\ page'.began = now
    BY <2>2 DEF Ask, Show, NoPage
  <2>3. QED
    BY <2>1, <2>2
<1>4. ClockOK'
  <2>1. CASE page'.began = now /\ page'.pc # "idle"
    BY <1>1, <1>2, <1>3, <2>1 DEF ClockOK
  <2>2. CASE page'.seen = 0 /\ page'.pc = "idle"
    BY <1>1, <1>2, <1>3, <2>2 DEF ClockOK
  <2>3. QED
    BY <1>3, <2>1, <2>2
<1>5. WindowOK' /\ PartsOK' /\ SumsOK' /\ TopCoversTimeline'
  BY <1>3 DEF WindowOK, PartsOK, SumsOK, TopCoversTimeline
<1>6. QED
  BY <1>4, <1>5 DEF TimelineInv

\* Panels before and beside the timeline.
LEMMA OthersKeepTimeline ==
  ASSUME TypeOK, TimelineInv, CountActiveLeases \/ HostTotals \/ HostUsers
  PROVE  TimelineInv'
<1>1. Panel
  BY DEF Panel
<1>2. ClockOK'
  BY <1>1, ClockGoesOn DEF TimelineInv
<1>3. page'.pc \in {"pending", "users", "machines"}
  BY DEF CountActiveLeases, HostTotals, HostUsers, Show, TypeOK, Page
<1>4. WindowOK' /\ PartsOK' /\ SumsOK' /\ TopCoversTimeline'
  BY <1>3 DEF WindowOK, PartsOK, SumsOK, TopCoversTimeline
<1>5. QED
  BY <1>2, <1>4 DEF TimelineInv

\* The last 24 hours begin at most a day before the page was asked for.
LEMMA PendingKeepsTimeline ==
  ASSUME TypeOK, TimelineInv, CountPendingLeases
  PROVE  TimelineInv'
<1>1. Panel
  BY DEF Panel
<1>2. ClockOK' /\ page'.began = page.began /\ page \in Page /\ page.pc # "idle"
  BY <1>1, ClockGoesOn, SamePage DEF TimelineInv
<1>3. page'.pc = "granted" /\ page'.since = now - DayTicks
  BY <1>2 DEF CountPendingLeases, Show, Page
<1>4. page.began <= now /\ page.began \in Int /\ now \in Int /\ DayTicks \in Int
  BY <1>2, Counts DEF TimelineInv, ClockOK
<1>5. page.began - DayTicks <= now - DayTicks
  BY <1>4
<1>6. WindowOK'
  BY <1>2, <1>3, <1>5 DEF WindowOK
<1>7. PartsOK' /\ SumsOK' /\ TopCoversTimeline'
  BY <1>3 DEF PartsOK, SumsOK, TopCoversTimeline
<1>8. QED
  BY <1>2, <1>6, <1>7 DEF TimelineInv

\* The grants of the last 24 hours ...
LEMMA GrantedKeepsTimeline ==
  ASSUME TypeOK, TimelineInv, CountGranted
  PROVE  TimelineInv'
<1>1. Panel
  BY DEF Panel
<1>2. /\ ClockOK' /\ page'.began = page.began /\ page'.caller = page.caller
      /\ page \in Page /\ log' = log
  BY <1>1, ClockGoesOn, SamePage DEF TimelineInv
<1> DEFINE n == Cardinality(RowsSince(page.caller, "KEY_REQUEST_GRANTED", page.since))
<1>3. page.pc = "granted" /\ page' = [page EXCEPT !.pc = "denied", !.granted = n]
  BY DEF CountGranted, Show
<1> HIDE DEF n
<1>4. page'.pc = "denied" /\ page'.granted = n /\ page'.since = page.since
  BY <1>2, <1>3 DEF Page
<1>5. WindowOK'
  BY <1>2, <1>3, <1>4 DEF TimelineInv, WindowOK
<1>6. Recent("KEY_REQUEST_GRANTED")' = RowsSince(page.caller, "KEY_REQUEST_GRANTED", page.since)
  BY <1>2, <1>4 DEF Recent, RowsSince, Logged
<1>7. n \in Nat /\ n <= n
  <2>1. n \in Nat
    BY Counts, Subsets, MoreCounts DEF n
  <2>2. QED
    BY <2>1
<1>8. PartsOK'
  BY <1>4, <1>6, <1>7 DEF PartsOK, n
<1>9. SumsOK' /\ TopCoversTimeline'
  BY <1>4 DEF SumsOK, TopCoversTimeline
<1>10. QED
  BY <1>2, <1>5, <1>8, <1>9 DEF TimelineInv

\* ... and the refusals.
LEMMA DeniedKeepsTimeline ==
  ASSUME TypeOK, TimelineInv, CountDenied
  PROVE  TimelineInv'
<1>1. Panel
  BY DEF Panel
<1>2. /\ ClockOK' /\ page'.began = page.began /\ page'.caller = page.caller
      /\ page \in Page /\ log' = log
  BY <1>1, ClockGoesOn, SamePage DEF TimelineInv
<1> DEFINE n == Cardinality(RowsSince(page.caller, "KEY_REQUEST_DENIED", page.since))
<1>3. page.pc = "denied" /\ page' = [page EXCEPT !.pc = "window", !.denied = n]
  BY DEF CountDenied, Show
<1> HIDE DEF n
<1>4. /\ page'.pc = "window" /\ page'.denied = n /\ page'.since = page.since
      /\ page'.granted = page.granted
  BY <1>2, <1>3 DEF Page
<1>5. WindowOK'
  BY <1>2, <1>3, <1>4 DEF TimelineInv, WindowOK
<1>6. /\ Recent("KEY_REQUEST_DENIED")' = RowsSince(page.caller, "KEY_REQUEST_DENIED", page.since)
      /\ Recent("KEY_REQUEST_GRANTED")' = Recent("KEY_REQUEST_GRANTED")
  BY <1>2, <1>3, <1>4 DEF Recent, RowsSince, Logged
<1>7. n \in Nat /\ n <= n
  <2>1. n \in Nat
    BY Counts, Subsets, MoreCounts DEF n
  <2>2. QED
    BY <2>1
<1>8. page.granted <= Cardinality(Recent("KEY_REQUEST_GRANTED"))
  BY <1>3 DEF TimelineInv, PartsOK
<1>9. PartsOK'
  BY <1>4, <1>6, <1>7, <1>8 DEF PartsOK, n
<1>10. SumsOK' /\ TopCoversTimeline'
  BY <1>4 DEF SumsOK, TopCoversTimeline
<1>11. QED
  BY <1>2, <1>5, <1>9, <1>10 DEF TimelineInv

\* The window that is opened holds all rows of the last 24 hours, and its last day
\* has begun.
LEMMA WindowKeepsTimeline ==
  ASSUME TypeOK, TimelineInv, OpenWindow
  PROVE  TimelineInv'
<1>1. Panel
  BY DEF Panel
<1>2. /\ ClockOK' /\ page'.began = page.began /\ page'.caller = page.caller
      /\ page \in Page /\ log' = log /\ page.pc # "idle"
  BY <1>1, ClockGoesOn, SamePage DEF TimelineInv
<1>3. page.pc = "window" /\ page' = [page EXCEPT !.pc = "timeline", !.start = WindowStart(now)]
  BY DEF OpenWindow, Show
<1>4. /\ page'.pc = "timeline" /\ page'.start = WindowStart(now) /\ page'.since = page.since
      /\ page'.granted = page.granted /\ page'.denied = page.denied
  BY <1>2, <1>3 DEF Page
<1>5. /\ now \in Int /\ page.began \in Int /\ page.since \in Int /\ DayTicks \in Int
      /\ Days \in Int /\ \A i \in DOMAIN log : log[i].at \in Int
  BY Counts, AnalyticsAssumption
<1>6. /\ WindowStart(now) \in Int /\ Day(now) \in Int
      /\ Day(WindowStart(now)) = Day(now) - (Days - 1)
      /\ WindowStart(now) <= now - 2 * DayTicks
      /\ \A u \in Int : Day(u) \in Int /\ (u <= now => Day(u) <= Day(now))
  BY <1>5, Window
<1>7. LastDay' = Day(now)
  BY <1>4, <1>5, <1>6 DEF LastDay
<1>8. WindowOK'
  <2>1. /\ page.began <= now /\ now < page.began + DayTicks
        /\ page.began - DayTicks <= page.since
    BY <1>2, <1>3 DEF TimelineInv, ClockOK, WindowOK
  <2>2. WindowStart(now) <= page.since /\ Day(page.began) <= Day(now)
    BY <1>5, <1>6, <2>1
  <2>3. QED
    BY <1>2, <1>4, <1>7, <2>2 DEF WindowOK
<1>9. \A action : Recent(action)' = Recent(action)
  <2>1. \A i \in DOMAIN log : Day(log[i].at) <= Day(now)
    BY <1>5, <1>6 DEF TimelineInv, ClockOK
  <2>2. QED
    BY <1>2, <1>3, <1>4, <1>7, <2>1 DEF Recent, RowsSince, Logged
<1>10. PartsOK'
  BY <1>3, <1>4, <1>9 DEF TimelineInv, PartsOK
<1>11. SumsOK' /\ TopCoversTimeline'
  BY <1>4 DEF SumsOK, TopCoversTimeline
<1>12. QED
  BY <1>2, <1>8, <1>10, <1>11 DEF TimelineInv

\* Rows of one action that have a bucket.
InWindow(action) ==
    {i \in RowsSince(page.caller, action, page.start) :
        Day(log[i].at) - Day(page.start) \in Buckets}

\* The points of a timeline add up to the rows that have a bucket.
LEMMA PointsAddUp ==
  ASSUME TypeOK, CountTimeline
  PROVE  /\ InTimeline("granted")' = Cardinality(InWindow("KEY_REQUEST_GRANTED"))
         /\ InTimeline("denied")' = Cardinality(InWindow("KEY_REQUEST_DENIED"))
<1> DEFINE In(b, action) ==
             {i \in RowsSince(page.caller, action, page.start) : InBucket(i, b)}
           points == [b \in Buckets |->
                        [granted |-> Cardinality(In(b, "KEY_REQUEST_GRANTED")),
                         denied |-> Cardinality(In(b, "KEY_REQUEST_DENIED")),
                         active |-> 0]]
           of == [i \in DOMAIN log |-> Day(log[i].at) - Day(page.start)]
<1>1. page \in Page /\ page' = [page EXCEPT !.pc = "overlay", !.counts = points, !.out = points]
  BY DEF CountTimeline, Show, TypeOK
<1>2. \A b \in Buckets :
        /\ points[b]["granted"] = Cardinality(In(b, "KEY_REQUEST_GRANTED"))
        /\ points[b]["denied"] = Cardinality(In(b, "KEY_REQUEST_DENIED"))
  OBVIOUS
<1> HIDE DEF points
<1>3. page'.out = points
  BY <1>1 DEF Page
<1>4. ASSUME NEW field, NEW action,
             \A b \in Buckets : points[b][field] = Cardinality(In(b, action))
      PROVE  Total(points, field) = Cardinality(InWindow(action))
  <2> DEFINE R == RowsSince(page.caller, action, page.start)
             w == [b \in Buckets |-> points[b][field]]
  <2>1. R \in SUBSET (1 .. Len(log)) /\ Len(log) \in Nat /\ R \subseteq DOMAIN log
    BY Counts, Subsets
  <2>2. DOMAIN w = Buckets /\ IsFiniteSet(Buckets)
    BY FS_Interval, AnalyticsAssumption DEF Buckets
  <2>3. \A b : In(b, action) = RowsOf(R, of, b)
    BY <2>1 DEF RowsOf, InBucket
  <2>4. InWindow(action) = RowsWithin(R, of, Buckets)
    BY <2>1 DEF InWindow, RowsWithin
  <2> HIDE DEF In, of, R
  <2>5. CountsRows(w, R, of)
    BY <1>4, <2>3 DEF CountsRows
  <2>6. Total(points, field) = SumFunction(w)
    BY DEF Total
  <2> HIDE DEF w
  <2>7. QED
    BY <2>1, <2>2, <2>4, <2>5, <2>6, SumCounts
<1> HIDE DEF In, of
<1>5. QED
  BY <1>2, <1>3, <1>4 DEF InTimeline

\* The points hold the totals, and every decision of the window once.
LEMMA CountKeepsTimeline ==
  ASSUME TypeOK, TimelineInv, CountTimeline
  PROVE  TimelineInv'
<1> DEFINE G == InWindow("KEY_REQUEST_GRANTED")
           D == InWindow("KEY_REQUEST_DENIED")
           early == {i \in DecisionsAfter(page.start) : i <= page.seen}
<1>1. Panel
  BY DEF Panel
<1>2. /\ ClockOK' /\ page'.seen = page.seen /\ page'.caller = page.caller
      /\ page \in Page /\ log' = log
  BY <1>1, ClockGoesOn, SamePage DEF TimelineInv
<1>3. /\ page.pc = "timeline" /\ page'.pc = "overlay" /\ page'.start = page.start
      /\ page'.granted = page.granted /\ page'.denied = page.denied
  BY <1>2 DEF CountTimeline, Show, Page
<1>4. /\ page.since \in Int /\ page.start \in Int /\ page.began \in Int /\ page.seen \in Int
      /\ page.granted \in Nat /\ page.denied \in Nat
      /\ Len(log) \in Nat /\ DOMAIN log = 1 .. Len(log)
      /\ \A i \in DOMAIN log : log[i].at \in Int
  BY Counts
<1>5. page.start <= page.since /\ Day(page.began) <= LastDay
  BY <1>3 DEF TimelineInv, WindowOK
<1>6. /\ Days \in Int /\ Day(page.start) \in Int /\ LastDay = Day(page.start) + Days - 1
      /\ \A t, u \in Int : Day(u) \in Int /\ (u <= t => Day(u) <= Day(t))
  <2>1. \A t \in Int : Day(t) \in Int /\ \A u \in Int : u <= t => Day(u) <= Day(t)
    BY Window
  <2>2. Days \in Int /\ LastDay = Day(page.start) + Days - 1
    BY AnalyticsAssumption DEF LastDay
  <2>3. QED
    BY <1>4, <2>1, <2>2
<1>7. \A i \in DOMAIN log :
         log[i].at > page.start /\ Day(log[i].at) <= LastDay =>
            Day(log[i].at) - Day(page.start) \in Buckets
  <2>1. SUFFICES ASSUME NEW i \in DOMAIN log,
                        log[i].at > page.start, Day(log[i].at) <= LastDay
                 PROVE  Day(log[i].at) - Day(page.start) \in Buckets
    OBVIOUS
  <2>2. Day(log[i].at) \in Int /\ Day(page.start) <= Day(log[i].at)
    <3>1. log[i].at \in Int /\ page.start <= log[i].at
      BY <1>4, <2>1
    <3>2. QED
      BY <1>4, <1>6, <3>1
  <2>3. QED
    BY <1>6, <2>1, <2>2 DEF Buckets
<1>8. ASSUME NEW action
      PROVE  Recent(action) \subseteq InWindow(action)
  <2>1. \A i \in DOMAIN log : log[i].at > page.since => log[i].at > page.start
    BY <1>4, <1>5
  <2>2. QED
    BY <1>3, <1>7, <2>1 DEF Recent, InWindow, RowsSince, Logged, FromOn
<1>9. G \cup D \subseteq DecisionsAfter(page.start) /\ G \cap D = {}
  BY DEF InWindow, RowsSince, Logged, DecisionsAfter
<1>10. early \subseteq G \cup D
  <2>1. \A i \in early : i \in DOMAIN log /\ Day(log[i].at) <= LastDay
    <3>1. SUFFICES ASSUME NEW i \in early
                   PROVE  i \in DOMAIN log /\ Day(log[i].at) <= LastDay
      OBVIOUS
    <3>2. i \in DOMAIN log /\ log[i].at <= page.began
      BY DEF DecisionsAfter, TimelineInv, ClockOK
    <3>3. LastDay \in Int
      BY <1>6
    <3>4. Day(log[i].at) <= Day(page.began) /\ Day(log[i].at) \in Int /\ Day(page.began) \in Int
      BY <1>4, <1>6, <3>2
    <3>5. QED
      BY <1>5, <3>2, <3>3, <3>4
  <2>2. QED
    BY <1>7, <2>1 DEF DecisionsAfter, InWindow, RowsSince, Logged, FromOn
<1>11. /\ G \in SUBSET (1 .. Len(log)) /\ D \in SUBSET (1 .. Len(log))
       /\ G \cup D \in SUBSET (1 .. Len(log)) /\ DecisionsAfter(page.start) \in SUBSET (1 .. Len(log))
       /\ GrantsOf(page.caller) \in SUBSET (1 .. Len(log)) /\ G \subseteq GrantsOf(page.caller)
  BY Subsets DEF InWindow, RowsSince, GrantsOf
<1> HIDE DEF G, D, early
<1>12. /\ Cardinality(G) \in Nat /\ Cardinality(D) \in Nat
       /\ Cardinality(early) <= Cardinality(G \cup D)
       /\ Cardinality(G \cup D) <= Cardinality(DecisionsAfter(page.start))
       /\ Cardinality(G) <= Cardinality(GrantsOf(page.caller))
  BY <1>4, <1>9, <1>10, <1>11, MoreCounts
<1>13. Cardinality(G \cup D) = Cardinality(G) + Cardinality(D)
  <2>1. IsFiniteSet(1 .. Len(log))
    BY <1>4, FS_Interval
  <2>2. IsFiniteSet(G) /\ IsFiniteSet(D)
    BY <1>11, <2>1, FS_Subset
  <2>3. Cardinality(G \cup D) = Cardinality(G) + Cardinality(D) - Cardinality(G \cap D)
    BY <2>2, FS_Union
  <2>4. Cardinality(G \cap D) = 0
    BY <1>9, FS_EmptySet
  <2>5. QED
    BY <1>12, <2>3, <2>4
<1>14. page.granted <= Cardinality(G) /\ page.denied <= Cardinality(D)
  <2>1. /\ page.granted <= Cardinality(Recent("KEY_REQUEST_GRANTED"))
        /\ page.denied <= Cardinality(Recent("KEY_REQUEST_DENIED"))
    BY <1>3 DEF TimelineInv, PartsOK
  <2>2. /\ Cardinality(Recent("KEY_REQUEST_GRANTED")) \in Nat
        /\ Cardinality(Recent("KEY_REQUEST_GRANTED")) <= Cardinality(G)
        /\ Cardinality(Recent("KEY_REQUEST_DENIED")) \in Nat
        /\ Cardinality(Recent("KEY_REQUEST_DENIED")) <= Cardinality(D)
    BY <1>4, <1>8, <1>11, MoreCounts DEF G, D
  <2>3. \A a, b, c \in Nat : a <= b /\ b <= c => a <= c
    OBVIOUS
  <2>4. QED
    BY <1>4, <1>12, <2>1, <2>2, <2>3
<1>15. /\ InTimeline("granted")' = Cardinality(G) /\ InTimeline("denied")' = Cardinality(D)
  BY PointsAddUp DEF G, D
<1>16. {i \in DecisionsAfter(page.start) : i <= page.seen}' = early
       /\ DecisionsAfter(page.start)' = DecisionsAfter(page.start)
       /\ GrantsOf(page.caller)' = GrantsOf(page.caller)
  BY <1>2, <1>3 DEF early, DecisionsAfter, GrantsOf, Logged
<1>17. SumsOK'
  BY <1>3, <1>12, <1>13, <1>14, <1>15, <1>16 DEF SumsOK
<1>18. WindowOK' /\ PartsOK' /\ TopCoversTimeline'
  BY <1>3 DEF WindowOK, PartsOK, TopCoversTimeline
<1>19. QED
  BY <1>2, <1>17, <1>18 DEF TimelineInv

\* A panel with room to spare shows every host, and its counts add up to all grants.
LEMMA TopAddsUp ==
  ASSUME TypeOK, TopHosts, Cardinality(page'.top) < Limit
  PROVE  InTop(page'.top) = Cardinality(GrantsOf(page.caller))
<1> DEFINE R == GrantsOf(page.caller)
           Count(h) == Cardinality(GrantsOn(page.caller, h))
           asked == {h \in Targets : GrantsOn(page.caller, h) # {}}
<1>1. PICK shown \in SUBSET asked :
         /\ Cardinality(shown) = Min({Limit, Cardinality(asked)})
         /\ Show([page EXCEPT !.pc = "overview", !.top = {<<h, Count(h)>> : h \in shown}])
  BY DEF TopHosts
<1>2. page'.top = {<<h, Count(h)>> : h \in shown}
  BY <1>1 DEF TypeOK, Show, Page
<1>3. DOMAIN log = 1 .. Len(log) /\ Len(log) \in Nat /\ R \in SUBSET (1 .. Len(log))
  BY Counts, Subsets
<1>4. \A i \in R : log[i].host \in asked
  <2>1. \A i \in DOMAIN log : log[i].host \in Targets
    BY RowTypes DEF Rows
  <2>2. \A i \in R : i \in GrantsOn(page.caller, log[i].host)
    BY DEF GrantsOn
  <2>3. QED
    BY <1>3, <2>1, <2>2
<1>5. IsFiniteSet(asked) /\ Cardinality(asked) \in Nat
  <2>1. IsFiniteSet(1 .. Len(log))
    BY <1>3, FS_Interval
  <2>2. IsFiniteSet(R)
    BY <1>3, <2>1, FS_Subset
  <2> DEFINE hosts == {log[i].host : i \in R}
             f == [i \in R |-> log[i].host]
  <2>3. f \in Surjection(R, hosts)
    BY DEF Surjection
  <2>4. IsFiniteSet(hosts)
    BY <2>2, <2>3, FS_Surjection
  <2>5. asked \subseteq hosts
    BY DEF GrantsOn
  <2>6. QED
    BY <2>4, <2>5, FS_Subset, FS_CardinalityType
<1>6. IsFiniteSet(shown) /\ Cardinality(shown) \in Nat
  BY <1>5, FS_Subset, FS_CardinalityType
<1> HIDE DEF Count
<1>7. IsFiniteSet(page'.top) /\ Cardinality(page'.top) = Cardinality(shown)
  <2> DEFINE entry == [h \in shown |-> <<h, Count(h)>>]
  <2>1. entry \in Bijection(shown, page'.top)
    BY <1>2 DEF Bijection, Injection, Surjection, IsInjective
  <2>2. QED
    BY <1>6, <2>1, FS_Bijection DEF ExistsBijection
<1>8. shown = asked
  <2>1. Limit \in Nat
    BY AnalyticsAssumption
  <2>2. Cardinality(shown) # Limit
    BY <1>6, <1>7, <2>1
  <2>3. Min({Limit, Cardinality(asked)}) \in {Limit, Cardinality(asked)}
    BY <1>5, <2>1 DEF Min
  <2>4. Cardinality(shown) = Cardinality(asked)
    BY <1>1, <2>2, <2>3
  <2>5. QED
    BY <1>5, <2>4, FS_Subset
<1> HIDE DEF asked, R
<1> DEFINE w == [entry \in page'.top |-> entry[2]]
           of == [i \in DOMAIN log |-> <<log[i].host, Count(log[i].host)>>]
<1>9. CountsRows(w, R, of)
  <2>1. SUFFICES ASSUME NEW h \in shown
                 PROVE  Count(h) = Cardinality(RowsOf(R, of, <<h, Count(h)>>))
    BY <1>2 DEF CountsRows
  <2>2. RowsOf(R, of, <<h, Count(h)>>) = GrantsOn(page.caller, h)
    BY <1>3 DEF RowsOf, GrantsOn, R
  <2>3. QED
    BY <2>2 DEF Count
<1>10. RowsWithin(R, of, DOMAIN w) = R
  <2>1. \A i \in R : of[i] \in page'.top
    BY <1>2, <1>3, <1>4, <1>8
  <2>2. QED
    BY <2>1 DEF RowsWithin
<1>11. DOMAIN w = page'.top /\ InTop(page'.top) = SumFunction(w)
  BY DEF InTop
<1> HIDE DEF w, of
<1>12. SumFunction(w) = Cardinality(RowsWithin(R, of, DOMAIN w))
  BY <1>3, <1>7, <1>9, <1>11, SumCounts
<1>13. QED
  BY <1>10, <1>11, <1>12 DEF R

\* After the timeline its points, and what they are compared with, stay.
LEMMA LateKeepsTimeline ==
  ASSUME TypeOK, TimelineInv, OverlayLeases \/ TopHosts
  PROVE  TimelineInv'
<1>1. Panel
  BY DEF Panel
<1>2. /\ ClockOK' /\ page'.seen = page.seen /\ page'.caller = page.caller
      /\ page \in Page /\ log' = log
  BY <1>1, ClockGoesOn, SamePage DEF TimelineInv
<1>3. /\ page.pc \in {"overlay", "top"} /\ page'.pc \in {"top", "overview"}
      /\ page'.out = page.out /\ page'.start = page.start
      /\ page'.granted = page.granted /\ page'.denied = page.denied
  <2>1. CASE OverlayLeases
    BY <1>2, <2>1 DEF OverlayLeases, Show, Page
  <2>2. CASE TopHosts
    <3>1. PICK top : Show([page EXCEPT !.pc = "overview", !.top = top])
      BY <2>2 DEF TopHosts
    <3>2. QED
      BY <1>2, <2>2, <3>1 DEF TopHosts, Show, Page
  <2>3. QED
    BY <2>1, <2>2
<1>4. /\ \A field : InTimeline(field)' = InTimeline(field)
      /\ DecisionsAfter(page.start)' = DecisionsAfter(page.start)
      /\ GrantsOf(page.caller)' = GrantsOf(page.caller)
  BY <1>2, <1>3 DEF InTimeline, DecisionsAfter, GrantsOf, Logged
<1>5. SumsOK'
  BY <1>2, <1>3, <1>4 DEF TimelineInv, SumsOK
<1>6. WindowOK' /\ PartsOK'
  BY <1>3 DEF WindowOK, PartsOK
<1>7. TopCoversTimeline'
  <2>1. CASE OverlayLeases
    <3>1. page'.pc = "top"
      BY <1>2, <2>1 DEF OverlayLeases, Show, Page
    <3>2. QED
      BY <3>1 DEF TopCoversTimeline
  <2>2. CASE TopHosts
    <3>1. InTimeline("granted") <= Cardinality(GrantsOf(page.caller))
      BY <1>3 DEF TimelineInv, SumsOK
    <3>2. QED
      BY <1>4, <2>2, <3>1, TopAddsUp DEF TopCoversTimeline
  <2>3. QED
    BY <2>1, <2>2
<1>8. QED
  BY <1>2, <1>5, <1>6, <1>7 DEF TimelineInv

-----------------------------------------------------------------------------
\* The invariant holds in every behaviour.
LEMMA TimelineInvariant == Spec => []TimelineInv
<1>1. Init => TimelineInv
  BY DEF Init, NoPage, TimelineInv, ClockOK, WindowOK, PartsOK, SumsOK, TopCoversTimeline
<1>2. AnalyticsInv /\ AnalyticsInv' /\ TimelineInv /\ [Next]_vars => TimelineInv'
  <2>1. SUFFICES ASSUME AnalyticsInv, AnalyticsInv', TimelineInv, [Next]_vars
                 PROVE  TimelineInv'
    OBVIOUS
  <2>2. TypeOK
    BY <2>1 DEF AnalyticsInv
  <2>3. CASE UNCHANGED vars
    BY <2>1, <2>3 DEF vars, TimelineInv, ClockOK, WindowOK, PartsOK, SumsOK, LastDay, Recent,
                      RowsSince, Logged, DecisionsAfter, InTimeline, GrantsOf, TopCoversTimeline
  <2>4. CASE World
    BY <2>1, <2>4, WorldKeepsTimeline
  <2>5. CASE Next /\ ~ World
    BY <2>1, <2>2, <2>5, TurnsKeepTimeline, OthersKeepTimeline, PendingKeepsTimeline,
       GrantedKeepsTimeline, DeniedKeepsTimeline, WindowKeepsTimeline, CountKeepsTimeline,
       LateKeepsTimeline
       DEF Next, World, Build
  <2>6. QED
    BY <2>1, <2>3, <2>4, <2>5
<1>3. QED
  BY <1>1, <1>2, AnalyticsInvariant, PTL DEF Spec

\* The totals of the last 24 hours fit into the timeline of seven days, whatever is
\* logged and whatever midnight passes between the queries: for any number of
\* days from three on.
THEOREM TotalsFit == Spec => []TotalsFitTimeline
<1>1. TimelineInv => TotalsFitTimeline
  BY DEF TimelineInv, SumsOK, TotalsFitTimeline
<1>2. QED
  BY <1>1, TimelineInvariant, PTL

\* No decision logged after the first second of the window is missing from the timeline,
\* and none is in it twice.
THEOREM TimelineIsComplete == Spec => []TimelineComplete
<1>1. TimelineInv => TimelineComplete
  BY DEF TimelineInv, SumsOK, TimelineComplete
<1>2. QED
  BY <1>1, TimelineInvariant, PTL

\* While the panel has room for every host, its grants are no fewer than those of the
\* timeline, whatever is logged between the two queries and on however many hosts.
THEOREM TopAccountsForTimeline == Spec => []TopCoversTimeline
<1>1. TimelineInv => TopCoversTimeline
  BY DEF TimelineInv
<1>2. QED
  BY <1>1, TimelineInvariant, PTL
=============================================================================
