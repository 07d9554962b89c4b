# TLA+ models of SSH-Warden

SSH-Warden hands out time-boxed SSH access. Users file *leases*; an OpenSSH
host asks the server for the keys of a user at every login and gets them while
an approved, unexpired lease of that user names the host (or `*`). These modules
model the server's state and handlers as they are written in the repository
(paths below are relative to `src/`), TLC checks them on small instances, and
TLAPS proves the central properties for instances of any size.

## 1. Inventory

| Part | State | Operations | Talks to |
| --- | --- | --- | --- |
| Leases table, key query (`internal/database/leases.go`, `keys.go`) | table `leases`, rows never deleted; reads `ssh_keys`, `users` | CreateLease, CreatePendingLease, ApproveLease, RejectLease, RevokeLease, GetValidKeysForUser, listings | SQLite, one statement at a time, no transaction |
| Lease and key handlers (`internal/api/leases_handler.go`, `keys_handler.go`, `middleware.go`, `rbac.go`) | local variables of a request, `time.Now()` among them | create, approve, reject, revoke, hand out keys | the tables, the audit log |
| Audit log (`internal/api/audit.go`, `internal/database/audit.go`) | table `audit_logs` | logAudit, RecordAudit, GetAuditLogs | written by handlers, read by the dashboard |
| Webhook notifier (`internal/webhook`) | one goroutine per event | Notify, send | an outside URL; one attempt |
| Startup (`cmd/server/main.go`, `internal/database/db.go`) | `warden.db`, half-way if a start broke off | InitDB, migrations, SeedData, stop within five seconds | the file system |
| Key registry (`internal/api/keys_handler.go`, `internal/database/keys.go`) | `users`, `ssh_keys` | handleAddKey, AddSSHKey, ensureUser (three statements, no transaction) | the database startup left, the key query |
| Analytics (`internal/database/analytics.go`, `internal/api/metrics_handler.go`) | none of its own: a page in the making | handleOverview (six queries), handleListHosts (two) | leases, audit log, clock |
| Identity (`internal/oidc`, `internal/api/rbac.go`, `user_tokens.go`, `internal/database/tokens.go`) | session and state cookies in the browser, `user_tokens` | login, callback, logout, role look-up, minting and checking tokens | OpenID provider, clock |
| Host tokens (`internal/database/hosts.go`) | table `hosts` | RegisterHost, ValidateHostToken | `hostAuth` middleware |
| CLI (`cmd/cli`) | a YAML file; a local callback server while logging in; the request wizard | login, config set, request, approve, ... | the API over HTTP |
| Approval page (`internal/webui/cli_auth.html`) | one page per login | mint a token, send the browser to the CLI's local port | the API, the CLI |
| Helper (`cmd/helper`) | none | one request per sshd login | the API |
| Web interface, key parser, health check, installer | none | | |

What is hard here:

* **Concurrency.** net/http runs each request in a goroutine; handlers share the
  database and open no transaction. `GetValidKeysForUser` and `RevokeLease` read
  the clock *before* their statement runs; `RevokeLease`, `ApproveLease` and
  `RejectLease` ask for the reason of a refusal in a second statement; the owner of
  a lease is looked up before it is revoked; pages are made of several queries; a first
  key looks for its user and then inserts it.
* **Failure.** Any statement can fail (SQLite is opened without a busy timeout,
  so a second writer is enough). A failing audit INSERT is only printed. The
  process can die between any two statements, of a handler and of the startup. InitDB drops
  the error of one look-up together with a migration, and turns foreign keys on for one
  connection of the pool only, so that no constraint stands in for the order of the inserts.
* **Shared file.** CLI commands in several terminals read, change and write back one
  file without a lock, and a login waits for a browser that may answer late, twice,
  for another user, or never.
* **Time.** Expiry races approval and revocation; midnights pass while a page is
  built; a cookie expires between two reads of it within one request; a role
  outlives the group membership it came from.

What makes the parts correct: an answered revocation is final; the log explains
every grant; a pending lease gets one verdict and log and table agree about it; no
step lengthens a lease; a database left by any broken-off start comes up again
and is never given the demo administrator twice, nor beside registered users; a
registered key and its user stay; dashboard panels do not contradict
each other or show other people's rows; an administrator's role ends in bounded
time after the membership does; a CLI login takes no token but its own, keeps it with
its user, and ends.

## 2. Modules

| Module | Models |
| --- | --- |
| `LeaseTable` | the `leases` table, and the WHERE and SET clauses of `leases.go` and `keys.go` as operators on rows |
| `LeaseLifecycle` | the abstract specification: what a lease promises, without clock, handlers or database |
| `AccessService` | handlers and database together: one action per statement of each handler, plus failing statements, lost audit rows, crash and clock |
| `AccessInvariant` | the inductive strengthening of `AccessService`'s invariants |
| `AccessService_proof` | the theorems and their proofs |
| `Startup` | InitDB, SeedData and the life of the process |
| `KeyRegistry` | the requests for keys, composed with `Startup` |
| `KeyStore` | the abstract specification: what the key registry promises, without process, schema or statements |
| `KeyRegistry_proof` | the theorems about all three and their proofs |
| `Analytics`, `MCAnalytics` | the overview and machines pages, query by query |
| `Analytics_proof` | its theorems and their proofs |
| `Timeline_proof` | the theorems about what the timeline adds up to, and their proofs |
| `Identity` | OIDC sessions, roles and CLI tokens |
| `Identity_proof` | its theorems and their proofs |
| `Wizard` | the interactive form of `warden request` |
| `Wizard_proof` | its theorems and their proofs |
| `CliLogin` | `warden login`, `warden config set`, the approval page and the configuration file |
| `CliLogin_proof` | its theorems and their proofs |

### AccessService

`req[p]` is the local state of request `p`: its *job* (operation, arguments, and
`at`, the `time.Now()` the handler read), the step it is at (`pc`), what it found
(`out`), and, for a key request, the leases that let it through (`by`). A request is
started by a `Begin...` action, which stands for the middleware and the handler up
to its first statement; that is where `now` is copied into `at`. The steps are

    keys:    query -> log -> reply       (host refused: log -> reply)
    create:  insert -> reply
    decide:  update -> log -> reply      (no row: exists -> reply)
    revoke:  update -> reply             (no row: exists -> reply)

and each step is one SQL statement. `StatementFails` is the 500 of any of them,
`LogAuditFails` the early return of `logAudit`, `Crash` the end of the process: the
tables survive, requests and unsent events do not. `acked` is history: leases whose
revocation was answered with 200. `job.dead` is history too: what was in `acked` when
the key request read the clock.

Abstractions. Requests that are refused before a handler runs (bad JSON, bad
duration, no token) change nothing and are left out, but for the two refusals that
depend on the tables. Whether a host's token is right is a choice of the environment
(`RefuseHost` or `BeginFetch`). The audit log is a set of rows, events are the rows
handed to the notifier. Users and keys are fixed: nothing deletes them. The lease the
seed files is a lease filed at time 0. The clock does not step back. Listings change
nothing and are left out.

### LeaseLifecycle

A lease is `unused`, `pending`, `approved`, `denied` or `over`. The mapping `PhaseOf`
of `AccessService` derives the phase from row and clock: a row whose expiry has
passed is `over` whatever its status. `ImplementsLifecycle` says that every step of the
service is a filing, a verdict, a closing of one or several leases, or a stutter;
in particular nothing ever leaves `over`.

### Startup

`disk` is the database file: tables, the three columns of later releases, users, keys,
hosts, and how many demo leases were filed. `Init` has a missing file and files with all six
tables and any set of the later columns, in use or not; files with fewer tables are reached by
starts that break off, never as what an earlier release left. `CreateTable` to `SeedWildcard` are the statements in
order; the process can crash before each, and a failing statement takes the path the code
takes: out of `run` (`InitFails`), on without the column (`SkipStatus`), or a printed
warning (`SeedFails`). `warned` remembers the latter, `skipped` (history) that this run goes
without the column. A leases table without it refuses the demo lease, so the demo
user's transaction is rolled back and SeedData ends there (third case of `SeedDemoUser`).
A server that is asked to stop lets nothing new in and ends with its last handler or after
five seconds (`Stop`, `Exit`); what is under way goes on in between.

### KeyRegistry

Extends `Startup` with `add[r]`, the request for a key in slot `r`: `BeginAdd` is the handler
up to the first statement, `LookUp`, `InsertUser` and `InsertKey` are the statements,
`AddFails` the failure of any of them, `Answer` the reply. `Next /\ RequestsEnd` are the
steps of the process; when it goes down its requests go with it, and the rows they
inserted stay. `acked` (history) are the keys whose registration was answered with 201, `known`
(history) whether the user had a row when the request came in. `KeyRegistry` starts from every
`disk` of `Startup`, so users with and without keys, the demo user among them, are there at
first. Nothing deletes users or keys in the code, nor here. That `LastInsertId` fails after an
insert that succeeded is left out: with SQLite it returns a number that came with the result.

### KeyStore

`users`, `keys`, a `call` per slot and what was `acked`. A call is `open`, then `filed` or
`refused`; `File` is the one step in which it takes effect, `Join` the one thing that shows
before (its user exists, which a crash may leave behind), `HangUp` the end of all calls
without an answer, `Seed` the demo user, which needs a store that is empty and that nobody
is calling. `CallOf` of `KeyRegistry` maps a request to its call: the steps from `lookup` to
`key` are `open`, `reply` is `filed` or `refused` by its outcome. Everything the start does
but the seeding is a stutter. `ImplementsKeyStore` thus says that a registration is atomic
although it is three statements: it is filed at once or refused and not filed, answered 201
only if filed, and what others do or a restart does in between cannot be told from a step
before or after it.

### Analytics

`page` holds what the handler has read so far and which query is next; `LogRow`,
`FileLease`, `ApproveLease`, `RejectLease`, `RevokeLease` and `Tick` happen in between. A key
request that names no host is logged for `*`. Times are ticks, `DayTicks` of them to a day; a
tick stands for a second, and the last second of a lease (`fillActiveLeases`) is the last tick
before its expiry.

SQLite compares stored times as texts. `created_at` is written by CURRENT_TIMESTAMP, without
a zone ("2025-03-01 00:00:00"), the bounds by Go, with one ("2025-03-01 00:00:00 +0000 UTC").
What was created in the very second of a bound is therefore a prefix of it and sorts
*below* it: `FromOn(created, t)` is `created > t`. Where `created_at >= ?` is meant to take in
the bound, the row of its second is dropped. The expiry of a lease is written by Go and
compared with what Go writes, always in UTC; such texts sort like the times they stand for. `began` and `seen` are history: when the page was asked for and how long the log was then. Assumed: a page is put together in less than a day.

### Identity

One user, one browser, several tabs that share a cookie jar. Each tab is in at most one
login or one minting of a token; `handleCreateUserToken` verifies the cookie three
times, and the clock moves in between by at most `Patience`. The provider changes the
user's group membership at any time (`Regroup`); `lastIn` is history. Signatures and
digests are taken as unforgeable, random states as distinct (they are numbered).

### CliLogin

`cmd[c]` is the command that runs in terminal `c`: where it is, the port and the random
state of its login (`state`; states are numbered, so no two are equal), what the
one-place channel `done` holds (`result`, `token`), and the configuration it is about to
write (`cfg`). `pages` are the approval pages still open in the browser: they outlive
the command that opened them, and `sent` are their redirections to a local port, which
reach whoever listens there by then (`Callback`) or nobody (`Unreachable`). The listener is
closed by a deferred call, so a login keeps its port until it has stored its token, failed or
given up (`Listening`); callbacks that come while the file is read and written still find it,
and `Deliver` says what becomes of them: the channel takes one result, and after the
select nobody reads another. `StrayCallback` is a request without the state or the token.
`os.WriteFile` is two steps, `Truncate` and `Write`. A text written over a longer one
leaves the end of that behind: `Overlays` says what a reader then makes of it, and
`overlaid` remembers that it happened. A write can also fail half-way (`WriteFails`: a full disk):
it leaves a beginning of the text in an empty file, a mixture in one that another command has
just written. A name that was set by hand or cut off is `"other"`, a token that no login
put there is 0, like no token at all (`Edits` is what `config set` can make of a file). The line with the URL is left out, and setting
`api_url` is a command that writes back what it read.

### Wizard

`text` holds the four fields with their cursors, `val` what was copied out of them,
`step` and `index` where the user is. There is one action per key, `handleAdvance` being
one per step; each ends in `Draw`, since `View` clamps the cursor of the field it
shows. `tea.Quit` is a command of its own, so keys go on being handled until `Quit`
(`stage` is "quitting" meanwhile). `Submit` is the end of `runWizard` and `runRequest`:
trimming, defaults, and what `submitLease` sends. A rune is a letter or a blank, typed or pasted
(a typed space is a key of its own that the form ignores, so blanks are pasted); `escaped`
is history. Requests given by flags are left out: they are one call.

## 3. Runs

| Run | Module | Checks | Instance, and why it is enough |
| --- | --- | --- | --- |
| `races` | AccessInvariant | `TypeOK`, `CutIsFinal`, `GrantedRowsAreBacked`, `OneVerdict`, `LeasesOnlyShrink`, `CutTakesEffect`, `ImplementsLifecycle` | Two requests, one lease, times 0..2, durations 0 (over when it is filed), 1 and 2. Every property relates two requests that share one lease: any two operations overlap in every order, and time can pass before, during and after a window. `CutTakesEffect` is liveness under the fairness of section 4. |
| `scopes` | AccessInvariant | `NotifiedIsRecorded`, `GrantedRowsAreBacked` | Two users (one without keys), two leases, one host and `*`, webhook on, one request at a time: mix-ups of user, host and lease, and events that wait while rows are written. |
| `lapsed` | AccessInvariant | `ApprovalGrantsAccess`, violated | See section 6. |
| `restarts` | KeyRegistry | `RegistryTypeOK`, `RolesMigrated`, `SkipEndsWithRun`, `AckedKeysStay`, `KeysHaveOwners`, `RaceEndsWithTheFirst`, `DemoOnlyWhenFresh`, `ImplementsKeyStore`, `KeepsComingUp` | One user besides the demo user, one key, two requests at once, three failures or crashes: a first one leaves half a schema, a seed or a user without a key, a second one hits the start that finds it, a third one the repair; two first keys of one user race. Two requests are what atomicity is about: one sees the other's half. |
| `hosts` | Startup | `BothHostsSeeded`, violated | One failure or crash: between the two host inserts. |
| `panels` | MCAnalytics | `TotalsFitTimeline`, `TimelineComplete`, `TopCoversTimeline` | Days of two ticks, a window of three days (the least `WindowAssumption` allows; the code's is seven), times 0..6, so that rows fall out of the window, sit on its edge, and a midnight passes during a page. Two rows, for a host or for `*`, and room for both among the top hosts. |
| `scoping` | MCAnalytics | `TypeOK`, `CountedOnce`, `MachinesAreScoped` | Two users, two hosts besides `*`, two rows, one lease: a row of the caller and one of somebody else, on one host or on two. No clock: the queries in question do not read it. |
| `timeline` | MCAnalytics | `TimelineShowsLeases`, violated | One lease. |
| `stale` | Identity | `TypeOK`, `StaleAdminIsBounded`, `TokenWithinSession` | Two tabs, two logins, one token, times 0..6, sessions of two ticks and tokens of one: long enough for a session and a token to run out one after the other. |
| `terminals` | CliLogin | `TypeOK`, `OwnTokenOnly`, `PairIntact`, `CommandsEnd` | Two terminals, one port, so that the second login listens where the first one did; two users, two logins, two tokens, any number of `config set`. |
| `keys` | Wizard | `TypeOK`, `CheckedIsCurrent`, `EscIsFinal`, `NothingBlankIsSent` | Any number of keys, two of them typed runes, one of which may be a blank: enough for a field that is emptied, refilled and made blank, for a cursor inside a text, and for going back and forth between any two steps. |
| `cursor` | Wizard | `CursorKeysMoveShown`, violated | One typed rune. |

Bounds in guards: `MaxTime` stops the clock, `MaxLeases`, `MaxAudit`, `MaxLog`, `MaxLogins`
and `MaxTokens` stop new rows, `MaxTyped` stops typing, `MaxMishaps` stops failures. They limit how much happens,
never what a handler under way may do. `MaxAudit` is looked at when an audited
request starts.

Deadlock is checked in every run: `Crash` (or, in the other modules, a page, a restart
or a logout) is always possible, so it shows only that no module stops by mistake.

## 4. Fairness

`AccessService` assumes weak fairness of the steps of each request (`Fairness`): once
started, a handler is scheduled until it has answered, which is what the Go runtime
does; starting requests, crashing, ticking and delivering events need never happen.
`CutTakesEffect` needs no more: a key request that read the clock before a revocation may
still be holding keys, but it drains, and no later one is let through.

`KeyRegistry` (`FairSpec`) assumes weak fairness of `Boot`, the steps of the process that need
nobody: systemd or Docker starts it again (`docs/installation.md`), a statement that
does not fail ends, and a server that was told to stop ends after five seconds at
the latest. Requests may stand still, and nobody need ever stop the server.
`KeepsComingUp` holds although up to `MaxMishaps` starts break off anywhere.

`CliLogin` assumes weak fairness of what a command does by itself (`Run`): receive a
result, give up after two minutes, read and write the file. Nobody need ever approve or
close a page, and a command may be interrupted anywhere; `CommandsEnd` rests on the timer
alone.

`PairIntact` excepts files that two commands wrote at once. There it is indeed broken:
a command without a token that writes its two lines over a longer file can leave
the other's token line standing behind its own user.

## 5. What is proved

`AccessService_proof` proves of `Spec`, for all values of the constants that meet
`ServiceAssumption` and `MaxLeasesAssumption` (any number of users, hosts, requests,
leases, ticks and audit rows):

| Theorem | Property | |
| --- | --- | --- |
| `TypeCorrect` | `TypeOK` | types, and the shape of a request at each step |
| `OnlyShrink` | `LeasesOnlyShrink` | no step lengthens, re-assigns or deletes a lease, or changes a verdict |
| `RevocationIsFinal` | `CutIsFinal` | no key request that read the clock after an answered revocation is let through by that lease |
| `GrantsHaveLeases` | `GrantedRowsAreBacked` | every grant in the log has its lease |
| `VerdictIsUnique` | `OneVerdict` | one verdict per lease, and log and table agree |
| `NotifiedAreRecorded` | `NotifiedIsRecorded` | no event goes out that the log does not have |
| `LifecycleRefined` | `ImplementsLifecycle` | the refinement of `LeaseLifecycle` |
| `CutDrains` | safety half of `CutTakesEffect` | requests that slipped in before a revocation was answered only get fewer |

The argument is one inductive invariant, `IInv` of `AccessInvariant`. The properties are
not inductive as they stand: that a revocation is final, for instance, depends on what a
request at `update` will write. `IInv` adds

* `Shape`: what `pc`, `op` and `out` say about each other, and that a handler's
  `at` is never ahead of the clock (so that a late revocation cannot re-open a window);
* `CutsHold`: a lease whose revocation was answered, or is about to be, is closed for
  the clock, and was closed already at `at` of any key request that began later;
* `GrantsAreBacked`: the leases that let a request through still name its user and
  host and are still approved, since no step changes these fields;
* `VerdictStands` and `RowsAreShaped`: a verdict waiting to be logged is the one in
  the table, and only rows about leases name one.

`Init => IInv` and `IInv /\ [Next]_vars => IInv'` are proved with one step per action; the
facts about the table used in several of them (what an insert, a verdict and a revocation
leave alone) are lemmas. The action property and the refinement follow from
`IInv` and the step; for the refinement each action is mapped to `File`, `Decide`, `Close`
or a stutter, and `Tick` to the closing of all leases whose expiry it reaches.

`CutDrains` is what `CutTakesEffect` rests on besides fairness. `Slipped(l)` are the key
requests that read the clock before the revocation of `l` was answered and may still use
it. No step adds one (a request that starts later has `l` among its `dead`), whoever holds
keys because of `l` is one of them (`CutIsFinal`), and each of their steps has fewer before
it (`StepsLeft`).

`CliLogin_proof` proves of `CliLogin`, from `CliLoginAssumption` (no port is called "none",
no user "os" or "other") and `NamedAssumption` (no user without a name: `user_tokens.go`
mints no token for one, so that `saveToken` always sets the user) and for any number of terminals, ports, logins and tokens:

| Theorem | Property | |
| --- | --- | --- |
| `LoginTypeCorrect` | `TypeOK` | types; a login that waits or has its token keeps its listener, no command that has ended does |
| `LoginsTakeTheirOwn` | `OwnTokenOnly` | no login takes a token approved on another login's page |
| `PairsStayWhole` | `PairIntact` | lost changes split no pair of token and user, unless two commands write at once |
| `CommandsGoForward` | safety half of `CommandsEnd` | nothing sends a command back, and each of its steps takes it further |

`LoginInv` adds that every redirection under way carries the state of the login its token
was minted for (`SentOK`), so that the comparison in the callback suffices, and that
what each command is about to write is a pair as well (`PairsOK`). Every action of a
command puts one good record into one terminal: `CommandStep` is that argument,
stated once; approving is the only step that touches the tokens, and has its own lemma.

`KeyRegistry_proof` proves of `RegistrySpec`, from `StartupAssumption`, for any number of
users, keys, simultaneous requests, failures and crashes:

| Theorem | Property | |
| --- | --- | --- |
| `RegistryTypeCorrect` | `RegistryTypeOK` | types |
| `ServesMigrated` | `RolesMigrated` | a server listens with all tables and role columns only |
| `SkipsHeal` | `SkipEndsWithRun` | the status column is missing only in the run that skipped it |
| `AckedKeysAreKept` | `AckedKeysStay` | no acknowledged key is lost |
| `OwnersExist` | `KeysHaveOwners` | no key is without its user |
| `RacePasses` | `RaceEndsWithTheFirst` | only requests older than the user's row can be refused it |
| `DemoIsForFreshDatabases` | `DemoOnlyWhenFresh` | the demo data goes into an empty database, once |
| `StoreRefined` | `ImplementsKeyStore` | the refinement of `KeyStore` |
| `StartsGoForward` | safety half of `KeepsComingUp` | a start comes nearer to its end with every step, unless a statement fails or it crashes |

`RegistryInv` has two layers. `DiskInv` is about the start: what has been migrated by the
time a stage is reached (`MigratedSoFar`), which makes `RolesMigrated` and `SkipEndsWithRun`
inductive, and that the demo lease leaves its user behind (`DemoLeavesUser`), so that an
empty users table means no demo lease yet. `RequestOK` says what each step of a request
knows: at `key` its user has a row, after `created` its key has one. Since no step takes a
user or key away (`Grows`), every request keeps its part under every step of the
others and of the process. `DemoOnlyWhenFresh` needs both layers: that an empty users table
leaves no keys is `KeysHaveOwners`.

`StoreRefined` maps each statement to one step of `KeyStore` or a stutter, with one lemma per
action. Besides `RegistryInv` it needs `NobodyCalls`: while the process is not up no request
is under way, so the seeding meets none. `StartsGoForward` bounds the steps that a start has
`Ahead` of it by its stage and the tables that are missing, whatever an earlier start left;
failures and crashes send it back but are counted by `mishaps`, which never shrinks.

`Identity_proof` proves of `Identity`, from `IdentityAssumption`, for any number of tabs,
logins and tokens and any lifetimes:

| Theorem | Property | |
| --- | --- | --- |
| `IdentityTypeCorrect` | `TypeOK` | types |
| `TokensWithinSessions` | `TokenWithinSession` | no token carries more than its session did |
| `StaleAdminEnds` | `StaleAdminIsBounded` | the role ends in bounded time after the membership |

`IdentityInv` measures ages from `lastIn`: the claims a tab holds are as old as its handler has
run (`TabOK`), an administrator's session ends a lifetime after such claims
(`SessionOK`), and a token a lifetime after a session that was good when it was asked for
(`TokenOK`). The bounds of the property are the sums of these.

`Wizard_proof` proves of `Wizard`, for any number of typed runes:

| Theorem | Property | |
| --- | --- | --- |
| `WizardTypeCorrect` | `TypeOK` | types, and that no cursor leaves its text |
| `ChecksAreCurrent` | `CheckedIsCurrent` | what is ticked off is what the fields hold |
| `EscEnds` | `EscIsFinal` | nothing is sent after Esc |
| `BlanksStayHome` | `NothingBlankIsSent` | no text of blanks is sent |

`WizardInv` is their conjunction with `FormOK`: a form left with Esc is cancelled, and
nothing is sent while it is up. That `TrimSpace` finds a first and a last rune that is no
blank (a CHOOSE in the model) rests on the well-ordering of the naturals (`Least`,
`Greatest`).

`Analytics_proof` proves of `Analytics`, for any users, hosts, rows, leases and days:

| Theorem | Property | |
| --- | --- | --- |
| `AnalyticsTypeCorrect` | `TypeOK` | types |
| `LeasesCountedOnce` | `CountedOnce` | no lease is counted as active and as pending |
| `MachinesStayScoped` | `MachinesAreScoped` | users see their own rows only, and nobody counted is missing |

`AnalyticsInv` adds why: while the pending leases are still to be counted, the active ones
found so far are among those approved by then (`CountsOK`), and approval is never taken
back; rows are only added, so what was counted when a page was asked for is still there
(`SeenOK`); a machine that is listed has rows its caller may see (`StatsOK`).

`Timeline_proof` goes on from there, with `WindowAssumption` (at least three days; the code's
`overviewDays` is 7):

| Theorem | Property | |
| --- | --- | --- |
| `TotalsFit` | `TotalsFitTimeline` | the last day's totals are within what the timeline adds up to |
| `TimelineIsComplete` | `TimelineComplete` | every decision after the first second of the window is counted, and none twice |
| `TopAccountsForTimeline` | `TopCoversTimeline` | the top hosts account for every grant in the timeline |

What the timeline and the top hosts add up to is a fold, over buckets or hosts. The provers do no induction
over data, but a sum can do without the library's: the fold is unfolded once (`SumUnfolds`);
two functions that satisfy its recursion are equal (`SumsAgree`), since the sets of terms
on which they differ would have a least one; and where each term counts a set of rows, disjoint from the
others, the function that counts the rows of each set of terms satisfies it (`SumCounts`). So the sum is the
number of rows in the window, or the number of grants in the log (`TopAddsUp`).
`TimelineInv` says why these are the right rows. `ClockOK`: no row is younger than the clock,
and a page is put together in less than a day. `WindowOK`: the last 24 hours lie inside the
window, and so does the moment the page was asked for. `PartsOK`: the totals count rows of the
last 24 hours, of which the window loses none. `SumsOK`: the first two properties as soon as there
are points, and that the timeline's grants are among those of the log, of which `TopHosts` then shows every one it
has room for. With a
window of two days `WindowOK` is false, and so is `TotalsFitTimeline`: when a midnight passes
between the totals and the timeline, rows of the last 24 hours are older than its first day.

Only model-checked: the liveness properties (`CutTakesEffect`, `KeepsComingUp`, `CommandsEnd`).
Fairness is out of the prover's reach; what is proved of them is that the steps they count
on lead to the end (`CutDrains`, `StartsGoForward`, `CommandsGoForward`), not that they are taken.

## 6. Where code and comments disagree

* **A lapsed lease can be approved** (`lapsed`). `ApproveLease` does not look at
  `expires_at`. A lease whose window closed while it was waiting becomes "approved", and
  the CLI reports "SSH access has been granted" although no key will be handed out.
* **The timeline's active leases** (`timeline`). `ActivityTimeline` copies its points out
  before `fillActiveLeases` writes to them, so `active_leases` is always 0. Behind that,
  `dayIndex` returns -1 for a day after the window as well as for one before it, so a
  lease that ends after today would be counted on no day.
* **One host seeded for good** (`hosts`). The two host inserts of `SeedData` are not one
  transaction. A crash in between leaves `srv-test-01` alone, and no later start adds `*`
  or says so.

* **Cursor keys at a custom duration** (`cursor`). `currentText` answers `reason` at the
  duration step, so the keys move the cursor of a field that is not on screen. (Seen in
  the same place: once "Custom..." is selected the up and down keys are off, so no
  preset can be chosen any more.)

## 7. Not modelled

Because there is no behaviour of the system to check: the helper, the
single-request CLI commands, the health check, the installer,
the public-key parser, the payload of webhooks, TLS set-up and cryptography. Basic Auth is
left out of `Identity`: its roles come from the environment and are fixed while the
process runs.

The web page (`internal/webui/index.html`) reloads everything every 15 seconds and after each
action; two reloads can overlap and the older answer can be drawn last, and a failed one is
drawn as empty lists. It keeps nothing beyond what is on screen and every decision is the
server's, whose handlers are modelled; a page that is a few seconds old asks for verdicts and
revocations the same handlers refuse or repeat (`OneVerdict`, `CutIsFinal`). It is the next
module to write, should the page ever keep state of its own.

Hazards without a property (`PROJECT.json`) are the ones whose effect is out of the models'
sight or against which the code promises nothing: the wording of a refusal, an overlay that
never reaches the answer (two of them: its clock and its day numbers), rows of keys that are lost to an unchecked
iteration error, events that are lost or overtake one another, a login that another tab's
login breaks, and the mixture of two configurations that are written at once.
