# A formal model of the o2ul portal

TLA+ modules, TLC configurations and TLAPS proofs for the Go back end in
`src/` (paths below are relative to it). The project models what the processes
of the portal do to their shared state when requests, restarts, failures and
shutdowns overlap, and says which promises of the code survive that.

1. [The system](#1-the-system)
2. [The modules](#2-the-modules)
3. [What the runs check](#3-what-the-runs-check)
4. [Fairness](#4-fairness)
5. [What is proved](#5-what-is-proved)
6. [Where code and documentation disagree](#6-where-code-and-documentation-disagree)
7. [What is not modelled](#7-what-is-not-modelled)
8. [Plan](#8-plan)

## 1. The system

Three long-running processes and a command line tool share one PostgreSQL
database through the datastore library Strata (an in-memory cache, an optional
Redis and PostgreSQL; every schema asks for `WriteThrough`).

```
   browser --HTTP--> cmd/web        static files, HTTP/3
      |                ^
      |                | start, kill, POST /internal/shutdown, health checks
      v                |
   cmd/api <------- cmd/orchestrator <--- POST /logs --- loggers of api and web
      |   ^
      |   +--- payment webhooks (Stripe, Steam)
      v
   Strata / PostgreSQL <--- cmd/migrate (migrations, backfill)
```

| component | state it keeps | operations | what is hard about it | what makes it correct |
|---|---|---|---|---|
| Role hierarchy (`internal/domain/user.go`) | none | `NormalizeRole`, `CanActAs`, `CanAssignRole` | aliases in old rows and tokens | nobody hands out a role as high as their own |
| Accounts (`auth_service.go`, `postgres_users.go`, `postgres_password_reset.go`, `jwt_service.go`, `middleware/auth.go`) | users table, reset tokens table, signed access tokens of 24 h | register, login, refresh, forgot and reset password | `UpdateRole` and `UpdatePassword` read and write whole rows without a transaction; a reset marks its token after the password; tokens outlive the role they carry | no password its owner did not choose; a token works once; updates of different columns do not undo each other |
| Role administration (`admin_handler.go`) | none of its own | `PATCH /admin/users/{id}/role` | caller judged by the claims of a token, target by a row that is read again later | no role that nobody with authority granted; guests are registered first |
| Payments (`payment_service.go`, `payment/stripe`, `payment/steam`) | none: no event ids are kept | checkout, webhook | providers repeat events; promotion is a write of a whole row | only registered users become subscribers |
| Start of the API (`cmd/api`, `db/migrations`) | the unique index, the master row | migrations, `ensureMasterAdmin` | the configured master changes between starts; a start may die between promoting one and demoting another | at most one master, and it is the configured one |
| Shutdown of API and WEB (`cmd/api`, `cmd/web`, `startup/shutdown_phases.go`) | listener, requests in flight, datastore | shutdown phases on a goroutine of their own | `main` returns from `ListenAndServe` as soon as the listener is closed | requests end before the store is closed and the process exits |
| Orchestrator (`cmd/orchestrator`, `adapters_local_exec.go`, `orchestrator_handler.go`) | registry of processes, shutdown signal | managed startup, spawn, despawn, list, shutdown phases | four goroutines delete registry entries; the orchestrator dies and its children do not | no process is lost track of; none is left behind; a shutdown request is never lost |
| Log sink and loggers (`orchestrator_handler.go`, `logging/logger.go`) | 1000 entries and their times in two slices; a queue of 256 per logger | ingest, list with `since` and `limit` | the queue drops when it is full | the newest entries are kept, `limit` returns the newest that match |
| Profiles, presence, preferences, notifications, files (`o2ul_*_service.go`, `o2ul_*_strata.go`) | one table each | whole-row updates after a read whose error is ignored; delete | a failed read looks like a missing row; an update in flight brings a deleted row back | an update changes only what it was asked to |
| Wallet (`o2ul_wallet_service.go`, `pkg/walletguard`, `pkg/lightclient`, `pkg/proverclient`) | transactions and spent notes, in memory only | scan, build, sign, submit, status | 64-bit sums; a note may be submitted twice; a restart forgets what was spent | the service signs and proves only with enough distinct factors; the spent notes are those of the stored transactions |
| Image optimizer (`imageopt/optimizer.go`) | image files and a manifest of fingerprints | `Optimize` at the start of WEB | cancelled by a timeout between two files | an entry of the manifest describes the file as it is |
| Backfill (`cmd/migrate/o2ul_slice1_backfill.go`) | profiles and preferences | upsert of every legacy profile | stops at the first failing write, is run again, overwrites what users changed since | running it again completes it |
| Frontend (`web/src/htmx.ts` and `web/src/htmx/`) | request per element, queue, history cache | `issueAjaxRequest`, swap, history | `hx-sync` strategies, abort, answers out of order | one request per element; no queued request is lost |

Interactions that matter for correctness:

* All handlers of one API process share the tables; `net/http` runs each on its
  own goroutine and nothing locks a row between the Get and the Set of an
  update.
* `ensureMasterAdmin` runs before the server listens, so it interleaves with no
  handler of its own process, but with what handlers of earlier lives left.
* The orchestrator starts API and WEB as child processes and talks to them over
  HTTP; a health check is answered by whoever holds the port.
* A shutdown is requested by a signal or over HTTP; both reach the same
  `sync.Once`.

## 2. The modules

| module | models | EXTENDS |
|---|---|---|
| `Roles` | the role tables and predicates | |
| `Accounts` | all account handlers on one store: registration, login, refresh, forgot and reset password, role endpoint, payment webhook, failures, restart | `Roles` |
| `AccountsProvenance` | `Accounts` with the history *who was entitled to which role and password* | `Accounts` |
| `AccountsRaces` | `Accounts` with the history *what was written last, what raced* | `Accounts` |
| `AtomicAccounts` | the abstract accounts: every change is one step on one column | |
| `MasterBootstrap` | the start of the API process around `Accounts`: migrations, `ensureMasterAdmin`, then any handler, and again | `Accounts` |
| `ServerShutdown` | the end of cmd/api and cmd/web | |
| `Orchestrator` | cmd/orchestrator with the local backend and the processes it starts | |
| `Backends` | the docker, kubernetes and systemd backends | |
| `LogWindow` | the abstract log sink: the last entries posted | |
| `LogSink` | the log sink with its two slices and its listing | |
| `LogForwarding` | the loggers of a process, their queue and worker, and the network in front of the sink | `LogSink` |
| `ImageOptimizer` | the pass over the images at the start of cmd/web | |
| `Requests` | players, workers and clock of the O2UL endpoints | |
| `Profiles`, `Preferences`, `Presence`, `Notifications`, `Files` | one or two tables each, with the handlers that write them | `Requests` |
| `LightClient`, `Wallet` | header ranges; spends, approvals and proofs | `Requests`, `LightClient` |
| `Backfill` | cmd/migrate o2ul-slice1-backfill on the tables of the profiles and preferences | `Profiles`, `Preferences` |
| `Platform` | the composition of the O2UL endpoints and the backfill | `Backfill`, `Presence`, `Notifications`, `Files`, `Wallet` |
| `*Proofs` | the theorems of section 5 | the module they are about, `TLAPS` |
| `MC*` | values of the constants for TLC | one of the above |

### Accounts

`users` and `resetTokens` are the two tables, `sessions` the claims of all
unexpired access tokens (a signed token needs no server state), `mailed` the
raw tokens that reached their owner (the table keeps only hashes), `indexed`
whether the database has the unique index on masters, and `req` what each
worker is doing. A worker is a goroutine of `net/http` in a handler that has
more than one call to make.

The grain is one action per call of the store or of the mail server, because
another request may run between two calls:

| code | actions |
|---|---|
| `AuthService.Register`, `Login`, `RefreshToken` | one action each: one write, or reads followed by a signature |
| `AdminHandler.UpdateRole`, then `UserRepository.UpdateRole` | `RequestRole` (claims and target checked), `GetRow`, `SetRow` |
| `HandleWebhook`, `promoteSubscriberIfEligible` | `Webhook` (row read), `GetRow`, `SetRow` |
| `ForgotPassword` | `ForgotPassword` (user looked up), `CreateToken`, `SendMail` |
| `ResetPassword` | `ResetPassword` (token validated), `GetRow`, `SetRow`, `MarkUsed` |
| any error of a call | `Fail`: the handler answers with the error and stops there |
| expiry of 24 hours or 30 minutes | `ExpireSession`, `ExpireToken` |
| the process dies | `Crash`: requests vanish, tables, mails and signed tokens stay |

Abstracted: a password stands for its hash, a user for id, e-mail and username;
passwords are checked by equality. `MarkUsed` is one action although it reads
and writes a whole row too: nothing else rewrites the row of a token. One Get or
Set of the datastore is taken as atomic and as reading the last write; the
library is not part of the repository.

The histories only observe. `granted` and `chosen` judge entitlement by
priorities and by the state of the token, not by the guards the handlers use, so
a wrong guard in a handler shows. `latest` holds for each user the columns that
the last writer of each wanted; `raced` the users with a role update and a
password update between their calls at once; `spent`, `respent` and `disturbed`
follow a token through resets.

`AtomicAccounts` is what the handlers promise to whoever looks at the tables: a
user registers, gets a role, or gets a password by a token, and each of these is
*one* step that changes *one* column. The code makes each of them of a read and a
write of the whole row, a reset of five calls, and a role change of a check
on one read and a write of another. `AccountsRaces!UpdatesAreAtomic` is its
specification under the mapping

| abstract | in `AccountsRaces` |
|---|---|
| `rows` | `RowsKept`: the rows of the users that no race has touched (`users` outside `raced`) |
| `owner` | `TokenOwners`: whom each token was made for |
| `spent`, `forfeited` | `spent`; `disturbed`: the tokens of a reset that was cut off or entered twice |

What the code does not promise is in the abstract module by name: `LoseRow` (two
updates of one user have crossed) and `Forfeit` (a token may work again). An
abstract step never makes a lost row whole again, never gives a guest another
role than `registered`, and never lets a token set a password it does not own.

### MasterBootstrap

`phase` is the position in `main` of cmd/api. `BInit` is a database older than
the index: it may hold several masters. `Migrate` applies
`000002_enforce_single_master_admin.up.sql` (keep one master, create the
index) or not at all: `migrations/` has two files with the number 000002, and
which of them counts as applied is decided by the library, so both outcomes are
modelled. Then `Lookup`, `CreateMaster` or `PromoteMaster`, `ListUsers` and one
`DemoteExtra` for each other master, each of which may fail (`BootFails`, a
`log.Fatalf`) or be cut off (`Stop`). `Serve` is any step of `Accounts`.
`Start(m)` begins again with any configured master, or none.

### ServerShutdown

`closer` is the goroutine of `requestShutdown` with the phase it runs, `main`
the main goroutine. `MainWaits` tells the two programs apart: cmd/api waits for
`shutdownDone`, cmd/web does not. `EndDrain` may happen with requests still in
flight: that is the timeout of the phase (`expired`). `Snapshot` and
`CloseDatastore` are calls of the datastore that ignore the context of their
phase: `RunShutdownPhases` waits for them, however long they take. `ListenFails`
is the `log.Fatalf` of a process that cannot bind its address. A listener that
breaks while the process serves ends it the same way, as any crash would, and is
not modelled.

### Orchestrator

An instance is the process that was started (`started`) and the server in it
(`server`, `up` once it listens). With the default command, `go run`, these are
two processes and killing the first leaves the second: constant `GoRun`. The
port of a service is held by one server at a time. `main` walks through managed
startup (spawn the API, wait for health, spawn WEB, wait for health, listen) and
the shutdown phases; spawn and despawn requests, the goroutine that waits for
each child (`Reap`) and the shutdown signal interleave with it. `Dies` is a
crash at any time; `Start` starts it again, with an empty registry and the old
processes still there. `Despawn` stands for the look-up, the kill and the
deletion of the entry: it may leave the entry, which `Reap` deletes later, since
others see it between the kill and the deletion, and since the kill of a process
that has ended may fail. `by` and `excused` are histories.

### Backends

The three adapters have one shape: `Spawn` runs a command and then registers
the unit under a new id, `Despawn` looks the id up, runs a command and deletes
the entry. Each of these steps is an action, because the mutex is held only
inside the registry. `kind` is the adapter, `units` what the tool knows (a
container that has exited still has its name; a transient systemd unit has
not), `meta` the registry. A command may have its effect and still report an
error, which is what a killed client looks like. `Restart` forgets the registry
and leaves the units. `started` and `spoilt` are histories.

### LogWindow, LogSink, LogForwarding

`LogSink` has the two slices `logs` and `logTimes` of `orchestrator_handler.go`
and the listing as an operator with the code's three cases: no `since`, a walk
from the newest entry backwards until `limit` are found, or all that match. A
walk (`Walk`) is a function of the number of entries it has passed, and `Collect`
the body of both loops. `IsListing` says what a listing is without a walk: its
positions map, in order, into the entries that are wanted, and what it leaves out
is older than all it shows. `Window` pairs the slices up, and `LogWindow WITH window <- Window`
is the abstract sink; the property `ShowsTheWindow` is its specification.

`LogForwarding` puts the loggers in front. `Stamp` and `Offer` are the two steps
of a goroutine that logs (the clock is read before the entry enters the
channel), `TakeAndPost` the worker, `Answered` and `TimesOut` the end of its
post, `Deliver` the arrival of an entry at the sink, which may be after the
timeout. An entry on the wire may also never arrive. `RestartAPI` loses the
channel, `RestartOrchestrator` the sink.

### ImageOptimizer

One action per step of one image: the deadline is looked at, the file read,
encoded, its temporary file written, renamed; then the next. Every read or
write may fail, with what the code does about it: the entry of the manifest is
kept from what was read (`Keeps`). `saveManifest` is the end of the pass, and
may fail too. A deployment (`Deploy`) writes an image at any time, as the images
are files of the web root; `Stop` ends the process anywhere. A content stands
for the bytes and their fingerprint, and `Reencodings[c]` is the least set that
has `c` and the smaller encodings of what it has. `latest`, `overrun`, `left` and `settled`
are histories.

### The O2UL tables

Every table is written as the accounts are: a handler reads a row, changes it
and writes it back, and the read is dropped if it fails. The grain is the same,
one action per call, and a failing call ends the request.

| module | code | what the histories hold |
|---|---|---|
| `Profiles` | `InitUser`, `UpdateProfile`, `UpdateBackground`, `DeletePlatformData` of `o2ul_users_service.go`, `SyncProfile` of `o2ul_authsync_service.go`: `Ask`, `ReadUser`, `GetByPlayerID`, `Upsert` | `acked`: what the answers have told the user; `disturbed`: whose row a lost read or an overrun write has written |
| `Preferences` | `UpdateMode`, `UpdateCallingState`, `UpdateOAuthProviders`: `ReadPreferences`, `WritePreferences`; the settings of players in one write | `chosen`, `mislaid` likewise, column by column |
| `Presence` | `UpdatePresence`, `SetOffline`, `GetCCUMetrics` | `heard`: the last heartbeat of a user that none overtook; `mixed` |
| `Notifications` | subscriptions by id and endpoint; notifications with their attempts | `live`, `gone`, `used`; `reported`, `muddled` |
| `Files` | `AddFile`, `RemoveFile`, look-ups by id and MD5 | `owned`, `given`, `shared` |

Columns that the properties cannot tell apart are left out: five of the
eighteen columns of a profile stand for the rest (`Profiles` says which). Ids
are made from the clock in nanoseconds, so the clock `now` of `Requests` may
stand still stand still between two requests, and then they get one id. The readers of the
profiles (`GetPublic`, `GetCurrent`, `Viewer`) ignore a failed read as the
writers do, and answer as for a player without a profile.

`Backfill` is a process of its own beside the API: `LookUpUser`,
`ImportProfile` and `ImportPreferences` write the same tables without a read,
`BackfillFails` ends a run anywhere, and `StartBackfill` begins again with the
first entry.

### LightClient and Wallet

A block stands for its header. `Parent` and `Number` are constants, and
`BlocksAssumption` says that a number is one more than the parent's;
`Ancestors[b]` is the least set that has `b` and the parents of its blocks. The node moves to any chain between two calls
(`Reorganise`), and answers a call with any header of the chain it is on: the
number of a header is taken from the response and never compared with the one
asked for. The client fetches a range call by call, and accepts it when each
header has the number after that of the one before it, which is its parent.

`Wallet` has two halves. Spending: build, sign and submit are requests of their
own that check nothing of one another. Build answers a payload and keeps nothing
(`BuildSpendTransaction` is a condition, with sums modulo `2^Width`, as `uint64`
in the code). Sign takes any payload with enough factors; `signed` is the history
of the envelopes the service made. Submit takes any payload, bare or in an
envelope with the wallet's name and some signature, which nobody verifies: a
transaction stored as `signed` need not have been signed. Proving: one request
fetches a range, has the guard authorise it and asks a prover; the guard counts
factors, not assertions.

### Platform

The tables share the clock and no row. Their product would multiply the states
and show nothing new, so `focus`, chosen at the start, names the table (or the
half of the wallet) whose requests run; the proofs of section 5 show that the
platform takes no other step on a table than those of its own specification.
What does interact is composed: the backfill beside the requests of the profiles,
and beside those of the system preferences.

## 3. What the runs check

All passing runs end within their bound; the state counts are distinct states,
after symmetry.

| run | instance | states | what holds |
|---|---|---|---|
| `accounts` | two accounts, a token, two passwords, two workers | 974,352 | `HTypeOK`, `RoleProvenance`, `PasswordProvenance` |
| `accounts_races` | a moderator, and a guest or a free address, one token, two workers | 2,669,074 | `UpdatesStick`, `TokenSpentOnce`, the refinement `UpdatesAreAtomic` |
| `master_bootstrap` | two possible masters or none, with and without the index, two workers | 1,521,424 | `AtMostOneMaster`, `OnlyConfiguredMaster`, `BootEstablishesMaster` |
| `server_shutdown` | cmd/api with three requests | 422 | `DrainedOrExpired`, `OnlyTheStoreHolds` |
| `orchestrator` | three instances, two starts | 27,706 | `TypeOK`, `Tracked`, `CleanExit`, `StopsEventually` |
| `backends` | each of three kinds, two names, three ids, three workers | 109,750 | `TypeOK`, `UnitsTracked`, `ListedIsThere` |
| `log_sink` | two loggers, four entries, a channel and a sink of two | 167,505 | `ForwardingTypeOK`, `ListingsExact`, `PostedInOrder`, the refinement `ShowsTheWindow`, `QueueDrains` |
| `image_optimizer` | two images, five contents, all modes | 606,936 | `TypeOK`, `DeploymentsKept`, `OnlyChanged`, `ServesAfterPass` |
| `platform` | two players, two workers, an export of three entries, two forks of five blocks, three spends, four approvals | 751,895 | `PlatformTypeOK`, `AnswersKept`, `ImportComplete`, `ChoicesKept`, `CountsAreHeard`, `SeenForward`, `SubscriptionsKept`, `RemovalsHold`, `ReportsKept`, `FilesKept`, `RangeIsOneChain`, `MarksFollowTransactions`, `EnoughApprove` |
| `reset_sticks`, `master_exactly_one`, `web_shutdown` | | | violated, see section 6 |

What the less obvious ones say:

* `RoleProvenance` is about stale data: a row read before a demotion and written
  back after it, or a token kept for a day, may *revive* an old role. It can
  never produce one that nobody granted.
* `UpdatesStick` bounds the lost updates of the whole-row writes: the columns of
  a row are what their last writers wanted, unless a role update and a password
  update of that user overlapped. Two overlapping updates of one column lose
  nothing of the other.
* `TokenSpentOnce` states what marking the token late costs: a token sets a
  password twice only if two requests carried it at once, or one was cut off
  after it had validated it.
* `UpdatesAreAtomic` is the refinement of `AtomicAccounts`. It contains the guest
  gate: the endpoint checks a row that it has read, and the write reads the row
  again, so that only a user on whom two updates cross can get past it.
* `OnlyConfiguredMaster` relates the row written back by a slow request to the
  configuration of the running process. It holds because requests die with their
  process, and fails without the demotion of other masters at the start.
* `OnlyTheStoreHolds`: once asked to stop, cmd/api exits, or it is in one of the
  two phases that call the datastore and stays there. No handler and no request
  can hold it up, although the drain waits for them.
* `CleanExit` excuses only instances spawned after the despawn phase had taken
  its snapshot of the registry.
* `UnitsTracked`: overlapping and failing despawns may leave entries that stand
  for nothing, but never a running unit without an entry. `ListedIsThere` says
  when an entry of docker and kubernetes may stand for nothing; a systemd unit
  may end at any time without the adapter knowing.
* `ListingsExact` compares the three cases of the listing with one definition:
  of the entries not before `since` the last `limit`, oldest first. It judges an
  entry by its own time, the code by the second slice. Times in the sink are not
  in order (a goroutine reads the clock and may lose the race for the channel,
  and foreign entries have no time), so the walk must not stop at the first entry
  that is too old.
* `PostedInOrder` gives the price of a timeout: only an entry whose post was
  given up can be out of order.
* `AnswersKept`, `ChoicesKept`, `CountsAreHeard`, `ReportsKept` are the same
  question put to four tables: is what a reader sees what the writers were
  told? Each excuses only the overlaps and failed reads the code does not
  survive, and the excuse ends where the row, or the column, is known again: a
  profile that is deleted or imported, a column that is set anew, a later
  heartbeat that nothing overtook.
* `SubscriptionsKept` is why removal may be a search and a delete: a delete
  takes a *key*, and keys are new, so a late one takes nothing else.
* `DeploymentsKept` is why the optimizer may be killed: a rename replaces a file
  by an encoding of what it held, unless a deployment came in between.
* `RangeIsOneChain`: the node may reorganise between the calls of a range and
  answer with any number, and the links still make an accepted range a piece of
  one chain, without gaps and as long as the range asked for. That it starts
  where it was asked to rests on the node.
* `EnoughApprove` is about what the service signs and proves, not about what it
  stores.
* `MarksFollowTransactions`: two maps under one mutex, and no scan offers a note
  that a stored transaction spends.

Bounds, and why they are enough:

* *Two workers*: every race of the tables is between two handlers on one row; a
  third adds no new pair of read and write. They are interchangeable, so the
  runs use symmetry (runs with liveness do not). The backends have three, since
  two overlapping despawns and a spawn of the same name are one question.
* *Two or three users*: the properties speak of one user, or of the caller and
  the target. `Subjects` bounds whose profile and presence change to one, since
  the rows of two players never meet.
* *One token, two passwords*: the token properties are about one token used
  more than once, with another password each time.
* *`MaxSessions = 1`*: unexpired tokens at once. Token expiry is an action, so
  any sequence of tokens occurs; the properties never relate two of them.
* *`MaxStarts = 2`*: the second start is the one that meets what the first left.
  The backfill may be started any number of times.
* *`MaxTime = 2`*: before and after; two requests in one tick share their id.
  `Minute = 0`, `Day = 0`, `Month = 1` put a heartbeat inside one window and
  outside another.
* *`Capacity = 2`, `QueueSize = 2`, `MaxEntries = 4`*: the sink cuts twice and
  the channel is full before it drops.
* *Two images*, one of which shrinks twice, one never and one is no image: a
  pass that is cut between the two is the case that matters.
* *Three ids, two names*: two ids can stand for one name while a third is made.
* *`Width = 6`*: amounts below 64, so that one of the spends wraps around.
  *`MaxNumber = 2`*: the numbers of a range that is asked for.
* *Two forks over one first block*: a range may begin on one and end on the
  other. *`MaxProofs = 1`*: proofs share nothing but the node; `MaxBusy = 1`:
  the backfill is the other actor.
* *`RequestedRoles`* names the roles clients write in payloads; each run takes
  the ones its question is about. The theorems hold for all of them.

A property is accepted only if a plausible bug in the code breaks it: every
module carries mutants (operators marked *Mutant of ...* before the definition
they replace, used by no specification), and for each property of each passing
run `PROJECT.json` names the mutant that violates it under the same
configuration.

Deadlock is checked for the account modules, the bootstrap, the log sink and the
optimizer, which never stop. `ServerShutdown` ends when the process has exited,
and `Orchestrator`, `Backends` and `Platform` when all ids, starts and ticks are
used, so these configurations turn the check off.

## 4. Fairness

The account modules, the bootstrap, the backends and the platform state safety
only: clients need not ever send anything. Liveness is stated where the code
promises it:

* `ServerShutdown`: weak fairness of the drain phase and of `main`. Goroutines
  are scheduled, and `RunShutdownPhases` gives the drain a context with a timeout
  which `server.Shutdown` honours. Nothing is assumed of handlers: a request may
  stay in flight forever. Nothing is assumed of the two phases that call the
  datastore either: they ignore their context, and `RunShutdownPhases` waits.
* `Orchestrator`: weak fairness of the receive from the shutdown channel and of
  the phases: the despawn phase makes system calls that return, the requests
  and the drain take their context; a failed despawn is counted and skipped.
  Nothing is assumed of the child processes, of clients, or of the startup,
  which a health check may hold up until its timeout.
* `LogForwarding`: weak fairness of the worker, which is a loop over the channel,
  and of the end of its post, because the HTTP client has a timeout. Nothing is
  assumed of the sink, the network or the goroutines that log: `QueueDrains`
  holds with a sink that never answers.
* `ImageOptimizer`: weak fairness of the pass, which is sequential code that
  goes on if it can. `ServesAfterPass` says that a started process gets to
  serve, or ends; no deployment, failure or deadline can hold it up.

## 5. What is proved

Eight modules hold theorems checked by TLAPS for every value of the constants.
Nothing is assumed but the named assumptions on the constants (`...Assumption`:
the constants have the types their comments give, and a few bounds are not zero;
`NoneIsNo...`: `None` is none of the values it stands beside). TLC evaluates
them in the runs of these modules.

### AccountsProofs

For any finite or infinite sets of users, passwords, tokens and workers, any
initial store, any payload roles and any bound on sessions:

| theorem | statement |
|---|---|
| `AssignersOutrank` | `CanAssignRole(a, r)` implies that `a` has a strictly higher priority than `r` and at least that of a moderator, and `r` is neither master nor guest |
| `InvariantHolds` | `HSpec => []IInv` |
| `TypesHold` | `HSpec => []HTypeOK` |
| `RolesAreGranted` | `HSpec => []RoleProvenance` |
| `PasswordsAreChosen` | `HSpec => []PasswordProvenance` |

The provenance properties are not inductive: a `SetRow` writes what was read or
asked for earlier, so the invariant has to follow the data through the request.
`PendingProvenance` does. It says of every request in flight that the fields its
next call needs are there, that the role it is about to write was granted to its
user, that the password it is about to write was chosen by its user, and that
both columns of the row it has read were granted and chosen. With
`IInv == HTypeOK /\ RoleProvenance /\ PasswordProvenance /\ PendingProvenance`
the proof has one lemma per action. `GetRow` moves a fact about `users` into
`req`, `SetRow` moves it back, `RequestRole`, `Webhook` and `ResetPassword`
establish it, where `AssignersOutrank` and `RegisteredRank` connect the guards
of the handlers with the independent judgement of `granted`. `granted` and
`chosen` only grow, so what is in flight stays accounted for (`PendingKept`).

### ServerShutdownProofs

For any set of requests, where `MainWaits` holds (cmd/api):

| theorem | statement |
|---|---|
| `PhasesHold` | `Spec => []SInv` |
| `RequestsDrain` | `Spec => []DrainedOrExpired` |
| `StoreClosedAtExit` | `Spec => []ClosedAtExit` |

`PhaseInv` says what each phase leaves behind: the listener is open exactly
until the drain begins, the store is closed exactly when the goroutine is done
(or the process could not listen, and then nothing was accepted),
nobody has timed out before the drain ends, and afterwards whoever is still in
flight has. A request can only be cut by a closed store or by the exit of
`main`, and both lie behind the drain.

### OrchestratorProofs

For any number of instances and starts, and for both values of `GoRun`:

| theorem | statement |
|---|---|
| `RegistryHolds` | `Spec => []OInv` |
| `NothingUntracked` | `Spec => []Tracked` |
| `NothingLeftBehind` | `Spec => []CleanExit` |
| `RegistryTypes` | `Spec => []TypeOK` |
| `DespawnComesFirst` | `Spec => KilledNotAsked` |

`TypeOK` says more than types: every id that is listed, about to be, or still to
be despawned is that of a process that was started. `Tracked` needs `Known` (a
start is newer than every id it has not spawned, and ids are not reused). `CleanExit` needs three more facts: `Spawning` (a spawn
call that has not registered yet is in no list, so the despawn phase cannot
skip a live instance because its entry is missing), `Covered` (a live process of
this start is either still to be despawned or excused, and after the phase
excused) and `Single` (a direct command leaves no server when it is killed).
Three lemmas carry the steps: `MoveOInv` for those that only move `main` or a
server, `ShrinkOInv` for those that end processes or delete entries, and
`StartProcessOInv` for those that start one.

`KilledNotAsked` says what the order of the phases amounts to: where the command
is the server, the phases that ask for a shutdown (`RequestManagedShutdown`) reach
no server of this start but those spawned too late for the snapshot of the
despawn phase. The managed API is killed, never asked, so that the drain of
`ServerShutdown` does not run in it. It follows from `Covered` and `Single`:
only those phases add to `stopping` (`AskedInPhases`), and whoever is up then and
of this start is excused. With `go run` the servers outlive the despawn phase and
are asked.

### AccountsStoreProofs

For any users, tokens, workers, stores and configurations:

| theorem | statement |
|---|---|
| `UpdatesAreKept` | `RSpec => []UpdatesStick` |
| `TokensAreSpentOnce` | `RSpec => []TokenSpentOnce` |
| `AccountsAreAtomic` | `RSpec => UpdatesAreAtomic`: the handlers implement `AtomicAccounts` |
| `GuestsRegisterFirst` | `RSpec => GuestGate`: no single write makes a guest more than registered |
| `NeverTwoMasters` | `BSpec => []AtMostOneMaster` |
| `OthersAreNoMasters` | `BSpec => []OnlyConfiguredMaster` |
| `StartsEstablishTheMaster` | `BSpec => BootEstablishesMaster` |

All rest on `AInv`: the type invariant of `Accounts` and `WellFormed`, which
says what a request must hold for its next call (a role or a password and its
token, never the role of a guest or of the master, and a row only where there is
one). `RInv` adds, for tokens, that an undisturbed token is carried by one
request that has not set the password before its `Set` (`ResetAlone`, with
`SpentIsMarked`), and for updates that the other column of a row that was read is
what its last writer wanted (`RowsLatest`). `GateInv` says the same of the
guest's role, and the action property follows from it.

The refinement goes step by step. Most actions change nothing an observer of
`AtomicAccounts` sees (`Unseen`: reads, mails, sessions, checks). `Register` and
`CreateToken` map to themselves, a `SetRow` to `AssignRole` or `ResetPassword`
of an accounted-for row, as `RowsLatest` says that the other column it writes is
the one that is there, and to `LoseRow` when it crosses another update
(`AtomicSetRow`); an action that ends or starts a reset may map to `Forfeit`.
`OwnInv` is what the mapping needs beyond `RInv` and `GateInv`: the token a
request carries was made for the user whose row it writes, and a token is only
made for a user with a row.

`MInv` serves the bootstrap: with the index there is one master at most; how far
a start has come (`BootProgress`: whom it has found, which masters are left to
demote, and that no request is in flight before it serves); and while it serves,
nobody but the configured master has the role *or is about to have it written
back* with a password (`CarriesMaster`). What any handler can do to the set of
masters is one lemma, `ServedMasters`.

### PlatformProofs

For any players, workers, clock, export, spends, approvals and blocks:

| theorem | statement |
|---|---|
| `PlatformTypes` | `PlatformSpec => []PlatformTypeOK` |
| `PlatformDoesPresence`, `PlatformDoesNotifications`, `PlatformDoesFiles`, `PlatformDoesWallet` | `PlatformSpec` implies the specification of that table or service: the composition takes no other step on it |
| `AnswersStay` | `PlatformSpec => []AnswersKept` |
| `BackfillsAreComplete` | `PlatformSpec => []ImportComplete` |
| `ChoicesStay` | `PlatformSpec => []ChoicesKept` |
| `CountsStayRight`, `SeenGoesForward` | `PlatformSpec => []CountsAreHeard`, `PlatformSpec => SeenForward` |
| `SubscribersStay`, `RemovedStaysRemoved`, `ReportsCount` | `SubscriptionsKept`, `RemovalsHold`, `ReportsKept` |
| `FilesStay` | `PlatformSpec => []FilesKept` |
| `SpendsAreApproved` | `PlatformSpec => []EnoughApprove` |
| `MarksStay` | `PlatformSpec => []MarksFollowTransactions` |
| `RangesAreChains` | `PlatformSpec => []RangeIsOneChain` |

Each table has its own invariant of one form: the row is what the history says,
and *what each request in flight is about to write is made from the row that is
there*, unless it is marked (`WritesWhatItRead`, `SetsItsColumns`, `ReportsHeld`,
`DeletesTheRow`, `SparesTheLive`, `TimesInOrder`). A step that writes a row marks
every other request that has read it, so the first part survives (`Overrun...`).
For a profile `ChangedShows` is the heart: whatever the request, the row it makes
of a row that shows what the user was told shows what the user is told then.
The readers may find nothing (a failed read) and then answer as for an empty row.
`JobInv` counts the entries a backfill has passed (`DoneBefore`).
`SpendsAreApproved` needs one fact about the guard for every list of assertions:
the assertions it counts map one to one into the factors that approved
(`ApprovedAreApprovers`).

`RangeSound` is the invariant of a range in the making: it has no more headers
than were asked for, and once it is verified it is complete and each header has
the one before it as its parent. Whatever the node does between two calls only
chooses the next header. That such a range is a piece of one chain is then a fact about blocks, not about steps: by induction over the
position, counted back from the last (`HeadersAreAncestors`), every header is an
ancestor of the last one, and the numbers are consecutive, counted from the
first (`HeadersAreConsecutive`, `SoundIsOneChain`). The induction needs no rule
with an operator parameter: `SetOfAllNaturals` states it for a *set* of numbers, and
follows from the well-foundedness of `<`.

`MarksInv` reads the two maps note by note (`SpentBy`); that no scan offers a
spent note follows for every limit (`MarksInvSuffices`).

An entry of an export may have the time of creation zero, which the backfill
passes on and a later request takes for missing (`Told`). The code relies on
`UserName` naming every player, which is an assumption.

### LogForwardingProofs

| theorem | statement |
|---|---|
| `SinkShowsTheWindow` | `SinkSpec => ShowsTheWindow`: the two slices implement `LogWindow`, for any capacity |
| `LoggersUseTheSink` | `Spec => SinkSpec`: the loggers take no other step on the sink |
| `LoggersShowTheWindow` | hence `Spec => ShowsTheWindow` |
| `ForwardingTypes`, `SinkKeepsTheOrder` | `Spec => []ForwardingTypeOK`, `Spec => []PostedInOrder` |
| `ListingsShowTheNewest` | `Spec => []ListingsExact` |
| `AnyListingShowsTheNewest` | `Spec => []EveryListingExact`: the same for every `since` and `limit` |

`SinkInv` says that the slices are equally long, hold the times of their entries
and are no longer than the capacity; with it each step of the sink is a step of
the window. For the order, `ForwardingInv` follows an entry through the channel:
the queue is in order and behind everything taken out of it (`QueueInOrder`,
`Taken`), the entry being posted is the newest of those (`PostingNewest`), and
any other entry on the wire has timed out (`WireLate`).

For the listings, `TimesInv` says that the slices are cut alike, position by
position: `logTimes[i]` is the time of `logs[i]`. The rest is about the walk, for
one state. `WalkFound` is its loop invariant: after `n` steps the entries found
stand at rising positions of the order, and a wanted entry among the first `n` is
one of them unless the limit was reached before it. `CollectFinds` is one step,
`WalkFinds` the induction (again by `SetOfAllNaturals`), and `NewestListed`,
`SinceListed`, `NewestSinceListed` read the three cases of `ListLogs` off it, the
last one through `Reverse`.

### BackendsProofs

| theorem | statement |
|---|---|
| `TypesKept` | `Spec => []TypeOK` |
| `NoUnitLost` | `Spec => []UnitsTracked` |
| `ListsTheUnits` | `Spec => []ListedIsThere` |

`Holds(i, n)` says that id `i` stands for `n`, or will once its spawn registers,
and is not about to be deleted. Every started unit that runs is held
(`RunningHeld`); in docker and kubernetes an unspoilt name is held by one id
(`HeldAlone`). Both need that an id is taken once and known to nobody before it
is registered (`IdsFresh`).

### ImageOptimizerProofs

For any images, contents and encoder:

| theorem | statement |
|---|---|
| `OptimizerTypes` | `Spec => []TypeOK` |
| `UnchangedIsLeftAlone` | `Spec => []OnlyChanged` |
| `DeploymentsStay` | `Spec => []DeploymentsKept` |

The invariant
`OInv` relates the history to the two manifests: what a pass has left behind is
what its next manifest says (`left` and `entries`), and what the last saved pass
left behind is what the manifest on disk says (`settled` and `manifest`).

`DeploymentsKept` is inductive beside `OInv`: the one step that writes an image
from what was made earlier is `Rename`, and unless a deployment
came in between (`overrun`) the bytes it was made from are the ones it replaces.
`ReencodingsClosed` carries the chain on by that one encoding.

### Only model-checked

Every invariant and every action property of the passing runs is stated by a
theorem. What is left to TLC are the four liveness properties: `OnlyTheStoreHolds`,
`StopsEventually`, `QueueDrains` and `ServesAfterPass`. Their proofs need fairness
and `ENABLED`, which TLAPS does not handle here. The runs of section 6 end in
counterexamples, so there is nothing to prove.

## 6. Where code and documentation disagree

Three have a run with a counterexample.

| run | what the counterexample shows |
|---|---|
| `reset_sticks` | A role update (or a payment) reads the row, a reset sets the new password, the role update writes the row back: the old password works again, though the reset was answered with success. `auth_service_test.go` expects the old password to stop working. |
| `master_exactly_one` | README says exactly one master is enforced. The webhook compares the role it finds with `subscriber` only, so an accepted payment of the master makes them a `subscriber`, and nobody is master until the next start. The role endpoint leads there, too: it checks the role handed out, not the one the target has, so staff may make the master `registered`. |
| `web_shutdown` | `.env.example` announces a shutdown timeout per phase. In cmd/web `main` returns as soon as the listener is closed and cuts the requests in flight. |

Six more have a configuration beside the modules that is run by hand
(`tlc -config <file>.cfg <module>`) and ends in a counterexample:

| configuration, module | what it shows |
|---|---|
| `MCAccountsWebhookPromotes.cfg`, `MCAccountsRaces` | README says payments promote to `subscriber`. The webhook compares with `subscriber` only, so a paying moderator, sysop, admin or master is demoted. |
| `MCMasterReconciles.cfg`, `MCMasterBootstrap` | With another `MASTER_ADMIN_EMAIL` the start creates or promotes the new master before it demotes the old one. The unique index refuses that, and the start ends in `log.Fatalf` each time. |
| `MCWebAfterItsApi.cfg`, `MCOrchestrator` | README says WEB starts after API health is ready. After a crash of the orchestrator the old API answers the health check while the new one cannot bind the port. |
| `MCApiShutdownTimed.cfg`, `MCServerShutdown` | `.env.example` announces a timeout of the shutdown and of each phase. cmd/api may stay in `close_datastore` forever: `ExitsEventually` fails. |
| `MCWalletBudget.cfg`, `MCPlatform` | `o2ul_wallet_service.go` refuses to build for an "insufficient note input budget for amount+fee". The sum wraps around, and a spend beyond its notes is built: `BuiltWithinBudget` fails. |
| `MCWalletRange.cfg`, `MCPlatform` | The range of headers a proof relies on need not be the one asked for, if the node answers with other numbers: `RangeAsAsked` fails. |

What the properties of section 3 excuse is worth knowing, too, though no document
promises otherwise: two overlapping resets can both spend one token; a payment
event that a provider repeats after a promotion to moderator demotes again; a
read that fails lets a profile update overwrite the row with little more than
its patch; two administrators lose a change of the system preferences; a restart
of the API offers spent notes again; an image whose encoding failed is not tried
again in mode changed; a reader whose read fails shows a player without a
profile; the backfill skips a profile whose user it could not read, as if the user were
missing, and ends without an error; a submitted envelope is stored as signed whatever its
signature, so that the status of a transaction says nothing of its approval.

## 7. What is not modelled

* The frontend runtime (`web/src/htmx.ts` and beside it): a port of a library,
  event handlers on a DOM.
* The static file server, whose only state is its process (`ServerShutdown`) and
  the images (`ImageOptimizer`).
* Configuration: pure parsing, the outcomes of which are constants. Its default
  for the managed commands is `go run`, where killing the process leaves the
  server it has built; `GoRun = TRUE` of `Orchestrator` has that, and the run
  takes the direct command.
* Verification of provider signatures and JWTs, hashing, SMTP dialogue, command
  line tools, the image encoder: external functions that succeed or fail.
* Checkout sessions, list pages and the list of OAuth providers: no state of
  theirs meets a property. `(page - 1) * pageSize` of the list of profiles
  overflows for absurd pages; nothing is stated about it.
* `VerifyInclusionProof` and `AuthorizeRecovery`: nothing calls them but tests.
* `for n <= end` in the light client never ends where `end` is the largest
  `uint64`; the model's numbers are small.
* Strata's caches. Every schema asks for write-through; what several API
  processes with caches of their own would see depends on a library that is not
  in the repository.

## 8. Plan

What would add most from here:

1. The composition of `Orchestrator` with `ServerShutdown`. `KilledNotAsked` is
   the orchestrator's half; what it means for requests in flight in the managed
   API is a property of both. It needs `ServerShutdown` as the refinement of the
   two-state server `Orchestrator` sees (up, then gone).
2. The tables of the platform as implementations of tables whose rows change in
   single steps, as `AtomicAccounts` is for the accounts. The invariants of
   `PlatformProofs` have the facts such a refinement needs.
3. Several API processes on one datastore. The races of `AccountsRaces` are
   those of workers on one store already; what a cache per process adds depends
   on the datastore library.

The suite is kept to twelve runs, nine that pass with forty properties and three
that end in a counterexample of one each, so that it stays quick enough to be run
with every change. A new question takes the place of one that
is settled, as the configurations of section 6 that are run by hand have made room.
