# proxy-gateway: a formal model

TLA+ modules, TLC configurations and TLAPS proofs for the control plane of
proxy-gateway, a Go service that hands out dynamic proxy leases and keeps a
Mihomo process (the data plane) configured to serve them. Every definition is
written from the Go source; `PROJECT.json` maps each one to the lines it stands
for. Paths below are relative to the repository root.

## 1. Inventory

| Component | State it keeps | Operations | Correct when |
|---|---|---|---|
| Dynamic leases (`internal/app/lease`) | none of its own: it moves the state of the five components below | acquire, reuse, replace, release, expire, clean up, restore | a lease that ended stays ended; nothing a lease owned outlives it or is forgotten; an account has one active lease; an active lease is served and counted |
| Lease fact stores (`internal/app/store`) | one record per lease id: status, cleanup labels, final status | upsert; queries by account, session, expiry, pending cleanup, restorable | - |
| Redis locks (`internal/app/lease_runtime_locks.go`) | account, provider-account and listener-allocation locks with a time to live | lock, renew, unlock, "lock lost" | one holder at a time |
| Concurrency limiter (`internal/app/provider/concurrency`) | sorted set of holders per provider account | acquire, refresh, release, prune | never more holders than the limit; a served lease holds its slot |
| Mihomo driver (`internal/sourceplane/mihomo`, `internal/processruntime`) | desired base configuration, session routes, signatures of what was applied, the child process | apply, upsert and delete route, reconcile, reload, roll back, restart, stop | the process runs what was last applied; it is restarted only when it has to be |
| Dynamic IP providers (`internal/provider`) | sessions open at the provider (stateful ones) | create, fetch nodes, release | no session is forgotten |
| Runtime and reconcile loop (`internal/app/runtime*.go`) | request channel, dirty marks, reconcile status | request, refresh, apply, restore | every change of the settings is applied at last |
| Endpoint selection (`internal/app/dynamic`, `geox`, `ipgeo`) | lease records of the last hours, as health | take an endpoint's region from its host name and the geo providers, rank and pick a provider endpoint for an attempt or for a profile's pool | the pick is the best candidate by region, health and load; attempts reach every account |
| Provider accounts (`internal/app/provider/application`) | account rows and their secrets | create, update, delete (with the leases of the account) | an account in use is neither deleted nor given another credential |
| Settings (`internal/app/settings`, `kernel`) | one settings document, the secret store | read, validate, merge, save, disconnect changed users, request a reconcile | keys that a request does not name are kept; rules lead to profiles; who is rerouted is disconnected; what is reported as settled runs |
| Mihomo native configuration (`internal/app/mihomonative`) | stored nodes, the generated file | plan, save, write, follow renamed references, import | references follow their node; the file is only a projection |
| Rendering (`internal/sourceplane/mihomo/render_*`) | none | proxies, groups and rules of a configuration | a user leaves by the exit and line of its own profile or not at all |
| Exit checks (`internal/app/proxycheck`) | caches of views and geo lookups, a fraud checker, merged calls | check a listener, look up an address, clear | what is cached is about the present route and settings |
| Fraud lookups (`internal/ipfraud`, `runtimehttp`) | key rings with resting keys, the last verdict | ask providers in turn, retry, read answers, merge | a provider is passed over only for a cause; the merged verdict does not hang on the order of the answers |
| Edge checks (`proxy_edge_canary.go`, `proxycheck/edge_access.go`) | none | ask a canary through a listener, fold with a fraud report | the level is never milder than what it is folded from |
| Connection closing (`runtime_settings.go`, `lease_route.go`, `mihomonative/connection`) | none; the connections are Mihomo's | list and delete a user's connections after a change | a connection by a way its user no longer has is closed, or there is a reason |
| Authentication (`internal/app/auth`, `runtime_http_auth.go`) | none at the server: a signed cookie (12 h) and a signed token for websockets (2 min) at the browser | login, logout, guard in front of every route, redirects | what is answered rests on a login; no redirect loop |
| HTTP/gRPC surface, dashboard, metrics | none | transport and user interface | - |

How they interact: an RPC handler, the sweep loop (expiry, then cleanup, every
30 s) and the background restore started at boot all run lease operations in
one process. They call the stores, Redis, the provider and the driver one
after the other. What keeps them apart are the account lock (around an acquire,
release, expiry or cleanup), the provider-account lock (around the calls to the
provider), the listener lock (around choosing a listener and upserting its
route) and the driver's mutex (around one reconcile). None of these calls is
part of a transaction with another one.

What is hard: every call may fail after the calls before it took effect, so each
operation has compensations that may fail themselves and are recorded as
cleanup-pending labels for the sweep; a record is read before a lock and
used after it; a save may be applied although its caller is told it was not; a
restart loses the routes but not the records, slots or sessions, and restore
then runs beside new requests; slots and locks lapse by their own time. The
hazards, each at its line, are listed in `PROJECT.json`.

## 2. Modules

| Module | What it is |
|---|---|
| `LeaseLifecycle` | the lease operations over stores, locks, limiter, routes and provider sessions, one step per call; its properties and fairness |
| `MCLeaseLifecycle` | the values of its constants for TLC |
| `LeaseProofs` | type correctness; a lease that ended never changes again; one lease per account; routes, sessions and slots against the records of their leases |
| `LeaseTerms` | on which terms a lease is made and comes back: account, policy, times, credentials, route, restore |
| `MihomoDriver` | the driver of the data plane, its child process and the reconcile loop that feeds it; properties and fairness |
| `MCMihomoDriver`, `MihomoDriverProofs` | the values of its constants; its proofs |
| `MihomoRendering` | what the driver's configuration says: by what each user leaves |
| `SlotPool` | abstract: the set of holders a concurrency limit promises |
| `ConcurrencyLimiter` | the Redis scripts that keep it, with times; implements `SlotPool` |
| `RuntimeLock` | one Redis lock with its time to live, renewal and loss |
| `AccountProofs` | what accounts are counted, locked and stored by: the refinement of the limiter, the reported overlap, the kept account |
| `EndpointRegions` | where an endpoint is taken to be |
| `EndpointSelection` | extends it: candidates, scores and attempts; takes its slots from `SlotPool` |
| `RuntimeSettings` | the settings document and its updates |
| `NativeSettings` | extends it with Mihomo's nodes, their file and the references to them |
| `SettingsApply` | extends both with the request channel, the reconcile loop and the reported status |
| `ExitChecks` | the caches of checks and what clears them |
| `FraudLookups` | key rings, retries and verdicts of a fraud checker |
| `FraudReports`, `EdgeReports` | pure: what answers and reports say, and what they are merged and folded into |
| `ProviderAccounts` | accounts against acquisitions, deletions and restarts |
| `ControlAuth` | who the HTTP server answers, and the way of a browser through the login |
| `ConnectionCleanup` | connections against changes of settings and leases, and what closes them |
| `RenderingProofs` | by what users leave, and that a lease's line is rendered |
| `SettingsProofs` | the reconcile loop and its status, what the document promises, whom an update disconnects, whose keys it touches, which node a reference leads to |
| `ServiceProofs` | connections, authentication, the terms of leases and exit checks: their invariants proved |
| `SelectionProofs` | what is chosen in turn: endpoints for an acquisition, keys of a fraud provider; what any number of reports is merged into |
| `MCSettingsApply`, `MCServices` | values for TLC; `MCServices` puts the services in one run, one beside the other |
| `CompositionProofs` | the services together implement the specification of each, and so keep what each promises |

How they fit together: `LeaseLifecycle` takes locks, limiter, driver, selection
and accounts as given, each by what it promises, and makes their failure a
fault. The other modules open these one by one. A route that is upserted or
deleted succeeds or leaves the routes as they were (`MihomoDriver`); a slot is
a place in `SlotPool` (`ConcurrencyLimiter` implements it by `INSTANCE ...
WITH`, its times included); a lock excludes (`RuntimeLock` says what is left of
that when a renewal is late); the pick is any endpoint (`EndpointSelection`
says which); the terms of a lease are its id (`LeaseTerms`). `SettingsApply`
composes settings, native nodes and the loop, and takes a call of the driver as
one step that ends as the steps of `MihomoDriver` may: recorded, or failed with
Mihomo and its file as before or not; `MihomoDriver` takes the settings as a
version.

### LeaseLifecycle

Variables and what they stand for:

| Variable | In the code |
|---|---|
| `facts[l]` | the saved `DynamicLease` record of lease id `l`: status, labels `cleanup_route_pending` and `cleanup_provider_pending`, intended final status |
| `routes` | session routes the driver serves, kept by session id (`dataplane_sessions.go`) |
| `sessions` | sessions open at the provider |
| `slots` | holders in the limiter's sorted set |
| `issued`, `due` | lease ids drawn by `AcquireAttempt`; those whose session expiry has passed |
| `acctLock`, `provLock`, `allocLock` | the redsync mutexes |
| `pc`, `flow`, `job`, `copy` | per process: the next call, the operation, the lease in hand, the in-memory record |
| `pass`, `sweepList` | the batch the sweep works on (`ExpireDue`, then `CleanupPending`) |
| `restoreList` | the list `RestoreActive` read at boot |

A lease id is `<<attempt, "lease">>`; the record written when an acquire fails
has an id of its own, `<<attempt, "failure">>`, as in `failed_acquire.go`. One
handler is one `Client`; it repeats acquires and releases for ever. An account
comes with the purpose it is leased for, the pair the store queries.

Actions and code: `AcquireLock`, `Lookup`, `Refresh`, `Select`, `LockProvider`,
`CreateSession`, `Prepare`, `LockAllocation`, `UpsertRoute`, `SaveActive`,
`Commit` are the steps of `AcquireDynamicLease` and of one attempt;
`UndoRoute`, `UndoSession`, `Record`, `Giveback` are the compensations of a
failed one. `ReleaseLookup`, `LockAccount`, `Reread`, `DropRoute`,
`LockSession`, `DropSession`, `SaveFinal`, `FreeSlot` are the retire shared by
release, expiry, cleanup and replacement, `SavePending` its failure path;
`FinalOf`, `AfterFailure` and `Finished` say where the operations differ.
`SweepPass`, `SweepNext`, `SweepTimeout` are the batches; `RestoreList`,
`RestoreSlot`, `RestoreRoute`, `RestoreDone` the restore; `Deadline`,
`SlotLapses` time; `Crash` a restart.

What may fail is a constant, `Faults`, so that a property can be checked under
exactly the faults the code is meant to survive and the README can say which
ones it does not:

| Property | Faults under which it is checked | Excluded, and why |
|---|---|---|
| `TerminalStays` | all, a restart included | requests by alias only (see 5) |
| `NoRouteAfterEnd` | delete, session, save, limiter | restore running beside a retire, named sessions: findings |
| `NoSessionAfterEnd` | session, save, ambiguous, locks | delete: finding; allocLock: the attempt fails without a record |
| `RouteAccounted` | delete, session, save, limiter | record: the only trace of a failed acquire is lost; a restart in the middle of an acquire |
| `SessionAccounted` | session, save, ambiguous, locks | delete, record, allocLock, as above |
| `OneActivePerAccount` | delete, session, save, limiter | lookup: an error of the lookup is taken for "no lease"; aliases take another lock |
| `ServedHoldsSlot` | a restart | allocLock: a lock found lost at unlock fails an acquire already saved; restore |
| `ActiveIsServed` | a restart | save, ambiguous, restore: the record stays ACTIVE after its route is gone; named sessions: finding |

Abstractions: the text of ids, endpoints, credentials and labels; which
candidate the selection picks (any); the listener port (one lock, no ports);
`Deadline` may strike at any time after the id is drawn; a restart frees the
Redis locks at once although their time to live is two minutes (this gives more
interleavings, never fewer); lookup takes any of several active leases;
the second save an expiry makes when the session release fails is merged with
the first; only the listener lock is found lost at unlock (renewal and expiry
of the locks are in `RuntimeLock`). An upsert or delete of a route
either succeeds or leaves the routes as they were: the driver restores its map
when a reconcile fails.

### MihomoDriver

| Variable | In the code |
|---|---|
| `stored`, `edit` | the settings in the store; an update is saved and its `ScheduleApply` not yet called (`update_flow.go`) |
| `asked` | `reconcileCh`, a channel of capacity one |
| `at`, `got` | the reconcile loop and the settings it loaded (`runtime.go`, `refresh`) |
| `lock`, `stage`, `step` | `Driver.mu` and where the call that holds it is: base or final configuration, and the next step |
| `base`, `routes`, `undo` | `baseCfg`, `sessions`, and the `previous` values a failed call puts back |
| `signature`, `baseSig`, `lastEndpoint` | what `recordAppliedConfigProjection` wrote last |
| `running`, `process` | the fields of that name |
| `proc`, `ctx` | the processes themselves and the context each was started under (`processruntime.Start`) |
| `loaded`, `canonical` | what Mihomo runs; what the canonical configuration file holds |
| `env` | whether the refresh ticker runs and which faults may happen |

`Enter` is the lock and the change of what is desired, shared by
`ApplyDesiredConfig`, `UpsertSessionRoute` and `DeleteSessionRoute`; `Decide`,
`Restart`, `Listen`, `Reload`, `Ready`, `Rollback` and `Record` are the steps of
`reconcileLocked`, cut where Mihomo or its context may interfere; `Exit` and
`Wait` are the process and the goroutine that waits for it.

Faults: the settings are not loaded, a file is not read or written, the process
is not started, Mihomo exits, a reload is refused or takes effect while its
caller is told it did not, the listener is late, the rollback fails. `Calm`
ends them all.

Abstractions: a configuration is a version of the settings and a set of routes,
and its signature is the configuration itself; a version may be one that Mihomo
does not accept (`Broken`): a reload to it is refused, a process started with it
exits. Errors of rendering are the fault "file". The settings the
loop loads and the provider's nodes are one version; the native settings file is
constant. `desiredSig`, `lastError` and the status projections, which nothing
reads back, and `Stop` at shutdown are left out. `Moved` says that the
configured gateway address is not the driver's default one, as in the shipped
configuration; a driver that was given no configuration yet uses the default.
BOUND: process identities are reused after `Wait`, and a call begins
while one is free.

`MihomoRendering` opens the signature: a configuration there is its proxies,
groups and rules.

### LeaseTerms

`termsDoc` is the stored settings, `flow` the acquisition under way, `terms[l]`
the ACTIVE record, `slotEnds[l]` the end of its slot, `installed[l]` its route
in the data plane, `toRestore` and `mending` the restore after a restart.
`StartTerms` resolves account and policy and reuses, replaces or begins;
`SelectTerms`, `OpenSession`, `ApplyTerms` are the attempt, `GiveUp` its end or
retry, `ReleaseTerms` and `ExpireTerms` its end, `SaveTerms` a change of the settings,
`RestartTerms`, `BeginRestore`, `InstallRestored` the restart. All three
providers in the tree put the session into the user name (`UpstreamUser`) and
have nothing to release. `PrepareAcquireRequest` is what of a request is refused or
completed, `RequestedSessionID` the label that names a session
(the profile policy's own where the request has none of the first rank); `ContractAsk` is
what the contracts' gRPC service makes of an acquisition (see the end of 4).
`ReleaseTerms` finds the lease by its id, or by account and purpose (one in its
time before one that is over). `RestoredAsAcquired` compares a restored route with
the one that was made. `SlotCoversLease` bounds the wait for the provider lock:
the lock is tried for 1200 times 100 ms, two minutes, and the slot outlasts
the session by a buffer of the same length, so that a wait of the full time
plus minutes rounded up does end a slot before its lease.

### Limiter and lock

`ConcurrencyLimiter` keeps `score` (the sorted sets) and `keyEnd` (the expiry of
each key); `AcquireSlot`, `ProbeSlots`, `ReleaseSlot` are the three Lua scripts,
one step each. `promised` and `curtailed` are history. `LimiterIsPool` is the
refinement: with `held` taken as the members that have not ended, every step is
a step of `SlotPool` or none. `EarlyLossIsByKeyExpiry` says what the pool
cannot: PEXPIRE ends all members of a key together, which is the only way to
lose a slot early.

`RuntimeLock` is one key, the goroutine that renews it and the unlock that
compares it. A renewal may be late or unanswered. Two functions may then run at
once; `OverlapIsReported` says that one of the two calls reports an error. It
is that error which `LeaseLifecycle` has as fault `allocLock`.

### EndpointSelection

`held` is who holds a slot of each account (`SlotPool`'s actions are used for
it), `facts` the recent lease records an endpoint's health is read from, `stage`
to `pick` the acquisition, and `RefreshPool` the pool of a profile that competes
with it. An acquisition has no holder yet when it looks for candidates
(`ProbeHolder`), so that full accounts are left out; the slot it obtains is one of
`Other`'s. The recent lease records may fail to load (`known`): scores are then
made without them. The hash of a request's key is a constant. `PickIsGood` states the
order by quantifiers where the code sorts and indexes.

The region codes of an endpoint are `EndpointRegions`: words of the host that
are codes of a country or region, and the place the heaviest geo provider that
answers gives for the first public address. A provider that needs a key is asked
with its keys in turn; it may be down. Only the table of countries, the
resolver's addresses and the providers' places are constants.

### Settings, native nodes, reconcile

`RuntimeSettings` has the document, the secret store and `upd[u]`, one update:
`BeginUpdate` reads the document, `ApplyUpdate` is the mutation in the
transaction (or `ApplyFails`, which may have written keys), `Compare` the
read after it and the set of users to disconnect, `Schedule` the answer.
`NativeSettings` adds the stored nodes, the file and `nat[n]`, whose steps
save, write the file and replace references. `SettingsApply` adds the channel
(`queued`), the two reported statuses (`rec`, `app`), the loop, and of the
`driver` what it was `given` last, the configuration its signatures name
(`recorded`), what Mihomo `runs` and what the `canonical` file holds. `Loads` and
`LoadFails` are the ways a call that renders something new may end; one that
finds its rendering recorded does nothing and succeeds (`ApplyDesired`).
`RouteChange` is a lease operation, which loads the settings given last with
another route. `strayed` is history: a call failed after it had changed what
Mihomo runs, and none has loaded a configuration since. Exits of Mihomo by itself
are in `MihomoDriver` only. `MarkPending` and `SendRequest` are two steps, as in the code.
`Ticking` is FALSE, the harder case: a reconcile that failed is not made
again by itself. (The shipped period, `PROXY_GATEWAY_REFRESH_SECONDS`, is
300 s, 0 means no ticker.) `silent` marks an update that failed after it had
saved, which asks for nothing. Left out: an edge request that is absent and a
reference it gives to a token (`EdgeFrom`). A rule without an id is numbered; the
display name the code tries first is taken for an id (`NumberedId`).

### ExitChecks and FraudLookups

A value in `ExitChecks` is the version of the route, or of settings and keys, it
was obtained with; a value on its way while its cache is cleared becomes
`Unsure`. This makes "stale" a comparison. A fraud check whose keys cannot be
resolved, or for which no provider is configured, is answered `Unsupported`
without an error, and that answer is kept like any other (`KeysUnresolved`); only
a failing checker keeps nothing (`CheckFails`). `flight` is singleflight, `check`
one request, `clearing` and `saving` the changes whose clear is still to come.

`FraudLookups` has one checker: `rests` and `next` are the key rings, `lookup`
where each lookup is, `kept` the verdict. A request is up to three attempts of
the retrying transport (backoff from 200 ms to 5 s, Retry-After followed, only
429, 500, 502, 503, 504 and only idempotent methods) under one client timeout.

`FraudReports` reads the answers of the three providers (flags, usage, score,
words for the risk) and merges the reports; `EdgeReports` does the same for the
canary's answer and the fold with a fraud report, down to the level that
callers of the contracts see. Neither keeps state: `MCServices` assumes their
promises for all small inputs and TLC evaluates these assumptions; section 5
says what is proved of any input. `Unordered`:
two reports merge to one verdict in either order. `NotOutvoted`: no report is
outvoted by a weaker one. `FlaggedNotLow`: what a provider flags is no low risk.
`CanaryToldApart` and `EdgeNotMilder` are about edge checks.

### ControlAuth and ConnectionCleanup

`ControlAuth` has the secrets the process runs with, `cookie` and `token` of
each browser, and `visit`, the page it is after. `Ask` is the guard
(`Authorize`) and the dashboard's own look for a session; the dashboard's entry
takes GET and HEAD only, and "/login" is answered by its own route; `LoginPage`,
`SubmitLogin`, `LoginWithoutForm`, `Logout`, `FetchToken` are the handlers,
`Restart` a start with other secrets. A session is its secret and its end;
signatures are taken as unforgeable and secrets as compared whole. `login` is
history: when a browser entered with which secret, and when it left.

`ConnectionCleanup` has what is stored (`wanted`) and what Mihomo runs with
(`running`) for each user, the playground's lease (`leaseWay`), and the
connections. `SaveChange` and `StartCleanup` are the save and the goroutine
that closes without waiting for the reconcile; `ChangeLease` the close after a
lease's route; `ListConnections`, `DeleteConnection` the calls of Mihomo's
controller. `late` and `spared` in a connection are history. The reads of the
settings that `Compare` makes are in `RuntimeSettings`.

### MihomoRendering

`Rendered` makes a configuration of nodes, settings and session routes;
`ExitsOf` follows the rules and groups Mihomo would, and the properties are
about what comes out. `Accepts` is Mihomo's refusal of a configuration with two
things of one name. The nodes' file holds proxies and subscriptions only, as the
gateway writes it; groups and rules that a file made by hand could hold are
left out. `ensurePlaygroundInUserRules` is not modelled: nothing calls it.
A list of the configuration is a set of pairs of a place and what is there
(`RuleList`, `FirstOfName`): the renderer only appends, and what Mihomo makes of
a list is decided by what comes first.

A lease's route comes in three steps. `LoadForLease` reads the settings, which go
into `asked`; `ResolveLine` takes the dialer from them and from the nodes stored
by then (`saved`) and waits for the listeners' lock (`waiting`); `UpsertRoute` puts the
route with the dialer as it was. Nodes are saved (`SaveNodes`) and their file
written (`WriteNodes`), settings stored and applied, between any two of them, and
nobody looks again after the wait (`lease/provider_account.go:68`, `:76`; a restore
does the same without the lock, `restore.go:153`). `LeaseLineExists` therefore has a
premise: the settings and nodes the dialer was resolved from are those that the
configuration is made of. Without it, with the stored settings and nodes in place
of those resolved from, TLC finds a route put on a dialer whose group is gone.
A static exit with a line, which the validation of settings refuses, is excluded by
`RenderingAssumption`. BOUND: `MaxLeasing`, the attempts between load and route.

### ProviderAccounts

`row` and `secret` are the account and its password, `lease` the leases by what
the check for active leases sees, `update` an `UpsertProxyProviderAccount` that
takes no lock, `deletion` the goroutine of a delete. `exposed` is history: a
lease acquired while an update was under way. The credential in
`ServedByStoredAccount` is claimed for the others only; for an exposed one the
code does lose it.

## 3. What the runs check

| Run | Bounds | Question |
|---|---|---|
| `LeaseConcurrent` | 2 handlers, sweep, 2 attempts, 1 account, faults delete, session, save, limiter | one active lease per account, no route after the end of its lease, no orphaned route |
| `LeaseSessions` | 1 handler, sweep, 2 stateful attempts, faults session, save, ambiguous, account and provider lock | no provider session is left open or forgotten |
| `LeaseRestart` | 2 handlers, sweep, 2 attempts, 1 restart at any moment, restore beside them | a served lease holds its slot; a lease that reads active is served |
| `LeaseFaults` | 2 handlers, sweep, 1 attempt, every fault, 1 restart | an ended lease never changes |
| `LeaseSweep` | 2 handlers, sweep, 1 attempt, fairness | every expired lease ends, every pending cleanup completes |
| `RestoreRace` | 1 handler, 1 attempt, 1 restart | finding: restore upserts the route of a lease that has ended |
| `SessionLeak` | 1 handler, 1 stateful attempt, fault delete | finding: the session of a release whose route deletion failed stays open |
| `NamedSession` | 1 handler, 2 attempts for one named session | finding: the retire of an expired lease takes down its successor's route |
| `DataPlane` | 1 lease operation, the loop, 2 settings one of which Mihomo does not accept, 1 route, 2 process identities; no faults and no ticker, or every fault for a while and a ticker | one process at most; the driver's belief that it stopped is true; a change that succeeds is what Mihomo runs; settings are applied and the data plane recovers at last |
| `StaleDataPlane` | the same, only reloads may be refused | finding: a reconcile that finds nothing to do succeeds while Mihomo runs something else |
| `NativeImport` | 1 settings and 1 native updater, 2 updates, all nodes removed by an update, 1 fault or restart | finding: nodes that were all removed are imported again |
| `Services` | eleven components, each with its own instance (below) | the 23 properties of the services |

`Services` puts eleven specifications that share no variable in one run. The
initial state says which one moves and the others keep their initial state, so
the state space is the sum of theirs and each property is checked in all
states of its component: about 410 000 states in three minutes.

| Part | Instance | Properties |
|---|---|---|
| limiter | 1 account, 3 holders, limits 1 and 2, two times to live, clock to 5 | `LimiterIsPool`, `EarlyLossIsByKeyExpiry` |
| lock | 2 callers, time to live 2 | `OverlapIsReported` |
| selection | 3 accounts, 2 instances, 3 endpoints, 3 requests, 1 lease record of an endpoint (`MaxFacts`) | `PickIsGood`, `EveryAccountTried` |
| settings | 1 settings and 1 native updater; updates and route changes 2 in all (`MaxUpdates`), 1 fault or restart; 6 requests, and one that renames two nodes and removes a third; an old and a new store | `RulesResolve`, `ChangedRoutesDisconnected`, `UnnamedKeysKept`, `RefsFollowNodes`, `SettledIsApplied`, `PendingIsAsked` |
| checks | 1 listener, 1 address, 2 requests, 1 change (`MaxChanges`, counted for each listener) | `ViewIsOfRoute`, `LookupsAreCurrent` |
| fraud | 2 lookups, 1 provider with 2 keys, 2 attempts, time to 2 | `PassedOverForCause` |
| render | 2 nodes' files, 2 settings with 3 profiles each, 4 session routes of one profile, whose line is a subscription or a fixed proxy, and of which two collide, 1 attempt between load and route (`MaxLeasing`) | `LeavesByOwnProfile`, `OthersKeepRoute`, `LeaseLineExists` |
| accounts | 1 account, 2 leases, 1 update, 1 deletion, restarts | `ServedByStoredAccount` |
| terms | 1 lease id, 5 acquisitions (one of the contracts' service), 5 releases, 2 settings, clock to 4, a minute of 2 units | `SlotCoversLease`, `RestoredAsAcquired` |
| auth | 1 browser, 5 requests, 2 secrets or none, time to 2 | `AnswersRestOnLogin` |
| connections | 2 users of the playground, 1 connection, 2 closers, 1 change of each | `OldWayExplained` |

`ServicesTypeOK` is the type invariant of them all. Why these bounds do:
two holders and a third for a limit of 2 give a refusal, two times to live a key
that ends early; two callers give an overlap, since a third can only overlap in
pairs; one account bound to an instance and two endpoints in different scopes
give every branch of the ranking; one update of each kind interleaves with the
loop at each of its steps, while an update beside another of the same kind is
excused by the properties (`alone`); a listener's checks and clears race in
pairs; two lookups and a ring of two keys give a key that is asked twice; the
rendered names collide in each way the code can make them collide; an account's
deletion meets an acquisition that began before it and one that begins during
it; two secrets and two hours let a session, a token and a restart end before
each other in every order, and one browser suffices as the server keeps nothing
for it; two closers interleave an update's cleanup with a lease's or another
update's, and a connection's id is used again. Two lease processes and two updates of an account were also run by
themselves (1 636 298 states) with the same outcome; a second update does not
change what an exposed lease is.

`CHECK_DEADLOCK FALSE` is set in `Services` and `NativeImport` only: clocks,
updates, route changes and requests are bounded there, and the counts stop when they are used
up.

For the leases and the driver, why these bounds are enough for the question
asked: the interesting conflicts
are between two operations on one account (a second account shares only the
limiter), and handlers are interchangeable, so two of them and the sweep give
every pair of operations. Two attempts give replacement, a second
active lease, and a record of a failure beside a live lease; one attempt
suffices where the question is about one lease (`LeaseFaults`, `LeaseSweep`).
`MaxCrashes = 1` puts a restart between any two steps of everything before it,
and everything after it again beside restore. Symmetry over handlers, and over
attempts where sessions are drawn, is sound: no other constant tells them apart
(`LeaseFaults` permutes handlers only; `LeaseSweep`, a temporal run, nothing).
In `DataPlane` every call holds the mutex alone, so one caller, the loop and the
goroutine of a replaced process are all the actors a race can have; one route
changes the rendering, two settings give a change and a refusal, and two
identities an old and a new process.
Deadlock is checked in these runs: the sweep can always list again, a caller can
always call.

### Fairness

`LeaseSweep` assumes `FairSpec`:

- weak fairness of a running handler and of the sweep once it works on a lease:
  a goroutine that runs its next call is not stopped for ever, calls have
  deadlines;
- weak fairness of `SweepPass`: the ticker of the sweep loop;
- strong fairness of the sweep's locks: a lock it tries for again and again in
  every pass is free again and again, since its holders give it back or let it
  lapse, and the redsync retries do not lose every race;
- strong fairness of `SweepNext(l)`: the deadline of a batch does not always
  strike before the same lease;
- strong fairness of a successful deletion, release and save by the sweep: what
  fails does not fail for ever.

Nothing is assumed of the clients: a handler need not start anything.

`DataPlane` assumes `FairSpec` of `MihomoDriver`: goroutines run on (weak
fairness of the loop, of the holder of the mutex and of a request after a save;
every wait in a call has a time limit), Go's mutex starves nobody (strong
fairness of the loop's call and of `Wait`), a process whose context is over or
whose configuration is not accepted exits, and faults end (`Calm`). The
environment without a ticker has no faults: there a failed reconcile is not tried
again, and nothing in the code says it is. `MihomoRecovers` is claimed with the
ticker only, for the same reason. Callers and settings updates are not fair.

## 4. Findings

1. `RestoreRace`. `RestoreActive` (`lease/restore.go:95`) works from the list it
   read at boot, without the account lock, and does not read the record again.
   A lease that is released while it waits in the list gets slot and route back
   and nothing takes them down again before the next restart.
2. `SessionLeak`. When the deletion of the route fails, `RetireLeaseRoute`
   (`lease/release_retire.go:106`; the same order in `expire.go:97`) records
   only the route as pending and returns before the provider session is
   released. The cleanup then deletes the route, sees no pending session and
   saves RELEASED. The session stays open.
3. `NamedSession`. The driver keeps routes by session id
   (`dataplane_sessions.go:30`). When a named session is acquired again after
   its lease expired but before the sweep, the retire of the old lease deletes
   the route the new one is served by.
4. `StaleDataPlane`. Base and final configuration are rendered from the same
   options, so the reload of the base configuration already makes the change.
   When the final reload fails, or the answer to a reload is lost, or the
   listener is late after a restart, the desired state is put back but neither
   Mihomo nor the canonical file is. The signatures still name the old
   configuration, the next reconcile compares only them
   (`driver_reconcile_decision.go:39`) and succeeds without doing anything:
   Mihomo goes on serving a route whose lease failed, or goes without one whose
   deletion failed. `LeaseLifecycle` does not see this: there a call that
   fails changes nothing. The difference stays until the next change of the
   configuration. `SettingsApply` shows the same of settings: an update whose final
   reload is refused and a second one that takes it back leave the status at
   "running" while Mihomo runs the refused settings. `SettledIsApplied` says that
   this is the only way (`strayed`).
5. `NativeImport`. `plan.md:11` says that the Mihomo configuration is a
   generated projection and no second source of truth. When the stored native
   settings are empty, loading them imports the file on disk
   (`mihomonative/application/application.go:40`), also when an update has just
   removed every node: if it failed to write the file, or the loop loads
   between its save and its write, the removed nodes are stored again.

Met while modelling and not stated as a finding, for want of a sentence in the
repository that it contradicts: Mihomo is started under the context of the call
that found it stopped (`processruntime/process.go:33`). When that call is a lease
operation, the data plane is killed as soon as the request or the batch returns,
and comes back with the next tick or the next lease operation.

Two more of this kind. The account lock is taken on the id of the request as it
came (`acquire.go:25`): with a client that sends a user name in place of the
account, instances of `LeaseLifecycle` reach two ACTIVE leases of one account
and a terminal record that changes. The runs and the proof take canonical ids.
And `SlotCoversLease`, `ServedByStoredAccount`, `LeavesByOwnProfile`,
`OthersKeepRoute`, `LeaseLineExists`, `SettledIsApplied`, `LookupsAreCurrent` and
`OldWayExplained` each name the way in
which the code does break the promise.

Smaller things of the same kind, all visible in the definitions:

- `ContractAsk`: the contracts' gRPC service builds an acquisition without an
  account (`contracts_gateway.go:55`), which `PrepareAcquireRequest` refuses
  (`lease/request.go:28`): it never succeeds.
- `CheckEdge`: an edge check is folded with a report that says nothing
  (`EdgeBaseFraudCheck`), so neither fraud nor the expected country ever counts.
- `ChangeLease`: after a change of the playground's lease the connections of a
  fixed user name are closed; a user of the same profile with another name keeps
  its connection by the old way.
- `CountryCodesInText`: any word of two or three letters of a host name counts,
  so that "com" may be a country and "NA" is Namibia as well as North America.
- `refreshDynamicProfileSelectionMetadata` writes a snapshot that nothing reads.

## 5. What is proved

A theorem holds for all values of the constants that satisfy the named
assumptions of its module, whatever their number: handlers, accounts, leases,
restarts, updates, listeners, times. The inductive invariants were first checked
by TLC on the instances above.

### Under which hypotheses

The lease theorems have hypotheses besides the assumptions on constants. Each is
there because the code breaks the property without it, and each is met by an
instance a run checks:

| Hypothesis | Says | Without it |
|---|---|---|
| `Canonical` | requests lock the canonical account id | the code locks the id of the request as it came (`acquire.go:25`), so a user name and its account take different locks (end of 4) |
| `OneAsk` | the requests for one account name one session, or all none | an acquire that names a session looks only for the leases of that session, and makes another one beside the account's |
| `"lookup" \notin Faults` | the lookup of the existing lease does not fail | its error is taken for "no lease" (`acquire.go`), and a second lease is made |
| `crashes = 0 =>` | before the first restart | restore takes no lock and works from an old list: finding 1; a restart in the middle of an acquire forgets what it had made |
| `"record" \notin Faults` | the record of a failed acquire is saved | that the save failed is only logged, and what the acquire left behind is known to nobody |
| `"delete" \notin Faults` | routes are deleted | finding 2: the session is forgotten |
| `"allocLock" \notin Faults` for sessions | the listener lock is obtained | the attempt ends without a record of its session |
| `SlotFaults \cap Faults = {}` | a save told to have failed has failed; the listener lock is not lost after the save; restoring a route works | in each of the three the code gives back the slot of a lease that is saved |
| `ServeFaults`: also "save" | the retire of a lease can save its end | the record stays ACTIVE after its route is gone |
| `Drawn` | no two attempts are for one session | finding 3: routes are kept by session |

Two theorems about settings have a hypothesis too: `OwnRefs` says that the secrets
a request refers to by their ids are stored before the run begins and are of the
provider it gives them to. A request may name any id, and a provider that was
given a key of another one changes when that one's key does, or refers to a
key that was removed with the other one. The theorems about all services
inherit it; the instance of `Services` satisfies it.

| Theorem | Hypotheses |
|---|---|
| `TypeCorrect` | none |
| `TerminalFixed` | `Canonical` |
| `OneLeasePerAccount` | `Canonical`, `OneAsk`, no "lookup" |
| `NoRouteOutlivesLease` | `Canonical`, before a restart |
| `NoRouteForgotten` | `Canonical`, no "record", before a restart |
| `NoSessionOutlivesLease` | `Canonical`, no "delete" |
| `NoSessionForgotten` | `Canonical`, no "delete", "record", "allocLock", before a restart |
| `ServedLeaseHoldsSlot` | `Canonical`, no `SlotFaults` |
| `ActiveLeaseIsServed` | `Canonical`, `Drawn`, no `ServeFaults` |
| `OtherKeysKept`, `ApplyTypeCorrect`, `ServicesTypeCorrect`, `ServicesKeepPromises` | `OwnRefs` |
| those of all other modules | none |

### Leases (`LeaseProofs`)

`TypeCorrect`: `TypeOK` is not inductive: `facts'[l]`
takes its value from `copy`, and the steps index by `job[p]`, which must be a
lease and not `NoLease`. The inductive invariant adds `JobInv`: a process has a
lease in hand exactly at the labels that use one, and the session lock's provider
account is that of the lease.

`TerminalFixed`: a record is saved only by a worker with
the lease in hand, and such a worker holds the account lock from the moment it
read the record (`LockInv`) or drew the id (`TryInv`). While it holds the lock
nobody else saves a record of the account, so its copy says the truth about
whether the record is terminal (`RetireInv`: the saved record of a lease being
retired is not terminal until the final save; `TryInv`: that of an attempt is
still empty or active). `FactInv` says that a record is only kept under a drawn id
and that the record of a failure never becomes active. Their conjunction,
`LifeInv`, is the base of the rest:

- `OneLeasePerAccount`. `FreshInv`: an acquire that attempts a new lease found
  none under the lock it still holds, or holds the only one and is retiring it.
  Since every save of the account is by the holder of its lock, only that acquire
  adds a current lease (`ExistingShrinks`), and when it does there is none.
  `NamedInv`: the leases of an account are of the session its requests ask for,
  so a lookup by session finds them all.
- `NoRouteOutlivesLease`, `NoRouteForgotten`. For every route there is a lease
  whose record `LeadsToRoute`: it is active or carries the label of a pending
  route, and no worker is past the removal (`PastRoute`) on its way to saving a
  record without the label. For the second theorem a failed acquire that
  `UndoesRoute` counts too. `CleanupRouteInv` says why a cleanup may skip the
  route: the label it read is the saved one, because it reads it again under the
  lock. Sessions are argued about in the same way, with `LeadsToSession` and
  `UndoesSession`; that proof includes restarts for `NoSessionAfterEnd`, as
  restore opens no session.
- `ServedLeaseHoldsSlot`. `HoldInv`: a slot is given back only by a worker whose
  lease has no record (an attempt undoing itself) or a terminal one; `OneRecord`:
  an attempt ends in a lease or in the record of a failure, never in both.
- `ActiveLeaseIsServed`. `ServedInv`: a current lease that nobody is retiring has
  its route, or `RestorePending` says restore still comes to it.

### Data plane

`MihomoDriverProofs`: `DriverTypeCorrect`, `OneMihomoAlive`, `StoppedIsTrue`
and `ChangeServed`, for any number of callers, routes, settings and processes
and under every fault. Typing needs `FreeInv` (an identity that was free when
the call began is free when it starts a process, since `Wait` needs the mutex)
and `IdleInv`. The two invariants follow from `AliveInv`: a living process is
the one `process` names, and `running` is set; `stopLocked` keeps it by waiting
for the old process, `wait` by comparing the process first. `ChangeServed` rests
on `ServedInv`: after a restart or a reload Mihomo was given exactly what is
rendered, and a call reaches `Record` without one only when the signature was
that already. It says nothing of a call that changes no signature, which is
where finding 4 is.

### Limiter, lock and accounts (`AccountProofs`)

`LimiterImplementsPool` is the refinement
`LimiterSpec => Pool!PoolSpec`, step by step: what pruning leaves are exactly the
holders that count (`PrunedType`, `CountIsLive`), so that a grant is a `Take`
under the call's limit, and releases, probes, the clock and the expiry of a key
only let holders leave. `NeverOverLimit` follows by the cardinality theorems of
the library. `EarlyLossExplained` needs `KeptInv`: a holder after whom nobody was
granted an earlier end is still a member with its end, and its key expires no
sooner. Any accounts, holders, limits and times; only the set of holders must be
finite.

`OverlapNeverSilent`: of two calls that met, never are both
`Good`, that is, hold the key since their function began or have reported
success (`MetInv`). A call becomes good only by `Lock`, which finds no key, so
that whoever runs then has lost its own; `Deleted` makes the report depend on
the key. No assumption about how late a renewal is.

`ServedAccountKept`: an acquisition and the last step of
a deletion hold the account's lock (`HoldInv`), so no account is deleted that a
lease in service needs (`RowInv`). `UpdateInv` is the argument about updates,
which take no lock: one under way to which a served lease is not exposed began
after that lease was saved, was compared with the row, and so neither writes a
password nor names another user (`Harmless`), however many updates run at once.

### Settings (`SettingsProofs`)

- The reconcile loop: `NoRequestLost`, `RunningIsApplied`. What is stored and what
  the driver recorded may differ while an update is between its save and its mark,
  after one that failed when it had saved, and while a reconcile is pending
  (`Dirty`). Otherwise `LoopInv` says at each step of the loop how far it is with
  what is stored, and when it waits that this was recorded as applied or the
  failure is reported (`Settled`): also after calls of lease operations, which load
  what was given last, with the file as it is. Mihomo runs what is recorded unless
  `strayed` says that a call failed half way. A
  mark and the request that follows it are separate steps; `OneRequest` and
  `PendingIsAsked` say that a full channel drops a request only when another one
  that the loop has not taken covers it.
- `RulesAlwaysResolve`. Each update checks the part it replaces against the part
  it finds, so the invariant is about the document alone. What is not obvious is
  what goes on beside the checks: filling in sessions and replacing references to
  nodes keep the ids of profiles and which are enabled (`SessionsKeepIds`,
  `RefsKeepIds`), and that is all that rules resolve by (`SameIdsResolve`).
  `DocInv` adds the shape of the document.
- `ChangedUsersDisconnected`. `ChangedAreNamed` is about any two documents: when
  the route of a user differs, the comparison of rules by id names that user. It
  does not need that ids are distinct. `UpdatesInv` says that an update which
  nobody interferes with compares the document before it with the one stored.
- `OtherKeysKept`. `KeysInv`: the keys of a provider are stored, are its own by
  their ids, and each kind and id is in a list once. By ids that tell providers
  apart, what an update writes (`OutcomeWrites`) includes no key of a provider it
  does not name (`UntouchedNotWritten`), also when it is refused half way and has
  written some of its keys.
- `ApplyTypeCorrect`. That every key a stored provider refers to is kept is the
  part that is not a matter of shape; it is `KeysInv`.
- `ReferencesFollow`. `ReplacedFollows` is about one reference and any two
  configurations of nodes, `PlansInv` says that those of an update are lists,
  `Bearing` are the nodes that a name stands for. Two premises of the property were
  found by the proof: a name that stands for two nodes before or after the update
  leads to whichever comes first, and where a node takes over the uri of another
  (`NameTaken`) the id made of it is the other's. The code promises neither.

### Rendering (`RenderingProofs`)

`RenderInv`, the inductive invariant: Mihomo runs exactly `Rendered(shown, base,
sessions)` of the nodes, settings and routes that were applied last, and it was
accepted, unless nothing was applied yet. Accepted means that a name is one thing
and that what is referred to exists. It is short because a refused change leaves
everything as it was (`ReconcileKeeps`). The rest is about the document alone,
for any nodes' file, any number of profiles, users, pool nodes and session routes:

- `OwnProfileOnly`. The first rule of a user is that of its profile
  (`UserRuleListed`); the profile's exit group holds only the pool's clones that
  dial by the profile's line, or the named node, or REJECT; and the group of a name
  is the only one of it where `OwnNames` says so. Followed from the rule to the last
  proxy, each leaf is `Permitted`.
- `OthersUntouched`. A session route adds proxies, a group and a rule. Names made
  of its id (`Made`) are met by nothing else where settings do not refer to them, so the
  elements that another user's rule leads to, clones of pool nodes included, are
  the same before and after, at whatever places.
- `LeaseLineRendered`. `AttemptsOK`: an attempt that waits has a dialer of the
  settings and nodes it took. It resolved its line by another package than the
  renderer; a fixed proxy is always rendered, and a subscription is what the renderer makes
  the group of the line from.

What comes first in a list is a matter of places, so that none of this needs
induction.

### Choosing in turn (`SelectionProofs`)

Both components take one of several in a circle, and both proofs rest on
`EveryPlaceComes`: of any `n` consecutive numbers one is `k` modulo `n`. Places
come from `OneAtEachPlace`: in an order of a finite set, the number of elements
ahead tells elements apart, so that it takes each value below the size of the
set. Both are proved without induction, by least numbers and by an injection of a
finite set into one of its size.

- `ChoiceIsGood`. Candidates have priorities of their own (`OffersAre`), so that
  a turn names one of them (`TurnsOfCandidates`), and among finitely many some are
  best (`SomeBest`). Without a region asked for no codes are looked up, so that
  none counts as inside (`NoCodesWithoutRegion`).
- `RotationLeavesNoneOut`. The accounts are ordered by hash and by the priority of
  their first candidate in scope, which depends on the scope. `OwnerByTurn` says
  that the order does not: the priorities of an account are those of its place in
  the list. `TurnsTaken`, the invariant: since the candidates in scope
  changed last, the account whose turn it was has been visited at each attempt
  after the first.
- `KeysTriedBeforePassing`. `FraudInv`: every key that a lookup has tried, but the
  one in hand, rests until after the lookup came to the provider, whoever put it
  to rest; a key put to rest by another lookup only rests longer. A ring whose
  keys are all tried, or of which none is awake when it is asked round, has
  therefore been at rest.

- `VerdictOfReports`, `NoReportOutvoted`. `MergeReports` is a fold, given as a
  recursive function. That it is the function the recursion describes
  (`MergingMerges`) and that each of its values is what `VerdictOf` says
  (`MergedVerdict`) are shown by the least number for which they fail, from the
  well-foundedness of the naturals in the library. Of a verdict each part is the
  strongest among the reports; since different words have different ranks
  (`Ranks`), verdicts of the same set of reports are equal in what they say
  (`SameStrongest`). `IsReport` is what these theorems assume of a report, and
  `ParsedIsReport` says that what is read of any answer is one.
- `FlaggedNeverLow`, `CanaryAlwaysToldApart`, `EdgeNeverMilder`: for any answer,
  by the scores of flags and by the outcomes a canary can have (`CanaryMet`).

`SelectionAssumption` says that accounts have ids of their own, and that there are
at most a hundred instances, and endpoints of one: priorities are
`accountIndex*10000 + providerIndex*100 + endpointIndex` in the code, and beyond
that they overlap.

### Services (`ServiceProofs`)

- `OldWaysExplained`. `OldWayExplained` with `NoneLeft` is inductive: a closer has
  connections left to delete only while it deletes, so that one which ends has
  gone through its list, and every connection opened after the list was taken
  is `late`.
- `AnswersRest`. `AuthInv`: a cookie is of a login with the secret that signed it,
  which its browser has not left, and ends by its time (`CookieInv`); a token ends
  soon after the login it was fetched during (`TokenInv`); a visit that comes back
  from the login page has a session the guard accepts, so that it is redirected
  twice at most (`VisitInv`). `PathAssumption` says that the prefix and the path
  of a request go together.
- `SlotsCoverLeases`, `LeasesComeBack`. `TermsInv` has the terms of an acquisition
  in `FlowInv`, of a record in `RecordInv`, of a restore in `RestoreInv` and
  `MendingInv`. A slot lasts as long as its session when the wait for the
  provider's lock leaves the rounding its part of the buffer (`InTime`, which
  is a premise of the property). A route that comes back differs from the one made
  in its gateway at most, and that is the old one unless the settings no longer
  have it; the credentials do not depend on what was saved meanwhile.
- `ViewsAreOfRoute`, `KeptLookupsCurrent`. `CheckInv` is about the values on
  their way as well as those kept: one that a request or a merged call carries is
  of the present route, was overtaken by a clear (`Unsure`), or has a clear still
  to come (`ExitValues`); while no update is under way and none left keys behind
  (`Calm`), the settings and keys a lookup has loaded are those stored
  (`LookupValues`). `FlightInv` is about singleflight: who waits for a call waits
  for nothing else, and a call that is not answered has nothing to say.

The assumptions are the named ones of the modules, which the runs evaluate.
Those of `LeaseTerms`, `ControlAuth` and `RuntimeSettings` say of what shape
requests are; `ApplyAssumption` that settings and native updates are different
callers; `StoresAssumption` that what an earlier run left is what this one would
leave: its rules resolve and its keys are stored. `RenderingAssumption` is what
the validation of settings and the cleaning of ids ensure (users have names of their
own, nothing is without a name), and that two names with the same prefix are equal
only if the rest is; `NativeAssumption`, `ChecksAssumption` say that lists
are lists and bounds numbers.

### The services together (`CompositionProofs`)

`ServicesImplement`: the instance in which all services run beside each other is
a behaviour of the specification of each, as a step of one is a stutter of
every other (`StepsImplement`). With it the theorems of the components hold of
the whole, for the constants they share: `ServicesTypeCorrect` for
the type invariant, each of whose parts is a theorem of its component, and
`ServicesKeepPromises` for all safety properties of the run and the refinement of
the pool.

### Only model-checked

- `ExpiredLeaseEnds`, `CleanupCompletes`, `SettingsApplied`, `MihomoRecovers`:
  liveness under fairness, which needs ENABLED and is beyond the prover. Every other
  property of a run that passes is stated by a theorem.
- What the definitions of `EndpointRegions` compute, and who is named for a merged
  verdict and which place (they depend on the order of the reports): TLC evaluates
  them in the states of `Services`.

## 6. Plan

Modelled so far is everything of the control plane that keeps state. Next:

1. A store of routes that a call changes or leaves alone, which
   `LeaseLifecycle` assumes and `MihomoDriver` implements outside finding 4.
2. An abstract lease contract (a lease goes through its statuses once and owns
   its route and session in between) implemented by `LeaseLifecycle`.
3. Instances of `LeaseLifecycle` with requests by user name.

## 7. Not modelled

- HTTP and gRPC handlers beyond the guard and the contracts' requests, the
  dashboard and its bundled front end, metrics, status projections and the
  target connectivity check: they call what is modelled and keep nothing.
- Generated code (`gen/go`): messages and stubs.
- Spelling: YAML, URIs and subscriptions of nodes, user names of providers,
  JSON of geo and fraud services, the table of countries. Where such a conversion
  decides something (a cleaned session id, a name made unique, minutes rounded
  up, a region code) it is in a module, or its result is a constant.
- Of the Mihomo document: listeners, DNS, health checks and other parts that do
  not depend on settings.
- Columns, labels and addresses of records that are only shown; paging,
  migrations. There are two stores (PostgreSQL and SQLite) that behave alike;
  a definition names the lines of one of them.
- Shutdown: `Stop` of the driver and the end of the loops.
