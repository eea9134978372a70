# Verification of GoControlPanel

This directory holds TLA+ models of GoControlPanel, the TLC configurations that
check them on small instances, and the TLAPS proofs of what matters most. Every
definition is translated from the Go sources; `PROJECT.json` maps each one to
the lines it stands for.

## 1. The system

GoControlPanel (`cmd/gocpd`) is one process: an HTTP API and a set of worker
loops over one PostgreSQL database, driving servers it does not own: Docker
(one FrankenPHP container per site), an edge Caddy (admin API), MariaDB, sftpgo
and docker-mailserver. There is no transaction across any two of them, and no
lock across the operations of the panel but one mutex around the publication to
the edge.

### Inventory

| Part | State | Operations | Shares state with | Must hold |
|---|---|---|---|---|
| Edge publication: `Service.SyncCaddy`, `caddyapi.Client`, `store.RoutingTable` | `caddyMu`; Caddy's running configuration | read the routing table, `POST /load`; called by nearly every operation, at boot, and by `gocpd synccaddy` | everything that changes sites, domains, accounts, settings | a change whose operation returned nil is live; never back to an older table; the mutex is never lost |
| Site lifecycle: `provision.Service` on sites and accounts | rows `sites`, `domains`, `accounts`; containers | create, start, stop, restart, redeploy, delete, add and remove domain, suspend, unsuspend, terminate | reconcile loop, quota loop, SyncCaddy | rows, containers and routes agree in the end; a suspended or deleted account is not served |
| Reconcile loop (`worker.reconcileLoop`) | the listed rows | every 2 minutes: row status := what Docker says; publish if anything changed | all of the above | every difference is healed |
| Security settings (`handleUpdateSecuritySettings`) | the row `system_settings` | write, publish, revert on error | SyncCaddy | never keep settings the edge refuses |
| Bandwidth quota (`worker.quotaLoop`) | `bandwidth_used_mb`, `bandwidth_reset_at`, baselines per site | sample, charge, monthly reset, suspend and reactivate | suspension by administrators | no traffic charged twice; suspensions of administrators untouched; quota enforced |
| Databases and SFTP users (`handlers_resources`, `mysql.go`, `sftp.go`) | rows, and MariaDB's and sftpgo's own objects | create with compensation, delete | each other, termination | no orphans, no foreign object removed, plan limits |
| Mail accounts | rows, docker-mailserver | the same kind of saga | termination | the same |
| Configuration of the edge (`caddyapi.Build`) | none: a function of the routing table | group, sort, build, authorize certificates | SyncCaddy | the edge answers for each host as its row says |
| Accounts, plans and limits | rows `users`, `accounts`, `plans`, `sites`, `domains`; directories | a saga in `CreateAccount`; creation of sites and domains within the plan; change of plan | site lifecycle | all or nothing; limits |
| Authentication | rows `sessions`, `users`; JWTs; TOTP tickets | login, refresh with rotation, logout, password change and reset, deactivation, second factor | requests of one user, administrators, housekeeping | a refresh token is used once; what is over stays over; revocation revokes |
| Cron (`worker.cronLoop`, `cron.go`) | rows `cron_jobs`; the loop's timer | match, launch, record; change of jobs | sites | each due minute once |
| Git deployment | key file and working tree in the container; the row `site_git` | connect, deploy by hand and by webhook, disconnect | itself, backups | status ends; no key left behind |
| Backups, retention | archives and dumps in `backups/`; a dump in MariaDB's container | the daily loop and requests; prune, delete | deployments, itself | old backups go only after a good one |
| Rate limiter, request timeout | window per IP | middleware | every handler: the context ends after 120 s | |
| Migrations | `schema_migrations` | at boot | other processes | each once |
| Metrics, WAF log, housekeeping, files, users, templates, web UI | | single statements, I/O, rendering | | |

### Hard behaviours

* **Interleaving.** Each request runs in a goroutine of its own and each worker
  loop in another; operations on the same site are not serialised. An operation
  reads a row, calls Docker for up to 30 s, and writes the row unconditionally.
* **Partial failure.** Row, container and edge are changed one after another;
  error paths undo some of it, and often with a call that can fail as well.
* **Lost contexts.** Handlers use the request's context: after 120 s or when the
  client is gone, *every* later call fails, those of the error path included.
* **Crashes.** Nothing but the rows survives; boot does nothing but publish.
* **Late effects.** A `POST /load` given up after 20 s may still be applied.
* **Stale copies.** The reconcile loop, the quota loop, and handlers that revert
  or write back a whole row decide on rows they read earlier.
* **Late rounds.** A round of the cron loop may outlast its minute, and the loop
  catches up with the instants at which its timer fires.
* **Shared files.** Deployments of a site, and the backups of its account, work
  on one tree, one key file and one dump, and know nothing of each other.

`PROJECT.json` lists these as hazards, each with its line and its properties.

## 2. The modules

| Module | Models | Run by | Proofs |
|---|---|---|---|
| `EdgePublisher` | what publication promises: tables committed in order, the edge moves forward or restarts | `PROPERTY RefinesPublisher` | refinement proved |
| `EdgeSync` | `SyncCaddy` step by step, callers, boot, crash, command line, edge | `MCEdgeSync` | `EdgeSync_proofs` |
| `SiteLifecycle` | the operations on sites, domains and their account, the reconcile loop, containers, faults | `MCSiteLifecycle` | `SiteLifecycle_proofs` |
| `SecuritySettings` | the settings' update and revert among other publications | within `EdgeSettings` | `EdgeSync_proofs` |
| `EdgeSettings` | the same by names that `EdgeSync` does not have | `MCSecuritySettings` | `EdgeSync_proofs` |
| `BandwidthQuota` | one pass of `enforceQuotas` after another | `MCBandwidthQuota` | `BandwidthQuota_proofs` |
| `PlanLimit` | what a limit of a plan promises: who was let in takes one thing at most | theorems `KeepsToPlan` | refinement proved |
| `ResourceSaga` | creation and removal of databases, SFTP users and mailboxes | `MCResourceSaga` | `ResourceSaga_proofs` |
| `SessionBaton` | what rotation promises: a login's session is a baton with one holder at most | `PROPERTY PassesTheBaton` | refinement proved |
| `Sessions` | every handler that makes, renews or revokes sessions, for one user | `MCSessions` | `Sessions_proofs` |
| `CronMatch` | `cron.go`, and what a crontab denotes to compare it with | within `CronScheduler` | `CronScheduler_proofs` |
| `CronScheduler` | the cron loop, its rounds, the runs and their records | `MCCron` | `CronScheduler_proofs` |
| `GitDeploy` | deployments of a site, step by step | within `AccountFiles` | `AccountFiles_proofs` |
| `AccountBackup` | backups of an account and their retention, step by step | within `AccountFiles` | `AccountFiles_proofs` |
| `AccountFiles` | the two over the account's files | `MCAccountFiles` | `AccountFiles_proofs` |
| `EdgeConfig` | the grouping in `SyncCaddy`, `caddyapi.Build`, what Caddy then answers, `handleTLSAuthorize` | within `Accounts` | `Accounts_proofs` |
| `Accounts` | rows of owners, accounts, sites and domains; `CreateAccount`, `CreateSite`, `AddDomain` | `MCAccounts` | `Accounts_proofs` |

The MC modules extend the specification and add symmetry sets and definitions of
operation kinds and expressions. `AccountFiles` composes two components by
INSTANCE: they share the variable `tree` and every step is a step of one of
them. `Accounts` instantiates `EdgeConfig` to ask, in each of its states, what
the edge would do with the table. `PlanLimit` is instantiated in the modules of
proofs, once for each kind of thing a plan limits. Elsewhere one module abstracts
another:
`SiteLifecycle` and `SecuritySettings` take the load of the edge as one step,
which `EdgeSync` justifies, since the mutex makes loads that succeed atomic and
what fails is covered by their fault; `BandwidthQuota` takes suspension as one
step on row and containers, and `Accounts` the operations whose steps are in
`SiteLifecycle`. Operators named `Mutant_...` are no part of a model: each is the
definition after it with a plausible bug, used to show that a property would
notice.

### EdgeSync and the code

| Model | Code |
|---|---|
| `db`, grows by `Write` | any committed change that `RoutingTable` (store/sites.go) would show: the table's content is abstracted to its version |
| `caddyMu`, `Lock`, `Leave` | `s.caddyMu.Lock()` and the deferred `Unlock` (service.go 657-660). A `gocpd synccaddy` process has a `Service` and so a mutex of its own |
| `Read`, `snap` | `RoutingTable` and `GetSystemSettings` under the mutex |
| `Send`, `inbox`, `EdgeApplies`, `EdgeRejects` | `POST /load` and Caddy, which handles loads one at a time |
| `GiveUp` | the client's 20 s timeout or the end of the context; the request stays on its way (`Disown`) |
| `WriteUnsynced` | RestartSite and error paths: a change that is not published |
| `BootStart`, `phase` | main.go: the first publication, whose error is only logged, comes before the worker and the server |
| `EdgeRestart` | docker-compose: the edge restarts with the mounted Caddyfile |
| `floor` | history: the version a call must have made live when it returns nil |

### SiteLifecycle and the code

`site[s]` is the row (status, whether `upstream_host` is set, whether a domain
row exists), `ctr[s]` the container of that name with the goroutine that
created it (its identifier), `edge[s]` what the edge does with the domain.
`op[p]` says where a goroutine is in its operation; every call to PostgreSQL,
Docker or the edge is a step. `op[p].gone` holds the sites whose row was deleted
after `p` read it: updates go by the row's identifier, containers by name.
`view` is what the reconcile loop listed. `Fault` stands for any failed call
and for `ContextDone`, `Crash` and `CtrDies`, all bounded by `MaxFaults`.

### Sessions and the code

| Model | Code |
|---|---|
| `session[t]` | the row with that `refresh_hash`; `gone` when it has expired or was deleted, for no statement finds it then |
| `Login`, `IssueTicket`, `VerifyTicket` | `handleLogin` and `handleTOTPVerify` up to the moment the credentials are right. A ticket is a signed token, kept nowhere: it is good until it expires |
| `Refresh`, `Reread`, `CreateSession` | `ConsumeSession` (one UPDATE), the second look at the user, `issueTokens` |
| `Revoke`, `UpdatePassword` | `RevokeUserSessions` and what comes before it in `handleChangeOwnPassword` and `handleResetPassword` |
| `ReadUser`, `WriteUser` | `handleUpdateUser`, which reads a row and writes all of it |
| `SetupTOTP`, `ConfirmTOTP`, `DisableTOTP` | the second factor, each after `requireAuth` |
| `login`, `pwOf`, `slipped`, `lost` | history, for the properties: no column holds them |

A login here is one check of credentials, and the sessions that come of it one
after another are its own. Passwords are numbered. Whether a password or a
code is right is the environment's choice.

### CronScheduler and the code

`next`, `timer` and `now` are the loop's variables: `next` the minute it is to
wake up for, `timer` the tick at which it does, `now` the instant the timer
fired, which is what the round matches with. A round is one step with the instant
at which its query answers, however long it took (`Tick` goes on meanwhile);
`Rearm` is the arithmetic at its end. `runs` are goroutines whose command is
under way. `CronMatch` follows `Matches` with its order of evaluation: it stops
at the first field that does not match and the first part that does, so that an
error further on is never seen. `Denoted`, `ValidExpr` and `Due` say the same
without any order and serve as the reference.

### GitDeploy, AccountBackup and the code

`dep[d].at` is the next call of `GitDeploy` (git.go): the row, the key file, the
probe for `.git`, removal, clone or fetch, composer, restart, and the deferred
removal of the key, in that order. A command (`Running`) goes on inside the container
when the context of the call that started it is done (`dead`), until it ends or a
restart of the container kills it, and writes beside the commands of the deployments
after it. `tree` says whether there is a `.git`, whether the tree is a whole commit,
whether that commit's packages are there, and whose command wrote it last; `apart` is
history: no other deployment's command has run since this one's probe. Two commands
that write at once leave any of `Mixed`. `git fetch && git reset --hard` are `Fetch`,
which brings objects only, then `Reset` and `CheckedOut`, between which the tree is
torn; so is what a killed command leaves. `Composer` has the `|| true` of git.go:151:
a command that fails goes on as one that went well, and only a failed call to Docker
ends the deployment.

`job[b].at` is the next step of `RunAccountBackup` (backup.go): the walk,
`mysqldump | gzip` inside MariaDB's container (`orphan` when the backup is over and
the dump is not), `ReadFile` with `rm` and `WriteFile`, retention. Files are named after
the second in which they were begun, the clock's value. `still` holds the runners
whose walk has seen no write to the files since it began: any write takes all of them
out, also one that leaves the tree as it was. A file of the list is `open` while it is
written, `whole`, or `torn`.

### Accounts, EdgeConfig and the code

Rows are keyed as their unique columns are: owners by username, accounts by
`unix_user`, sites by account and name (the container's name), domains by host.
`Without` is `ON DELETE CASCADE`, `Owns` in `DropOwner` `ON DELETE RESTRICT`. A
request goes from one statement to the next; those of which only the effect on
these rows matters (suspension, removal, start and stop) are one step. "pending"
is an owner whose account is not there yet. `moved` marks an account that came under
other limits than those the run counts with: by `ChangePlan`, by `EditPlan` (an
administrator edits the plan's limits, which changes them for its accounts), or by
having been created on another plan; the two limits of the model are those of one plan
as it was first. `DropAccount` deletes by `unix_user` where the code has the row's id:
it may delete another request's account of that name, which the code does not.

`RoutingTable` is the query of that
name; hosts are numbers in the order of their names, the panel's own name and the
webmail's among those a customer may register. `EdgeConfig` has one operator for each
loop of the code; mail, which is off by default (config.go:146), is a parameter of
`Build`: on, it brings the webmail's route, two more subjects and
`certificates.automate`. `Serve` is Caddy's routing: the first route that matches is
terminal. `Managed` is its automatic HTTPS as config.go:64-71 describes it: it obtains
certificates for the hosts of routes and the names in `automate`, and being a policy's
subject causes none. With mail on, the model has all of webmail upstream, webmail host
and mail host, as main.go and the defaults give them. What a loop
selects and what the code sorts are functions over the indexes (`Taken`,
`Ascending`): the folds of the community modules would say the same and could not
be proved about.

### The others

In `SecuritySettings` the settings are model values and `Servable` those the
edge's build loads. `BandwidthQuota.pass.acct` is the copy of the row that a pass
works on; a megabyte is `UnitsPerMB` units so that truncation shows. In
`ResourceSaga` what a call makes carries the call's number, which is also its
password; a database is an object and a user, an SFTP user and a mailbox a user
only, and a mailbox that exists is refused where the others are taken over.

## 3. What the runs check

| Run | Instance | Shows |
|---|---|---|
| `EdgeSync` | 2 callers, boot, 3 tables, 2 loads in flight, 1 crash, 1 edge restart | `ReadYourWrites`, `QuietMeansPublished`; refinement of `EdgePublisher`; every `SyncCaddy` returns (`EverySyncEnds`); a crashed panel serves again (`PanelComesBack`) |
| `SiteLifecycle_safety` | 1 site, 2 handlers, 3 operations of every kind but restart, 1 fault | `SuspensionUnroutes`, `QuietEdgeMatches` |
| `SiteLifecycle_live` | 1 site, 2 handlers, 3 of create, stop, restart, 1 fault | `ReconcileHeals` |
| `SecuritySettings_one` | 1 administrator, 2 other operations, 3 updates, 2 faults | `DbServable`, `OkIsLive` |
| `BandwidthQuota_pass` | 1 site, 2 months, 2 administrator operations, 1 restart, 1 fault, 1 crash | `NeverOvercharged`, `LiftsOnlyItsOwn`, `SuspendsOnlyOverQuota`, `QuotaEnforced` |
| `ResourceSaga_safety` | 2 handlers, 3 databases, 1 SFTP user, 1 mailbox, 5 requests, 1 fault | `NoOrphans`, `PasswordWorks`, `OvershootBounded` |
| `Sessions` | 2 requests, 1 login, 3 tokens, 2 passwords, 1 secret, 1 ticket | `OneHolder`, `OldPasswordSessions`; refinement of `SessionBaton` (`PassesTheBaton`) |
| `Cron` | 2 jobs, 5 expressions, minutes of 3 ticks, days of 4 minutes, 4 minutes from a Sunday or a Saturday on | `OncePerDueMinute`, `NoMoreRoundsThanMinutes` |
| `AccountFiles` | 2 deployers, 2 backups, any 3 begun (deployments, backups, deletions, disconnections), 1 failure | `DeploymentsSettle`, `SuccessIsWhole`, `NoLeftovers`, `KeepsABackup` |
| `AccountFiles_dump` | 1 deployer, 1 backup, 2 begun, 1 failure | *violated*: `PurgesOnlyAfterSuccess` |
| `Accounts` | 2 requests, 2 accounts, one of them there already with a site, 1 new owner, 3 hosts, among them the panel's name and the webmail's, mail on and off, 3 calls, 1 fault | `NoOwnerWithoutAccount`, `LimitsHold`, `EdgeAnswersAsTable`, `StableOrder`, `CertificatesMatch` |
| `Accounts_domains` | 1 request, 1 account, 3 calls | *violated*: `DomainsWithinPlan` |

Each passing run but `SiteLifecycle_live`, which is for liveness alone, also
checks its module's `TypeOK`, which includes what rows and requests owe each other:
foreign keys (no session without its user, no domain without its site), a mutex that is
held by somebody still inside `SyncCaddy`, steps that only requests on databases have,
words that a column's CHECK admits.

**Bounds.** Two goroutines are enough for every race of a check and an act that
the hazards name; a third participant is the boot, the reconcile loop or the edge
itself. Three tables distinguish older, own and newer. Three operations let one
create a site and two others race on it, with the reconcile loop beside
them. One fault anywhere separates every two steps. In `ResourceSaga` the limit
is one and there are three names, so that an overshoot beyond the bound would be
possible. In `BandwidthQuota` four units are two megabytes, twice the quota. In
`Sessions` three tokens are one that is renewed and two that two requests could
make of it; the theorems of section 5 cover any number. In `Cron` three ticks to
a minute let a round end in its minute, at its end, or minutes later, and the
expressions have steps, ranges, lists, Sunday as 7 and both kinds of errors. In
`AccountFiles` three begun are, among others, two deployments during a backup, two
backups around a deployment, or two with a deletion or a disconnection between them. In `Accounts` the limits are one, so that two requests at
once exceed them, and the account that is there already has a running site, so
that three calls reach routes of several domains, redirections and offline sites.
`CHECK_DEADLOCK FALSE`: when the bounds on operations are used up and nothing is
under way, these systems rightly stop.

**Fairness.** A goroutine that can take a step does (WF): the Go scheduler. A
waiter on `sync.Mutex` is not passed over for ever (SF on `Lock`): its
starvation mode. A wait on the edge ends by the client's timeout (in `EdgeSync`
as `GiveUp`), so nothing is assumed of the edge. Tickers tick; Docker restarts
panel and containers (`unless-stopped`). No operation, fault or administrator is
obliged to act. The modules added for sessions, cron, files and accounts state
no fairness: nothing in their code waits for anything but the calls it makes.

**What the properties leave out.** `ReadYourWrites` and `QuietMeansPublished` say
nothing of the time after the edge restarted (`edge = 0`). `QuietEdgeMatches`
excludes sites in error, whose last route stays, and RestartSite.
`LiftsOnlyItsOwn` allows what the code does when an administrator suspends the
account after the pass listed it. `DbServable` and `OkIsLive` are for one
administrator; with two, each can write over the other. `OldPasswordSessions`
names the sessions that escape a revocation: those being made at the time, those
of a ticket issued before, and all of them when the revocation fails.
`OncePerDueMinute` holds while each round ends within its minute.
`SuccessIsWhole` speaks of deployments whose commands had the tree for themselves, the
commands of deployments that are over counted, and promises packages only if nothing
has failed; whatever earlier ones left behind is within it. `KeepsABackup` speaks of
backups nobody disturbed and in which nothing failed.
`NoOrphans`, `PasswordWorks`, `NoOwnerWithoutAccount` and `DeploymentsSettle`
hold while no call fails, for a compensation is itself a call. `LimitsHold`
counts the domains that `AddDomain` made, and accounts whose plan and its limits are
still those they began with.

## 4. Disagreements met

Two are shown by runs (see `PROJECT.json`): a `mysqldump` that fails passes for a
good backup and the older ones are purged (`AccountFiles_dump`); a site is created
with a domain although the plan's domains are used up (`Accounts_domains`).

Others were met while modelling and are described here without a run. On
publication and sites:

* `gocpd synccaddy` beside a running panel can replace a newer table by an older
  one (a mutex per process; comment at service.go:44-45). `ReadYourWrites` fails
  on `EdgeSync` with `Cli = {cli}`.
* After a restart of the edge nothing publishes until an operation does
  (deploy/edge/Caddyfile:3-5; worker.go:181 publishes only after a correction).
* RestartSite, and the error paths of start and redeployment, change the status
  without publishing: a running site may be answered with 503.
* A creation with an invalid or taken domain leaves its site in provisioning,
  which the reconcile loop skips (worker.go:154); so does one that is cut off.
* A site whose creation was under way runs on in an account suspended meanwhile
  (README.md:161), and start, restart and redeploy never look at the account's
  status. A creation under way when its account is terminated leaves a container
  without a row (service.go:319).
* A first deployment that becomes healthy after the 30 s has no upstream: the
  reconcile loop calls it running, the edge answers 503.

On settings, quota and resources:

* A lost answer of the edge makes `handleUpdateSecuritySettings` say that nothing
  was applied when it was (handlers_system.go:120). Two administrators at once can
  leave settings in the row that the edge refuses.
* A manual suspension made during a quota pass is relabelled or lifted
  (service.go:276-279); every sample loses its fraction of a megabyte
  (quota.go:9-11); a suspension for bandwidth outlives its month when the panel
  dies between the monthly reset and the reactivation.
* The compensation of a creation of a database whose name is recorded already
  drops the first one's database (handlers_resources.go:111-112).
* A retry of an SFTP creation that was cut off returns a password the user does
  not have (sftp.go:157-159). Limits of the plan are checked before the row is
  inserted, so concurrent requests exceed them (`OvershootBounded` and
  `LimitsHold` say by how much).
* Whether a mail domain is the account's is checked when it is enabled
  (handlers_mail_accounts.go:66) and not when the domain moves on; termination
  leaves the mailboxes on the mail server.

On sessions:

* A refresh under way when sessions are revoked creates its row afterwards and
  survives (handlers_auth.go:240); so does a login. No revocation reaches a TOTP
  ticket, which is good any number of times until it expires.
* `handleUpdateUser` writes back the `is_active` it read (handlers_users.go:107): a
  deactivation made meanwhile is undone. The errors of the revocations that follow
  a change are ignored.
* ConfirmTOTP turns on whatever secret the row has by then, which need not be the one
  whose code was checked.

On cron:

* After a round that outlasts its minute, a minute is left out and another may be
  worked twice: catching up uses the instant of the timer, not the minute missed
  (worker.go:90).
* Errors in an expression are found only on the way: "0,99" as minutes runs at
  minute 0 and is an error at all others. `handleCreateCron` only counts the
  fields. 5-7 is no range of days, though 7 is a Sunday.
* A run of more than its timeout is never recorded, for the row is updated with
  the run's own context.

On files:

* A deployment whose context ends leaves its status at running (git.go:104) and,
  killed half-way, a `.git` that a later deployment takes for a clone; the key
  stays in the container. A response after a disconnection meanwhile is made
  from no configuration (handlers_git.go:113).
* `composer install ... || true` (git.go:151) hides composer's failure, so that the
  check of its exit code (git.go:156-158) never fires: success is recorded over a tree
  without its packages. `SuccessIsWhole` fails when packages are asked for after a
  failure too.
* Commands go on in the container when their context is done (git.go:123-158): the
  fetch, reset, removal or composer of a deployment recorded as failed may write over
  the tree of the next, which records success over a mix of both.
* Connecting another repository to a site that has a clone changes the row and not the
  clone's origin (git.go:45-49, 137): the deployments that follow take what the first
  repository has, against git.go:80 ("repositorio configurado").
* The errors of closing the archive, the compressor and the file are not looked at
  (backup.go:57-66): a full disk yields a torn archive that counts as a backup.
* Two backups begun in the same second write to one file.

## 5. What is proved

`EdgeSync_proofs` holds for any set of callers and any bounds:

* `TypeCorrect`: `Spec => []TypeOK`, with any number of `synccaddy` commands;
* `Invariance`: `Spec => []IInv`, and from it `AcknowledgedIsLive`
  (`ReadYourWrites`) and `QuietIsPublished` (`QuietMeansPublished`);
* `Refinement`: `Spec => Publisher!Spec`, the edge never goes back.

The last four assume `Cli = {}`; with a command beside the panel they are false
(section 4). From the module they use `ProcsAssumption` and `BoundsAssumption`.

*The argument.* `ReadYourWrites` is not inductive: a load given up long ago may
still arrive. What makes it harmless is an order: the mutex (`MutexInv`) lets
one goroutine at a time read the table and send it, so what it read is at
least as new as all that was sent before (`SnapInv`), loads wait in the order of
their tables and none is older than what the edge serves (`InboxInv`), while an
answer travels back there is nothing left to overtake it (`AnswerInv`), and what is
on its way is newer than what was acknowledged (`AckInv`), which matters
when the edge has restarted. `CoverInv` adds that somebody since the boot
answers for the newest table, from which `QuietMeansPublished` follows.

The second half of `EdgeSync_proofs` is about `SecuritySettings`, the caller of
`SyncCaddy` that goes back when the edge refuses, by the names of `EdgeSettings`. It
holds for any settings, goroutines and bounds:
`SettingsTypeCorrect` for any number of updaters, and for at most one (`OneUpdater`)
`SettingsInvariance`, `AcknowledgedSettings` (`OkIsLive`) and `RevertRestores`
(`DbServable`; it assumes that there is one, for `CanUndo` speaks of updaters).
With two updaters both are false: each can write over the other.

*The argument.* `OkIsLive` says nothing of the tables on their way to the edge, and
one read before the change would undo it. `OwnsRow` closes the gap: from its
write to its next request the row is the updater's own, so what is read under
the mutex from then on carries its change, and `MutexInv` says that what was
read before has been loaded by the time the updater holds the mutex itself.
`CanUndo` carries, through a request, that what `previous` holds can be
loaded. `TypeOK` needs `Remembers`, what a request needs to go on and to go back.
They use the three assumptions of `EdgeSettings`.

`Sessions_proofs` holds for any number of requests, tokens, logins and any bounds:

* `TypeCorrect`: `Spec => []TypeOK`;
* `Invariance`: `Spec => []IInv`, and from it `RotationHolds` (`OneHolder`) and
  `PasswordChangeRevokes` (`OldPasswordSessions`);
* `Refinement`: `Spec => PassesTheBaton`, rows and requests implement
  `SessionBaton`.

*The argument.* The many kinds of steps come down to a few by what they do to the
tokens and requests of each login (`StepKinds`): credentials are found right and a
request begins to serve a login; a token is consumed and a request takes its
place; a request ends and a token takes its place; everything else only takes
tokens and requests away (`Shrinks`) and, but for a revocation and a change of
password, leaves alone what is known about passwords (`Keeps`). `OneHolder` is
inductive together with `NotBegun`, that a login has nothing before its
credentials were checked: without it, `Verified` could add a second holder.
`OldPasswordSessions` needs `TicketsKnown`, for a ticket of an old password makes a
session of it later: such a ticket was there at the last revocation, or the
revocation has yet to come or has failed. For the refinement, each of the first
three kinds passes one baton and the rest end some or none. The theorems use the
module's two assumptions; `IInv` includes every property proved.

`SiteLifecycle_proofs` holds for any account's sites, any handlers, any subset of
the kinds of operations and any bounds:

* `TypeCorrect`: `Spec => []TypeOK`;
* `SuspensionHolds`: `Spec => []SuspensionUnroutes`;
* `QuietEdge`: `Spec => []QuietEdgeMatches`.

*The argument.* An operation is at a point of its own kind, with a site or a
status where that point needs one (`Sound`), and only the goroutine that holds
the mutex has a table to load (`MutexInv`). `SuspensionUnroutes` speaks of the
edge alone, and a table read before the suspension could be on its way there:
`SuspendInv` adds that what the suspending operation reads, and all that is read
once it was acknowledged, has no route. `QuietEdgeMatches` says nothing while
something is under way, so `CoverInv` says who answers for each site at every
moment: its route on the edge, or in the table about to be loaded, is that of
its row, or some goroutine has still to publish or to mark the site "error".
Both are proved action by action.

`BandwidthQuota_proofs` holds for any finite set of sites, any quota, units and
bounds: `TypeCorrect`, `NothingOvercharged` (`NeverOvercharged`) and the action
properties `OnlyItsOwnLifted` (`LiftsOnlyItsOwn`) and `OnlyOverQuotaSuspended`
(`SuspendsOnlyOverQuota`).

*The argument.* `Ledger`: what was charged, what the pass has measured and not
charged yet, and what the sites sent since their baselines never exceed what was
sent; only a baseline that could not be written puts units back among those to be
measured, at most `MaxTraffic` of them for each fault. That ledger sums over sites, and
its sum is the cardinality of a set with one element for each unit, so that the
library's theorems on finite sets apply. The action properties rest on
`CopyInv`: the pass and the row agree on the usage, and only an account listed
as suspended automatically gets as far as being lifted.

`ResourceSaga_proofs` holds for any finite set of handlers, any names of the three
kinds, any limit and bounds: `TypeCorrect`, `NothingOrphaned` (`NoOrphans`),
`PasswordsWork` (`PasswordWorks`), `OvershootIsBounded` (`OvershootBounded`), and
`KeepsToPlan`: the handlers implement `PlanLimit` for each of the three kinds.

*The argument.* Calls are numbered, and a number that no row has yet belongs to one
call (`Numbered`). Then whatever exists on the other servers either is in the
hands of the call that made it, at a point from which that call records or
removes it, or is recorded under that call's number and no removal is past it
(`Accounted`). When everybody is idle only the second is left: that is
`NoOrphans`, and the number is `PasswordWorks`. `Headroom` counts rows together with
the requests let in, which is why the limit is passed by less than the number
of handlers. `KeepsToPlan` maps what is recorded to what is taken and the requests
that have found room, and recorded nothing yet, to those let in: a call lets in,
its insert takes a name or finds it taken, and every other end of it, a crash
included, only leaves (`PlanStep`).

`Accounts_proofs` holds for any plan, any finite sets of requests, accounts, names
and hosts, and any bounds: `TypeCorrect`, which includes the foreign keys,
`CreationUndone` (`NoOwnerWithoutAccount`) and `LimitsExceededByRequests`
(`LimitsHold`); and, of the configuration the edge would be given in any reachable
state, `EdgeAnswers` (`EdgeAnswersAsTable`), `OrderIsStable` (`StableOrder`) and
`CertificatesAreMatched` (`CertificatesMatch`); and `KeepsToPlan`: for each account, the
sites and the domains added to it implement `PlanLimit`.

*The argument.* `OwnersInv` says who answers for a user without an account: the one
request that made it, for a username taken once is not given to another, until
the account is there or the user is dropped. `LimitsInv` counts, as `Headroom` does,
what is there and what has passed its check, for each account, and is kept
through creations, removals and changes of plans because a termination takes the
rows away with the account, and an account under other limits (`moved`) stays out of
the count until then. That accounts there from the start (`Old`) have one
site each is why `LimitsAssumption` asks for a plan of one site at least if
there are any.

`KeepsToPlan` reads each account's rows as what is taken and the requests past a
check as those let in, once for sites and once for added domains. Nearly every
statement takes rows away and lets nobody in (`PlanGives`) or ends a request
(`SiteLeaves`, `DomainLeaves`); a change of the account's plan, or of the
plan's limits, lifts the limit; `Terminate` and the
compensation of `CreateAccount` end the plan with all that was under it, which
takes the foreign keys (`PlanRenews`). A primary domain is neither asked for nor
taken, since the code does not check it, and `PlanLimit` does not bound how many
are let in at once: `LimitsHold` does.

The edge's configuration needs of the tables only their types and foreign keys,
and then goes through the code's steps one after another. `RoutingTable` has one
row for each routed host, and rows of one site agree about it
(`RoutingTableFacts`). What `SyncCaddy` groups them into are routes with a host
at least, no host in two of them, and each says of its hosts what their rows do
(`RoutesFacts`). Sorting keeps them all: the first hosts tell them apart, so that
the position of a route is the rank of its first host, whatever the order they
came in (`SortedFacts`, `SortedAgain`), which is `StableOrder`. The first route that
matches is then the panel's, the webmail's if mail is on (`OwnHosts`, `OwnCount`), or
the only one the host is in (`Serving`). `ManagedFacts` says which names certificates
are obtained for, and `CertificatesMatch` compares them with the names that are
answered and with the policy's. `Flattened`, which the certificates need, is induction over a list; it
is done by a least counterexample, for the induction theorems cannot be
instantiated.

`AccountFiles_proofs` holds for any deployers and runners, any retention of at
least one tick and any bounds, of deployments and backups at once:
`TypeCorrect`, `DeploymentsAreOver` (`DeploymentsSettle`), `NothingLeftOver`
(`NoLeftovers`) and the action properties `SuccessHolds` (`SuccessIsWhole`) and
`BackupKept` (`KeepsABackup`).

*The argument.* Each component has its own invariant, kept by its own steps
(`DeployStep`, `BackupStep`) and untouched by the other's: a backup never writes
the tree, and a backup's promises do not mention what is in it but through `still`.
Most steps move one goroutine on, so that one lemma for each component (`OneGoes`,
`OneRuns`) reduces them to a few side conditions; `Probe` and `Restart`, which change
what several deployers are doing, have lemmas of their own (`ProbeTakes`, `TakenKeeps`, `Restarts`).
For deployments, while no call failed a key in the container belongs to somebody who
will remove it and a row at running to somebody who will write it (`SettleInv`).
`SuccessIsWhole` looks at the tree when the row is written, long after the commands;
`ApartInv` follows it through them: beside one whose commands have the tree for
themselves no other command runs (`OneApart`), so that nobody writes between its own
and it finds at each point what it left there (`Finds`), its clone or reset whole before
composer, the packages there before the restart if nothing failed. Commands that run on
are covered, for `dead` deployers are still in `Running` (`Late`), and whoever probes
beside them is not `apart`. What earlier ones left needs no invariant: a clone wants
an empty directory, and a reset makes any clone whole or fails.

For backups, what is half written has its writer (`LeftInv`), no run outlives what it
writes (`AgeInv`), so that retention spares it, and an undisturbed run has what it has
done so far (`CleanInv`); a dump that goes on when its backup is over takes a failed
context, and `LeftInv` says that without one there is none.
`PurgesOnlyAfterSuccess`, which asks the same when a command may fail, is the one that
`AccountFiles_dump` shows violated.

`CronScheduler_proofs` holds for any jobs, lengths of a day and of a minute, starts
and bounds, and for expressions with two fields, each any sequence of parts:
`MatchesWhenDue`, of `CronMatch` alone and for any number of fields, then
`TypeCorrect`, `StartedWhenDue` (`OncePerDueMinute`) and `RoundsPaidFor`
(`NoMoreRoundsThanMinutes`).

*The argument.* `Matches` stops at the first answer that decides; `FirstNotFacts`
says that whatever stops the loop is one of the answers, so no induction over the
fields is needed. A part that denotes something is within its unit's bounds, and
then the remainder `PartMatches` looks at is zero exactly at its steps
(`Stepping`, `PartFacts`); no part of a right expression ends the loop with an
error. For the loop, `LoopInv` says that the nth round is for the nth minute and
never before it, and that the timer has not been missed: a round that catches up
comes a second after the last one, not before its minute. From this alone
`NoMoreRoundsThanMinutes` follows, however long rounds take. `PlanInv` is what is
lost once a round is late: the round works with the minute it believes to be in,
it has launched nothing for minutes to come, and for those behind it exactly what
was due. `RowsInv` says that a job that could run all along is active in every
round, and that what runs has a row to update; a deleted job's record would be
written again otherwise.

Every assumption used is one of the modules' named ones: distinct model values,
natural bounds, finite sets of goroutines and rows (a process has finitely many),
a retention of one at least, which the settings' handler enforces
(handlers_system.go:101), and a plan with room for the sites it starts with. TLC
evaluates each of them on every run of its module.

The inductive invariants, and the refinements of `PlanLimit`, were checked by TLC on
the instances of section 3, and
those of `SiteLifecycle` and `BandwidthQuota` on one with a second site too,
before they were proved; the runs list the properties themselves.

*Only model-checked:*

* `EverySyncEnds`, `PanelComesBack`, `ReconcileHeals` and `QuotaEnforced`: liveness under
  fairness and `ENABLED` are beyond the prover.
* `ReadYourWrites`, `QuietMeansPublished` and the refinement with a command beside the
  panel, `DbServable` and `OkIsLive` with two administrators: false there, see above.

## 6. Not modelled, and the plan

The components of `PROJECT.json` say what is left out and why. Pure I/O, rendering
and single statements stay out. Next, in this order:

1. The update of a site's configuration, which writes back all of its columns as
   read before (handlers_sites.go:134). No other operation writes them, and the
   redeployment it may end in is in `SiteLifecycle`.
2. Termination against the creation of resources: `ResourceSaga` and `Accounts` over
   the same accounts.
3. `Migrations`, the reconnection of the WAF log reader, and `RateLimiter` (a window per
   address under one mutex), each small.

Proofs: an abstract specification of `GitDeploy` (a site is deploying or settled), and
that the detailed one implements it; the same for what exists of a resource (a
name is free, in the making, or recorded).
