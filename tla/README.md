# SyMon in TLA+

SyMon monitors hosts. An **agent** on each host collects metrics, runs tasks and reads
Kubernetes clusters; a **collector** keeps everything in PostgreSQL/TimescaleDB, checks
alert rules and endpoints and sends notifications; a **client** serves the dashboard and
asks the collector on behalf of its users. This directory has TLA+ models of the parts of
SyMon that keep state and work concurrently, TLC configurations that check them on small
instances, and TLAPS proofs of the main results for every instance. `PROJECT.json` lists
the components, the runs, the theorems and the hazards, and for every definition the source
lines it stands for. Paths below are relative to `src/`.

## 1. The parts and their modules

| Part | Modules | Proofs |
|---|---|---|
| Host tasks: requests, claims, execution, reports, the sweeper | `TaskRuns`, `TaskLedger` (abstract), `TaskRunsMC` | `TaskRunsInvariant`, `TaskRunsProofs` |
| Alert rules and the evaluator | `Alerts`, `AlertsSteady`, `AlertsMC`, `AlertsSteadyMC` | `AlertsProofs` |
| Notification channels, queue and delivery | `Notifications`, `NotificationsMC` | `NotificationsProofs` |
| Enrollment, pings and agent updates | `Fleet` | `FleetProofs` |
| Users, sessions, the dashboard's cache | `Sessions`, `DashboardMC` | `SessionsProofs`, `AnswersProofs` |
| Admins' edits of rules and channels | `Requests`, `DashboardMC` | `AnswersProofs` |
| Kubernetes: reports, restart counts, rules on a cluster | `Clusters`, `ClustersMC` | `ClustersProofs` |
| Kubernetes: what pages and rules make of the objects | `ClusterStates`, `CollectorMC` | `ClustersProofs` |
| Collectors that start: migrations, retention, rules of the file | `Startup`, `CollectorMC` | `CollectorProofs` |
| Endpoint checks | `Endpoints`, `CollectorMC` | `CollectorProofs` |
| The limit on wrong passwords | `Lockout`, `CollectorMC` | `CollectorProofs` |
| Host readings, snapshots, the fleet page and /metrics | `Snapshots`, `CollectorMC` | `CollectorProofs` |
| Charts: rollups, retention, the choice of a source | `Charts`, `CollectorMC` | `CollectorProofs` |
| Disk forecasts | `Forecasts`, `CollectorMC` | `AlertsProofs` |

How they interact. The evaluator reads rules and samples and hands notices to the queue;
`Notifications` takes the order of an alert's events that `NoticesInOrder` of `Alerts`
gives. Tasks and updates share the agent's lock, which is in `TaskRuns`. A request reaches
`Requests` through the cookie check of `Sessions`. Rules set up by `Startup` and edited in
`Requests` are the rules of `Alerts`, where an edit is one transaction. Removing a host
touches `TaskRuns`, `Alerts`, `Fleet` and `Snapshots`, each with its own rows. Parts that
share no state are checked in one run each as separate behaviours (`DashboardMC`,
`CollectorMC`): the variable `part` says which one a behaviour is of.

## 2. How the code became actions

Every statement or transaction of the store is one step, and between two statements of a
handler anything else may happen. A transaction with statements that see different
snapshots is several steps (`ClaimBegin`, `ClaimCommit`), and rows it has locked are
guards of the others. Values read before a slow step and used after it (a password hash,
the channels of a notice, the batch of a delivery, the secrets of a channel, the rules of a
round) are kept in a variable of the handler. A call that fails, is given up on while the
collector still handles it, or loses its answer is an ordinary step, and so are restarts.
Data is abstracted to what a property tells apart: commands, passwords, names and messages
are model values or numbers, output is a sequence of numbered chunks, a build is its
version.

### Host tasks (`TaskRuns`)

`internal/store/tasks.go`, `internal/api/tasks.go`, `agent/tasks.go`, `collector/tasks.go`.
Every statement filters on the host, so one host is modelled. `status`, `asked`, `age`,
`output` and `truncated` are the columns of `task_runs`; `age` stands for
`now() - requested_at` while a run is queued and `now() - started_at` while it runs. A
NextTask call is a slot of `Calls` with a phase (`handler`); `closed` is its channel,
`locked` and `tooOld` its open claim transaction, `holding` the run its reply carries. The
agent has one program counter `pc`; `working` is the lock between tasks and updates, `acked`
how much output a report was acknowledged for. `starts`, `printed` and `outcome` record what
happened on the host. `RequestTaskRun` inserts and `WakeHost` wakes, two steps of one
handler. `TaskLedger` is what the history promises to its reader: asked for, handed out,
begun at most once, ended once with a true result.

### Alerts (`Alerts`, `AlertsSteady`)

`collector/evaluator.go`, `collector/alerts.go`, `internal/store/{alerts,rules}.go`.
`rules`, `hosts`, `sample` and `alerts` are the store; `pending` and `checked` are the
evaluator's maps under the key of `alertKey`; `work` is what the round still has to check,
with the rules as they were read at its start. A check is two steps: `Check` notes the
sample, reads the open alert and decides (`updateOpen`, `openIfBreached`); then
`CreateAlert`, `UpdateAlert` or `ResolveAlert` makes the statement and passes the notice on.
`CreateRefused` is a host that is gone or the unique index `alerts_one_open`. A failed write
(`WriteFails`) may have taken effect. `UpdateRule`, `DeleteRule` and `ImportRules` are the
transactions of the store, renaming and resolving open alerts included. `since` and `told`
are history. `AlertsSteady` says when alerts open and resolve, of behaviours in which rules
stay on and look at the same samples, and each sample is checked before the next one comes
(`SlowSample`). That is an agent whose interval is longer than the 15 seconds between rounds,
as in `agent/.env-example`; with the 15 seconds of `install.sh` a round may skip a sample, and
nothing is claimed of the samples nobody looked at.

### Notifications

`collector/notify.go`, `internal/store/notifications.go`, `internal/notify/`. `rows` is the
table in id order, with the time left until `next_attempt_at`; a row taken by a cascade
keeps its place as "deleted". `queueing` is `queueNotice` between its reads and its insert,
`batch` what `deliverDue` read, each entry with the switch and the ref as read, `answer` how
sending its head went. `Send` and `SendUnanswered` reach the service, `SendFails` does not;
`Mark` records the result, `MarkFails` fails to. `last` and `posts` are what the services
saw. `lossy` never changes: in behaviours where it is FALSE nothing is deleted, switched off
or lost.

### Fleet

`internal/store/{enrollment,hosts,agents}.go`, `internal/api/{api,auth}.go`,
`agent/{main,update}.go`, `client/internal/server/agents.go`. Enroll is a transaction that
holds its token (`EnrollBegins` to `EnrollCommits`); its answer may be lost or its key not
written. A ping carries key, version and last error; one that was given up is handled later
(`late`). An update is fetched in two downloads while the dashboard's version, build and
signature change one after the other (`Upgrade`), installed, and then exec'd; it can fail or
crash at every step.

### Sessions and Requests

`internal/store/users.go`, `internal/api/login.go`, `client/internal/server/auth.go`,
`collector/users.go`: a login or a password change hashes between its read and its write;
the dashboard's cache answers for `CacheTTL`; a call takes up to `CallTime`. `Requests` has
the handlers of `client/internal/server/{rules,notifications}.go` and the collector's calls
behind them as sequences of statements, with the checks of `Validate`, `checkRuleChannels`
and the channels' `Parse` by the fields they need, the secrets that are kept, hidden and
filled in, and the codes of `toStatus` and `writeGRPCError`.

### The collector's other parts

`Startup`: collectors that start at once look a migration up and then apply it in a
transaction; each replaces the retention policies and sets up the rules. `Endpoints`: a
round asks URLs that it read earlier, and answers arrive after edits. `Lockout`: the check
of the limit, the hashing and the note of a failure are three steps. `Snapshots`: readings
of a device whose counter starts over, rates of two readings, snapshots handled in any order,
the row of the newest one, the pages and /metrics. `Charts`: one bucket of samples that ages,
the raw rows and two rollups that are refreshed and dropped, `pickSource` and the rounding of
a range. `Forecasts`: fits per mount, the rules' view, the fleet's cached one.
`Clusters`: the reader's reports, the rows of a cluster, restart counters, moved and removed
readers, a rule and its alerts. `ClusterStates`: the conversion of nodes, workloads and pods
and what `Counts`, `clusterSummary`, `kubeTargets` and `podReason` make of it.

## 3. The runs

| Run | Instance | Shows |
|---|---|---|
| `tasks_protocol` | 2 runs, 2 NextTask calls, windows of 1 tick, a tasks file that stays | `StartedAtMostOnce`, `ResultTruthful`, `NoMissedWake`, `SweptRunsAreOver`; `ImplementsLedger`: `TaskRuns` implements `TaskLedger` |
| `tasks_execution` | 1 run, 2 commands, the file edited at will, a limit of 2 chunks and up to 3 printed, 2 tries | `CompleteOrTruncated`, `RunsWhatWasConfirmed`, `UpdateSparesTask`; `ActiveRunsEnd` under fairness |
| `tasks_two_calls` | finding | `ClaimedOverRunsAreOver` fails: the claim of a call the agent gave up on marks the executing run lost |
| `alerts` | 2 rules to time 2; 1 rule to time 4; 1 steady rule to time 6, intervals 1 and 2 | `OneOpenPerTarget`, `NoticesInOrder`; in the steady instance `OpenWhileBreached`, `OpensAfterBreach`, `ResolvesAfterCalm` |
| `alerts_deleted` | finding | `NoOrphans` fails: a rule deleted during a round gets an alert nothing resolves |
| `notes` | with losses 1 channel and 2 alerts, or 4 rows of one alert; without, 2 channels of 2 kinds and 1 alert | `InOrder`, `OneMessage`, `ResolutionFollows` |
| `notes_liveness` | 2 rows, a batch of 1, 1 channel switched off and on and deleted, answers that are lost | `EverySettles` under fairness |
| `fleet` | 1 machine, a token of 2 uses, 2 calls, 3 keys, 2 versions, 1 crash | `TokenUses`, `KeyOnMachine`, `ClearsWhenInstalled`; `UpdateSettles` under fairness |
| `dashboard` | 1 user, 2 tokens, 2 calls, 2 passwords; 2 requests, 3 rule forms, 3 channel forms | `StaleAtMost`, `SessionsFollowPassword`, `ChangesByAdmins`; `AnswersTrue`, `SavedWork` |
| `requests_secrets` | finding | `SecretsKept` fails: a form with empty secrets writes older secrets back over newer ones |
| `clusters` | 2 readers, 1 pod, 1 late report, 1 restart of a counter | `NeverOvercounted`, `NoneMissed`; `GoneResolves` under fairness |
| `collector` | 8 parts by themselves: 2 collectors with 3 migrations, 2 endpoint rules, 3 password checks, a device with 4 ticks, a bucket of 2 samples to 6 days, 3 mounts on 2 devices, the objects of a cluster | `MigratedInOrder`, `DeletedStaysDeleted`, `JudgedByOwnURL`, `LoginsLimited`, `RatesTrue`, `PagesShowNewest`, `ChartShows`, `ForecastsAgree`, `RulesSeePage`; `StartsServe` under fairness |

**Why the bounds are enough.** Two of everything that can collide: a host has one active
run, so a third run repeats the second and a third call the abandoned one; the unique index
is about two rows; order in the queue is about two rows of one alert and a third between
them; a stale secret or a missed check needs two requests. Windows and intervals of one or
two ticks have a before, an at and an after. One wait means two tries, the fewest with a
retry and a last one. Time 2 lets an alert open with interval 1, which is where rows meet;
times 4 and 6 let one open, resolve and open again. Three migrations have a first, a middle
and a last. For the properties that are proved, the bounds are not needed at all.

**Deadlock** is checked except in `notes`, `notes_liveness` and `collector`: with an empty
queue and every alert resolved, or with bounds on time used up, nothing is left to do.

**Fairness.** *Tasks*: the clock; a claim transaction ends; a process that reached its
timeout is killed (`exec.CommandContext`); the sweeper, which ticks every 30 s, gets the row
locks it queues for (strong). Nothing is assumed of the agent, its calls or the network.
*Notifications*: the delivery ticker, the clock, a send that ends one way or the other since
every sender has a time limit, and a result that is recorded; not that a service answers.
*Fleet*: the ping ticker, calls that end, an update that ends because of its timeout, and
strongly that a ping gets through now and then and that a host is not running a task every
time an update comes. *Clusters*: the reader's and the evaluator's tickers, reports on their
way end, and strongly that a read and its report succeed now and then. *Startup*: the service
manager starts a collector that ended; failures of their own are bounded (`MaxFailures`),
those that collectors cause each other are not.

## 4. Proofs

All theorems hold for every value of the constants that the named assumptions of the modules
allow (`TaskRunsAssumption`, `AlertsAssumption` and so on): windows, limits and counts are
natural numbers, positive where the code divides or waits, sets are arbitrary unless the
assumption says finite, and a value that stands for "nothing" is none of the others.
`ChartsAssumption` also gives the windows of the rollups their lengths from migration 003,
which the proof needs: a refresh must not look back further than rows are kept.
`RequestsAssumption` says what a form is. TLC evaluates every assumption in the runs.

Hardly any of the safety properties is inductive as it stands. Each is proved from an
invariant that says what the code relies on, in named parts. `RequestsInv` and `ChartsInv`
were also checked with TLC on the instances of their runs, `OnlyForward` with three versions,
`RestartsInv` with two restarts.

**Host tasks** (`Inv` of `TaskRunsInvariant`). A run is in the hands of one reply or of the
agent, never two (`OneHolder`), and only after the store handed it out (`HandedOutFirst`,
`AskedFor`, `RepliesCarry`). A run is not handed out again because the claim's frozen clock
agrees with the sweeper's (`LeftOutIsOld`) and locks cover running rows only (`LocksHeld`).
Results are true because of what the agent holds by where it is (`AgentConsistent`). From it:
`StartedAtMostOnce`, `ResultTruthful`, `NoMissedWake`, one run at a time, no late start, the
output limit, `RunsWhatWasConfirmed`, `UpdateSparesTask`, and the refinement of `TaskLedger`.
`SweptRunsAreOver` needs that the limit of a running process is the timeout of its row, which
holds while the tasks file stays as it is (`StaticSpec`, `StaticInv`). `CompleteOrTruncated`
needs that what was acknowledged is in the row, in order, unless the row says it was cut
(`OutputInv`, `Delivered`), with the order-preserving map as an explicit witness.

**Alerts** (`AlertsInv`). The statement in progress is about an alert that was open when it
was found and whose resolution was not told (`WritingOK`, `ToldOK`); the index makes
`OneOpenPerTarget` inductive over renames. From it `OneOpenPerTarget` and `NoticesInOrder`.
In steady behaviours (`SteadyInv`) only keys of rules have something pending or open, a
pending change is no older than what it is a change to, and the statement in progress is
about the newest sample: `OpensAfterBreach`, `ResolvesAfterCalm`, with restarts, failing
writes and edits. While nothing failed (`CalmInv`), between checks an alert mirrors its
samples or waits since they changed, and the index refuses no row: `OpenWhileBreached`.

**Forecasts** (`ForecastsInv`). The history `were` is what the rules saw; the minimum over
mounts and over devices agree. From it `ForecastsAgree`.

**Notifications** (`NotesInv`). Rows have owners and the order of their alert's events
(`RowsHaveOwners`, `OrderOK`, `ResolvedIsLast`), a ref belongs to a post (`RefsKnown`), a key
to one incident (`OneIncident`), and in a behaviour without losses every channel that heard
of an alert hears of its end (`ChannelsHear`). From it `InOrder`, `OneMessage`,
`ResolutionFollows`.

**Fleet**. `TokensInv`: a transaction's token is its own and has a use left (`TokensLocked`),
and uses left and keys given out add up (`UsesAddUp`). `KeysInv`: a machine waits for one call
(`OneWaits`), whose answer is the key unless something was lost (`AnswerIsKey`). `UpdatesInv`:
what runs or is said in a ping is no newer than the file, the file no newer than what is asked
for, and that no newer than the dashboard (`OnlyForward`). It holds although a failed exec
leaves a process older than its file. From them `TokenUses`, `KeyOnMachine`,
`ClearsWhenInstalled`.

**Sessions**. `PasswordInv` (`HashingOK`, `LiveOfUsers`) for `SessionsFollowPassword`;
`AnswersInv` for `StaleAtMost` and `ChangesByAdmins`: what is in the cache and what a call
carries was true a bounded time ago (`CacheOK`, `CallsOK`).

**Requests** (`RequestsInv`). The saved rows are well formed (`RuleRows`, `ChannelRows`), and
what each handler has read and checked is still true of what it is about to write, or a
statement will refuse it (`Underway`). From it `AnswersTrue` and `SavedWork`.

**Kubernetes**. `RestartsInv`: what a report or the row shows of a pod was true once
(`ShownOnce`), the states on their way and the row can be put in order by their times and a
pod only grows along it (`ReadInOrder`), every row of a restart is of the saved state's time
or before (`RowsOK`), and what is recorded of a pod is at most what it had made by the saved
state (`RecordedOK`). From it `NeverOvercounted` and `NoneMissed`. `StatesInv`: the API lists
finitely many objects of the forms the reader knows. From it `RulesSeePage`: a node's name and
a workload's key tell targets apart, and every pending pod has one key. Both are about sums
over sets, which `MapThenSumSet` takes in an order nobody knows. That the order does not
matter is an induction over data; it is proved here by a smallest counterexample
(`SmallestSubset`), since the subsets of a finite set are well founded and that theorem of the
library takes no operator.

**The collector's parts**. `MigrationsInv`: a collector is never past the first missing
migration. `RulesInv`: rules are set up once. `EndpointsInv`: no check is from the future
and a round asks the URL it read (`NothingAhead`, `RoundAsksOwnURL`). `LockoutInv`: failures
counted leave room for the checks that run. `RatesInv`: a reading is what the device had
moved at its time since its last start (`MovedOK`, `ReadingOK`, `SnapshotOK`). `PagesInv`: the
row is the newest snapshot handled. `ChartsInv`: each table has what arrived in time as long
as it keeps it, and a rollup that needs no refresh has what its source has. From them
`MigratedInOrder`, `DeletedStaysDeleted`, `JudgedByOwnURL`, `LoginsLimited`, `RatesTrue`,
`PagesShowNewest`, `ChartShows`. The arithmetic of a chart's points (rounding, division) is in
lemmas of its own.

**Only model-checked.** Liveness under fairness (`ActiveRunsEnd`, `EverySettles`,
`UpdateSettles`, `GoneResolves`, `StartsServe`), which the prover does not reach. Every
other property of a passing run is a theorem. The violations are TLC's by nature.

A few definitions changed because a proof failed for a good reason. The history that
`ChangesByAdmins` reads was cleared too early when sessions were purged, which TLC confirms
with longer session times; values that stand for "nothing" had to be kept apart from records;
choices of the code in its order (`Counted`, `RuleError`, `podWorkload`) were `CASE`s whose
guards overlapped, which TLC reads in order and TLA+ does not;
`Notifications` got `lossy`, so that one specification has the behaviours with and without
losses.

## 5. What the runs found

Three runs end in a violation of what a comment in the code says (`findings` in
`PROJECT.json`): an abandoned NextTask call, a rule deleted during a round, and two admins
who save one channel. Met while modelling, and not properties of a run:

- A timeout raised in the tasks file after a run was asked for makes the sweeper give up the
  executing run, since it uses the timeout copied into the row (`agent/tasks.go:174`).
- A report whose answer was lost is sent again and stored twice (`agent/tasks.go:205`);
  `CompleteOrTruncated` therefore asks for a subsequence.
- A pending breach is kept while its rule is off (`collector/evaluator.go:42`), and `check`
  notes a sample before it reads the open alert (`collector/evaluator.go:112`): after either,
  an alert may open earlier than its interval.
- A collector that stops between the write of an alert and the queueing of its notice tells
  nobody (`collector/evaluator.go:244`). The property would be false, and no line of the
  repository promises it.
- A channel deleted between `queueNotice`'s reads and its insert drops the notice for all
  channels (`collector/notify.go:69`). A channel switched off during a batch still gets its
  messages.
- The ref of a Slack message is stored by `MarkSent` only, so a lost answer leads to a second
  message; `OneMessage` says so for PagerDuty always and for Slack without losses.
- The updater's `lastError` is never cleared in a process, and every later ping reports it.
- `SaveChannel` can answer 404 after its commit; a webhook's header cannot be removed by
  leaving it empty; `ImportRules` does not check channels; `DeleteChannel` and `SaveRule` can
  leave a rule that picks a deleted channel.
- A chart can have one point more than `MaxPoints`, since steps begin at the epoch. The comment
  at `openStore` speaks of 2 days for hourly rollups, migration 003 uses 3.
- A host that pings but sends no snapshots counts as up, and /metrics exports its old values.
  The fleet's cached forecast goes by host name and may be of a host removed and added again.
- Removing a cluster leaves its open alerts; a failed report that is late overwrites the error
  of a newer one (`internal/store/kube.go:93`); two readers of one cluster overwrite each other.
- `LatestCertificate` may be of the URL a rule had before, and an expired certificate is never
  judged because the handshake fails first.

## 6. What is not modelled

The web pages, message texts, SMTP and test messages, the services' protocols beyond refs and
keys, HTTP requests and handshakes, readers of /proc and of command output beyond the rates of
counters, the regression in SQL, the arithmetic of signatures and hashes, gRPC set-up and
configuration, the events list of a cluster, handlers that translate one list into JSON, and
the command line's own migrations (`collector -add-user`). They keep no state of their own or
are input and output. `Alerts` gives all rules the same thresholds; rules on endpoints and
clusters have their checks in `Endpoints` and `Clusters`.
