# SignalFoundry in TLA+

Formal models of SignalFoundry's stateful core: the research control plane, the
worker processes it starts, the bounded paper-trading engine and its campaign
records, the durable stores behind shadow forecasts and model governance, the run
registry with its content store and retention, and the event engine of the
backtester. Every module is translated from
the Python source; TLC checks it on small instances and TLAPS proves the
properties that matter most for every value of the constants.

- [The system](#the-system)
- [What is modelled](#what-is-modelled)
- [Modules, state and actions](#modules-state-and-actions)
- [Runs](#runs)
- [Proofs](#proofs)
- [Known divergences](#known-divergences)
- [Not modelled](#not-modelled)
- [Plan](#plan)

## The system

SignalFoundry is a local workstation for quantitative research. `src/signal_foundry`
is the product: a control plane, a CLI and a paper trader. It drives two packages,
`packages/alphaforge` and `packages/signalattice`, which run as worker processes
and keep stores of their own. `foundry_build` and `apps/nexus` build and show it.

| Component | State it keeps | Operations | What is hard |
|---|---|---|---|
| Research manager `manager.py` and store `store.py` | deque, active run, `_closed`, `_faulted` under one condition variable; `jobs` and `audit` tables | submit, cancel, wait, close; the scheduler thread; recovery on open | preflight outside the lock, one condition for scheduler and waiters, store failures half way through an operation, crash and restart |
| Runner `runner.py`, `process.py`, workers | semaphore of two, process group, pipes | execute with deadline, output limit, cancel | descendants that outlive the worker and hold its pipes, kill and reap on every way out, code replaced during a run |
| HTTP and CLI `api.py`, `http_security.py`, `cli.py` | request slots, one kept for the paper stop | routes onto the manager and the paper service | slots at their limit |
| Paper engine `trading/engine.py`, transport `alpaca.py`, worker `entry.py`, `service.py` | SQLite journal of keyed records and chained events; an operator lock held by the worker | initialize, start, reconcile, cycle, cancel, stop | lost requests and answers, kills between two records, a stop from another process, partial fills, orders placed outside |
| Paper campaign `trading/campaign.py` | `session/<day>`, `observed_dates`, `campaign` records | record-session, campaign | several records per operation, the account read before the clock |
| Paper session `session.py` | none but the journal | a loop of cycles that persists a stop on any error | cadence, interrupt |
| Shadow store `shadow/store.py` | campaigns, transitions, seals, outcomes in the registry database | create, transition, seal, record outcome | checks and writes on different connections |
| Governance store `governance/store.py`, `lane.py` | event chain and cached head per lane | register, append, assign, freeze, rebuild | approvals of a moved head, replay with an idempotency key, projection against chain |
| Run registry `tracking/registry.py`, `migrations.py` | jobs, events, runs and links in the registry database | submit, claim, heartbeat, complete, fail, cancel, recover, register an artifact | leases that expire while their holder works, retries, histories with a ceiling, checks before the transaction |
| Content store `tracking/cas.py` | objects by digest, staging files, an advisory lock | publish, verify, unlink | two links for a moment, publishers killed, generations replaced |
| Retention `tracking/retention.py` | signed plans and tombstones | plan, stage, execute, resume | intent, bytes and finalisation in three places, concurrent executions, work that links what goes |
| Event engine `alphaforge/backtesting` | reducer state, event journal, queue | process, submit, drain, replay | appends of unknown outcome, recovery, order of events within a bar |
| Service `admission.py`, `telemetry.py` | token buckets, bounded queues | acquire, release; emit, drain, stop | shutdown against producers |
| AlphaForge broker state and distributed executor | chained session snapshots; checkpoint manifests | append, reconcile; run a batch, resume | two writers; out-of-order results and budgets |
| Everything else in the two packages | none that is shared or durable | numerical research | numerical, not concurrent |

How they interact: HTTP and CLI threads call the manager; its scheduler thread
calls the runner, which starts a worker process group per job and returns an artifact
that the manager publishes through the store. Paper operations do not pass
through the manager: the service starts one worker per operation, the worker
takes the operator lock (`stop` does not), works on the journal and talks to the
broker. The shadow and governance stores share one SQLite database, whose
schema (`tracking/migrations.py`) contributes triggers and unique indexes. The
run registry uses a database of the same schema; retention reads and writes its
tables, deletes objects of the content store, and is kept apart from running
attempts by tombstones. The event engine is a library of the backtester.

What makes each component correct:

- *manager*: an idempotency key names one job; work admitted is run in order,
  ended once and accounted for in the audit log; nothing is admitted after close
  or a fault; every job ends and close returns; the store is a simple state
  machine to its clients.
- *paper engine*: no order is submitted twice; at most one is unsettled; the
  journal never runs ahead of the broker; exposure stays within its ceiling;
  `ready` means reconciled; cancel misses no order; a stop is final.
- *paper campaign*: a day's observation is of that day's close and, once the day is
  over, the one every later report holds; a listed date has its observation.
- *shadow store*: a campaign moves forward only; what is sealed stays; revisions
  are appended; the log tells the state.
- *worker processes*: a result is all the worker wrote, of the control-plane
  code identified before; every call ends, and when it has ended nothing of it is left.
- *run registry*: whatever expires, retries or is cancelled, each job's history is
  one the registry itself accepts at its next start, and no job is stranded.
- *retention*: evidence that a run links is never deleted; bytes go after
  durable intent to delete that content, and with one controller in just that
  generation; work and deletion exclude each other.
- *event engine*: a crash or an uncertain append loses nothing and repeats nothing;
  accounts are those of the journal; nothing trades on what its bar revealed.
- *governance store*: of two racing promotions one wins; the head is what the
  chain produces; a key resolves to one event.

## What is modelled

| Module | Models | Checked by | Proved in |
|---|---|---|---|
| `JobLifecycle` | the contract of the research control plane | (abstract) | |
| `ResearchManager` | `manager.py` over `store.py` | `manager_safety`, `manager_liveness`, `manager_abandoned` | `ResearchManagerProofs` |
| `WorkerProcess` | `Runner.call` and `process.execute` | `worker_execution` | `WorkerProcessProofs` |
| `PaperDispatch` | the contract of paper trading about an order | (abstract) | |
| `PaperEngine` | `engine.py`, `alpaca.py`, journal and broker | `paper_safety` | `PaperEngineProofs` |
| `PaperCampaign` | `initialize`, `record_session`, `campaign` | `campaign_records` | `PaperCampaignProofs` |
| `ShadowCampaign` | `shadow/store.py` | `shadow_campaign`, `shadow_reopened` | `ShadowCampaignProofs` |
| `GovernanceLane` | `governance/store.py` | `governance_lane` | `GovernanceLaneProofs` |
| `ContentStore` | `tracking/cas.py` | with `RunRegistry` and `Retention` | with them |
| `RunRegistry` | `tracking/registry.py`, the lifecycle replay of `migrations.py`; extends `ContentStore` | `registry_leases` | `RegistryProofs` |
| `Retention` | `tracking/retention.py`; extends `RunRegistry`, so that the three are one system | `retention_deletion` | `RegistryProofs` |
| `EventEngine` | `backtesting/event_engine.py`, `ledger.py`, `journal.py` | `event_engine` | `EventEngineProofs` |

The `MC*` modules give TLC its symmetry sets and the constants that are functions.
Every symmetry is over constants the specification compares only for equality,
and no run with a liveness property uses one. `PROJECT.json` maps every
definition to its source lines. Operators named `X_Something` with a comment
`Mutant:` are versions of `X` with a plausible bug; they are no part of the
specification. Each of them, put in the place of `X`, makes TLC refute the
property it is paired with in `PROJECT.json`.

## Modules, state and actions

### `JobLifecycle`: what the control plane promises

Two variables: the state of every job and the set of jobs with evidence. A job is
admitted within two budgets under a key nobody used, begun, published, failed or
cancelled; nothing else. It knows no threads, queue, restart or failure.

### `ResearchManager`: how it keeps the promise

- *State.* `state`, `evidence`, `audit` are the columns of the SQLite tables;
  `queue`, `active`, `event`, `closed`, `faulted` the manager's attributes;
  `waiters` the threads blocked in the condition, in the order `notify` takes
  them; `spc`/`current` the scheduler thread, `cpc`/`cjob` the callers,
  `closing`/`todo` the thread in `close`; `proc` the service process.
- *Atomicity.* A `with self._condition` block is one action, store transaction
  included, because no other thread of the process can act in between. `close`
  and the fault handler make several transactions under the lock: one action each,
  and `LockFree` keeps other threads out. Preflight and the run happen outside
  the lock: `SubmitLookup` and `SubmitAdmit`, and `Run`, `PublishRun`/`FailRun`
  and `EndRun`, are separate steps.
- *Failures.* Any store operation may raise (`StoreFails`, at most `MaxFailures`
  times): the transaction is rolled back, what the caller changed in memory
  before stays. `Crash` may happen at any moment, `Restart` opens the store and
  `Recover` fails what was pending, one job per step.
- *Abstractions.* A run is one step that succeeds, fails or raises, which is what
  `WorkerProcess` shows of it. `wait` has
  no clock: its timeout is a return at any time. `close` joins the scheduler
  without a timeout, because the join timeout (181 s) exceeds the longest run
  (150 s plus its teardown). Reads that only answer a caller are no action.

### `WorkerProcess`: running a job

- *State.* `permits` is the semaphore; `call[c]` the frame of one thread in
  `Runner.call` and `execute`, with its program counter, its clock, the pipes it
  has open and what it has written and read; `worker[c]` the process group it started:
  worker, one descendant, who of them holds the pipes, and what is in these;
  `version` the control-plane source, all that `code_identity` hashes
  (`boundary.py:136-150`). Of versions the two records keep what the property needs:
  `foreign`, that the worker imported a module of another version than the identified
  one, and `restored`, that the identified source was replaced and put back. Of a call
  that is over only the processes are remembered.
- *Atomicity.* One turn of the loop of `execute` is two steps, its checks (`Check`) and
  one ready pipe (`Select`); `Reap`, `Verdict`, `Kill`, `Wait` and the return
  (`Identify`) are a step each. Everything else happens between any two of them.
- *Environment.* Worker and descendant read, write, fork, close their pipes and
  exit as they like, or never do; cancellation, time and the replacement of the
  control plane by another version, an earlier one included, come at any moment.
- *Abstractions.* Data is counted in chunks; standard error is bounded like
  standard output and dropped, so one pipe stands for both. Descendants stay in
  the group: the code does not reach one that starts a session of its own. The
  budgets sampled in `Check` may be exceeded whenever the worker runs. An identity
  is one step although the code hashes file after file: what is said of the version
  holds of each file alone, since a file that differs at the end from what was hashed
  at the start changes the hash.
- *What the comparison does not cover.* A control plane that is replaced and put back
  during the run passes it; that is the exception in `ResultIsOfItsCode`. The packages
  `alphaforge` and `signalattice` are not hashed, so that the property says nothing of
  them; the package identity in the evidence is taken by the worker at its end.

### `PaperDispatch`: what paper trading promises about an order

An order is intended while every earlier one has its final report, cleared while no
stop is recorded, sent once, and then arrives or is lost; or it is dropped before it
is sent. The broker fills it unit by unit up to its size and closes it. The journal
learns that it exists, what is filled, and that it is final, never more than the broker
has. The contract knows no operations, symbols, accounts, positions or restarts.

### `PaperEngine`: orders

- *State.* The journal's records (`state`, `baseline`, `account`, `intent`,
  `order`, `decision`, `stopped`); the worker that holds the operator lock (`op`,
  `pc` and its locals); the network and the broker (`posted`, `wire`, `book`,
  `asked`, `foreign`); the clock.
- *Atomicity.* Every journal transaction and every provider request is a step.
  Between any two of them the broker trades, fills partly, closes or rejects
  orders, somebody else uses the account, a stop commits, and the worker is
  killed or raises. `OperationEnds` stands for every raising path and the
  kill: what is committed stays, the lock is free.
- *Abstractions.* Prices are 1. The strategy's target is freely zero or the
  configured quantity. The clock only advances: the journal refuses a
  rolled-back clock. `client_order_id` is a hash of configuration, symbol and
  minute: the pair stands for it. There is no way back from a stop on one root.

### `PaperCampaign`: records

`initialize`, `record_session` and `campaign`, one step per journal record, with
kills in between. A day has three stretches: before the official close, the
minute after it, and the rest. The account may change (positions only while the
market is open, equity always) between the read of the account and the read of the
clock. At most one stretch ends during an operation: the service kills a worker
after 30 s and the shortest stretch is a minute.

A report is the record `campaign` makes an artifact of: its moment, the scheduled
and the missing dates, and the observations themselves (`campaign.py:116`), read after
the clock. `ReportsAreTrue` compares every report with the journal as it is now: about
days that were over the two agree for ever, gaps included; an observation of the day of
the report can still be replaced by a repetition, which is why `ReportsAreTrue` excepts
it (see [Known divergences](#known-divergences)), but no repetition changes whether it was
flat at the close. `complete` of the code is a count over the embedded observations and is left out.

### `ShadowCampaign`: forecasts

Each call opens its own connection. `create_campaign` is one transaction;
`transition`, `seal_batch` and `append_outcome` check on one connection
and write on another (`TransitionRead`/`TransitionWrite`, `SealRead`/`SealLook`/
`SealInsert`, `OutcomeLook`/`OutcomeInsert`), and writers may crash between the
two. Triggers and unique indexes appear as the guards that make a write fail
(`TransitionFails`, `SealFails`, `OutcomeFails`). A batch and its forecasts are
inserted by one transaction, so a batch stands for its forecasts.

### `GovernanceLane`: promotion

A write is one `BEGIN IMMEDIATE` transaction and one step. Time passes
between the read of a head (`Approve`) and the transaction, between the commit and
its answer, and between the loads of `rebuild_head`. A caller may crash before or
after the commit and ask again with the same key (`Replay`). `AppendLocked` resolves
a repeated key by its payload, not its kind; `Forward` is the trigger on the head.
The digests that chain the events are left out: they detect files changed by other
means.

`append_event` takes every kind with every payload; `Appended` is what the callers of an
instance pass to it. A chain is only trustworthy for `_append_locked` when no event
under a key has the content of an assignment or a freeze and another kind
(`ContentTellsKind`): a freeze under the key of such an event moves the head and records
nothing. The run contains these events, and `HeadIsProjection` and `ApprovalsAreCurrent`
say what the code achieves: they hold of every chain without one under a key. That
assignments and freezes are left to `apply_assignment` and `freeze` is a hypothesis of the
theorems (`Disciplined`) and true of the run's `Appended`.

### `RunRegistry`: leased jobs

- *State.* `job`, `hist`, `runs`, `row` and `tomb` are the tables of jobs, events,
  runs with links, artifacts and tombstones; `order` the submission sequence;
  `lease[w]` what worker `w` believes it holds and `call[w]` the closing call whose
  artifacts it has verified.
- *Atomicity.* Every operation is one `BEGIN IMMEDIATE` transaction and one
  action. It begins with the recovery of a batch of expired leases (`RecoveredJobs`,
  `RecoveredHist`), so recovery is part of `Claim`, `Heartbeat`, `RequestCancel`
  and `CloseAttempt`; an operation that raises rolls it back with the rest and is
  no step. Only `request_cancel` of a finished job keeps it. The verification
  of artifacts (`Preflight`) comes before the transaction.
- *Abstractions.* Time is whether a lease has passed (`Expire`). A lease's token is
  drawn by the claim that raises the attempt number: job and attempt stand for it.
  A worker acts on one lease at a time. Every job keeps the same `max_attempts`. The instance `RegistryAlone` has no
  retention.
- `LegalEvent`, `RowReplays` and `RunsMatch` are the code's own replay of a
  history (`_verify_job_lifecycle`), which runs when a database is opened:
  `ReadinessHolds` says that it accepts whatever the operations produce.

### `ContentStore` and `Retention`: publishing and deleting

- *State.* `file[d]` is the object of digest `d`: generation (inode), number of
  hard links, whether older than the grace period; `pub[p]` the publication a process
  is in; `ctl[c]` the plan an operator process executes, how far it is and which
  candidate it is at.
- *Atomicity.* A publication is staged, linked (two links), unstaged and
  verified; the lock that is held while there are two links is the guard
  `LockFree`. `execute` is broken at each of its transactions and each access to the
  store: preflight, stage, inspect all, and for each candidate choose, inspect,
  compare, unlink and finalise. `unlink_verified` takes no lock: it compares
  the object with the planned generation (`CompareVerified`) and later unlinks whatever
  has its name (`UnlinkNamed`), be it a generation published since. Any process may stop between any two (`PublisherStops`,
  `WorkerStops`, `ControllerStops`), and what it did stays. `LoadPlan` is `resume`.
- *Abstractions.* A plan is the function from its candidates to the generations
  inspected; its signature, deadline and byte budget are left out. `verify` and
  `inspect` answer from one moment: the code compares the descriptor before and after.

### `EventEngine`: backtests

- *State.* `journal`, the durable sequence; `state`, the reducer's state (events
  seen, cursor, orders, identities, cash, position, charges, worth at the last
  snapshot, marks, the halt that is due); `pending`, the queue; `mode`.
- *Actions.* `ProcessOne`, `Submit`, `Drain` (one turn) and `Recover`. `Accepts` is every
  check of `_process` in the order of the code, `Publish` its effect, `Process` the
  append between them, which may fail before or after its commit. `Replay` folds
  both over the journal.
- *Abstractions.* An event's identity is the digest of its content: an event is its
  content. Amounts are integers, so that the tolerances for rounding are equalities;
  one symbol; `max_orders` exceeds the order identities; cost basis and realised
  profit, which nothing reads back, are left out. Events that `_process` refuses
  in every state are not offered. A journal that fails raises `JournalError`, the only
  error after which `_process` demands recovery (`event_engine.py:500`); an `OSError` from
  the checks after the commit (`journal.py:1022-1023`) is left out.

## Runs

| Run | States | Shows |
|---|---|---|
| `manager_safety` | 354,925 | `AuditIsHistory`, `QueueSound`, `QueueAgreement`, `NoLostWakeup`, `FifoService`, `AdmissionStops`, and `LifecycleSpec`: the manager implements `JobLifecycle` |
| `manager_liveness` | 129,955 | `JobsEnd`, `CloseEnds` |
| `worker_execution` | 614,856 | `ResultIsWhole`, `ResultIsOfItsCode`, `EndedCallsLeaveNothing`, `CallsEnd` |
| `paper_safety` | 473,006 | `SubmittedAtMostOnce`, `OneUnsettledOrder`, `ExposureBounded`, `ReadyIsReconciled`, `CancelReachesEveryOrder`, `StopEndsDispatch`, and `DispatchSpec`: the engine implements `PaperDispatch` |
| `campaign_records` | 1,566,096 | `ListedDatesAreObserved`, `ObservationsAreOfTheClose`, `ReportsAreTrue` |
| `shadow_campaign` | 33,058 | `SealedMeansStored`, `LogTellsState` |
| `governance_lane` | 1,537,995 | `HeadIsProjection`, `ApprovalsAreCurrent`, `KeysResolve` |
| `registry_leases` | 192,065 | `ReadinessHolds`, `EventRoom` |
| `retention_deletion` | 1,808,650 | `EvidenceIsReadable`, `RetentionExcludesWork`, `DeletedIsGone`, `IntentPrecedesUnlink` |
| `event_engine` | 451,611 | `RecoveryIsExact`, `LedgerIsOfTheJournal`, `DayOrdersEnd`, `NoLookahead`, `BankruptcyHalts` |
| `manager_abandoned`, `shadow_reopened` | | expected violations, see [Known divergences](#known-divergences) |

`manager_safety` also checks `TypeOK`; the types of the other modules are
proved, which says more and costs no run.

### Bounds, and why they are enough

- *Manager.* Two keys with two requests each are the fewest that let two
  submissions race with one key and conflict; two callers let one wait while
  another submits or cancels, and together with the scheduler and `close` make up to
  four threads. Two jobs fill the deque behind a running one, which is what FIFO
  order and lost wakeups need. One store failure breaks every multi-step
  operation at each of its steps; two starts give one recovery with every state of
  the table. Both budgets are two, so that the second job fills them and a third
  request is refused.
- *Worker processes.* Two callers for one permit, so that one is refused. Payload,
  pipe and output budget are one chunk and a worker may write two: pipes fill and
  the budget is exceeded. One tick is the whole timeout: it may come before any
  step. Two versions of the control plane, which replace each other as often as the
  operator likes. No symmetry, because the run checks liveness.
- *Paper engine.* Two symbols so that orders compete for the common ceiling;
  two minutes so that an order of an earlier decision can be outstanding; orders of
  up to two units so that fills are partial; a position ceiling of three so that
  a second full order exceeds it; an order budget of three, which is less than the
  four keys.
- *Paper campaign.* Three days of which the middle one is no session: a
  session before and after, and an operation that runs across midnight. Two
  dates exhaust the budget of observed dates. Two equities, so that a repeated
  observation differs. One report (`MaxReports`), made at any moment: the property is
  about each report alone, and reports change nothing that another one reads.
- *Shadow campaign.* Two writers, one instant, two opinions, two labels, two
  revisions: every pair of conflicting or identical writes. Four transitions lead
  from draft to closed, the longest path.
- *Governance.* Two callers, two revisions, one key and unkeyed requests, three
  events: enough to assign, move away and come back to the first champion
  while an old approval is pending (ABA), or to freeze, reassign and replay
  the freeze. Two other events, one with content of its own and one with that of a
  freeze, with and without a key; one with that of an assignment would show the same
  and takes the run past its time.
- *Registry.* Two jobs of different priority, two workers, two attempts: a lease of
  an old attempt meets its own job running again, under another worker or under the
  same one. Batches of one, so that a recovery leaves an expired lease behind.
  Six events a job, which is exactly the room `RegistryLimits` demands. No
  artifacts: they are the subject of the next run.
- *Retention.* Two digests, so that a plan is half done; two generations of each,
  so that an object is published again after its deletion; two controllers with
  one plan or two; one publisher, one worker and one job with one attempt, which is
  what may link between any two steps of a deletion.
- *Event engine.* Three sessions: a signal, its target, and an order two sessions
  on. Lots of two and minus one against a cash of three: partial fills, a sale, and
  a mark that bankrupts. Two fill identities, one of them used twice; two open
  orders; ten events. The queue holds an event that only becomes acceptable later,
  and one that stops being acceptable when something trades.

`CHECK_DEADLOCK FALSE` is set where a system really stops: a closed or
crashed service, an idle operator, an ended campaign, jobs that have all ended, or a
history or journal at its bound. The run of `WorkerProcess` checks deadlock: its
callers call again.

### Fairness

`manager_liveness` assumes weak fairness of the scheduler thread, of
the thread in `close`, and of recovery. The scheduler is a thread of the process that
the condition variable wakes and that never waits without being notified; a
worker is killed at its deadline, so a run ends; `close` and recovery are loops
over finitely many jobs. Nothing is assumed of callers, crashes or restarts.
The run has no store failures: after one, `JobsEnd` is false (see
`NoAbandonedWork`).

`worker_execution` is the other half of "a run ends": weak fairness of each calling
thread (`Step`) and of time (`Tick`), and none of the worker, its descendant
or the canceller. The thread waits at most 50 ms in `select` and is otherwise in
calls that return, but for the last `process.wait()`, which follows a `SIGKILL` of
the group; a process that the kernel cannot kill is outside the model.

## Proofs

All eight proof modules are checked by TLAPS to the last leaf: between them every
safety property that a passing run checks is a theorem, for every value of the
constants. Two conditions are hypotheses of theorems and not assumptions of modules:
`Disciplined` callers for the head of a governance lane, and `OneController` for
`UnlinksAreIntended`. All other assumptions are the named `ASSUME`s of the modules: bounds are
natural numbers, sets of keys, symbols, minutes and requests are finite where
something is counted or summed over them, `None` and the scheduler's name are none
of the values they are told apart from, and what is queued ahead of the event engine
are events that their constructors let through.

**`ResearchManagerProofs`.** `TypeInv` strengthens `TypeOK` by `HoldsJob`: a
thread past the point where it chose a job still holds one, without which the
types of the store's tables are not inductive. `TypeCorrect` is `TypeOK`.
`ImplementsLifecycle` shows that every step of the manager is a step of
`JobLifecycle` or a stutter; its lemma `StoreStep` reduces the actions to the four
transactions of the store. `KeysAreExclusive` (`OneJobPerKey`) follows from
the test inside the submitting transaction, whatever was looked up before.
`NoLateAdmission` (`AdmissionStops`) is an action property of the same steps.
Four strengthenings carry the rest:

- `SchedulerInv` for `QueueIsSound`: the active job is the scheduler's current one
  and is not in the deque, a scheduler that handles a fault is faulted, and the deque
  is empty while the process is down. Without the first, a cancelled job could be
  both running and queued.
- `AgreementInv` for `StoreAndQueueAgree`: besides the agreement itself, what each
  thread between its store transaction and its change of memory still owes (it is
  claimed only while no store operation failed, as the property is).
- `WakeInv` for `WakeupsArrive`: whoever waits is in the condition's set of waiters.
- `QueueOrder` for `ServiceIsFifo`: the deque is in the order of the `queued` rows
  of the audit table, so its head is the oldest of them.

`AuditIsTheHistory` needs no strengthening besides the types: it is a fact about
each job's rows and its last row, and a transaction adds one row that follows them.

**`WorkerProcessProofs`.** `WorkerInv` says what each step of a call knows of its
frame (`Framed`), of its processes (`Alive`), of its bytes (`Whole`) and of the
code the worker imported (`Loaded`: while the identified version is there and was
never put back, no other one was imported). `Whole` is the heart: what the group has written
is what was read plus what is in the pipe, and the output is closed only when
nobody holds the pipes and the pipe is empty, after which nobody can write.
`ResultsAreWhole` and `ResultsAreOfTheirCode`, which are about the step that returns a
result (`ReturnStep`), and `NothingIsLeft` follow; the permits
are counted with the cardinality of the set of calls under way.

**`PaperEngineProofs`.** `DispatchInv` has four parts besides the types (`Shapes`).
`OnceInv`: what each point of a cycle knows of the order it is about (before the
request nothing was posted under the key; an intent comes before a request).
`SettledInv`: a new intent is committed only when all earlier orders are settled.
`RecordedFillsHappened` itself: the journal is behind the broker, so a settled record
is final. `VisitedInv`: cancel has dealt with every unsettled order it has
no longer to visit. From it follow `SubmitsOnce`, `JournalIsBehind`,
`OneOrderAtATime`, `CancelIsComplete` and, as an action property, `StopIsFinal`,
for every universe, set of minutes and limit.

`ReadyMeansReconciled` rests on `ReadyInv`: a run that can still say ready has seen
every order settled in the journal, or read its account when it equalled what the
journal expects, and the journal does not change in between. `ExposureIsBounded`
rests on `ExposureInv`: `FillsFit` (no order fills beyond its size, and an open one
can still fill) and `LimitsHold` (from the decision to the send no order is open or
under way, so that nothing can trade and the checked limits still hold when the order
arrives). Positions are sums over orders; the lemmas about them (a sum changes by the
term that changes, a sum of smaller terms is smaller) are proved by taking a
set of orders of the smallest size for which they fail.

`ImplementsDispatch` is the refinement of `PaperDispatch`. The phase of an order is
told from the engine's state: an intent that was not posted is intended or cleared
while the worker that committed it still stands before the request, and dropped
otherwise; a posted one is sent, lost, working or done as the wire and the broker
have it. Most steps are `Quiet`, which the contract does not see; each of the others
is one step of one order, and there is a lemma for each. `DispatchInv` says which order
the worker is about and that it was never posted; `FillsFit` that a working order has
something left to fill.

**`PaperCampaignProofs`.** `CampaignInv` follows an account through the day:
trading ends at the close, so from the close on the account is that of the close
(`ClosedInv`); an account read less than one stretch before the second minute
after the close was read after the close (`ReadInv`); what is recorded then is of a
day whose close cannot change (`ObservedInv`). `ReportInv` adds when a report was
made: its days do not come after its moment, and an observation being written is of
the day of the newest report or of a later one, because one process at a time holds
the lock. So a report can be overtaken about its own day only. The three properties of the run follow for any
calendar, equities and budget of dates.

**`ShadowCampaignProofs`.** For any number of writers: types, `WhatIsSealedStays`
(a seal reported successful is the one stored), `RecordsAreAppended`, and
`EndIsFinal`, where the trigger does what the check outside the transaction cannot.
`LogLeadsToState` is inductive with the types: the row and its log entry are written
in one transaction, after a check that may be stale.

**`GovernanceLaneProofs`.** Whatever callers append, types hold and keys are unique
(`BaseInv`), and `RequestsResolve`. The rest is proved under `Disciplined`, for chains of
which `ContentTellsKind` holds: an old event with a key and the content of a freeze is a
freeze. The chain only grows, so that this held all along when it holds now
(`KindsBefore`), and `LaneInv` may state the rest under it. `HeadFollows` states what the head says of the chain:
its generation bounds that of every recorded assignment, the head carries the last
assignment, and, when frozen, the number of a later freeze. With it no replayed
assignment or freeze reaches an old event (`AssignIsNew`, `FreezeIsNew`): the
generations of recorded assignments are older, and the trigger refuses the
sequence of a freeze older than the last assignment. `HeadIsOfTheChain` follows,
and from it `ApprovalsHold`: what a compare-and-swap against the head compares
with is the projection of the chain before the new event. `RequestsResolve` adds to
`KeysResolve` that an answered call's event stays in the chain (`AnswersResolve`) and
that one key has one event, which the unique index enforces.

**`RegistryProofs`** is about the registry and the retention over it. A queued or
running job has used at most two events an attempt, the submission and one request
to cancel (`JobFits`). Every step replaces row and history of a job by ones that
fit again, the recovery of other jobs' leases included. `RoomForTheEnd` (`EventRoom`)
follows: the worst case that `RegistryLimits` reserves for (`contracts.py:628-632`) is
the right one. `ReadinessIsKept` (`ReadinessHolds`) needs `ReplayInv`, which ties a
job's history to its row and its run: each event follows from the one before it, the
last one tells the row's state, claimant and cancellation, and the run says
what the history told it. Every call that writes writes all three.

For retention, `LinkInv` carries the argument for
`EvidenceStays`: between the preflight of a closing call and its transaction, a
call that will succeed holds the current attempt, so a job runs; while a job runs
nothing is pending, and without a pending tombstone nothing is unlinked;
afterwards the link keeps the digest out of every plan. `LeaseInv` (a lease is
never newer than its job's attempt) turns "the lease matches" into "the attempt
is still the one that was claimed". `TombInv` and `CtlInv` say that plans are staged
whole and that a controller past its unlink speaks of a generation that is `Gone`,
which no later publication undoes. `WorkIsExcluded`, `DeletedStaysGone` and, as an
action property, `IntentIsFirst` follow, for any number of processes,
digests, generations and candidates. None of them relies on the comparison and the
unlink being one step: a digest with a tombstone is never linked, so an unlink that
meets a newer generation deletes no evidence. That the generation is the planned one
(`UnlinksAreIntended`) is proved for a single controller (`OneControllerSuffices`):
what it has compared keeps its name until it unlinks it (`ComparedStays`), because
nobody else unlinks and a publication leaves an object with a link alone.

**`EventEngineProofs`** is about a journal and the state it replays to, not about
the running engine. `Facts(J, s)` holds of the empty journal and of every journal
with one accepted event more, and the engine's state is the replay of its journal for
as long as it answers (`EngineInv`), whatever the journal answered, because `_process`
publishes exactly what a replay will. It says:

- `Ordered`: coordinates increase strictly, so a cause names one event, and the reducer
  has seen every event and used every identity;
- `Marked`: the close mark is never ahead of the open mark nor the open mark
  of the cursor, and a bar with open orders is not closed;
- `Balanced`: cash, position and charges are the sums over the journal, and no fill
  identity occurs twice;
- `DayOrders`: an order was submitted in its bar and filled by what the journal says,
  within its quantity; while it is open, its bar is the current one, with no later
  event, no charge and no close. A submission precedes these within its bar by its
  phase, and afterwards they require that nothing is open;
- `Descends`: a fill has a submission of its bar, a submission a target eligible for
  its bar, a target a signal, each earlier in the journal;
- `Halts` and `Followed`: an event that leaves no equity leaves its coordinate as
  what the next event must cite, and a halt leaves nothing possible.

`RecoveryBuildsTheSameEngine`, `LedgerAddsUp`, `OrdersEndWithTheirBar`,
`FillsDescendFromEarlierSignals` and `NothingOutlivesBankruptcy` follow. Replays and
sums are folds: that one more element is one more turn is proved for them
(`ReplayOfOneMore`, `SumOfOneMore`) from the definition of the fold, by taking the
smallest number of elements for which it fails. An offered event passes
its constructor (`MadeAreEvents`), which is what keeps all of this about integers.

Only model-checked: liveness (`JobsEnd`, `CloseEnds`, `CallsEnd`), which is out of
the prover's reach.

Proved, but not named by a passing run: `UnlinksAreIntended` for one controller
(`OneControllerSuffices`), `OneJobPerKey` (`KeysAreExclusive`),
`RecordsOnlyAppend` (`RecordsAreAppended`), `EndedCampaignsStay` (`EndIsFinal`),
`RecordedFillsHappened` (`JournalIsBehind`; the run checks it as part of the contract:
what `Learn` tells the journal is the broker's report of an order that arrived),
and the types of all modules.

## Known divergences

Where code and documentation disagree. Two are runs that end in a counterexample.

- `manager_abandoned`: `cancel` removes the job from memory before the store's
  transaction; when that raises, the job stays pending in the store, counts
  toward the queue budget, and nobody runs, fails or cancels it before a restart.
- `shadow_reopened`: a transition checked against `draft` commits after other
  writers moved the campaign on to `sealed`; the campaign is active again.

The models contain the following as well; no run is spent on them. The first three are
the exceptions that `HeadIsProjection`, `ReportsAreTrue` and `IntentPrecedesUnlink` make.

- `_append_locked` compares the payload of a repeated key and not its kind
  (`governance/store.py:303`). A monitoring event with the payload of a freeze, and
  then a freeze with its key: the head is frozen and no freeze is recorded, the "split
  record the chain exists to make impossible" (lines 285-287). An assignment or freeze
  given to `append_event` (line 357) enters the chain and leaves the head. Nothing under
  `src/` but tests calls `append_event`, and these do neither.
- `record_session` writes the observation and the list of dates in two transactions and
  refuses repetitions by the list only; killed in between and repeated the same day, it
  replaces the observation (`campaign.py:47-58`) that `docs/paper-operations.md:178` calls
  immutable, and a report of that day may hold the one that was replaced.
- Two controllers execute one plan and both compare the same object; one unlinks it, the
  content is published again, and the other one unlinks the new generation by its name
  (`cas.py:3178`, `3196`), although "a delete and republish of identical bytes fails
  closed" (`cas.py:1599-1600`); the test of `st_nlink` (line 1672) passes, because it looks
  at the old descriptor. The docstring leaves serialisation to the callers (line 1608);
  `retention.py:1107` does none. No run can have linked what goes, and with one
  controller it cannot happen (`OneControllerSuffices`).
- `initialize` takes the presence of the configuration as proof of all four records;
  killed after the second, it returns normally when repeated and leaves a root
  without creation time and state (`trading/engine.py:61`).
- `rebuild_head` loads events and head through different connections; a commit in
  between makes it raise `ChainIntegrityError`, although head and chain agree at
  every moment (`governance/store.py:640`, against lines 77-78).
- Between the end of a run that raised and the fault handler, `cancel` finds the
  job running in the store but nowhere in memory, and `deque.remove` raises
  `ValueError` (`manager.py:92`, `171`). `QueueAgreement` excepts that window.
- A seal that saw the campaign active inserts its forecasts although the campaign
  was sealed or abandoned since (`shadow/store.py:194`).
- Of two identical concurrent seals the second fails with `IntegrityError`
  instead of resolving to the first (`shadow/store.py:202`, against line 8).
- The replay of a committed assignment or freeze is refused as stale or
  forbidden, because those checks come before the lookup of the key
  (`governance/store.py:516`, `603`, against lines 19-20).
- After a kill between unlink and finalisation the tombstone stays pending and every
  claim is refused. `resume` does not mend it: it inspects every pending candidate
  before it deletes, and this one is gone (`retention.py:1041-1053`, `1107`). If the
  content is published again, it does not mend it either, because the
  generation is another one.
- After the content of a finalised tombstone has been published again, reading the
  intent of its plan raises, so other candidates of that plan can no longer be resumed
  (`retention.py:1302-1311`).
- `register_artifact` succeeds for a digest that has a tombstone
  (`registry.py:1240`), but no run can link it again: `Linkable` refuses for ever.
- A publisher killed between the link and the removal of its staging name leaves an
  object with two links, which every later publication of that content refuses
  (`cas.py:1085`) until somebody removes the staging file.
- `drain` takes an event off the queue before `_process` accepts it: one that is
  refused is gone (`event_engine.py:425`).
- A control halt is accepted while a DAY order is open (`event_engine.py:819-830`);
  `DayOrdersEnd` excepts it.

Seen while reading, outside the models: a checkpoint's last writer is read before
the file is replaced, so two writers both pass (`distributed/checkpoints.py:328-351`).

## Not modelled

`PROJECT.json` lists every component with its status and reason. Left out of the
modelled components: the paper journal's capacity, hash chain and creation;
`last_error`; the cadence loop of a paper session; the arithmetic of reports; the
request state machine of `governance/lane.py`; the upgrade procedure of the registry
database, its pagination cursors and legacy tables; the store's directories and
inventories; signatures, deadlines and byte budgets of retention plans; cost basis,
fill and cost models of the backtester. Assignments and
freezes that somebody passes to `append_event` are in `GovernanceLane` (`AppendEvent`),
except those whose payload `rebuild_head` could not read; no run or theorem about the
head allows them.

Left out altogether: parsing and presentation (HTTP, CLI, Nexus), one-shot builds,
and the numerical research of both packages, whose values are real numbers and whose
code shares no state. That is most of the repository's lines, which is why the
share of them that the models map is small. Components with state that are still to come
are in the plan.

## Plan

In order of importance; done parts first.

1. Research control plane: `JobLifecycle`, `ResearchManager`, `WorkerProcess` with
   their proofs (done). Next the composition: `Run` of `ResearchManager` replaced by
   the call of `WorkerProcess`, with preflights that compete for its permits.
2. Paper trading: `PaperDispatch`, `PaperEngine`, `PaperCampaign` with their proofs
   (done).
   Next `PaperJournal`: event ceiling with the reserve for the stop, operations
   of several records that fill it, creation by two processes and a crash.
3. Registry database: `ShadowCampaign`, `GovernanceLane`, `RunRegistry`,
   `ContentStore` and `Retention` with their proofs (done). Next `TelemetryQueue` and
   `AdmissionControl` of the service.
4. AlphaForge: `EventEngine` (done). Next `BatchExecutor` (budgets, out-of-order
   results, checkpoints) and `SessionState` (snapshot chain with two writers).

Each new component gets an MC module with the fewest actors that let its hazards
happen (two writers, one crash, a limit of one or two), and one passing run.
