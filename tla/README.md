# Verification of the Vrika / Prowler cloud-security platform

TLA+ models of the control logic of the backend (`src/api/src/backend`) and of
the web user interface (`src/ui`), checked with TLC on small instances, with
theorems checked by TLAPS for every value of the constants.  Paths below are
relative to `src/api/src/backend` unless they start with `src/`; in section 5
they are relative to `src/ui`.

## 1. Inventory

The repository is a Django REST API with Celery workers and Celery Beat
(`src/api`), a Next.js user interface (`src/ui`), an MCP server
(`src/mcp_server`) and deployment material.  The scanner itself (the Prowler
SDK) is a dependency.  API requests and tasks share one PostgreSQL database
(row-level security by tenant, optionally a read replica), the broker is Redis,
task results are kept in PostgreSQL (`django-celery-results`), schedules too
(`django-celery-beat`), and attack-path graphs live in Neo4j or Neptune.

| component | state | operations | what is hard | what makes it correct |
|---|---|---|---|---|
| Scan dispatch (`tasks/tasks.py`, `tasks/utils.py`, `api/v1/views.py`, `tasks/jobs/scan.py`) | `Scan.state/task/trigger/scheduler_task`, `TaskResult.status`, messages, `PeriodicTask` | create, revoke, schedule edit, Beat tick, the two scan tasks, promotion of the queue, provider deletion | many writers in separate transactions, two of them without the provider lock; crashes with early acknowledgement; publish after commit; redelivery | one scan of a provider at a time, FIFO, no lost wakeup, one queued scheduled run, a next run always planned |
| Schedule arithmetic (`tasks/provider_schedules.py`, `tasks/utils.py`) | none (pure) | next run, validation, advance | time zones, month ends, loops with a cap | the next run is in the future and on the requested day and hour |
| Attack Paths scans (`tasks/jobs/attack_paths/{scan,cleanup,db_utils}.py`) | `AttackPathsScan.state`, `graph_data_ready`, `sink_backend`, temporary graph databases, the sinks | insert, run, handler, `on_failure`, stale cleanup, graph drop of the deletion | the cleanup runs beside the worker it judges; graph data is dropped before it is written again; late acknowledgement | one run per row, a terminal state is final, the graph shown is complete and is shown again after a failure, a stuck scan ends |
| Finding triage (`api/triage*.py`) | triage rows, status history, mute flags | set status, reconcile after a scan, confirm a removal | scans finish out of order, users act meanwhile | a reconciliation only moves a finding forward, a removal is confirmed before it is shown |
| Orphan recovery (`tasks/jobs/orphan_recovery.py`) | `TaskResult.status`, worker, attempts, advisory lock | reconcile | a task that looks dead may be alive, recovery may loop | a live task is never re-run, the attempts are bounded |
| Provider and tenant deletion (`tasks/jobs/deletion.py`) | `Provider.is_deleted`, all rows of the provider | soft delete, batched purge, retry | runs beside scans of the provider | nothing of a purged provider stays |
| RLS transactions (`api/db_utils.py`, `api/db_router.py`) | tenant variable, connection alias | open, fail over from replica to primary | retry after partial use of a cursor | no statement runs without its tenant, no write is replayed |
| Scan execution (`tasks/jobs/scan.py`) | findings, resources, summaries | batches, deltas, counters | deadlocks and retries | counts equal the findings |
| Task watcher (`src/ui/store/task-watcher`, `src/ui/actions/task`) | per tab: zustand map, poll loops; shared: `localStorage`, Web Locks | generate, track, poll round, resume, reload and close a tab | several tabs, each with its own copy of the map; locks that are waited for | a result is announced once; a reload resumes what is pending |
| Chat page (`src/ui/app/(prowler)/lighthouse`) | active session, `EventSource`, stream state, `isSubmitting` | submit, stream events, reload of the messages, new chat, archive, leave | calls that return after the page moved on; a stream without replay | one session on screen, one run at a time, a composer that opens again |
| Finding group rows (`src/ui/hooks/use-finding-group-resource*`) | loaded rows, paging refs, optimistic triage, ticked rows | load a page, refresh, triage, tick, bulk mute | aborted loads that still answer; two changes of a row; ticks kept by index | rows are pages in order and agree with the server; the mute takes what was ticked |
| Resource drawer (`src/ui/components/findings/table/resource-detail-drawer`) | index, two caches, loading and skeleton state | open, close, navigate, mute, triage, reload | a user faster than the answers; caches filled by aborted loads | the drawer shows the row it is on, and a confirmed change |
| Attack Paths page (`src/ui/app/(prowler)/attack-paths`) | selected scan, query list, global graph store | select, execute, filter, leave | the store outlives the page, executions are not aborted | the graph belongs to the scan; the full view comes back |
| Organization wizard (`src/ui/components/providers/organizations`) | wizard step, store of selection and results, pool of tests | discover, select, apply, test, skip, launch, reopen | steps repeated in any order, calls that fail half-way | only connected accounts are launched; the step unlocks |
| Post-scan tasks, mute rules, accounts, RBAC, partitions, SSE, health, Lighthouse configuration, other UI pages, MCP server, deployment | see `PROJECT.json` | | mostly data transformation, I/O, presentation or configuration | |

Interactions: the API commits rows and publishes Celery messages (on commit, or
in two places before it); Beat publishes from `PeriodicTask`; a scan task ends
by publishing the post-scan tasks (attack paths, triage, compliance,
integrations) and by promoting the provider's next queued scan; provider
deletion hides the provider at once and purges it in a task of its own.  The UI
talks to the API only through server actions of the Next.js server (and one
event-stream route): a component awaits a call and finds its state changed when
it returns.  The six UI components share no state with each other, except that
the drawer sits over a list of findings; what that list does to it (rows
appended, rows reloaded) is part of the drawer's model.

## 2. Plan

Order, most important behaviour first:

1. `ScanDispatch` with its abstract queue `ScanQueue`, `MCScanDispatch`,
   `ScanDispatchProofs`, `ScanQueueProofs` (**done**: model, five runs; proved are
   type correctness, one scan at a time, one scan per task, the safety part of the
   refinement, order, finality, one queued scheduled run, the wakeup
   invariant, that without faults no accepted scan is left unattended, that the
   next run stays planned and that nothing outlives a deleted provider).
2. `AttackPathsScan`: worker, periodic cleanup, deletion; `MCAttackPathsScan`,
   `AttackPathsScanProofs` (**done**: model, five runs; proved are type
   correctness, every safety property the passing runs check, that a completed
   run leaves its graph open and whole, and that a row goes through its life once).
3. The stateful parts of the UI: `TaskWatcher`, `LighthouseChat`,
   `FindingGroupList`, `ResourceDrawer`, `AttackPathsPage`, `OrgWizard`, composed
   for TLC by `MCUserFlows` and `MCFindingsAndChat`, with proof modules for all of
   them (**done**: models, two runs; proved for every value of the
   constants are type correctness, every safety property and the safety part of
   each of the five liveness properties, and that the two compositions implement
   their parts).
4. `FindingTriage`: reconciliation of out-of-order scans, user actions,
   confirmation of removals.
5. `OrphanRecovery`: liveness test by ping, re-enqueue, attempt cap.
6. `RlsTransaction`: replica failover and replay.
7. Schedule arithmetic as functions checked against a reference definition.
8. Proofs to come: the components of items 4 to 7 once they are modelled.

## 3. Scan dispatch

### Modules

* `ScanQueue` is the promise: waiting scans and at most one running, started in
  insertion order, withdrawn together when the provider is deleted.
* `ScanDispatch` is the code, for one provider.  All queries of the dispatcher
  filter by provider and every decision to run or queue is taken under
  `SELECT ... FOR UPDATE` of the `Provider` row, so one provider is enough and a
  transaction under that lock is one action.
* `MCScanDispatch` and its cfgs instantiate it; `ScanDispatchProofs` proves type
  correctness, `ScanQueueProofs` everything else.

### State

| variable | code |
|---|---|
| `provider` | the `Provider` row: active, `is_deleted`, or purged |
| `periodic`, `beatOn` | the schedule's `PeriodicTask` row and its `enabled` flag |
| `scan`, `nextScan` | the `scans` table: state, trigger, `task_id`, `scheduler_task_id`, by insertion rank |
| `status`, `argOf`, `nextTask` | `TaskResult.status` and the arguments of a task |
| `queue`, `revoked` | messages the broker holds; ids the workers were told to discard |
| `worker` | program counter and locals of each worker of the `scans` queue |
| `edit` | a schedule upsert between its read and its save |
| `clobbered` | history: a stale save overwrote a row that had moved on |
| `disputed` | history: an upkeep deleted the duplicates of a placeholder that was none any more |
| `budget` | the environment's remaining actions |

### Actions

`CreateScan` is `ScanViewSet.create`; `RevokeTask` is `TaskViewSet.destroy`;
`UpsertRead`/`UpsertCommit` are `upsert_provider_schedule` (split because it does
not take the provider lock and saves the row it read), also reached through the
daily endpoint, which publishes before it commits; `RemoveSchedule` is
`remove_provider_schedule`.  `BeatFire`, `Redeliver`, `Start`, `FinishTask` and
`Crash` are Beat, the broker and the worker processes.  `BeginManual`,
`SkipScheduled`, `QueueScheduled`, `RunScheduled` are the entry transactions of
the two scan tasks, `EnterScan` and `FinishScan` the first and last transaction
of `perform_prowler_scan`, `EnsureRead`/`EnsureWrite` the unlocked placeholder
upkeep of the `finally`, `DispatchNext` its promotion of the queue.  `DbError`
rolls back the transaction a worker is in.  `DeleteProvider`, `PurgeScans`,
`PurgeProvider` are the deletion endpoint and task.

Abstractions: scan arguments, names, progress and times are left out, and where
the code orders placeholders by `scheduled_at` any is chosen; schedule edits of
a provider are taken one at a time; a task's arguments name the scan; everything
between EXECUTING and the outcome is one step that may complete, fail or find
the row gone.  A transaction that inserts or saves a row of a provider that is gone
fails on the foreign key (`ProviderExists`).

### Runs

Bounds are the number of scan rows and tasks ever created and a budget per kind
of environment action.  Two workers are enough for every overlap of two tasks;
the three operations a budget allows (two creates or a create and ticks) are
enough for one running, one queued and one newcomer.

| run | question | result |
|---|---|---|
| `scan_quiet` | ordinary operation, deletion included: refinement of `ScanQueue`, wakeups, liveness | holds |
| `scan_faults` | one crash, revoke, lost publish and failed transaction anywhere, two ticks: `SingleFlightInv`, one queued scheduled run, order, terminal states, every step a step of `ScanQueue` (`QueueSteps`) | holds |
| `scan_edits` | a schedule edit beside runs, a message delivered twice: exclusivity unless clobbered, duplicate guard, next run planned, nothing outlives the provider | holds |
| `scan_refire` | the comment at `tasks/tasks.py:565`: a dropped run is re-fired on the next tick | violated: the re-fired run queues behind the dead scan |
| `scan_overlap` | `src/api/CHANGELOG.md:30`: scans never run concurrently | violated: stale save of the schedule upsert |

`CHECK_DEADLOCK FALSE` everywhere: when the budget is spent and the tasks have
ended the system really rests.

`Undisturbed` in a property excludes exactly two things: a stale save that
overwrote a row that had moved on (`clobbered`, shown reachable and harmful by
`scan_overlap`) and a second delivery of `scan-perform`, which the code does not
guard.  Crashes, revocations, lost publishes and failed transactions are not
excluded from the properties about dispatched and ended scans.

`NextRunPlanned` is about the placeholder of the next run.  It allows every overlap
of runs, edits, ticks and second deliveries, and sets three things aside: a worker
that died or a transaction that failed before the upkeep was done, and `disputed`.
`_get_or_create_scheduled_scan` (`tasks/utils.py:109-146`) reads the placeholders,
deletes all but the first and saves the first only if something of it changed.  If
the first was used or deleted after the read, and nothing is saved, the schedule is
left with what the upkeep has just deleted: `disputed` records the step in which that
happens, whoever wrote the duplicates.  It takes two upkeeps that keep different
placeholders, each deleting the other's, or an edit that saves one a run has taken;
the model needs three workers, or one edit, a manual scan and three ticks.  In the
code the order by `scheduled_at` makes two readers keep the same one unless a time
changes between their reads; the model has no times and takes any, so `disputed` is
met more often there than in the code and hides nothing else: it is set in no
other step.

### Fairness

`FairSpec` assumes that a worker's next step happens (tasks have soft and hard
time limits, `config/celery.py:41-81`), that the broker delivers a message it
holds to a free worker, that an HTTP request ends, and that provider deletion,
`autoretry_for=(Exception,)`, ends.  Requests, Beat and faults are never assumed
to happen.  Liveness is checked with no fault in the budget, because the code
does lose wakeups after a crash (finding `scan_refire`).

### Proofs

`ScanDispatchProofs` proves `TypeCorrect == Spec => []TypeOK` from
`BoundsAssumption` alone, for any set of workers.  It rests on one lemma per
helper (what the rows are after the orphan cleanup or the placeholder upkeep,
`Spend`, `Unlink`, a step of a worker) and one lemma per group of actions; a
conjunct that needs an argument is that a message count never goes below zero
(`Start` takes only a message that is there) and that a running worker has a
scan (`argOf` is never `NoScan` for the tasks `BeginManual` takes).

`ScanQueueProofs` proves `ScansRunAlone == Spec => []SingleFlight`, again for
any workers, scans, tasks and budget of faults.  `SingleFlight` is far from
inductive: it says nothing of the message that is about to become a second
worker.  `SingleFlightInv` (a run checks it as it stands) adds two things.

* `Fresh`, in every execution: ranks and tasks not handed out yet are unused, and
  no row, worker or upsert in progress refers to them.
* `Work`, as long as the execution is `Undisturbed`: a task has one carrier, a
  message or a worker (`OneCarrier`); it belongs to one scan (`OneScanPerTask`);
  a message or a task that begins names the scan that waits for it
  (`CarriedScans`); one scan is dispatched (`OneDispatched`), and a running worker
  works on it (`RunningDispatched`).

The argument goes by what a step does to claimed scans.  The tables first: every
helper of the dispatcher and both stale saves, unless they clobber, leave a scan
that has a task or runs as it was (`Alike`, `Tidy`).  Most steps then only end
work (`WorkKept`).  What is left has a lemma each: a task or a scan is added
(`WorkGrows`, where a new scan is PENDING only if nothing is dispatched), a
message becomes a worker (`WorkStart`), a worker goes for its scan (`WorkBegin`,
`WorkRun`), the scan runs and ends (`WorkState`), the oldest queued one is
promoted (`WorkDispatch`).  While the provider is active `Work` leaves room for
one running worker (`OneRunnerWhileActive`); once it is deleted no worker starts
a scan, so the bound stays (`RunnerKept`).

The same module proves `OneRunPerTask == Spec => []OneRunPerScheduledTask`, with
redeliveries and stale saves allowed: a step gives a task to a row only if no row
has it (`Claims`), because a queued run gets a task of its own and
`perform_scheduled_scan_task` first looks for the scan of its task.

On `SingleFlightInv` rest three more theorems about undisturbed executions, all
faults included.

* `QueueRefined == Spec => SQ!Init /\ QueueSteps`: every step is a step of
  `ScanQueue` with the queued scans as `waiting` and the dispatched ones as
  `running`, or leaves both alone.  The end of a run needs `QueueInv`: what a
  worker runs neither waits nor has ended, also when the provider is deleted
  under it, where `Work` says nothing any more.
* `OldestFirstAlways == Spec => NoOvertaking` follows from the steps of the queue.
* `FinishedStaysFinished == Spec => TerminalStays`: a step that writes the state
  of a claimed scan is one of its own worker, by `QueueInv` not on an ended scan.

`OneRunWaits == Spec => []OneQueuedScheduledScan` holds in every execution, those
with stale saves and redeliveries included, so it cannot use `Work`.
`OneWaitsInv` adds that a task that waits in the queue has no message and no
worker (`Unpublished`): the task a worker begins with is then never one that
waits, and the reuse of the queued run in `perform_scheduled_scan_task` finds
whatever waits.

`WakerAlways == Spec => []QueuedHasWaker` is about executions without faults.
`QueuedHasWaker` alone is not inductive: the waker may be a scan that is
dispatched with nobody to run it.  `WakerInv` adds that every dispatched scan is
carried by a message or a worker (`Attended`) and that nothing is revoked; every
way out of a scan leads through the promotion, and a promotion leaves either an
empty queue or a published message.

`NextRunAlways == Spec => []NextRunPlanned` holds for any number of workers, scans,
ticks, manual scans, schedule edits and redeliveries, stale saves included.  The
invariant is `PlanInv == Books /\ Soon`.  `Soon` says what is promised while work is
under way: without a placeholder some worker is about to write one (`Planner`: a
scheduled run of this schedule that goes on, an upkeep about to read, or one about to
write that has something to save).  That a step takes the last placeholder away only
if it becomes such a worker, or is disputed, needs to know which rows a step can
touch, and that is `Books`:

* the scan that a scan-perform task names has a task or is gone, and no upkeep or
  edit has read it as a placeholder (`Settled`, `TaskRows`), so running it takes
  no placeholder away;
* a worker runs the scan its task names (`RunsOwn`);
* an upkeep does not drop the row it keeps, and one that found no row inserts one
  (`WritesApart`);
* a scan belongs to one schedule, in the table and in the hands of everybody who has
  read it (`Holds`, `OneBeat`), and an edit that has read a placeholder edits the
  schedule that exists (`EditKnows`), so a late write never moves a placeholder to
  another schedule.

Nothing in it counts workers or edits: the step that would need the count is the one
`disputed` names.

`NothingOutlives == Spec => []NothingOutlivesProvider` is about every execution, with
all faults.  The purge removes scans, then the provider, and a run, an upkeep or an
edit that began before may write after it.  Each such write either updates a row that
is there, or fails because the provider is gone, or is guarded by a fresh read of it.
`WritesApart` is needed for the upkeep: one that saves nothing, so that no foreign key
stops it, has kept a row and inserts none.

`AcceptedIsAttended == Spec => []AcceptedScanAttended` is the safety part of
`AcceptedScanEnds`: without faults and while the provider is active a scan with a
task has ended, or is dispatched and carried by a message or a worker, or is
queued and has a waker.  `WakerInv` speaks only of scans that are dispatched or
queued; that there is no fourth kind is `Accounted`: a scan that has a task and has
not ended is in one of the two.  `Accounted` could break where a task
ends while its scan has not, so `FinishTask` is its hard step: a task that ends carries no dispatched scan
(`EndedTaskCarries`), and a task that waits is not one a worker has started
(`QueuedTask`).  The theorem says that nothing is orphaned; that the message is
then taken and the worker goes on is fairness.

What is left of liveness (the fairness steps of `AcceptedScanEnds`, and the fairness
in `ImplementsScanQueue`), `ENABLED` and induction over data are out of the
prover's reach and stay with TLC.

## 4. Attack Paths scans

### What is modelled

`AttackPathsScan` is the life of the attack-paths graph of one provider: rows,
gates and graphs are all selected by provider (and sink), so one provider is
enough.  A row stands for one parent scan.  When the parent scan completes, a
worker ingests the provider into a temporary database of that row, closes
`graph_data_ready` of every row in the target sink, drops the provider's graph
there, copies the new one, names the sink in its row and opens its own gate.

| variable | code |
|---|---|
| `provider` | `Provider.is_deleted`, then how far `delete_provider` is |
| `parent` | the Prowler scan of the row: running, ended, task published |
| `row` | the `AttackPathsScan` table: `state`, `graph_data_ready`, `sink_backend`; "creating" is a row read for but not committed |
| `queue`, `revoke` | messages of the row's task; what a revocation told the workers |
| `worker` | program counter, row and what the handler of `run()` would reopen |
| `graph`, `intact` | content of the provider's graph in each sink: empty, partial, full; the copies no drop has hit |
| `tempdb` | which temporary databases exist |
| `cleaner` | the periodic cleanup and the row it judged |
| `excuse`, `budget` | history of the known ways past the gate; the faults that are left |

`CreateRead`/`CreateInsert` are `create_attack_paths_scan` (its query and the
commit of its transaction), `Dispatch` the publication at the end of a scan,
`Take` the delivery.  `Begin` to `Finish` are the stages of `run()` in order,
`Recover`, `ClearTemp`, `MarkFailed` its handler, `ClearTemp`, `FailRow`,
`CheckData`, `ReopenFailed` the `on_failure` of the task.  `Judge`,
`JudgeScheduled`, `CleanTemp`, `Finalize`, `CleanCheck`, `CleanReopen` are the
cleanup (`CleanRaise` one of its transactions that fails), `HideProvider` to
`PurgeRows` the deletion.  `Raise` fails any
operation of a run, `RaiseInHandler` any of a handler, `Crash` kills a worker
(the message comes back), `Redeliver` is the visibility timeout, `Terminate` the
SIGTERM of a revocation.

Abstractions: `Begin` merges the unlocked early check of the row with the locked
start, whose outcome it cannot change; drop and copy have a beginning and an
end, because another run may act in between, and what they do batch by batch is
"partial"; ingestion is one operation that fails if its database was dropped or
its row is gone (every stage saves progress); the cleanup takes the rows of a
pass one at a time; providers without an ingestion function never get a row.
Time is not modelled: a row with nobody running it may be judged at any time, a
row with a live worker only by an unanswered ping or a run past the threshold
("deaf", "slow"), which are budgeted and recorded as "misjudged".

### What the history excuses

A property about queries must not blame the gate for what the code accepts.
`excuse` names each such way when it is taken, and a property lists the ones it
sets aside: a second run in the swap (`overlap`; it is a finding, and
`attack_overlap` shows what it does), a row inserted with the gate it read before
the gate closed (`lateInsert`), a drop that failed half-way and was reopened by
the handler (`torn`), the best-effort reopening by `recover_graph_data_ready`
(`recovered`: it asks whether there is data, not whether it is whole), a handler
that opens its own row, which still names the sink of before a switch of the
target (`stranded`), a recovery that failed itself and was only logged
(`gaveUp`: nobody looks at the row again), a drop of a temporary database whose failure is logged and swallowed (`tempKept`), a live
worker taken for a dead one by the cleanup or by a duplicate that failed before
it started (`misjudged`).

### Runs

| run | instance | question | result |
|---|---|---|---|
| `attack_swap` | two rows, two workers, one run that raises and one worker that dies, anywhere; rows and workers symmetric | queries see whole graphs, a complete graph opens again | holds |
| `attack_stray` | one row, two workers, one of every fault | one run per row, temporary databases removed, a finished row stays, every row ends | holds |
| `attack_overlap` | two rows, two workers, no fault | `scan.py:7`: queries never see a half-built graph | violated |
| `attack_reopen` | two rows, target sink Neptune, one crash | `db_utils.py:245`: the gate is restored where there is data | violated |
| `attack_purge` | one row, no fault | `deletion.py:49`: a provider is deleted with its data | violated |

Two rows give a previous graph and its replacement; a third adds no new pair of
runs.  One row is enough for what concerns a single row, and there every fault
fits in the budget at once.  `CHECK_DEADLOCK FALSE`: when all rows have ended
and the faults are spent, the system rests.

### Fairness

A worker's next step happens (weak fairness of `RunStep`: tasks have time
limits), the cleanup finishes the row it took, a request ends and the deletion
is retried until it ends.  Judging a row has strong fairness, per row: the
periodic pass goes through all stale rows each time, so a row that is
stale again and again is judged at last; the model takes the rows one by one,
which weak fairness of the whole would let starve.  Delivery is not assumed:
`RowEnds` holds although messages may be lost.

### Proofs

`AttackPathsScanProofs` proves, from `SinkAssumption` and
`AttackBudgetAssumption`, for any rows, workers and budget:

* `TypeCorrect == Spec => []TypeOK`.  The part that needs an argument is that a
  busy worker is always on one row of the table: `MovesOn` says once what every
  step of a run does to its worker.
* `RunsOnce == Spec => []OneRunPerRow`.  It is not inductive: it does not say
  why a worker that starts a row finds nobody on it.  `RunInv` adds `Started` (a
  row somebody runs is past SCHEDULED) and `NotAgain` (if such a row was deleted,
  the provider is gone, so that the row is never inserted again).  Every step but
  the start adds no run and puts no row back; the start takes a SCHEDULED row,
  which by `Started` nobody holds.

* `QueriesSafe == Spec => []QueriesSeeWholeGraph`.  `GraphInv` adds what the
  worker remembers of its progress (`UndoFits`) and, while no way past the gate
  was taken, that one worker is in the swap (`OneSwap`), that every row of the
  sink is shut from the drop to the copy (`GateShut`), that a run which would
  reopen its own row has a complete copy (`FullWhenOwn`, `CopyIntact`) and that the
  row it opens names the target (`OpenOnTarget`).
* `EndsOnce == Spec => EndedStays`.  `FailInv` says who has a row for himself: a
  failing task that ran its row and the cleanup that judged one find it run by
  nobody (`FailedOver`, `JudgedOver`), unless a live worker was misjudged.
* `TempsDropped == Spec => []NoTempLeft`, with `TempInv`: a temporary database
  belongs to an EXECUTING row, and whoever is about to end that row has dropped
  it.
* `GraphReopens == TargetSink = "neo4j" => (Spec => []FullGraphReopens)`, with
  `ReopenInv`: while the graph is complete a row is open, or somebody is on the way
  to opening one (`Due`).  It is stated for Neo4j, where no row has ever named
  another sink; with Neptune the run `attack_reopen` refutes it.

* `CompletedRunIsOpen == Spec => [][CompletesOpen]_vars`: while no way past the gate
  was taken and the provider exists, a row becomes COMPLETED only open, on the
  target sink, over a complete graph.  `QueriesSafe` alone would let a run end
  with its gate shut.  `OpenedInv` adds to `GraphInv` that a worker past
  `set_graph_data_ready` still has its row open (`OpenedOnTarget`): only
  closing the gate shuts an open row (`NextStaysOpen`), and another gate now would
  be a second run in the swap.
* `RowsLiveOnce == Spec => [][RowsMoveForward]_vars`: a row is inserted, scheduled,
  run and then ended, and is never scheduled or started a second time; a provider
  that is gone stays gone, so that a deleted row is not inserted again.  It is the measure of
  `RowEnds`: a row can change state a bounded number of times, and once it has
  ended `EndsOnce` says it stays so unless a live worker was misjudged.

The fairness steps of `RowEnds` and the three properties that runs refute stay with
TLC.

## 5. Web user interface

### What the modules have in common

JavaScript runs to completion, so what a handler does between two awaits is one
action, and the answer of a call is another.  What a call reads on the server is
an action of its own where it matters that the answer may be old (list, drawer).
A call may come back with a value, with an error object, or reject: a server
action that returns `handleApiResponse(...)` without awaiting it does not catch
a 5xx with its own `try`, so rejections are kept apart from error answers.  Next.js
sends the server actions of a tab one after the other but for navigations; the
models let every two requests cross, which covers that order too.

| module | actors | state and actions |
|---|---|---|
| `TaskWatcher` | tabs, `localStorage`, Web Locks, the server task | `tasks` and `stored` are the zustand map and its persisted copy, `poll` is `activePolls` with the lock's queue; `TrackAndPollTask`, `RunIfPending`, `PollRound`, `ResumePendingTasks`, `LoadPage`, `ClosePage` |
| `LighthouseChat` | submits, the page, the session server | `phase` of each `submitMessage`, `source` and `link` of the `EventSource`, `gate` is `streamState.activeTaskId`; `SubmitMessage`, `SessionCreated`, `SendMessage` and its answers, `RunEnds`, `TerminalRefresh`, `ResetToNewChat`, `Unmount`, `RunElsewhere` |
| `FindingGroupList` | page requests, triage updates, another user | `controller` numbers the `AbortController`s, `calls` are requests with what they read, `optimistic` maps a finding to its newest change; `LoadNextPage`, `Refresh`, `PageArrives`, `UpdateTriage`, `UpdateFails`, `MuteSelected` |
| `ResourceDrawer` | loads of two parallel requests, a timer, the list below | `fetches`, two caches, `isNavigating` with its timer; `NavigateTo`, `FindingReturns`, `OtherReturns`, `RequestRejects`, `MuteReturns`, `TriageReturns`, `AppendRows`, `ReloadRows` |
| `AttackPathsPage` | executions, loads of query lists | `data`, `fullData`, `isFilteredView` are the graph store, which outlives the page; `HandleExecuteQuery`, `QueryAnswered`, `SelectScan`, `OpenPage`, `LeavePage` |
| `OrgWizard` | the dialog, a pool of connection tests, launches | `wizardStep`, the store (`selected`, `created`, `results`), `inTest`/`toTest` of the pool; `HandleStartTesting`, `ApplyAnswered`, `TestConnectionReturns`, `SkipValidation`, `LaunchScans`, `LaunchDone` |

Abstractions: texts, filters, notes, labels and layout are left out.  A task of
the watcher is settled or not, its file is not followed.  Of a finding the list
keeps its status and whether it is muted, the drawer only whether it is muted or
triaged.  A graph is the query it answers and whether it is whole or a filtered
part.  In the wizard the calls of the setup step are one operation that succeeds,
fails or is abandoned, and an account and its provider have one name.  Leaving
and coming back to the chat is a new chat; the list follows one expansion of a
group.

### What the history excuses

As in section 4, each exception is a state variable that records one way past
the property when it is taken, so that nothing else hides behind it.

| variable | what it records |
|---|---|
| `overwritten`, `expired` (watcher) | another tab's stale map replaced the record; the task was given up after `STALE_TASK_MS`, which the code does unasked |
| `uninvited`, `fate` (chat) | a new session came back to a page that had moved on; the stream in use dropped, was cleared by the reload for an earlier run, or never heard its end |
| `contested`, `shifted`, `rejected` (list) | another user changed the finding, or two changes reached the server in the other order; rows were reloaded under ticks; the last reload was rejected |
| `astray`, `stale` (drawer) | the rows moved under the index; an older copy was on its way when a change was confirmed or lost |
| `overtaken` (graph page) | the query was under way when the scan was changed or the page left |
| `applying = "stuck"` (wizard) | a call of `handleApplyAndTest` rejected, which nothing catches |

### Runs

| run | instance | question | result |
|---|---|---|---|
| `user_flows` | two tabs, two tasks, two rounds, two page loads, locks supported; two scans, three executions, three visits; three accounts, two test workers, two openings, four applications | tasks announced once and resumed, poll loops end, graph of the selected scan, full view restorable, only connected accounts launched, the wizard unlocks | holds |
| `findings_and_chat` | two findings in pages of one, two changes; a drawer over two rows with three loads and one change; two submits | pages in order, newest change shown, rows and server agree, selection, drawer and caches consistent, one session per chat, spinner, skeleton and composer recover | holds |

The parts of a run share no state, so a behaviour stays in the part chosen by
`view` at the start: the state space is the sum of the parts instead of
their product, and every behaviour of each part is in it.  Each part's fairness is
conjoined; it is vacuous while the part is not in view.

The bounds: two tabs contend for a lock and overwrite each other's map; the
second page load is the reload that resumes.  Three executions let an old answer
meet a newer one in a third selection.  Three accounts and two workers leave one
waiting, so that rounds end in either order, and four applications are enough to
select again, fail, retry and launch.  In the list two updates are an older and a
newer change of one row, pages of one row make every load matter.  Three loads of
the drawer are a row, its neighbour and the way back.  Two submits are a message
and the next one; a third adds a case only to what `uninvited` records, and the
theorems hold for any number.  `CHECK_DEADLOCK FALSE`: a page may rest, with
nothing under way and the bounds used up.

### Fairness

Calls return, with an answer or an error, and timers fire: fetches and server
actions end with the connection, poll loops count their attempts.  Web Locks
grants a lock to its waiters in order, hence strong fairness of `RunIfPending`,
which a lock that is taken and freed again and again would otherwise starve.  The
session server ends every run.  Nothing is assumed of the user, of the server's
task, or of the stream, which may drop or stay silent.

### Proofs

Each proof module extends its component (`UserFlowsProofs` and `FindingsProofs` the
composition they are also about) and proves, from the components' named
assumptions alone, type correctness and the results below for every value of the
constants.

* `TaskWatcherProofs`: `UnannouncedResumes` needs that a record that is ready, in
  any copy, was announced (`ReadyAnnounced`).  `TasksAnnouncedOnce` needs more:
  a task has one post and is unknown to every map before it (`PostedOnce`,
  `UnknownBefore`); with locks one tab at a time polls a task (`OnePoller`), and
  once a task is announced no polling tab still has it pending, nor does storage
  (`AnnouncedDone`).
* `LighthouseChatProofs`: `PageOnOneSession` and `AnswerClosesComposer` are proved
  together, since the gate of a stream follows from whose stream it is
  (`GateOfSource`), and a session that comes back uninterrupted finds the page
  still mounted (`CreatingOnPage`).  `SubmitsAreSerial` shows that the flag
  `isSubmitting` covers every submit in progress while the page is not reset.
* `UserFlowsProofs`, the graph page: `GraphBelongsToScan` and `BackToFullView` are
  inductive together with what the store may hold (`GraphKnown`) and which queries
  are asked (`QueriesKnown`).
* `OrgWizardProofs`: `LaunchIsConnected` rests on `RoundCovers` (while a
  round of tests goes on, the accounts outside it have passed and those neither
  in test nor waiting are tested), `AgainIsTested` (a selection that counts as applied has all
  its accounts tested, so that repeating the failed ones is enough),
  `SuccessIsLast` (a result "success" means the last test passed) and
  `DiscoveryIsBlank` (no provider is kept while a discovery is under way).

* `FindingsProofs`, the list.  `ListInv` is inductive for its four properties
  together.  `PagesInOrder` needs that one request at a time is not aborted and
  asks for the page after the loaded ones (`CallsOrdered`, `PagesFollow`);
  `NewestChangeShown` that a row's optimistic entry is its newest update's
  (`Entries`); `RowsMatchServer` what the server holds once that update is written
  (`EntriesWritten`) and that rows, loaded or in an answer, agree with the server
  unless an update of them has yet to return (`RowsAgree`).
  `SelectionIsWhatWasTicked` needs that no finding is shown twice (`RowsApart`).
  Pages are cut from a list that shrinks as findings are muted, so this rests on the
  ranks of the findings listed: muting moves findings forward, hence a page past
  the loaded ones holds none of theirs (`RanksFall`).
* `FindingsProofs`, the drawer.  `DrawerShowsCurrentRow` needs that loads are
  numbered and the one not aborted is of the current row (`LoadsOrdered`,
  `OnRow`).  `ConfirmedChangeShown` is about every copy of a finding, shown, cached
  or on its way: `Fits` says that it is what the server holds but for the one change
  made there and not confirmed, so that the refetch after a mute, which forgets the
  copies, and the patch after a triage, which corrects them, leave none behind.

`Ranking` holds the two operators both models take a page from a list with: a
definition without recursion, of which the proofs need only that ranks below
the size of a set are taken, once each.

Of each of the five liveness properties the safety part is proved: a state in
which the user waits is never one that nothing can end.  Fairness then only has
to make a step happen that these theorems show is pending.

| liveness (TLC) | theorem | what it says |
|---|---|---|
| `EveryPollEnds` | `LoopsEndOrAdvance` | whatever polls or waits for a lock is in an open tab, one tab holds the lock, and a round ends its loop or uses up one of the rounds |
| `ComposerReopens` | `ComposerAwaitsAnEnd` | while the gate is shut its submit has a call under way or its run goes on, unless the run's end went unheard; the flag of a submit has its submit in progress |
| `WizardUnlocks` | `LockedStepShrinks` | while accounts wait all test workers are busy; a locked step goes forward or its round loses an account, and nothing adds to it |
| `ListLoads` | `LoadingHasItsRequest` | while the list loads exactly one request is not aborted, whatever was refreshed before |
| `SkeletonEnds` | `SkeletonAwaitsAnEnd` | a skeleton has its timer set or the newest load in progress, and a load in progress waits for a request |

The compositions are covered as well: `FlowsImplementComponents` (`UserFlowsProofs`)
and `ViewsImplementComponents` (`FindingsProofs`) prove that every behaviour of
`UISpec` satisfies the specification of each part, the fairness included, because
a step of the composition is a step of one part and leaves the others alone.  The
type invariants of the two runs, `UserFlowsTypeOK` and `FindingsAndChatTypeOK`,
follow (`UserFlowsTypeCorrect`, `FindingsAndChatTypeCorrect`), and so does
everything else proved of a part.

What stays with TLC is what fairness adds to the five properties of the table.

## 6. Findings

See `PROJECT.json` for the quoted lines.  With a run that violates what the
repository says: a re-fired scheduled run that never starts (`scan_refire`); two
scans of one provider at once after a schedule edit (`scan_overlap`); two
overlapping attack-paths runs, the first of which opens its row while the second
drops the graph (`attack_overlap`); a crash after the gate closes that leaves a
complete Neptune graph closed, since the recovery looks at the sink the row
inherited (`attack_reopen`); a graph written after the deletion dropped it
(`attack_purge`).

Without a run of their own (the passing runs hold because a history variable
sets the case aside; section 5 says which): a task dropped from `localStorage` by
another tab's write (`src/ui/store/task-watcher/store.ts:71`); a wizard step
that stays locked after a rejected call
(`use-org-account-selection-flow.ts:377`); the graph of one scan shown under
another (`attack-paths-page.tsx:292`); two chat sessions on one page after an
older call's `finally` opened the composer (`lighthouse-v2-chat-page.tsx:316`).  In the
backend: a run that fails between its copy and its row's new sink opens that row
on the old sink (`tasks/jobs/attack_paths/scan.py:383`), and a recovery of the gate
that fails is logged and never tried again
(`tasks/jobs/attack_paths/db_utils.py:269`).

## 7. Not modelled

Backend parts of the plan above that are still to come are listed in
`PROJECT.json` with what each needs.  Scan execution, post-scan tasks and mute
rules transform data inside one transaction or task; accounts, RBAC, partitions
and configuration have no protocol between actors; the MCP server and the
deployment material keep no state.

Most of `src/ui` (some 135,000 lines in 1,200 files) is presentation, icons, type
declarations, form schemas, adapters of API documents and server actions of one
call.  A React component that renders its props, or a form whose state ends with
its submission, has no step that another actor could come between, and a model of
it would only repeat it.  The six components of section 5 are those whose state
lives across awaits, effects, tabs or page visits; the lines they map are few
beside the whole of `src/ui` for that reason.
