---------------------------- MODULE ScanDispatch ----------------------------
(***************************************************************************)
(* The scan queue of one provider: the API that accepts scans, Celery Beat *)
(* that fires the schedule, the workers that run "scan-perform" and        *)
(* "scan-perform-scheduled", the schedule editor and provider deletion.    *)
(*                                                                         *)
(* Every query of the dispatcher filters by provider and runs under a lock *)
(* of the Provider row, so providers do not interact and one is enough.    *)
(* A transaction that holds that lock is one action.  The two writers that *)
(* do not take it (the schedule upsert and the "ensure the next scheduled  *)
(* scan" step) are split into the read and the write they perform; two     *)
(* requests that edit the schedule of one provider do not overlap here.    *)
(*                                                                         *)
(* A scan is named by its insertion rank, so the order of the identifiers  *)
(* is the order of (inserted_at, id).  scheduled_at, names, arguments and  *)
(* results are left out; where the code orders placeholders by             *)
(* scheduled_at the model chooses any.                                     *)
(***************************************************************************)
EXTENDS Integers, FiniteSets, FiniteSetsExt

CONSTANTS
  Workers,   \* processes of the "scans" queue
  MaxScans,  \* bound on scan rows ever inserted
  MaxTasks,  \* bound on Celery tasks ever created
  Budget     \* how often the environment may do each of Kinds

\* What the environment may do: submit a manual scan, fire the schedule, edit
\* it, have the broker redeliver a message past its visibility timeout, kill a
\* worker, revoke a task, lose a publish, fail a database transaction.
Kinds == {"create", "beat", "edit", "redeliver", "crash", "revoke",
          "publish", "db"}

ASSUME BoundsAssumption ==
  /\ MaxScans \in Nat /\ MaxTasks \in Nat
  /\ Budget \in [Kinds -> Nat]

Scans  == 1 .. MaxScans
Tasks  == 1 .. MaxTasks
NoScan == 0
NoTask == 0

VARIABLES
  provider,  \* "active", "deleted" (is_deleted) or "gone" (row purged)
  periodic,  \* identity of the PeriodicTask row of the schedule, 0 if none
  beatOn,    \* its enabled flag
  scan,      \* the scans table: one row per scan, NoRow when there is none
  nextScan,  \* next insertion rank
  status,    \* TaskResult.status of every task
  argOf,     \* the scan a scan-perform task names, NoScan for a scheduled one
  nextTask,  \* next unused task
  queue,     \* copies of the task's message the broker holds
  revoked,   \* task ids the workers have been told to discard
  worker,    \* what each worker process is doing
  edit,      \* the schedule upsert in progress
  clobbered, \* history: a stale save overwrote a row that had moved on
  disputed,  \* history: the upkeep of the schedule deleted the duplicates of a
             \* placeholder that was none any more
  budget     \* what is left of Budget

scanVars == <<scan, nextScan>>
taskVars == <<status, argOf, nextTask, queue, revoked>>
schedule == <<periodic, beatOn, disputed>>
vars == <<provider, schedule, scanVars, taskVars, worker, edit, clobbered,
          budget>>

-----------------------------------------------------------------------------
(* Data *)

NoRow == [state |-> "none", trigger |-> "manual", task |-> NoTask, beat |-> 0]

\* A placeholder: the scheduled scan that waits for the next run.
PlaceholderRow(state, b) ==
  [state |-> state, trigger |-> "scheduled", task |-> NoTask, beat |-> b]

ScanStates == {"none", "AVAILABLE", "SCHEDULED", "EXECUTING", "COMPLETED",
               "FAILED"}
Rows == [state : ScanStates, trigger : {"manual", "scheduled"},
         task : Tasks \cup {NoTask}, beat : Nat]

TaskStatuses == {"none", "QUEUED", "PENDING", "STARTED", "SUCCESS", "FAILURE",
                 "REVOKED"}
UnstartedTaskStates == {"PENDING"}
DispatchedTaskStates == {"PENDING", "STARTED"}

Idle == [pc |-> "idle", task |-> NoTask, scan |-> NoScan, beat |-> 0,
         keep |-> NoScan, drop |-> {}, save |-> FALSE, ok |-> TRUE]
NoEdit == [pc |-> "idle", keep |-> NoScan, on |-> FALSE]

WorkerStates ==
  [pc : {"idle", "begin", "enter", "scanning", "ensureRead", "ensureWrite",
         "dispatch", "finish"},
   task : Tasks \cup {NoTask}, scan : Scans \cup {NoScan}, beat : Nat,
   keep : Scans \cup {NoScan}, drop : SUBSET Scans, save : BOOLEAN,
   ok : BOOLEAN]
EditStates == [pc : {"idle", "read"}, keep : Scans \cup {NoScan}, on : BOOLEAN]

TableTypes ==
  /\ provider \in {"active", "deleted", "gone"}
  /\ periodic \in Nat /\ beatOn \in BOOLEAN
  /\ scan \in [Scans -> Rows] /\ nextScan \in 1 .. MaxScans + 1
TaskTypes ==
  /\ status \in [Tasks -> TaskStatuses]
  /\ argOf \in [Tasks -> Scans \cup {NoScan}]
  /\ nextTask \in 1 .. MaxTasks + 1
  /\ queue \in [Tasks -> Nat] /\ revoked \subseteq Tasks
ProcessTypes ==
  /\ edit \in EditStates
  /\ worker \in [Workers -> WorkerStates]
  /\ \A w \in Workers :
       /\ worker[w].pc # "idle" => worker[w].task \in Tasks
       /\ worker[w].pc \in {"enter", "scanning"} => worker[w].scan \in Scans
HistoryTypes ==
  /\ clobbered \in BOOLEAN /\ disputed \in BOOLEAN
  /\ budget \in [Kinds -> Nat] /\ \A k \in Kinds : budget[k] <= Budget[k]

TypeOK == TableTypes /\ TaskTypes /\ ProcessTypes /\ HistoryTypes

-----------------------------------------------------------------------------
(* Queries *)

IsExecuting(r, st) == r.state = "EXECUTING"
IsDispatched(r, st) ==
  \/ r.state = "EXECUTING"
  \/ /\ r.state \in {"AVAILABLE", "SCHEDULED"}
     /\ r.task # NoTask
     /\ st[r.task] \in DispatchedTaskStates

IsQueued(r, st) ==
  r.state = "AVAILABLE" /\ r.task # NoTask /\ st[r.task] = "QUEUED"

Dispatched == {s \in Scans : IsDispatched(scan[s], status)}
Queued     == {s \in Scans : IsQueued(scan[s], status)}
ActiveDispatchedOnly == Dispatched # {}
ActiveScan == Dispatched # {} \/ Queued # {}

QueuedScheduled == {s \in Queued : scan[s].trigger = "scheduled"}
AlwaysQueueAnother == FALSE
ReuseQueued == QueuedScheduled # {}

IsPlaceholder(r, b) ==
  /\ r.trigger = "scheduled" /\ r.state \in {"SCHEDULED", "AVAILABLE"}
  /\ r.beat = b /\ r.task = NoTask
Placeholders(rows, b) == {s \in Scans : IsPlaceholder(rows[s], b)}

\* AVAILABLE placeholders are dropped when the schedule also has a SCHEDULED row.
CleanupOrphans(rows, b) ==
  LET scheduledExists ==
        \E s \in Scans : /\ rows[s].trigger = "scheduled"
                         /\ rows[s].state = "SCHEDULED" /\ rows[s].beat = b
  IN [s \in Scans |->
        IF /\ scheduledExists /\ IsPlaceholder(rows[s], b)
           /\ rows[s].state = "AVAILABLE"
        THEN NoRow ELSE rows[s]]

\* Use one placeholder and delete the others, or insert one at rank n.  Each
\* result names the rows, the scan to use and the next rank.  update = "state"
\* is the caller's update_state=True.
GetOrCreateScheduled(rows, n, b, update) ==
  LET ps == Placeholders(rows, b)
      state(p) == IF update = "state" THEN "SCHEDULED" ELSE rows[p].state
  IN IF ps = {}
     THEN {[rows |-> [rows EXCEPT ![n] = PlaceholderRow("SCHEDULED", b)],
            pick |-> n, next |-> n + 1]}
     ELSE {[rows |-> [s \in Scans |->
                        IF s = p THEN [rows[p] EXCEPT !.state = state(p)]
                        ELSE IF s \in ps THEN NoRow ELSE rows[s]],
            pick |-> p, next |-> n] : p \in ps}

\* Deleting the PeriodicTask row sets scheduler_task to NULL on its scans.
Unlink(rows) == [s \in Scans |-> [rows[s] EXCEPT !.beat = 0]]

\* The foreign key of scans and schedules to the provider holds.
ForeignKeyUnchecked == TRUE
ProviderExists == provider # "gone"

\* An upsert of an existing schedule holds its PeriodicTask row until commit.
PeriodicUnlocked == edit.pc = "idle" \/ periodic = 0

Spend(kinds) ==
  /\ \A k \in kinds : budget[k] > 0
  /\ budget' = [k \in Kinds |-> IF k \in kinds THEN budget[k] - 1 ELSE budget[k]]
Spent(k) == budget[k] < Budget[k]

Scheduled(t) == argOf[t] = NoScan

-----------------------------------------------------------------------------
(* API: scans, tasks and schedules *)

\* ScanViewSet.create: the scan is published now when the provider has no
\* active scan, and left QUEUED otherwise.  The publish runs after the commit
\* and can be lost.
CreateScan ==
  /\ provider = "active" /\ nextScan \in Scans /\ nextTask \in Tasks
  /\ scan' = [scan EXCEPT ![nextScan] =
                [state |-> "AVAILABLE", trigger |-> "manual",
                 task |-> nextTask, beat |-> 0]]
  /\ nextScan' = nextScan + 1 /\ nextTask' = nextTask + 1
  /\ argOf' = [argOf EXCEPT ![nextTask] = nextScan]
  /\ status' = [status EXCEPT ![nextTask] =
                  IF ActiveScan THEN "QUEUED" ELSE "PENDING"]
  /\ \/ /\ ~ActiveScan /\ Spend({"create"})
        /\ queue' = [queue EXCEPT ![nextTask] = 1]
     \/ /\ ~ActiveScan /\ Spend({"create", "publish"}) /\ UNCHANGED queue
     \/ /\ ActiveScan /\ Spend({"create"}) /\ UNCHANGED queue
  /\ UNCHANGED <<provider, schedule, revoked, worker, edit, clobbered>>

\* TaskViewSet.destroy: only a task that is still PENDING is revoked.  A
\* worker discards the message when it meets it.
RevokeTask(t) ==
  /\ status[t] = "PENDING" /\ Spend({"revoke"})
  /\ revoked' = revoked \cup {t}
  /\ UNCHANGED <<provider, schedule, scanVars, status, argOf, nextTask, queue,
                 worker, edit, clobbered>>

\* upsert_provider_schedule up to its read of the placeholder, from the
\* schedule endpoints or (daily) from schedule_provider_scan, which refuses an
\* existing schedule and publishes a first run before its transaction commits.
UpsertRead(on, daily) ==
  /\ provider = "active" /\ edit.pc = "idle" /\ Spend({"edit"})
  /\ \E keep \in IF Placeholders(scan, periodic) = {} \/ periodic = 0
                 THEN {NoScan} ELSE Placeholders(scan, periodic) :
       edit' = [pc |-> "read", keep |-> keep, on |-> on]
  /\ IF daily
     THEN /\ periodic = 0 /\ on /\ nextTask \in Tasks
          /\ status' = [status EXCEPT ![nextTask] = "PENDING"]
          /\ queue' = [queue EXCEPT ![nextTask] = 1]
          /\ nextTask' = nextTask + 1
     ELSE UNCHANGED <<status, queue, nextTask>>
  /\ UNCHANGED <<provider, schedule, scanVars, argOf, revoked, worker, clobbered>>

\* The rest of the upsert: the whole placeholder row is saved as it was read,
\* with a new state; a missing row is inserted again.  The foreign key rolls
\* everything back when the provider is gone.
UpsertCommit ==
  LET b   == IF periodic = 0 THEN 2 + Budget["edit"] - budget["edit"] ELSE periodic
      row == PlaceholderRow(IF edit.on THEN "SCHEDULED" ELSE "AVAILABLE", b)
  IN /\ edit.pc = "read" /\ edit' = NoEdit
     /\ \/ /\ ~ProviderExists
           /\ UNCHANGED <<periodic, beatOn, scanVars, clobbered>>
        \/ /\ ProviderExists /\ edit.keep = NoScan /\ nextScan \in Scans
           /\ scan' = [scan EXCEPT ![nextScan] = row] /\ nextScan' = nextScan + 1
           /\ periodic' = b /\ beatOn' = edit.on
           /\ UNCHANGED clobbered
        \/ /\ ProviderExists /\ edit.keep # NoScan
           /\ scan' = [scan EXCEPT ![edit.keep] = row]
           /\ clobbered' = (clobbered \/ ~IsPlaceholder(scan[edit.keep], b))
           /\ periodic' = b /\ beatOn' = edit.on
           /\ UNCHANGED nextScan
     /\ UNCHANGED <<provider, disputed, taskVars, worker, budget>>

\* remove_provider_schedule: the placeholders and the PeriodicTask go.
RemoveSchedule ==
  /\ provider = "active" /\ periodic # 0 /\ edit.pc = "idle" /\ Spend({"edit"})
  /\ scan' = Unlink([s \in Scans |->
                       IF IsPlaceholder(scan[s], periodic) THEN NoRow ELSE scan[s]])
  /\ periodic' = 0 /\ beatOn' = FALSE
  /\ UNCHANGED <<provider, disputed, nextScan, taskVars, worker, edit, clobbered>>

-----------------------------------------------------------------------------
(* Celery: Beat and the broker *)

\* Beat publishes a scan-perform-scheduled task of an enabled schedule.
BeatFire ==
  /\ periodic # 0 /\ beatOn /\ nextTask \in Tasks /\ Spend({"beat"})
  /\ status' = [status EXCEPT ![nextTask] = "PENDING"]
  /\ queue' = [queue EXCEPT ![nextTask] = 1]
  /\ nextTask' = nextTask + 1
  /\ UNCHANGED <<provider, schedule, scanVars, argOf, revoked, worker, edit,
                 clobbered>>

\* A message that stayed unacknowledged past the visibility timeout is
\* delivered once more.
Redeliver(t) ==
  /\ queue[t] > 0 /\ Spend({"redeliver"})
  /\ queue' = [queue EXCEPT ![t] = @ + 1]
  /\ UNCHANGED <<provider, schedule, scanVars, status, argOf, nextTask, revoked,
                 worker, edit, clobbered>>

StartUncounted(w, t) ==
  /\ worker[w].pc = "idle" /\ status[t] = "PENDING"
  /\ queue' = [queue EXCEPT ![t] = @ - 1]
  /\ status' = [status EXCEPT ![t] = "STARTED"]
  /\ worker' = [worker EXCEPT ![w] = [Idle EXCEPT !.pc = "begin", !.task = t]]
  /\ UNCHANGED <<provider, schedule, scanVars, argOf, nextTask, revoked, edit,
                 clobbered, budget>>

\* A worker takes a message: acks_late=False acknowledges it here.
Start(w, t) ==
  /\ worker[w].pc = "idle" /\ queue[t] > 0
  /\ queue' = [queue EXCEPT ![t] = @ - 1]
  /\ IF t \in revoked
     THEN status' = [status EXCEPT ![t] = "REVOKED"] /\ UNCHANGED worker
     ELSE /\ status' = [status EXCEPT ![t] = "STARTED"]
          /\ worker' = [worker EXCEPT ![w] =
                          [Idle EXCEPT !.pc = "begin", !.task = t]]
  /\ UNCHANGED <<provider, schedule, scanVars, argOf, nextTask, revoked, edit,
                 clobbered, budget>>

-----------------------------------------------------------------------------
(* Worker: scan-perform and scan-perform-scheduled *)

At(w, pc) == worker[w].pc = pc
Goto(w, pc) == worker' = [worker EXCEPT ![w].pc = pc]
Fail(w, pc) == worker' = [worker EXCEPT ![w].pc = pc, ![w].ok = FALSE]

\* Where the "finally" of the task starts.
FinallyDispatch(w) == "dispatch"
FinallyManualEnds(w) == IF Scheduled(worker[w].task) THEN "ensureRead" ELSE "finish"
Finally(w) == IF Scheduled(worker[w].task) THEN "ensureRead" ELSE "dispatch"

\* perform_scan_task: a task whose provider is gone returns at once.
BeginManual(w) ==
  /\ At(w, "begin") /\ ~Scheduled(worker[w].task)
  /\ IF provider = "active"
     THEN worker' = [worker EXCEPT ![w].pc = "enter",
                                   ![w].scan = argOf[worker[w].task]]
     ELSE Goto(w, "finish")
  /\ UNCHANGED <<provider, schedule, scanVars, taskVars, edit, clobbered, budget>>

\* The task has a scan already: it was delivered twice.
NeverExecuted(t) == FALSE
Executed(t) == \E s \in Scans : scan[s].task = t

\* perform_scheduled_scan_task when it does not run anything: the provider is
\* gone (its schedule is deleted), the schedule is gone (DoesNotExist), or the
\* task has already executed a scan.
SkipScheduled(w) ==
  /\ At(w, "begin") /\ Scheduled(worker[w].task)
  /\ \/ /\ provider # "active" /\ PeriodicUnlocked
        /\ periodic' = 0 /\ beatOn' = FALSE /\ scan' = Unlink(scan)
        /\ Goto(w, "finish") /\ UNCHANGED disputed
     \/ /\ provider = "active" /\ periodic = 0 /\ Fail(w, "finish")
        /\ UNCHANGED <<schedule, scan>>
     \/ /\ provider = "active" /\ periodic # 0
        /\ Executed(worker[w].task)
        /\ Goto(w, "finish")
        /\ UNCHANGED <<schedule, scan>>
  /\ UNCHANGED <<provider, nextScan, taskVars, edit, clobbered, budget>>

CanRunScheduled(w) ==
  /\ At(w, "begin") /\ Scheduled(worker[w].task)
  /\ provider = "active" /\ periodic # 0
  /\ ~Executed(worker[w].task)

\* ... when a scan is active: the run is queued, once, and the placeholder of
\* the next run is made sure of.
QueueScheduled(w) ==
  /\ CanRunScheduled(w) /\ ActiveScan
  /\ LET cleaned == CleanupOrphans(scan, periodic)
         row == [state |-> "AVAILABLE", trigger |-> "scheduled",
                 task |-> nextTask, beat |-> periodic]
     IN IF ReuseQueued
        THEN /\ nextScan \in Scans
             /\ \E r \in GetOrCreateScheduled(cleaned, nextScan, periodic, "state") :
                  scan' = r.rows /\ nextScan' = r.next
             /\ UNCHANGED <<status, argOf, nextTask>>
        ELSE /\ nextScan + 1 \in Scans /\ nextTask \in Tasks
             /\ \E r \in GetOrCreateScheduled([cleaned EXCEPT ![nextScan] = row],
                                              nextScan + 1, periodic, "state") :
                  scan' = r.rows /\ nextScan' = r.next
             /\ status' = [status EXCEPT ![nextTask] = "QUEUED"]
             /\ argOf' = [argOf EXCEPT ![nextTask] = nextScan]
             /\ nextTask' = nextTask + 1
  /\ Goto(w, "finish")
  /\ UNCHANGED <<provider, schedule, queue, revoked, edit, clobbered, budget>>

\* ... when none is: the task is attached to the placeholder.
RunScheduled(w) ==
  /\ CanRunScheduled(w) /\ ~ActiveScan /\ nextScan \in Scans
  /\ \E r \in GetOrCreateScheduled(CleanupOrphans(scan, periodic), nextScan,
                                   periodic, "none") :
       /\ scan' = [r.rows EXCEPT ![r.pick].task = worker[w].task]
       /\ nextScan' = r.next
       /\ worker' = [worker EXCEPT ![w].pc = "enter", ![w].scan = r.pick,
                                   ![w].beat = periodic]
  /\ UNCHANGED <<provider, schedule, taskVars, edit, clobbered, budget>>

\* perform_prowler_scan, first transaction: whatever its state, the scan is
\* EXECUTING.  Managers hide a deleted provider and its scans.
EnterScan(w) ==
  /\ At(w, "enter")
  /\ IF provider = "active" /\ scan[worker[w].scan].state # "none"
     THEN /\ scan' = [scan EXCEPT ![worker[w].scan].state = "EXECUTING"]
          /\ Goto(w, "scanning")
     ELSE Fail(w, Finally(w)) /\ UNCHANGED scan
  /\ UNCHANGED <<provider, schedule, nextScan, taskVars, edit, clobbered, budget>>

\* perform_prowler_scan, end: the outcome is saved, unless the scan's row is
\* gone.  A publish or query that fails in the follow-up tasks fails the task.
FinishScan(w) ==
  /\ At(w, "scanning")
  /\ \/ /\ scan[worker[w].scan].state # "none"
        /\ scan' = [scan EXCEPT ![worker[w].scan].state = "COMPLETED"]
        /\ \/ Goto(w, Finally(w)) /\ UNCHANGED budget
           \/ Fail(w, Finally(w)) /\ \E k \in {"publish", "db"} : Spend({k})
     \/ /\ scan[worker[w].scan].state # "none"
        /\ scan' = [scan EXCEPT ![worker[w].scan].state = "FAILED"]
        /\ Fail(w, Finally(w)) /\ UNCHANGED budget
     \/ /\ scan[worker[w].scan].state = "none"
        /\ Fail(w, Finally(w)) /\ UNCHANGED <<scan, budget>>
  /\ UNCHANGED <<provider, schedule, nextScan, taskVars, edit, clobbered>>

\* _ensure_next_scheduled_scan_best_effort takes no lock.  It reads the
\* placeholders of the schedule the task began with ...
EnsureRead(w) ==
  /\ At(w, "ensureRead")
  /\ LET ps == IF provider = "active" THEN Placeholders(scan, worker[w].beat) ELSE {}
     IN \E keep \in IF ps = {} THEN {NoScan} ELSE ps, save \in BOOLEAN :
          /\ keep # NoScan => (scan[keep].state # "SCHEDULED" => save)
          /\ keep = NoScan => save
          /\ worker' = [worker EXCEPT ![w].pc = "ensureWrite", ![w].keep = keep,
                                      ![w].drop = ps \ {keep}, ![w].save = save]
  /\ UNCHANGED <<provider, schedule, scanVars, taskVars, edit, clobbered, budget>>

\* ... deletes all but one, and saves that one whole when something in it
\* changed, or inserts one.  A broken foreign key rolls it back.
EnsureWrite(w) ==
  LET me == worker[w]
      broken == me.save /\ (~ProviderExists \/ periodic # me.beat)
      dropped == [s \in Scans |-> IF s \in me.drop THEN NoRow ELSE scan[s]]
      touched == me.drop \cup (IF me.save THEN {me.keep} ELSE {})
  IN /\ At(w, "ensureWrite")
     /\ \/ /\ broken /\ UNCHANGED <<scanVars, clobbered>>
        \/ /\ ~broken /\ me.keep = NoScan /\ nextScan \in Scans
           /\ scan' = [scan EXCEPT ![nextScan] = PlaceholderRow("SCHEDULED", me.beat)]
           /\ nextScan' = nextScan + 1
           /\ UNCHANGED clobbered
        \/ /\ ~broken /\ me.keep # NoScan
           /\ scan' = IF me.save
                      THEN [dropped EXCEPT ![me.keep] =
                              PlaceholderRow("SCHEDULED", me.beat)]
                      ELSE dropped
           /\ clobbered' = \/ clobbered
                           \/ \E s \in touched :
                                /\ scan[s].state # "none"
                                /\ ~IsPlaceholder(scan[s], me.beat)
           /\ UNCHANGED nextScan
     /\ worker' = [worker EXCEPT ![w].pc = "dispatch", ![w].keep = NoScan,
                                 ![w].drop = {}, ![w].save = FALSE]
     /\ disputed' = \/ disputed
                    \/ /\ ~broken /\ ~me.save
                       /\ ~IsPlaceholder(scan[me.keep], periodic)
                       /\ \E s \in me.drop : IsPlaceholder(scan[s], periodic)
     /\ UNCHANGED <<provider, periodic, beatOn, taskVars, edit, budget>>

\* _dispatch_next_queued_provider_scan: with nothing dispatched, the oldest
\* queued scan becomes PENDING and is published after the commit.
DispatchNext(w) ==
  /\ At(w, "dispatch") /\ Goto(w, "finish")
  /\ IF provider = "active" /\ Dispatched = {} /\ Queued # {}
     THEN LET t == scan[Min(Queued)].task
          IN /\ status' = [status EXCEPT ![t] = "PENDING"]
             /\ \/ queue' = [queue EXCEPT ![t] = @ + 1] /\ UNCHANGED budget
                \/ UNCHANGED queue /\ Spend({"publish"})
     ELSE UNCHANGED <<status, queue, budget>>
  /\ UNCHANGED <<provider, schedule, scanVars, argOf, nextTask, revoked, edit,
                 clobbered>>

\* Celery stores the outcome and the worker is free.
FinishTask(w) ==
  /\ At(w, "finish")
  /\ status' = [status EXCEPT ![worker[w].task] =
                  IF worker[w].ok THEN "SUCCESS" ELSE "FAILURE"]
  /\ worker' = [worker EXCEPT ![w] = Idle]
  /\ UNCHANGED <<provider, schedule, scanVars, argOf, nextTask, queue, revoked,
                 edit, clobbered, budget>>

-----------------------------------------------------------------------------
(* Faults and deletion *)

\* The transaction of the current step raises and is rolled back.  Before the
\* "try" that ends the task; inside it the "finally" still runs; the two steps
\* of the "finally" swallow it.
DbError(w) ==
  /\ Spend({"db"})
  /\ \/ At(w, "begin") /\ Fail(w, "finish")
     \/ worker[w].pc \in {"enter", "scanning"} /\ Fail(w, Finally(w))
     \/ /\ worker[w].pc \in {"ensureRead", "ensureWrite"}
        /\ worker' = [worker EXCEPT ![w].pc = "dispatch", ![w].keep = NoScan,
                                    ![w].drop = {}, ![w].save = FALSE]
     \/ At(w, "dispatch") /\ Goto(w, "finish")
  /\ UNCHANGED <<provider, schedule, scanVars, taskVars, edit, clobbered>>

\* What acks_late=True would do: the broker delivers the message again.
CrashRedelivers(w) ==
  /\ worker[w].pc # "idle" /\ Spend({"crash"})
  /\ worker' = [worker EXCEPT ![w] = Idle]
  /\ queue' = [queue EXCEPT ![worker[w].task] = @ + 1]
  /\ UNCHANGED <<provider, schedule, scanVars, status, argOf, nextTask, revoked,
                 edit, clobbered>>

\* A worker dies.  Its message is already acknowledged, so nothing runs the
\* task again; a surviving parent process may record the failure.
Crash(w) ==
  /\ worker[w].pc # "idle" /\ Spend({"crash"})
  /\ worker' = [worker EXCEPT ![w] = Idle]
  /\ \/ UNCHANGED status
     \/ status' = [status EXCEPT ![worker[w].task] = "FAILURE"]
  /\ UNCHANGED <<provider, schedule, scanVars, argOf, nextTask, queue, revoked,
                 edit, clobbered>>

\* ProviderViewSet.destroy hides the provider and disables its schedule.
DeleteProvider ==
  /\ provider = "active" /\ PeriodicUnlocked
  /\ provider' = "deleted" /\ beatOn' = FALSE
  /\ UNCHANGED <<periodic, disputed, scanVars, taskVars, worker, edit, clobbered,
                 budget>>

\* delete_provider removes the scans first and the provider last, which
\* cascades to scans inserted in between and deletes the schedule.
PurgeScans ==
  /\ provider = "deleted" /\ \E s \in Scans : scan[s].state # "none"
  /\ scan' = [s \in Scans |-> NoRow]
  /\ UNCHANGED <<provider, schedule, nextScan, taskVars, worker, edit, clobbered,
                 budget>>

PurgeProvider ==
  /\ provider = "deleted" /\ PeriodicUnlocked
  /\ provider' = "gone" /\ scan' = [s \in Scans |-> NoRow]
  /\ periodic' = 0 /\ beatOn' = FALSE
  /\ UNCHANGED <<disputed, nextScan, taskVars, worker, edit, clobbered, budget>>

-----------------------------------------------------------------------------
(* Specification *)

\* A provider without a schedule, or with one and the placeholder it made.
Init ==
  /\ provider = "active" /\ periodic \in {0, 1} /\ beatOn = (periodic = 1)
  /\ scan = [s \in Scans |-> IF s <= periodic THEN PlaceholderRow("SCHEDULED", 1)
                             ELSE NoRow]
  /\ periodic <= MaxScans /\ nextScan = periodic + 1
  /\ status = [t \in Tasks |-> "none"] /\ argOf = [t \in Tasks |-> NoScan]
  /\ nextTask = 1 /\ queue = [t \in Tasks |-> 0] /\ revoked = {}
  /\ worker = [w \in Workers |-> Idle] /\ edit = NoEdit
  /\ clobbered = FALSE /\ disputed = FALSE /\ budget = Budget

WorkerStep(w) ==
  \/ BeginManual(w) \/ SkipScheduled(w) \/ QueueScheduled(w) \/ RunScheduled(w)
  \/ EnterScan(w) \/ FinishScan(w) \/ EnsureRead(w) \/ EnsureWrite(w)
  \/ DispatchNext(w) \/ FinishTask(w)

Next ==
  \/ CreateScan \/ RemoveSchedule \/ UpsertCommit \/ BeatFire
  \/ \E on, daily \in BOOLEAN : UpsertRead(on, daily)
  \/ \E t \in Tasks : RevokeTask(t) \/ Redeliver(t)
  \/ \E w \in Workers, t \in Tasks : Start(w, t)
  \/ \E w \in Workers : WorkerStep(w) \/ DbError(w) \/ Crash(w)
  \/ DeleteProvider \/ PurgeScans \/ PurgeProvider

Spec == Init /\ [][Next]_vars

\* Tasks have time limits, the broker keeps delivering, a request ends and the
\* deletion task is retried until it succeeds.
Fairness ==
  /\ \A w \in Workers : WF_vars(WorkerStep(w))
  /\ \A t \in Tasks : WF_vars(\E w \in Workers : Start(w, t))
  /\ WF_vars(UpsertCommit) /\ WF_vars(PurgeScans) /\ WF_vars(PurgeProvider)

FairSpec == Spec /\ Fairness

-----------------------------------------------------------------------------
(* Properties *)

Running(w) == worker[w].pc \in {"enter", "scanning"}
\* Neither a stale save nor a second delivery has happened.
Undisturbed == ~clobbered /\ ~Spent("redeliver")

\* "Provider scans now queue behind active provider scans instead of
\* dispatching concurrently": at most one worker runs a scan of the provider,
\* whatever crashes, revocations, lost publishes and failed transactions happen.
SingleFlight ==
  Undisturbed => \A v, w \in Workers : Running(v) /\ Running(w) => v = w

\* The inductive strengthening of SingleFlight.  Ranks and tasks not handed out
\* yet are unused; ...
FreshScans ==
  /\ \A s \in Scans : s >= nextScan => scan[s] = NoRow
  /\ \A s \in Scans : scan[s].state = "none" => scan[s].task = NoTask
  /\ edit.keep < nextScan /\ \A w \in Workers : worker[w].keep < nextScan
FreshTasks ==
  /\ \A s \in Scans : scan[s].task < nextTask
  /\ \A w \in Workers : worker[w].task < nextTask
  /\ \A t \in Tasks : t >= nextTask =>
                        status[t] = "none" /\ argOf[t] = NoScan /\ queue[t] = 0
Fresh == FreshScans /\ FreshTasks
\* ... a task has one message or one worker, never both; ...
OneCarrier ==
  /\ \A t \in Tasks : queue[t] > 0 => queue[t] = 1 /\ status[t] = "PENDING"
  /\ \A w \in Workers : worker[w].pc # "idle" => status[worker[w].task] = "STARTED"
  /\ \A v, w \in Workers :
       /\ worker[v].pc # "idle" /\ worker[w].pc # "idle"
       /\ worker[v].task = worker[w].task
       => v = w
\* ... a task belongs to one scan, and scan-perform names the scan that waits; ...
OneScanPerTask ==
  \A s, u \in Scans : scan[s].task # NoTask /\ scan[s].task = scan[u].task => s = u
WaitsFor(t) ==
  ~Scheduled(t) => scan[argOf[t]].state = "AVAILABLE" /\ scan[argOf[t]].task = t
CarriedScans ==
  /\ \A s \in Queued : argOf[scan[s].task] = s
  /\ provider = "active" =>
       /\ \A t \in Tasks : queue[t] > 0 => WaitsFor(t)
       /\ \A w \in Workers : worker[w].pc = "begin" => WaitsFor(worker[w].task)
\* ... one scan is dispatched, and it is the one a running worker works on.
OneDispatched == \A s, u \in Dispatched : s = u
RunningDispatched ==
  provider = "active" =>
    \A w \in Workers : Running(w) =>
      /\ worker[w].scan \in Dispatched
      /\ scan[worker[w].scan].task = worker[w].task

Work ==
  OneCarrier /\ OneScanPerTask /\ CarriedScans /\ OneDispatched /\ RunningDispatched

SingleFlightInv == TypeOK /\ Fresh /\ (Undisturbed => Work) /\ SingleFlight

\* The same, claimed of every execution.
ScansNeverOverlap ==
  \A v, w \in Workers : At(v, "scanning") /\ At(w, "scanning") => v = w

\* The guard on "duplicated task execution due to visibility timeout": however
\* often a message is delivered, its task runs one scan, unless a stale save has
\* detached the scan it ran.
OneRunPerScheduledTask == ~clobbered => OneScanPerTask

\* However often the schedule fires while a scan is active, one run waits.
OneQueuedScheduledScan == Cardinality(QueuedScheduled) <= 1

\* A scan is dispatched only when no scan inserted before it is still queued.
NoOvertaking ==
  [][Undisturbed /\ provider' = "active" =>
       \A s \in Dispatched' \ Dispatched : \A q \in Queued \cap Queued' : s < q]_vars

\* A finished scan stays as it finished until its row is deleted.
TerminalStays ==
  [][Undisturbed /\ ~clobbered' =>
       \A s \in Scans : scan[s].state \in {"COMPLETED", "FAILED"} =>
                          scan'[s].state \in {scan[s].state, "none"}]_vars

\* Something that will call _dispatch_next_queued_provider_scan: a worker on
\* its way there, or the message of a dispatched scan.
Waker ==
  \/ \E w \in Workers : worker[w].pc \in {"enter", "scanning", "ensureRead",
                                         "ensureWrite", "dispatch"}
  \/ \E w \in Workers : At(w, "begin") /\ argOf[worker[w].task] \in Dispatched
  \/ \E t \in Tasks : queue[t] > 0 /\ argOf[t] \in Dispatched

\* No lost wakeup: without faults, queued scans of a provider that exists
\* always have a waker.
QueuedHasWaker ==
  /\ Undisturbed /\ \A k \in {"crash", "revoke", "publish", "db"} : ~Spent(k)
  /\ provider = "active" /\ Queued # {}
  => Waker

\* A schedule knows its next run: when nobody works for the provider, and no worker
\* died and no transaction failed, its placeholder is there, however many runs,
\* edits and duplicated deliveries overlapped.  Their unlocked reads and writes
\* lose it in one way only: an upkeep deletes the duplicates of a placeholder that
\* somebody else has used or deleted since it was read (`disputed`).
NextRunPlanned ==
  /\ ~disputed /\ ~Spent("crash") /\ ~Spent("db")
  /\ provider = "active" /\ periodic # 0
  /\ \A w \in Workers : At(w, "idle")
  => Placeholders(scan, periodic) # {}

\* delete_provider: once the provider's row is gone no scan and no schedule of it
\* is left, although its purge goes in steps and a run that ends, its upkeep and a
\* schedule edit may all write a row or a schedule they read before the deletion.
NothingOutlivesProvider ==
  provider = "gone" => periodic = 0 /\ ~beatOn /\ \A s \in Scans : scan[s].state = "none"

\* A comment on perform_scheduled_scan_task: "a dropped run is re-fired by Beat
\* on the next tick".  The re-fired run then has something that starts it.
RefiredRunStarts == provider = "active" /\ QueuedScheduled # {} => Waker

\* Without disturbance the dispatcher is a first-in first-out queue with one
\* scan running.
SQ == INSTANCE ScanQueue WITH waiting <- Queued, running <- Dispatched
ImplementsScanQueue == SQ!Spec

\* Whatever crashes, revocations, lost publishes and failed transactions happen,
\* every step of an undisturbed execution is a step of that queue or leaves it
\* alone.
QueueSteps ==
  [][Undisturbed' => SQ!Next \/ UNCHANGED <<Queued, Dispatched>>]_vars

\* Without faults every scan that was accepted with a task ends, or its
\* provider's deletion removes it.
AcceptedScanEnds ==
  \A s \in Scans :
    scan[s].task # NoTask ~> scan[s].state \in {"COMPLETED", "FAILED", "none"}
=============================================================================
