--------------------------- MODULE AttackPathsScan ---------------------------
(***************************************************************************)
(* The attack-paths scans of one provider.  After a scan, a worker ingests *)
(* the provider into a temporary graph database, drops the provider's      *)
(* graph in the long-lived sink and copies the new one over; queries are   *)
(* let through by graph_data_ready of each AttackPathsScan row.  Beside    *)
(* the workers run the insertion of new rows, the periodic cleanup of      *)
(* stale rows and the deletion of the provider.                            *)
(*                                                                         *)
(* A row stands for one parent scan.  A transaction is one action; the     *)
(* long graph operations have a beginning and an end.  The graph's content *)
(* is reduced to whether it is empty, partial or a complete copy.          *)
(***************************************************************************)
EXTENDS Naturals

CONSTANTS
  Rows,       \* parent scans, each with its AttackPathsScan row
  Workers,    \* processes of the "attack-paths-scans" queue
  TargetSink, \* settings.ATTACK_PATHS_SINK_DATABASE
  Budget      \* how often the environment may do each of Kinds

Sinks == {"neo4j", "neptune"}

\* Kill a worker, make an operation raise, lose a publish, leave the ping of a
\* live worker unanswered, let a run pass the stale threshold, redeliver a
\* message whose worker is still busy.
Kinds == {"crash", "error", "publish", "deaf", "slow", "redeliver"}

ASSUME SinkAssumption == TargetSink \in Sinks
ASSUME AttackBudgetAssumption == Budget \in [Kinds -> Nat]

VARIABLES
  provider, \* "active", "hidden" (is_deleted), then the steps of delete_provider
  parent,   \* the Prowler scan of each row
  row,      \* the AttackPathsScan table
  queue,    \* messages of each row's task waiting in the broker
  revoke,   \* what the workers were told to do with that task
  worker,   \* the run of each worker
  graph,    \* the provider's graph in each sink
  intact,   \* workers whose copy no drop has hit since it began
  tempdb,   \* rows whose temporary database exists
  cleaner,  \* the periodic cleanup
  excuse,   \* history: known ways past the query gate that were taken
  budget    \* what is left of Budget

graphVars == <<graph, intact, tempdb>>
vars == <<provider, parent, row, queue, revoke, worker, graphVars, cleaner,
          excuse, budget>>

-----------------------------------------------------------------------------
(* Data *)

NoRow == [state |-> "none", ready |-> FALSE, sink |-> "neo4j"]
RowTypes ==
  [state : {"none", "creating", "SCHEDULED", "EXECUTING", "COMPLETED", "FAILED"},
   ready : BOOLEAN, sink : Sinks]
Terminal == {"COMPLETED", "FAILED"}

\* A worker knows whether it started the row, and how far the swap got: undo is
\* what its handler would reopen.
Idle == [pc |-> "idle", on |-> {}, undo |-> "unstarted"]
Sleeping == [pc |-> "idle", on |-> {}]

\* From closing the gate to the last point where the run may open it.
SwapSteps == {"drop", "dropping", "sync", "syncing", "migrate", "open",
              "cleartemp", "finish", "recover"}
RunSteps == {"temp", "ingest", "gate"} \cup SwapSteps \cup {"xtemp", "xfail"}
\* recover_graph_data_ready, whose row has ended already.
Reopening == {"check", "reopen"}
FailSteps == {"failtemp", "failrow"} \cup Reopening

WorkerStates ==
  [pc : {"idle", "begin"} \cup RunSteps \cup FailSteps, on : SUBSET Rows,
   undo : {"unstarted", "none", "all", "own"}]
CleanerStates ==
  [pc : {"idle", "temp", "executing", "scheduled", "check", "reopen"},
   on : SUBSET Rows]
OnOneRow(p) == p.pc = "idle" \/ \E r \in Rows : p.on = {r}

TableTypes ==
  /\ provider \in {"active", "hidden", "purging", "purged", "gone"}
  /\ parent \in [Rows -> {"running", "ended", "dispatched"}]
  /\ row \in [Rows -> RowTypes]
TaskTypes ==
  /\ queue \in [Rows -> Nat]
  /\ revoke \in [Rows -> {"no", "discard", "kill"}]
  /\ budget \in [Kinds -> Nat]
WorkerTypes ==
  worker \in [Workers -> WorkerStates] /\ \A w \in Workers : OnOneRow(worker[w])
CleanerTypes == cleaner \in CleanerStates /\ OnOneRow(cleaner)
GraphTypes ==
  /\ graph \in [Sinks -> {"empty", "partial", "full"}]
  /\ intact \subseteq Workers /\ tempdb \subseteq Rows
Excuses == {"overlap", "lateInsert", "torn", "recovered", "stranded", "gaveUp",
            "tempKept", "misjudged"}

TypeOK ==
  /\ TableTypes /\ TaskTypes /\ WorkerTypes /\ CleanerTypes /\ GraphTypes
  /\ excuse \subseteq Excuses

At(w, pc) == worker[w].pc = pc
On(p) == CHOOSE r \in Rows : r \in p.on
R(w) == On(worker[w])
Goto(w, pc) == worker' = [worker EXCEPT ![w].pc = pc]
Free(w) == worker' = [worker EXCEPT ![w] = Idle]

Exists(r) == row[r].state \notin {"none", "creating"}
\* What `objects` returns: the rows of a provider that is not deleted.
Visible(r) == Exists(r) /\ provider = "active"
Holds(w, r) == worker[w].on = {r} /\ worker[w].pc \in RunSteps
Held(r) == \E w \in Workers : Holds(w, r)
Replacing == {w \in Workers : worker[w].pc \in SwapSteps}

Spend(k) == budget[k] > 0 /\ budget' = [budget EXCEPT ![k] = @ - 1]
Excuse(cond, e) == excuse' = IF cond THEN excuse \cup {e} ELSE excuse

SetReady(sink, value) ==
  [r \in Rows |-> IF Exists(r) /\ row[r].sink = sink
                  THEN [row[r] EXCEPT !.ready = value] ELSE row[r]]
\* The gate of the row that is being scanned only.
SetOwnReady(r, value) == [row EXCEPT ![r].ready = value]

-----------------------------------------------------------------------------
(* Rows: insertion, the parent scan, dispatch *)

\* create_attack_paths_scan reads the newest ready row, the target sink's
\* first, ...
CreateRead(r) ==
  /\ provider = "active" /\ row[r].state = "none"
  /\ LET ready == {q \in Rows : Visible(q) /\ row[q].ready}
         sinks == {row[q].sink : q \in ready}
     IN row' = [row EXCEPT ![r] =
                  [state |-> "creating", ready |-> ready # {},
                   sink |-> IF ready = {} THEN "neo4j"
                            ELSE IF TargetSink \in sinks THEN TargetSink
                            ELSE CHOOSE s \in sinks : TRUE]]
  /\ UNCHANGED <<provider, parent, queue, revoke, worker, graphVars, cleaner,
                 excuse, budget>>

\* ... and inserts the new one with what it read.
CreateInsert(r) ==
  /\ row[r].state = "creating"
  /\ row' = [row EXCEPT ![r] = IF provider = "gone" THEN NoRow
                               ELSE [@ EXCEPT !.state = "SCHEDULED"]]
  /\ Excuse(row[r].ready /\ ~\E q \in Rows : /\ Exists(q) /\ row[q].ready
                                            /\ row[q].sink = row[r].sink,
            "lateInsert")
  /\ UNCHANGED <<provider, parent, queue, revoke, worker, graphVars, cleaner,
                 budget>>

EndParent(r) ==
  /\ row[r].state # "none" /\ row[r].state # "creating" /\ parent[r] = "running"
  /\ parent' = [parent EXCEPT ![r] = "ended"]
  /\ UNCHANGED <<provider, row, queue, revoke, worker, graphVars, cleaner, excuse,
                 budget>>

\* _perform_scan_complete_tasks of a completed scan publishes the task.
Dispatch(r) ==
  /\ provider = "active" /\ parent[r] = "ended" /\ Exists(r)
  /\ parent' = [parent EXCEPT ![r] = "dispatched"]
  /\ \/ queue' = [queue EXCEPT ![r] = 1] /\ UNCHANGED budget
     \/ UNCHANGED queue /\ Spend("publish")
  /\ UNCHANGED <<provider, row, revoke, worker, graphVars, cleaner, excuse>>

-----------------------------------------------------------------------------
(* The task *)

TakeUnsent(w, r) ==
  /\ At(w, "idle") /\ parent[r] = "dispatched"
  /\ queue' = [queue EXCEPT ![r] = @ - 1]
  /\ worker' = [worker EXCEPT ![w] = [Idle EXCEPT !.pc = "begin", !.on = {r}]]
  /\ UNCHANGED <<provider, parent, row, revoke, graphVars, cleaner, excuse, budget>>

\* The message stays unacknowledged while the task runs (acks_late=True).
Take(w, r) ==
  /\ At(w, "idle") /\ queue[r] > 0
  /\ queue' = [queue EXCEPT ![r] = @ - 1]
  /\ IF revoke[r] = "no"
     THEN worker' = [worker EXCEPT ![w] =
                       [Idle EXCEPT !.pc = "begin", !.on = {r}]]
     ELSE UNCHANGED worker
  /\ UNCHANGED <<provider, parent, row, revoke, graphVars, cleaner, excuse, budget>>

\* Only a SCHEDULED row is started, under its lock; a deleted provider raises.
StartAny(r) == row[r].state \in {"SCHEDULED", "EXECUTING"}
MayStart(r) == row[r].state = "SCHEDULED"
Begin(w) ==
  /\ At(w, "begin")
  /\ \/ /\ ~Visible(R(w)) /\ Goto(w, "failtemp") /\ UNCHANGED row
     \/ /\ Visible(R(w)) /\ MayStart(R(w))
        /\ worker' = [worker EXCEPT ![w].pc = "temp", ![w].undo = "none"]
        /\ row' = [row EXCEPT ![R(w)].state = "EXECUTING"]
     \/ /\ Visible(R(w)) /\ ~MayStart(R(w)) /\ Free(w) /\ UNCHANGED row
  /\ UNCHANGED <<provider, parent, queue, revoke, graphVars, cleaner, excuse, budget>>

CreateTemp(w) ==
  /\ At(w, "temp") /\ Goto(w, "ingest")
  /\ tempdb' = tempdb \cup {R(w)}
  /\ UNCHANGED <<provider, parent, row, queue, revoke, graph, intact, cleaner,
                 excuse, budget>>

\* Progress is saved throughout, which raises when the row is gone; so does
\* writing to a temporary database that was dropped meanwhile.
Ingest(w) ==
  /\ At(w, "ingest")
  /\ Goto(w, IF R(w) \in tempdb /\ Exists(R(w)) THEN "gate" ELSE "recover")
  /\ UNCHANGED <<provider, parent, row, queue, revoke, graphVars, cleaner, excuse,
                 budget>>

\* The queries of every row in the target sink are stopped.  `objects` matches
\* no row of a deleted provider; refresh_from_db raises when the row is gone.
GateOwnRow(w) ==
  /\ At(w, "gate")
  /\ worker' = [worker EXCEPT ![w].pc = "drop", ![w].undo = "all"]
  /\ row' = IF provider = "active" THEN SetOwnReady(R(w), FALSE) ELSE row
  /\ Excuse(Replacing # {}, "overlap")
  /\ UNCHANGED <<provider, parent, queue, revoke, graphVars, cleaner, budget>>

Gate(w) ==
  /\ At(w, "gate")
  /\ IF Exists(R(w))
     THEN /\ worker' = [worker EXCEPT ![w].pc = "drop", ![w].undo = "all"]
          /\ row' = IF provider = "active" THEN SetReady(TargetSink, FALSE) ELSE row
     ELSE Goto(w, "recover") /\ UNCHANGED row
  /\ Excuse(Replacing # {}, "overlap")
  /\ UNCHANGED <<provider, parent, queue, revoke, graphVars, cleaner, budget>>

Copying == {w \in Workers : worker[w].pc = "syncing"}

DropBegin(w) ==
  /\ At(w, "drop") /\ Goto(w, "dropping")
  /\ graph' = [graph EXCEPT ![TargetSink] = IF @ = "empty" THEN @ ELSE "partial"]
  /\ intact' = {}
  /\ UNCHANGED <<provider, parent, row, queue, revoke, tempdb, cleaner, excuse,
                 budget>>

DropEnd(w) ==
  /\ At(w, "dropping")
  /\ worker' = [worker EXCEPT ![w].pc = IF Exists(R(w)) THEN "sync" ELSE "recover",
                              ![w].undo = "none"]
  /\ graph' = [graph EXCEPT ![TargetSink] =
                 IF Copying = {} THEN "empty" ELSE "partial"]
  /\ intact' = {}
  /\ UNCHANGED <<provider, parent, row, queue, revoke, tempdb, cleaner, excuse,
                 budget>>

SyncBegin(w) ==
  /\ At(w, "sync")
  /\ IF R(w) \in tempdb
     THEN /\ Goto(w, "syncing")
          /\ graph' = [graph EXCEPT ![TargetSink] = IF @ = "empty" THEN "partial" ELSE @]
          /\ intact' = intact \cup {w}
     ELSE Goto(w, "recover") /\ UNCHANGED <<graph, intact>>
  /\ UNCHANGED <<provider, parent, row, queue, revoke, tempdb, cleaner, excuse,
                 budget>>

\* A copy that no drop has hit since it began is complete.
SyncEnd(w) ==
  /\ At(w, "syncing")
  /\ IF R(w) \in tempdb
     THEN /\ worker' = [worker EXCEPT ![w].pc = "migrate", ![w].undo = "own"]
          /\ graph' = [graph EXCEPT ![TargetSink] = IF w \in intact THEN "full" ELSE @]
     ELSE Goto(w, "recover") /\ UNCHANGED graph
  /\ intact' = intact \ {w}
  /\ UNCHANGED <<provider, parent, row, queue, revoke, tempdb, cleaner, excuse,
                 budget>>

\* A save of a row that is gone raises.
Saved(w, field, next, newRow) ==
  /\ At(w, field)
  /\ IF Exists(R(w)) THEN row' = [row EXCEPT ![R(w)] = newRow] /\ next
     ELSE UNCHANGED row /\ Goto(w, "recover")
  /\ UNCHANGED <<provider, parent, queue, revoke, graphVars, cleaner, excuse, budget>>

Migrate(w) == Saved(w, "migrate", Goto(w, "open"), [row[R(w)] EXCEPT !.sink = TargetSink])
Open(w)    == Saved(w, "open", Goto(w, "cleartemp"), [row[R(w)] EXCEPT !.ready = TRUE])
Finish(w)  == Saved(w, "finish", Free(w), [row[R(w)] EXCEPT !.state = "COMPLETED"])

\* Dropping the temporary database, at the end, in the handler and in
\* on_failure.  The last two go on when it fails.
ClearTemp(w) ==
  /\ \/ At(w, "cleartemp") /\ Goto(w, "finish")
     \/ At(w, "xtemp") /\ Goto(w, "xfail")
     \/ At(w, "failtemp") /\ (IF Visible(R(w)) THEN Goto(w, "failrow") ELSE Free(w))
  /\ tempdb' = IF At(w, "failtemp") /\ ~Visible(R(w)) THEN tempdb
               ELSE tempdb \ {R(w)}
  /\ UNCHANGED <<provider, parent, row, queue, revoke, graph, intact, cleaner,
                 excuse, budget>>

\* The handler of a failed run: what it reopens depends on how far it got.
RecoverNothing(w) ==
  /\ At(w, "recover") /\ Goto(w, "xtemp")
  /\ UNCHANGED <<provider, parent, row, queue, revoke, graphVars, cleaner, excuse,
                 budget>>

Recover(w) ==
  /\ At(w, "recover") /\ Goto(w, "xtemp")
  /\ \/ /\ worker[w].undo = "own" /\ Exists(R(w))
        /\ row' = SetOwnReady(R(w), TRUE)
        /\ Excuse(row[R(w)].sink # TargetSink, "stranded")
     \/ /\ worker[w].undo = "all" /\ Visible(R(w))
        /\ row' = SetReady(TargetSink, TRUE)
        /\ Excuse(graph[TargetSink] # "full", "torn")
     \/ /\ ~(worker[w].undo = "own" /\ Exists(R(w)))
        /\ ~(worker[w].undo = "all" /\ Visible(R(w)))
        /\ UNCHANGED <<row, excuse>>
  /\ UNCHANGED <<provider, parent, queue, revoke, graphVars, cleaner, budget>>

\* ... then it marks its own row FAILED and raises, ...
MarkFailed(w) ==
  /\ At(w, "xfail") /\ Goto(w, "failtemp")
  /\ row' = IF Exists(R(w)) THEN [row EXCEPT ![R(w)].state = "FAILED"] ELSE row
  /\ UNCHANGED <<provider, parent, queue, revoke, graphVars, cleaner, excuse, budget>>

\* ... and on_failure does so unless the row has ended, whoever runs it, and
\* reopens the gate when the row's sink still has data of the provider.
FailRow(w) ==
  /\ At(w, "failrow")
  /\ IF Visible(R(w)) /\ row[R(w)].state \notin Terminal
     THEN /\ row' = [row EXCEPT ![R(w)].state = "FAILED"] /\ Goto(w, "check")
          /\ Excuse(worker[w].undo = "unstarted" /\ row[R(w)].state = "EXECUTING",
                    "misjudged")
     ELSE UNCHANGED <<row, excuse>> /\ Free(w)
  /\ UNCHANGED <<provider, parent, queue, revoke, graphVars, cleaner, budget>>

HasData(r) == graph[row[r].sink] # "empty"
Reopen(r) ==
  IF Visible(r)
  THEN /\ row' = SetReady(row[r].sink, TRUE)
       /\ Excuse(graph[row[r].sink] # "full" \/ Replacing # {}, "recovered")
  ELSE UNCHANGED <<row, excuse>>

CheckData(w) ==
  /\ At(w, "check")
  /\ IF HasData(R(w)) THEN Goto(w, "reopen") ELSE Free(w)
  /\ UNCHANGED <<provider, parent, row, queue, revoke, graphVars, cleaner, excuse,
                 budget>>

ReopenFailed(w) ==
  /\ At(w, "reopen") /\ Free(w) /\ Reopen(R(w))
  /\ UNCHANGED <<provider, parent, queue, revoke, graphVars, cleaner, budget>>

-----------------------------------------------------------------------------
(* Faults *)

\* An operation of the run raises: before the row is started and in the run.
Raise(w) ==
  /\ Spend("error")
  /\ \/ At(w, "begin") /\ Goto(w, "failtemp")
     \/ worker[w].pc \in RunSteps \ {"recover", "xtemp", "xfail"} /\ Goto(w, "recover")
  /\ intact' = intact \ {w}
  /\ UNCHANGED <<provider, parent, row, queue, revoke, graph, tempdb, cleaner, excuse>>

\* A step of the handlers raises; they log it and go on.
RaiseInHandler(w) ==
  /\ Spend("error")
  /\ \/ At(w, "recover") /\ Goto(w, "xtemp")
        /\ Excuse(worker[w].undo # "none", "gaveUp")
     \/ At(w, "xtemp") /\ Goto(w, "xfail") /\ Excuse(TRUE, "tempKept")
     \/ At(w, "xfail") /\ Goto(w, "failtemp") /\ UNCHANGED excuse
     \/ /\ At(w, "failtemp") /\ Visible(R(w)) /\ Goto(w, "failrow")
        /\ Excuse(TRUE, "tempKept")
     \/ At(w, "failrow") /\ Free(w) /\ UNCHANGED excuse
     \/ worker[w].pc \in Reopening /\ Free(w) /\ Excuse(TRUE, "gaveUp")
  /\ UNCHANGED <<provider, parent, row, queue, revoke, graphVars, cleaner>>

\* A worker dies and the broker delivers the message again.
Crash(w) ==
  /\ ~At(w, "idle") /\ Spend("crash") /\ Free(w)
  /\ queue' = [queue EXCEPT ![R(w)] = @ + 1]
  /\ intact' = intact \ {w}
  /\ Excuse(worker[w].pc \in Reopening, "gaveUp")
  /\ UNCHANGED <<provider, parent, row, revoke, graph, tempdb, cleaner>>

\* The visibility timeout passes while the task runs.
Redeliver(w) ==
  /\ ~At(w, "idle") /\ Spend("redeliver")
  /\ queue' = [queue EXCEPT ![R(w)] = @ + 1]
  /\ UNCHANGED <<provider, parent, row, revoke, worker, graphVars, cleaner, excuse>>

\* The SIGTERM of a revoked task reaches its process.
Terminate(w) ==
  /\ ~At(w, "idle") /\ revoke[R(w)] = "kill" /\ Free(w)
  /\ intact' = intact \ {w}
  /\ UNCHANGED <<provider, parent, row, queue, revoke, graph, tempdb, cleaner,
                 excuse, budget>>

-----------------------------------------------------------------------------
(* Cleanup of stale rows.  The rows of a pass are taken one by one. *)

\* An EXECUTING row is judged dead, or stale, in which case its task is
\* revoked.  When a worker is running it that takes an unanswered ping or a run
\* past the threshold; when none is, time is enough.
Judge(r) ==
  /\ cleaner.pc = "idle" /\ row[r].state = "EXECUTING"
  /\ cleaner' = [pc |-> "temp", on |-> {r}]
  /\ \/ ~Held(r) /\ UNCHANGED <<revoke, budget>>
     \/ Held(r) /\ Spend("deaf") /\ UNCHANGED revoke
     \/ Held(r) /\ Spend("slow") /\ revoke' = [revoke EXCEPT ![r] = "kill"]
  /\ Excuse(Held(r), "misjudged")
  /\ UNCHANGED <<provider, parent, row, queue, worker, graphVars>>

\* Only rows whose task was published.
JudgeDispatched(r) ==
  /\ cleaner.pc = "idle" /\ row[r].state = "SCHEDULED" /\ parent[r] = "dispatched"
  /\ cleaner' = [pc |-> "scheduled", on |-> {r}]
  /\ revoke' = [revoke EXCEPT ![r] = "discard"]
  /\ UNCHANGED <<provider, parent, row, queue, worker, graphVars, excuse, budget>>

\* A SCHEDULED row is judged by its age, counted from its insertion, and by its
\* parent scan; a queued task is revoked.
JudgeScheduled(r) ==
  /\ cleaner.pc = "idle" /\ row[r].state = "SCHEDULED" /\ parent[r] # "running"
  /\ cleaner' = [pc |-> "scheduled", on |-> {r}]
  /\ \/ UNCHANGED revoke
     \/ parent[r] = "dispatched" /\ revoke' = [revoke EXCEPT ![r] = "discard"]
  /\ UNCHANGED <<provider, parent, row, queue, worker, graphVars, excuse, budget>>

CleanTempNever ==
  /\ cleaner.pc = "temp" /\ cleaner' = [cleaner EXCEPT !.pc = "executing"]
  /\ UNCHANGED <<provider, parent, row, queue, revoke, worker, graphVars, excuse,
                 budget>>

CleanTemp ==
  /\ cleaner.pc = "temp" /\ cleaner' = [cleaner EXCEPT !.pc = "executing"]
  /\ \/ tempdb' = tempdb \ {On(cleaner)} /\ UNCHANGED <<excuse, budget>>
     \/ UNCHANGED tempdb /\ Spend("error") /\ Excuse(TRUE, "tempKept")
  /\ UNCHANGED <<provider, parent, row, queue, revoke, worker, graph, intact>>

\* _finalize_failed_scan: under the row's lock, if its state is still the one
\* that was judged.
AnyState(r, expected) == row[r].state # "none"
StillIn(r, expected) == row[r].state = expected
Finalize ==
  /\ cleaner.pc \in {"executing", "scheduled"}
  /\ LET r == On(cleaner)
         expected == IF cleaner.pc = "executing" THEN "EXECUTING" ELSE "SCHEDULED"
     IN IF Visible(r) /\ StillIn(r, expected)
        THEN /\ row' = [row EXCEPT ![r].state = "FAILED"]
             /\ cleaner' = IF cleaner.pc = "executing"
                           THEN [cleaner EXCEPT !.pc = "check"] ELSE Sleeping
        ELSE cleaner' = Sleeping /\ UNCHANGED row
  /\ UNCHANGED <<provider, parent, queue, revoke, worker, graphVars, excuse, budget>>

\* recover_graph_data_ready.
CleanCheck ==
  /\ cleaner.pc = "check"
  /\ cleaner' = IF HasData(On(cleaner)) THEN [cleaner EXCEPT !.pc = "reopen"]
                ELSE Sleeping
  /\ UNCHANGED <<provider, parent, row, queue, revoke, worker, graphVars, excuse,
                 budget>>

CleanReopen ==
  /\ cleaner.pc = "reopen" /\ cleaner' = Sleeping /\ Reopen(On(cleaner))
  /\ UNCHANGED <<provider, parent, queue, revoke, worker, graphVars, budget>>

\* A failed transaction ends the pass; a failed recovery is logged only.
CleanRaise ==
  /\ cleaner.pc \in {"executing", "scheduled"} \cup Reopening
  /\ Spend("error") /\ cleaner' = Sleeping
  /\ Excuse(cleaner.pc \in Reopening, "gaveUp")
  /\ UNCHANGED <<provider, parent, row, queue, revoke, worker, graphVars>>

-----------------------------------------------------------------------------
(* Deletion of the provider *)

HideProvider ==
  /\ provider = "active" /\ provider' = "hidden"
  /\ UNCHANGED <<parent, row, queue, revoke, worker, graphVars, cleaner, excuse,
                 budget>>

\* delete_provider drops the temporary databases, ...
PurgeTemps ==
  /\ provider = "hidden" /\ provider' = "purging"
  /\ tempdb' = tempdb \ {r \in Rows : Exists(r)}
  /\ UNCHANGED <<parent, row, queue, revoke, worker, graph, intact, cleaner, excuse,
                 budget>>

\* ... the graphs in the sinks its rows name (the target's if there is no
\* row), and ...
PurgeGraphs ==
  LET named == {row[r].sink : r \in {q \in Rows : Exists(q)}}
      sinks == IF named = {} THEN {TargetSink} ELSE named
  IN /\ provider = "purging" /\ provider' = "purged"
     /\ graph' = [s \in Sinks |->
                    IF s \notin sinks THEN graph[s]
                    ELSE IF s = TargetSink /\ Copying # {} THEN "partial" ELSE "empty"]
     /\ intact' = {}
     /\ UNCHANGED <<parent, row, queue, revoke, worker, tempdb, cleaner, excuse,
                    budget>>

\* ... the rows, with the provider.
PurgeRows ==
  /\ provider = "purged" /\ provider' = "gone"
  /\ row' = [r \in Rows |-> IF row[r].state = "creating" THEN row[r] ELSE NoRow]
  /\ UNCHANGED <<parent, queue, revoke, worker, graphVars, cleaner, excuse, budget>>

-----------------------------------------------------------------------------
(* Specification *)

Init ==
  /\ provider = "active"
  /\ parent = [r \in Rows |-> "running"] /\ row = [r \in Rows |-> NoRow]
  /\ queue = [r \in Rows |-> 0] /\ revoke = [r \in Rows |-> "no"]
  /\ worker = [w \in Workers |-> Idle]
  /\ graph = [s \in Sinks |-> "empty"] /\ intact = {} /\ tempdb = {}
  /\ cleaner = Sleeping /\ excuse = {} /\ budget = Budget

RunStep(w) ==
  \/ Begin(w) \/ CreateTemp(w) \/ Ingest(w) \/ Gate(w) \/ DropBegin(w) \/ DropEnd(w)
  \/ SyncBegin(w) \/ SyncEnd(w) \/ Migrate(w) \/ Open(w) \/ ClearTemp(w) \/ Finish(w)
  \/ Recover(w) \/ MarkFailed(w) \/ FailRow(w) \/ CheckData(w) \/ ReopenFailed(w)

CleanStep == CleanTemp \/ Finalize \/ CleanCheck \/ CleanReopen
PurgeStep == PurgeTemps \/ PurgeGraphs \/ PurgeRows

Next ==
  \/ \E r \in Rows : \/ CreateRead(r) \/ CreateInsert(r) \/ EndParent(r)
                     \/ Dispatch(r) \/ Judge(r) \/ JudgeScheduled(r)
  \/ \E w \in Workers, r \in Rows : Take(w, r)
  \/ \E w \in Workers : \/ RunStep(w) \/ Raise(w) \/ RaiseInHandler(w) \/ Crash(w)
                        \/ Redeliver(w) \/ Terminate(w)
  \/ CleanStep \/ CleanRaise \/ HideProvider \/ PurgeStep

Spec == Init /\ [][Next]_vars

\* Runs and requests end, each periodic cleanup goes through all the rows it
\* finds, and a deletion is retried until it succeeds.
Fairness ==
  /\ \A w \in Workers : WF_vars(RunStep(w))
  /\ \A r \in Rows : /\ WF_vars(CreateInsert(r))
                     /\ SF_vars(~Held(r) /\ Judge(r)) /\ SF_vars(JudgeScheduled(r))
  /\ WF_vars(CleanStep) /\ WF_vars(PurgeStep)

FairSpec == Spec /\ Fairness

-----------------------------------------------------------------------------
(* Properties *)

\* "Flip the row from SCHEDULED to EXECUTING atomically": whatever is delivered
\* twice, at most one worker runs a row.
OneRunPerRow ==
  \A r \in Rows, v, w \in Workers : Holds(v, r) /\ Holds(w, r) => v = w

Whole(r) == Visible(r) /\ row[r].ready => graph[row[r].sink] = "full"

\* "so queries never see a half-built graph": a row that lets queries through
\* names a sink with a complete copy.  Accepted or reported ways past the gate
\* are in excuse: an interrupted drop, the best-effort recovery, a handler that
\* opens a row that does not name the new sink yet, a second run that overlaps, a
\* row inserted with what it read before the gate closed.
PastGate == {"overlap", "lateInsert", "torn", "recovered", "stranded"}
QueriesSeeWholeGraph ==
  excuse \cap PastGate = {} => \A r \in Rows : Whole(r)

\* The same with two runs of the provider allowed to overlap.
OverlapSeesWholeGraph ==
  excuse \subseteq {"overlap"} => \A r \in Rows : Whole(r)

\* "If data exists, restores graph_data_ready=True for all scans of this
\* provider": once nothing is running and every failure was dealt with, a
\* complete graph that a finished scan names is open to queries, unless the
\* recovery itself failed (gaveUp), after which nobody looks at the row again.
Quiet ==
  /\ provider = "active" /\ cleaner = Sleeping
  /\ \A w \in Workers : At(w, "idle")
  /\ \A r \in Rows : row[r].state # "EXECUTING"
FullGraphReopens ==
  LET here == {r \in Rows : Exists(r) /\ row[r].sink = TargetSink}
  IN /\ Quiet /\ graph[TargetSink] = "full"
     /\ excuse \cap {"misjudged", "gaveUp"} = {}
     /\ \E r \in here : row[r].state = "COMPLETED"
     => \E r \in here : row[r].ready

\* No temporary database outlives its run: once the row has ended and nobody
\* works on it, it is gone, unless the failure of a drop was swallowed or the
\* cleanup took a live worker for a dead one.
NoTempLeft ==
  excuse \cap {"tempKept", "misjudged"} = {} =>
    \A r \in Rows :
      /\ row[r].state \in Terminal /\ provider = "active"
      /\ \A w \in Workers : r \notin worker[w].on
      /\ r \notin cleaner.on
      => r \notin tempdb

\* A finished row stays as it finished, unless the cleanup misjudged a worker
\* that was alive.
EndedStays ==
  [][ "misjudged" \notin excuse' =>
        \A r \in Rows : row[r].state \in Terminal =>
                          row'[r].state \in {row[r].state, "none"}]_vars

\* "Deletes an instance of a provider along with its related data".
NothingLeftBehind ==
  /\ provider = "gone" /\ \A w \in Workers : At(w, "idle")
  => \A s \in Sinks : graph[s] = "empty"

\* Every row whose parent scan has ended ends too, whatever the faults.
RowEnds ==
  \A r \in Rows :
    Exists(r) /\ parent[r] # "running" ~> row[r].state \in Terminal \cup {"none"}
=============================================================================
