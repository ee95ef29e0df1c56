------------------------- MODULE ScanDispatchProofs -------------------------
(* Theorems about ScanDispatch. *)
EXTENDS ScanDispatch, TLAPS

-----------------------------------------------------------------------------
(* The helpers on the scans table *)

\* Cleaning up keeps the table a table and deletes only placeholders.
LEMMA CleanupFacts ==
  ASSUME NEW rows \in [Scans -> Rows], NEW b \in Nat
  PROVE  /\ CleanupOrphans(rows, b) \in [Scans -> Rows]
         /\ \A s \in Scans : \/ CleanupOrphans(rows, b)[s] = rows[s]
                             \/ /\ IsPlaceholder(rows[s], b)
                                /\ CleanupOrphans(rows, b)[s] = NoRow
<1>1. NoRow \in Rows
  BY DEF NoRow, Rows, ScanStates, NoTask
<1> QED
  BY <1>1 DEF CleanupOrphans

\* _get_or_create_scheduled_scan returns a placeholder: one of the table, or a
\* new one at rank n.  It deletes only other placeholders.
LEMMA GetOrCreateFacts ==
  ASSUME NEW rows \in [Scans -> Rows], NEW n \in Scans, NEW b \in Nat,
         NEW update, NEW r \in GetOrCreateScheduled(rows, n, b, update)
  PROVE  /\ r.rows \in [Scans -> Rows] /\ r.pick \in Scans
         /\ \/ r.pick = n /\ r.next = n + 1
            \/ IsPlaceholder(rows[r.pick], b) /\ r.next = n
         /\ IsPlaceholder(r.rows[r.pick], b)
         /\ \A s \in Scans \ {r.pick} :
              \/ r.rows[s] = rows[s]
              \/ IsPlaceholder(rows[s], b) /\ r.rows[s] = NoRow
<1> DEFINE ps == Placeholders(rows, b)
<1>1. NoRow \in Rows
  BY DEF NoRow, Rows, ScanStates, NoTask
<1>2. CASE ps = {}
  <2>1. r = [rows |-> [rows EXCEPT ![n] = PlaceholderRow("SCHEDULED", b)],
             pick |-> n, next |-> n + 1]
    BY <1>2 DEF GetOrCreateScheduled
  <2>2. PlaceholderRow("SCHEDULED", b) \in Rows
    BY DEF PlaceholderRow, Rows, ScanStates, NoTask
  <2>3. IsPlaceholder(PlaceholderRow("SCHEDULED", b), b)
    BY DEF PlaceholderRow, IsPlaceholder
  <2> QED
    BY <2>1, <2>2, <2>3
<1>3. CASE ps # {}
  <2> DEFINE state(p) == IF update = "state" THEN "SCHEDULED" ELSE rows[p].state
             new(p) == [rows[p] EXCEPT !.state = state(p)]
  <2>1. PICK p \in ps :
          r = [rows |-> [s \in Scans |-> IF s = p THEN new(p)
                                         ELSE IF s \in ps THEN NoRow ELSE rows[s]],
               pick |-> p, next |-> n]
    BY <1>3 DEF GetOrCreateScheduled
  <2>2. p \in Scans /\ IsPlaceholder(rows[p], b)
    BY DEF Placeholders
  <2>3. new(p) \in Rows /\ IsPlaceholder(new(p), b)
    BY <2>2 DEF IsPlaceholder, Rows, ScanStates
  <2>4. \A s \in ps : IsPlaceholder(rows[s], b)
    BY DEF Placeholders
  <2>5. r.rows = [s \in Scans |-> IF s = p THEN new(p)
                                  ELSE IF s \in ps THEN NoRow ELSE rows[s]]
        /\ r.pick = p /\ r.next = n
    BY <2>1
  <2> HIDE DEF ps, new
  <2> QED
    BY <1>1, <2>2, <2>3, <2>4, <2>5
<1> QED
  BY <1>2, <1>3

-----------------------------------------------------------------------------
(* Type correctness *)

LEMMA RowFacts ==
  /\ NoRow \in Rows
  /\ \A b \in Nat, st \in ScanStates : PlaceholderRow(st, b) \in Rows
  /\ Idle \in WorkerStates /\ NoEdit \in EditStates
BY DEF NoRow, PlaceholderRow, Rows, ScanStates, Idle, WorkerStates, NoEdit,
       EditStates, NoTask, NoScan

LEMMA SpendFacts ==
  ASSUME HistoryTypes, NEW kinds \in SUBSET Kinds, Spend(kinds), clobbered' \in BOOLEAN,
         disputed' \in BOOLEAN
  PROVE  HistoryTypes' /\ \A k \in Kinds : budget'[k] <= budget[k]
BY BoundsAssumption DEF HistoryTypes, Spend

LEMMA UnlinkFacts ==
  ASSUME NEW rows \in [Scans -> Rows]
  PROVE  /\ Unlink(rows) \in [Scans -> Rows]
         /\ \A s \in Scans : /\ Unlink(rows)[s].state = rows[s].state
                             /\ Unlink(rows)[s].task = rows[s].task
                             /\ Unlink(rows)[s].trigger = rows[s].trigger
                             /\ rows[s] = NoRow => Unlink(rows)[s] = NoRow
BY DEF Unlink, Rows, NoRow

\* A worker that moves to a stage it may be in keeps the processes well typed.
LEMMA WorkerMoves ==
  ASSUME ProcessTypes, NEW w \in Workers, NEW r \in WorkerStates,
         worker' = [worker EXCEPT ![w] = r], edit' = edit,
         r.pc # "idle" => r.task \in Tasks,
         r.pc \in {"enter", "scanning"} => r.scan \in Scans
  PROVE  ProcessTypes'
BY DEF ProcessTypes

LEMMA WorkerFacts ==
  ASSUME ProcessTypes, NEW w \in Workers
  PROVE  /\ worker[w] \in WorkerStates
         /\ worker[w].pc # "idle" => worker[w].task \in Tasks
         /\ worker[w].pc \in {"enter", "scanning"} => worker[w].scan \in Scans
BY DEF ProcessTypes

\* The move of a busy worker to a stage where it runs no scan.
LEMMA WorkerLeaves ==
  ASSUME ProcessTypes, NEW w \in Workers, worker[w].pc # "idle", edit' = edit,
         NEW pc \in {"ensureRead", "dispatch", "finish"},
         \/ worker' = [worker EXCEPT ![w].pc = pc]
         \/ worker' = [worker EXCEPT ![w].pc = pc, ![w].ok = FALSE]
         \/ worker' = [worker EXCEPT ![w].pc = pc, ![w].keep = NoScan,
                                     ![w].drop = {}, ![w].save = FALSE]
  PROVE  ProcessTypes'
<1> DEFINE r1 == [worker[w] EXCEPT !.pc = pc]
           r2 == [worker[w] EXCEPT !.pc = pc, !.ok = FALSE]
           r3 == [worker[w] EXCEPT !.pc = pc, !.keep = NoScan, !.drop = {}, !.save = FALSE]
<1>1. /\ worker \in [Workers -> WorkerStates] /\ worker[w] \in WorkerStates
      /\ worker[w].task \in Tasks
  BY DEF ProcessTypes
<1>2. /\ r1 \in WorkerStates /\ r1.pc = pc /\ r1.task = worker[w].task
      /\ r2 \in WorkerStates /\ r2.pc = pc /\ r2.task = worker[w].task
      /\ r3 \in WorkerStates /\ r3.pc = pc /\ r3.task = worker[w].task
  BY <1>1 DEF WorkerStates
<1>3. \E r \in {r1, r2, r3} : worker' = [worker EXCEPT ![w] = r]
  BY <1>1 DEF WorkerStates
<1> HIDE DEF r1, r2, r3
<1>4. PICK r \in {r1, r2, r3} : worker' = [worker EXCEPT ![w] = r]
  BY <1>3
<1>5. r \in WorkerStates /\ r.pc \in {"ensureRead", "dispatch", "finish"} /\ r.task \in Tasks
  BY <1>1, <1>2
<1> QED
  BY <1>4, <1>5, WorkerMoves

LEMMA TypeInit == Init => TypeOK
<1> SUFFICES ASSUME Init PROVE TypeOK
  OBVIOUS
<1>1. PlaceholderRow("SCHEDULED", 1) \in Rows
  BY RowFacts DEF ScanStates
<1>2. scan \in [Scans -> Rows] /\ nextScan \in 1 .. MaxScans + 1
  BY <1>1, RowFacts, BoundsAssumption DEF Init
<1>3. /\ provider \in {"active", "deleted", "gone"}
      /\ periodic \in Nat /\ nextTask \in 1 .. MaxTasks + 1 /\ revoked \subseteq Tasks
  BY BoundsAssumption DEF Init
<1>4. /\ status \in [Tasks -> TaskStatuses] /\ argOf \in [Tasks -> Scans \cup {NoScan}]
      /\ queue \in [Tasks -> Nat]
  BY DEF Init, TaskStatuses
<1>5. edit \in EditStates /\ clobbered \in BOOLEAN
  BY RowFacts DEF Init
<1>6. worker \in [Workers -> WorkerStates]
      /\ \A w \in Workers : worker[w].pc = "idle"
  BY RowFacts DEF Init, Idle
<1>7. beatOn \in BOOLEAN
  BY DEF Init
<1>8. budget \in [Kinds -> Nat] /\ \A k \in Kinds : budget[k] <= Budget[k]
  BY BoundsAssumption DEF Init
<1> QED
  BY <1>2, <1>3, <1>4, <1>5, <1>6, <1>7, <1>8
     DEF Init, TypeOK, TableTypes, TaskTypes, ProcessTypes, HistoryTypes

LEMMA BeginTypes ==
  ASSUME TypeOK, NEW w \in Workers, BeginManual(w) \/ SkipScheduled(w)
  PROVE  TypeOK'
<1> USE RowFacts, BoundsAssumption
<1>1. ProcessTypes /\ worker[w] \in WorkerStates
  BY WorkerFacts DEF TypeOK
<1>2. CASE BeginManual(w)
  <2>1. worker[w].pc = "begin" /\ worker[w].task \in Tasks
    BY <1>2, WorkerFacts DEF BeginManual, At, TypeOK
  <2>2. argOf[worker[w].task] \in Scans
    BY <1>2, <2>1 DEF BeginManual, Scheduled, TypeOK, TaskTypes
  <2>3. CASE provider = "active"
    <3> DEFINE r == [worker[w] EXCEPT !.pc = "enter", !.scan = argOf[worker[w].task]]
    <3>1. worker' = [worker EXCEPT ![w] = r] /\ edit' = edit
      BY <1>1, <1>2, <2>3 DEF BeginManual, ProcessTypes, WorkerStates
    <3>2. r \in WorkerStates /\ r.task \in Tasks /\ r.scan \in Scans
      BY <1>1, <2>1, <2>2 DEF WorkerStates
    <3> HIDE DEF r
    <3> QED
      BY <1>1, <1>2, <3>1, <3>2, WorkerMoves
         DEF BeginManual, TypeOK, TableTypes, TaskTypes, HistoryTypes, schedule, scanVars,
             taskVars
  <2>4. CASE provider # "active"
    BY <1>1, <1>2, <2>1, <2>4, WorkerLeaves
       DEF BeginManual, Goto, TypeOK, TableTypes, TaskTypes, HistoryTypes, schedule,
           scanVars, taskVars
  <2> QED
    BY <2>3, <2>4
<1>3. CASE SkipScheduled(w)
  <2>1. scan' \in [Scans -> Rows] /\ periodic' \in Nat
    BY <1>3, UnlinkFacts DEF SkipScheduled, TypeOK, TableTypes, schedule
  <2>3. beatOn' \in BOOLEAN
    BY <1>3 DEF SkipScheduled, TypeOK, TableTypes, schedule
  <2>2. ProcessTypes'
    BY <1>1, <1>3, WorkerLeaves DEF SkipScheduled, Goto, Fail, At
  <2> QED
    BY <1>3, <2>1, <2>2, <2>3 DEF SkipScheduled, TypeOK, TableTypes, TaskTypes, HistoryTypes,
                            taskVars, schedule
<1> QED
  BY <1>2, <1>3

LEMMA QueueScheduledTypes ==
  ASSUME TypeOK, NEW w \in Workers, QueueScheduled(w)
  PROVE  TypeOK'
<1> USE RowFacts, BoundsAssumption
<1> DEFINE cleaned == CleanupOrphans(scan, periodic)
           row == [state |-> "AVAILABLE", trigger |-> "scheduled",
                   task |-> nextTask, beat |-> periodic]
<1>1. cleaned \in [Scans -> Rows] /\ periodic \in Nat
  BY CleanupFacts DEF TypeOK, TableTypes
<1>2. CASE ReuseQueued
  <2>1. PICK r \in GetOrCreateScheduled(cleaned, nextScan, periodic, "state") :
          scan' = r.rows /\ nextScan' = r.next
    BY <1>2 DEF QueueScheduled
  <2>2. nextScan \in Scans /\ UNCHANGED <<status, argOf, nextTask>>
    BY <1>2 DEF QueueScheduled
  <2>3. scan' \in [Scans -> Rows] /\ nextScan' \in {nextScan, nextScan + 1}
    <3> HIDE DEF cleaned, row
    <3>1. r.rows \in [Scans -> Rows] /\ r.next \in {nextScan, nextScan + 1}
      BY ONLY <1>1, <2>1, <2>2, GetOrCreateFacts
    <3> QED
      BY <2>1, <3>1
  <2> QED
    <3>1. TableTypes'
      BY <2>2, <2>3 DEF QueueScheduled, TypeOK, TableTypes, schedule, Scans
    <3>2. TaskTypes'
      BY <2>2 DEF QueueScheduled, TypeOK, TaskTypes
    <3> QED
      BY <3>1, <3>2, WorkerLeaves
         DEF QueueScheduled, CanRunScheduled, At, Goto, TypeOK, HistoryTypes, schedule
<1>3. CASE ~ReuseQueued
  <2>1. PICK r \in GetOrCreateScheduled([cleaned EXCEPT ![nextScan] = row],
                                        nextScan + 1, periodic, "state") :
          scan' = r.rows /\ nextScan' = r.next
    BY <1>3 DEF QueueScheduled
  <2>2. nextScan \in Scans /\ nextScan + 1 \in Scans /\ nextTask \in Tasks
    BY <1>3 DEF QueueScheduled, TypeOK, TableTypes, Scans
  <2>3. [cleaned EXCEPT ![nextScan] = row] \in [Scans -> Rows]
    BY <1>1, <2>2 DEF Rows, ScanStates
  <2>4. scan' \in [Scans -> Rows] /\ nextScan' \in {nextScan + 1, nextScan + 2}
    <3> DEFINE n == nextScan + 1
               rows == [cleaned EXCEPT ![nextScan] = row]
    <3>1. n \in Scans /\ rows \in [Scans -> Rows] /\ periodic \in Nat
      BY <1>1, <2>2, <2>3
    <3>2. PICK q \in GetOrCreateScheduled(rows, n, periodic, "state") :
            scan' = q.rows /\ nextScan' = q.next
      BY <2>1
    <3> HIDE DEF n, rows
    <3>3. scan' \in [Scans -> Rows] /\ nextScan' \in {n, n + 1}
      BY <3>1, <3>2, GetOrCreateFacts
    <3> QED
      BY <2>2, <3>3 DEF n, Scans
  <2>5. TableTypes'
    BY <2>2, <2>4 DEF QueueScheduled, TypeOK, TableTypes, schedule, Scans
  <2>6. TaskTypes'
    <3>1. /\ status' = [status EXCEPT ![nextTask] = "QUEUED"]
          /\ argOf' = [argOf EXCEPT ![nextTask] = nextScan]
          /\ nextTask' = nextTask + 1 /\ queue' = queue /\ revoked' = revoked
      BY <1>3 DEF QueueScheduled
    <3> QED
      BY <2>2, <3>1 DEF TypeOK, TaskTypes, Tasks, TaskStatuses
  <2> QED
    BY <2>5, <2>6, WorkerLeaves
       DEF QueueScheduled, CanRunScheduled, At, Goto, TypeOK, HistoryTypes, schedule
<1> QED
  BY <1>2, <1>3

LEMMA RunScheduledTypes ==
  ASSUME TypeOK, NEW w \in Workers, RunScheduled(w)
  PROVE  TypeOK'
<1> USE RowFacts, BoundsAssumption
<1> DEFINE cleaned == CleanupOrphans(scan, periodic)
           me == worker[w]
<1>1. cleaned \in [Scans -> Rows] /\ periodic \in Nat /\ nextScan \in Scans
  BY CleanupFacts DEF RunScheduled, TypeOK, TableTypes
<1>2. PICK r \in GetOrCreateScheduled(cleaned, nextScan, periodic, "none") :
        /\ scan' = [r.rows EXCEPT ![r.pick].task = me.task]
        /\ nextScan' = r.next
        /\ worker' = [worker EXCEPT ![w].pc = "enter", ![w].scan = r.pick,
                                    ![w].beat = periodic]
  BY DEF RunScheduled
<1>3. /\ r.rows \in [Scans -> Rows] /\ r.pick \in Scans
      /\ r.next \in {nextScan, nextScan + 1}
  <2> HIDE DEF cleaned
  <2> QED
    BY <1>1, <1>2, GetOrCreateFacts
<1>4. me \in WorkerStates /\ me.task \in Tasks /\ ProcessTypes
  BY WorkerFacts DEF RunScheduled, CanRunScheduled, At, TypeOK
<1>5. [r.rows[r.pick] EXCEPT !.task = me.task] \in Rows
  BY <1>3, <1>4 DEF Rows
<1>6. scan' \in [Scans -> Rows] /\ nextScan' \in 1 .. MaxScans + 1
  BY <1>1, <1>2, <1>3, <1>5 DEF Scans
<1>7. ProcessTypes'
  <2> DEFINE n == [me EXCEPT !.pc = "enter", !.scan = r.pick, !.beat = periodic]
  <2>1. worker' = [worker EXCEPT ![w] = n] /\ edit' = edit
    BY <1>2, <1>4 DEF RunScheduled, ProcessTypes, WorkerStates
  <2>2. n \in WorkerStates /\ n.task \in Tasks /\ n.scan \in Scans
    BY <1>1, <1>3, <1>4 DEF WorkerStates
  <2> HIDE DEF n
  <2> QED
    BY <1>4, <2>1, <2>2, WorkerMoves
<1> QED
  BY <1>6, <1>7 DEF RunScheduled, TypeOK, TableTypes, TaskTypes, HistoryTypes, schedule,
                    taskVars

LEMMA ScanningTypes ==
  ASSUME TypeOK, NEW w \in Workers, EnterScan(w) \/ FinishScan(w)
  PROVE  TypeOK'
<1> USE RowFacts, BoundsAssumption
<1> DEFINE me == worker[w]
<1>1. /\ me \in WorkerStates /\ me.task \in Tasks /\ me.scan \in Scans /\ ProcessTypes
      /\ me.pc # "idle"
  BY WorkerFacts DEF EnterScan, FinishScan, At, TypeOK
<1>2. \A st \in ScanStates : [scan[me.scan] EXCEPT !.state = st] \in Rows
  BY <1>1 DEF TypeOK, TableTypes, Rows
<1>3. scan' = scan \/ \E st \in {"EXECUTING", "COMPLETED", "FAILED"} :
                        scan' = [scan EXCEPT ![me.scan] = [scan[me.scan] EXCEPT !.state = st]]
  BY <1>1 DEF EnterScan, FinishScan, TypeOK, TableTypes
<1>4. TableTypes'
  <2>1. scan' \in [Scans -> Rows]
    BY <1>1, <1>2, <1>3 DEF TypeOK, TableTypes, ScanStates
  <2> QED
    BY <2>1 DEF EnterScan, FinishScan, TypeOK, TableTypes, schedule
<1>5. ProcessTypes'
  <2> DEFINE n == [me EXCEPT !.pc = "scanning"]
  <2>1. CASE worker' = [worker EXCEPT ![w].pc = "scanning"]
    <3>1. worker' = [worker EXCEPT ![w] = n] /\ edit' = edit
      BY <1>1, <2>1 DEF ProcessTypes, WorkerStates, EnterScan, FinishScan
    <3>2. n \in WorkerStates /\ n.task \in Tasks /\ n.scan \in Scans
      BY <1>1 DEF WorkerStates
    <3> HIDE DEF n
    <3> QED
      BY <1>1, <3>1, <3>2, WorkerMoves
  <2>2. CASE \E pc \in {"ensureRead", "dispatch"} :
               \/ worker' = [worker EXCEPT ![w].pc = pc]
               \/ worker' = [worker EXCEPT ![w].pc = pc, ![w].ok = FALSE]
    BY <1>1, <2>2, WorkerLeaves DEF EnterScan, FinishScan
  <2> QED
    BY <2>1, <2>2 DEF EnterScan, FinishScan, Goto, Fail, Finally
<1>6. HistoryTypes'
  BY SpendFacts DEF EnterScan, FinishScan, TypeOK, HistoryTypes, Kinds, schedule
<1> QED
  BY <1>4, <1>5, <1>6 DEF EnterScan, FinishScan, TypeOK, TaskTypes, taskVars, schedule

LEMMA EnsureTypes ==
  ASSUME TypeOK, NEW w \in Workers, EnsureRead(w) \/ EnsureWrite(w)
  PROVE  TypeOK'
<1> USE RowFacts, BoundsAssumption
<1> DEFINE me == worker[w]
<1>1. /\ me \in WorkerStates /\ me.task \in Tasks /\ ProcessTypes /\ me.pc # "idle"
  BY WorkerFacts DEF EnsureRead, EnsureWrite, At, TypeOK
<1>2. CASE EnsureRead(w)
  <2>1. PICK keep \in Scans \cup {NoScan}, drop \in SUBSET Scans, save \in BOOLEAN :
          worker' = [worker EXCEPT ![w].pc = "ensureWrite", ![w].keep = keep,
                                   ![w].drop = drop, ![w].save = save]
    BY <1>2 DEF EnsureRead, Placeholders
  <2> DEFINE n == [me EXCEPT !.pc = "ensureWrite", !.keep = keep, !.drop = drop,
                             !.save = save]
  <2>2. worker' = [worker EXCEPT ![w] = n] /\ edit' = edit
    BY <1>1, <1>2, <2>1 DEF EnsureRead, ProcessTypes, WorkerStates
  <2>3. n \in WorkerStates /\ n.task \in Tasks /\ n.pc = "ensureWrite"
    BY <1>1 DEF WorkerStates
  <2>4. ProcessTypes'
    <3> HIDE DEF n
    <3> QED
      BY <1>1, <2>2, <2>3, WorkerMoves
  <2> QED
    BY <1>2, <2>4 DEF EnsureRead, TypeOK, TableTypes, TaskTypes, HistoryTypes, schedule,
                      scanVars, taskVars
<1>3. CASE EnsureWrite(w)
  <2> DEFINE dropped == [s \in Scans |-> IF s \in me.drop THEN NoRow ELSE scan[s]]
             row == PlaceholderRow("SCHEDULED", me.beat)
  <2>1. row \in Rows /\ dropped \in [Scans -> Rows]
    BY <1>1 DEF TypeOK, TableTypes, WorkerStates, ScanStates
  <2>2. \/ scan' = scan /\ nextScan' = nextScan
        \/ /\ nextScan \in Scans /\ nextScan' = nextScan + 1
           /\ scan' = [scan EXCEPT ![nextScan] = row]
        \/ /\ nextScan' = nextScan
           /\ scan' = [dropped EXCEPT ![me.keep] = row] \/ scan' = dropped
    BY <1>3 DEF EnsureWrite, scanVars
  <2>3. scan' \in [Scans -> Rows] /\ nextScan' \in 1 .. MaxScans + 1
    <3> HIDE DEF dropped, row
    <3> QED
      BY <2>1, <2>2 DEF TypeOK, TableTypes, Scans
  <2>4. clobbered' \in BOOLEAN
    BY <1>3 DEF EnsureWrite, TypeOK, HistoryTypes
  <2>5. ProcessTypes'
    BY <1>1, <1>3, WorkerLeaves DEF EnsureWrite
  <2> QED
    BY <1>3, <2>3, <2>4, <2>5 DEF EnsureWrite, TypeOK, TableTypes, TaskTypes, HistoryTypes,
                                  schedule, taskVars
<1> QED
  BY <1>2, <1>3

LEMMA EndTypes ==
  ASSUME TypeOK, NEW w \in Workers, DispatchNext(w) \/ FinishTask(w)
  PROVE  TypeOK'
<1> USE RowFacts, BoundsAssumption
<1>1. ProcessTypes /\ worker[w].pc # "idle"
  BY DEF DispatchNext, FinishTask, At, TypeOK
<1>2. CASE DispatchNext(w)
  <2>1. ProcessTypes'
    BY <1>1, <1>2, WorkerLeaves DEF DispatchNext, Goto
  <2>2. TaskTypes'
    BY <1>2 DEF DispatchNext, TypeOK, TaskTypes, TaskStatuses
  <2>3. HistoryTypes'
    BY <1>2, SpendFacts DEF DispatchNext, Kinds, TypeOK, HistoryTypes, schedule
  <2> QED
    BY <1>2, <2>1, <2>2, <2>3 DEF DispatchNext, TypeOK, TableTypes, schedule, scanVars
<1>3. CASE FinishTask(w)
  <2>1. TaskTypes'
    BY <1>3 DEF FinishTask, TypeOK, TaskTypes, TaskStatuses
  <2>2. Idle \in WorkerStates /\ Idle.pc = "idle"
    BY DEF Idle
  <2>3. ProcessTypes'
    BY <1>1, <1>3, <2>2, WorkerMoves DEF FinishTask
  <2> QED
    BY <1>3, <2>1, <2>3 DEF FinishTask, TypeOK, TableTypes, HistoryTypes, schedule, scanVars
<1> QED
  BY <1>2, <1>3

LEMMA ApiTypes ==
  ASSUME TypeOK,
         \/ CreateScan \/ RemoveSchedule \/ UpsertCommit \/ BeatFire
         \/ \E on, daily \in BOOLEAN : UpsertRead(on, daily)
         \/ \E t \in Tasks : RevokeTask(t) \/ Redeliver(t)
  PROVE  TypeOK'
<1> USE RowFacts, BoundsAssumption
<1>1. CASE CreateScan
  <2>1. HistoryTypes'
    BY <1>1, SpendFacts DEF CreateScan, Kinds, TypeOK, HistoryTypes, schedule
  <2>2. [state |-> "AVAILABLE", trigger |-> "manual", task |-> nextTask,
         beat |-> 0] \in Rows
    BY <1>1 DEF CreateScan, Rows, ScanStates
  <2>3. TableTypes'
    BY <1>1, <2>2 DEF CreateScan, TypeOK, TableTypes, schedule, Scans
  <2>4. TaskTypes'
    BY <1>1 DEF CreateScan, TypeOK, TaskTypes, Tasks, TaskStatuses
  <2> QED
    BY <1>1, <2>1, <2>3, <2>4 DEF CreateScan, TypeOK, ProcessTypes
<1>2. CASE RemoveSchedule
  <2> DEFINE kept == [s \in Scans |-> IF IsPlaceholder(scan[s], periodic) THEN NoRow
                                      ELSE scan[s]]
  <2>1. kept \in [Scans -> Rows]
    BY DEF TypeOK, TableTypes
  <2>2. scan' = Unlink(kept)
    BY <1>2 DEF RemoveSchedule
  <2>3. scan' \in [Scans -> Rows]
    <3> HIDE DEF kept
    <3> QED
      BY <2>1, <2>2, UnlinkFacts
  <2>4. HistoryTypes'
    BY <1>2, SpendFacts DEF RemoveSchedule, Kinds, TypeOK, HistoryTypes, schedule
  <2> QED
    BY <1>2, <2>3, <2>4 DEF RemoveSchedule, TypeOK, TableTypes, TaskTypes, ProcessTypes,
                            taskVars
<1>3. CASE UpsertCommit
  <2> DEFINE b == IF periodic = 0 THEN 2 + Budget["edit"] - budget["edit"] ELSE periodic
             row == PlaceholderRow(IF edit.on THEN "SCHEDULED" ELSE "AVAILABLE", b)
  <2>1. b \in Nat
    BY DEF TypeOK, TableTypes, HistoryTypes, Kinds
  <2>2. row \in Rows
    <3> HIDE DEF b
    <3> QED
      BY <2>1 DEF ScanStates
  <2>3. edit \in EditStates
    BY DEF TypeOK, ProcessTypes
  <2>4. scan' \in [Scans -> Rows] /\ nextScan' \in 1 .. MaxScans + 1
    <3>1. \/ scan' = scan /\ nextScan' = nextScan
          \/ /\ nextScan \in Scans /\ nextScan' = nextScan + 1
             /\ scan' = [scan EXCEPT ![nextScan] = row]
          \/ nextScan' = nextScan /\ scan' = [scan EXCEPT ![edit.keep] = row]
      BY <1>3 DEF UpsertCommit, scanVars
    <3> HIDE DEF row
    <3> QED
      BY <2>2, <3>1 DEF TypeOK, TableTypes, Scans
  <2>5. periodic' \in Nat
    BY <1>3, <2>1 DEF UpsertCommit, TypeOK, TableTypes, schedule
  <2>6. beatOn' \in BOOLEAN
    BY <1>3, <2>3 DEF UpsertCommit, TypeOK, TableTypes, schedule, EditStates
  <2>7. clobbered' \in BOOLEAN
    BY <1>3 DEF UpsertCommit, TypeOK, HistoryTypes
  <2>8. HistoryTypes'
    BY <1>3, <2>7 DEF UpsertCommit, TypeOK, HistoryTypes
  <2> QED
    BY <1>3, <2>4, <2>5, <2>6, <2>8
       DEF UpsertCommit, TypeOK, TableTypes, TaskTypes, ProcessTypes, taskVars
<1>4. CASE BeatFire
  <2>1. HistoryTypes'
    BY <1>4, SpendFacts DEF BeatFire, Kinds, TypeOK, HistoryTypes, schedule
  <2>2. TaskTypes'
    BY <1>4 DEF BeatFire, TypeOK, TaskTypes, Tasks, TaskStatuses
  <2> QED
    BY <1>4, <2>1, <2>2 DEF BeatFire, TypeOK, TableTypes, ProcessTypes, schedule, scanVars
<1>5. ASSUME NEW on \in BOOLEAN, NEW daily \in BOOLEAN, UpsertRead(on, daily)
      PROVE  TypeOK'
  <2>1. HistoryTypes'
    BY <1>5, SpendFacts DEF UpsertRead, Kinds, TypeOK, HistoryTypes, schedule
  <2>2. edit' \in EditStates
    BY <1>5 DEF UpsertRead, EditStates, Placeholders, NoScan
  <2>3. TaskTypes'
    <3>1. /\ argOf' = argOf /\ revoked' = revoked
          /\ \/ /\ nextTask \in Tasks /\ nextTask' = nextTask + 1
                /\ status' = [status EXCEPT ![nextTask] = "PENDING"]
                /\ queue' = [queue EXCEPT ![nextTask] = 1]
             \/ UNCHANGED <<status, queue, nextTask>>
      BY <1>5 DEF UpsertRead
    <3> QED
      BY <3>1 DEF TypeOK, TaskTypes, Tasks, TaskStatuses
  <2> QED
    BY <1>5, <2>1, <2>2, <2>3 DEF UpsertRead, TypeOK, TableTypes, ProcessTypes, schedule,
                                  scanVars
<1>6. ASSUME NEW t \in Tasks, RevokeTask(t) \/ Redeliver(t)
      PROVE  TypeOK'
  <2>1. HistoryTypes'
    BY <1>6, SpendFacts DEF RevokeTask, Redeliver, Kinds, TypeOK, HistoryTypes, schedule
  <2>2. TaskTypes'
    BY <1>6 DEF RevokeTask, Redeliver, TypeOK, TaskTypes
  <2> QED
    BY <1>6, <2>1, <2>2 DEF RevokeTask, Redeliver, TypeOK, TableTypes, ProcessTypes,
                            schedule, scanVars
<1> QED
  BY <1>1, <1>2, <1>3, <1>4, <1>5, <1>6

LEMMA ProcessesTypes ==
  ASSUME TypeOK,
         \/ \E w \in Workers, t \in Tasks : Start(w, t)
         \/ \E w \in Workers : DbError(w) \/ Crash(w)
         \/ DeleteProvider \/ PurgeScans \/ PurgeProvider
  PROVE  TypeOK'
<1> USE RowFacts, BoundsAssumption
<1>1. ASSUME NEW w \in Workers, NEW t \in Tasks, Start(w, t)
      PROVE  TypeOK'
  <2> DEFINE r == [Idle EXCEPT !.pc = "begin", !.task = t]
  <2>1. r \in WorkerStates /\ r.task \in Tasks /\ r.pc = "begin"
    BY DEF Idle, WorkerStates
  <2>2. ProcessTypes'
    <3>1. edit' = edit /\ (worker' = worker \/ worker' = [worker EXCEPT ![w] = r])
      BY <1>1 DEF Start
    <3> HIDE DEF r
    <3>2. CASE worker' = worker
      BY <3>1, <3>2 DEF TypeOK, ProcessTypes
    <3>3. CASE worker' = [worker EXCEPT ![w] = r]
      BY <2>1, <3>1, <3>3, WorkerMoves DEF TypeOK
    <3> QED
      BY <3>1, <3>2, <3>3
  <2>3. TaskTypes'
    <3>1. queue' \in [Tasks -> Nat]
      <4>1. queue' = [queue EXCEPT ![t] = @ - 1] /\ queue[t] > 0
        BY <1>1 DEF Start
      <4>2. queue[t] - 1 \in Nat
        BY <4>1 DEF TypeOK, TaskTypes
      <4> QED
        BY <4>1, <4>2 DEF TypeOK, TaskTypes
    <3>2. status' \in [Tasks -> TaskStatuses]
      <4>1. \/ status' = [status EXCEPT ![t] = "REVOKED"]
            \/ status' = [status EXCEPT ![t] = "STARTED"]
        BY <1>1 DEF Start
      <4> QED
        BY <4>1 DEF TypeOK, TaskTypes, TaskStatuses
    <3> QED
      BY <1>1, <3>1, <3>2 DEF Start, TypeOK, TaskTypes
  <2> QED
    BY <1>1, <2>2, <2>3 DEF Start, TypeOK, TableTypes, HistoryTypes, schedule, scanVars
<1>2. ASSUME NEW w \in Workers, DbError(w)
      PROVE  TypeOK'
  <2>1. HistoryTypes'
    BY <1>2, SpendFacts DEF DbError, Kinds, TypeOK, HistoryTypes, schedule
  <2>2. worker[w].pc # "idle" /\ edit' = edit
    BY <1>2 DEF DbError, At
  <2>3. \E pc \in {"ensureRead", "dispatch", "finish"} :
          \/ worker' = [worker EXCEPT ![w].pc = pc]
          \/ worker' = [worker EXCEPT ![w].pc = pc, ![w].ok = FALSE]
          \/ worker' = [worker EXCEPT ![w].pc = pc, ![w].keep = NoScan,
                                      ![w].drop = {}, ![w].save = FALSE]
    BY <1>2 DEF DbError, Goto, Fail, Finally
  <2>4. ProcessTypes'
    BY <2>2, <2>3, WorkerLeaves DEF TypeOK
  <2> QED
    BY <1>2, <2>1, <2>4 DEF DbError, TypeOK, TableTypes, TaskTypes, schedule, scanVars,
                            taskVars
<1>3. ASSUME NEW w \in Workers, Crash(w)
      PROVE  TypeOK'
  <2>1. HistoryTypes'
    BY <1>3, SpendFacts DEF Crash, Kinds, TypeOK, HistoryTypes, schedule
  <2>2. Idle.pc = "idle" /\ worker' = [worker EXCEPT ![w] = Idle] /\ edit' = edit
    BY <1>3 DEF Crash, Idle
  <2>3. ProcessTypes'
    BY <2>2, WorkerMoves DEF TypeOK
  <2>4. TaskTypes'
    BY <1>3 DEF Crash, TypeOK, TaskTypes, TaskStatuses
  <2> QED
    BY <1>3, <2>1, <2>3, <2>4 DEF Crash, TypeOK, TableTypes, schedule, scanVars
<1>4. CASE DeleteProvider \/ PurgeScans \/ PurgeProvider
  <2>1. scan' \in [Scans -> Rows] /\ periodic' \in Nat
    BY <1>4 DEF DeleteProvider, PurgeScans, PurgeProvider, TypeOK, TableTypes, schedule,
                scanVars
  <2>2. beatOn' \in BOOLEAN
    BY <1>4 DEF DeleteProvider, PurgeScans, PurgeProvider, TypeOK, TableTypes, schedule
  <2> QED
    BY <1>4, <2>1, <2>2 DEF DeleteProvider, PurgeScans, PurgeProvider, TypeOK, TableTypes,
                            TaskTypes, ProcessTypes, HistoryTypes, schedule, scanVars,
                            taskVars
<1> QED
  BY <1>1, <1>2, <1>3, <1>4

LEMMA TypeStep == TypeOK /\ [Next]_vars => TypeOK'
<1> SUFFICES ASSUME TypeOK, [Next]_vars PROVE TypeOK'
  OBVIOUS
<1>1. ASSUME NEW w \in Workers, WorkerStep(w) PROVE TypeOK'
  BY <1>1, BeginTypes, QueueScheduledTypes, RunScheduledTypes, ScanningTypes, EnsureTypes,
     EndTypes DEF WorkerStep
<1>2. CASE UNCHANGED vars
  BY <1>2 DEF vars, scanVars, taskVars, schedule, TypeOK, TableTypes, TaskTypes,
              ProcessTypes, HistoryTypes
<1> QED
  BY <1>1, <1>2, ApiTypes, ProcessesTypes DEF Next

\* Type correctness, of ScanDispatch with any number of workers, any bounds and
\* any budget of faults.
THEOREM TypeCorrect == Spec => []TypeOK
<1> QED
  BY TypeInit, TypeStep, PTL DEF Spec
=============================================================================
