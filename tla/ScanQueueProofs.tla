--------------------------- MODULE ScanQueueProofs ---------------------------
(***************************************************************************)
(* Theorems about the queue of ScanDispatch, in this order:                *)
(*   - at most one worker runs a scan of the provider (SingleFlightInv is  *)
(*     inductive: Fresh holds in every execution, Work in those a stale    *)
(*     save or a second delivery has not disturbed.  Most steps only end   *)
(*     work or leave it alone, WorkKept; the others bring a task, bring a  *)
(*     scan, take a message, start, enter, finish or promote a scan, and   *)
(*     have a lemma each);                                                 *)
(*   - a task runs one scan;                                               *)
(*   - every step is a step of ScanQueue, so no scan overtakes another,    *)
(*     and a finished scan stays finished (QueueInv);                      *)
(*   - one scheduled run waits (OneWaitsInv);                              *)
(*   - queued scans have a waker (WakerInv);                               *)
(*   - the next run is planned (PlanInv), and nothing outlives the         *)
(*     provider (NothingLeft);                                             *)
(*   - without faults an accepted scan is attended (AcceptedInv).          *)
(***************************************************************************)
EXTENDS ScanDispatchProofs, WellFoundedInduction, FiniteSetTheorems

Busy(w) == worker[w].pc # "idle"
OneRunner == \A v, w \in Workers : Running(v) /\ Running(w) => v = w

\* A row that no task has claimed and that has not been run.
Unclaimed(r) == r.task = NoTask /\ r.state \in {"none", "AVAILABLE", "SCHEDULED"}

-----------------------------------------------------------------------------
(* Steps that start nothing *)

\* Claimed scans stay as they are, unless the provider is being purged, ...
KeepsScan(s) ==
  \/ scan'[s].state = scan[s].state /\ scan'[s].task = scan[s].task
  \/ Unclaimed(scan'[s]) /\ (Unclaimed(scan[s]) \/ provider' # "active")
\* ... tasks stay as they are or end, ...
KeepsTask(t) ==
  \/ status'[t] = status[t] /\ queue'[t] = queue[t]
  \/ /\ status'[t] \notin {"PENDING", "STARTED", "QUEUED"} /\ queue'[t] = 0
     /\ \A w \in Workers : ~(Busy(w)' /\ worker'[w].task = t)
\* ... and workers go on with their task, starting no scan, or are free.
KeepsWorker(w) ==
  \/ worker'[w].pc = "idle"
  \/ /\ worker[w].pc # "idle" /\ worker'[w].task = worker[w].task
     /\ worker'[w].pc = "begin" => worker[w].pc = "begin"
     /\ Running(w)' => Running(w) /\ worker'[w].scan = worker[w].scan

KeepsScans == \A s \in Scans : KeepsScan(s)
KeepsTasks == \A t \in Tasks : KeepsTask(t)
KeepsWorkers == \A w \in Workers : KeepsWorker(w)
NoRevival == provider' = "active" => provider = "active"

\* Which scans are dispatched or queued after such a step.
LEMMA KeptScans ==
  ASSUME TypeOK, TypeOK', KeepsTasks, NEW s \in Scans, KeepsScan(s)
  PROVE  /\ s \in Dispatched' => s \in Dispatched /\ scan'[s].task = scan[s].task
         /\ s \in Queued' => s \in Queued /\ scan'[s].task = scan[s].task
<1>1. /\ scan[s].task \in Tasks \cup {NoTask} /\ scan'[s].task \in Tasks \cup {NoTask}
      /\ NoTask \notin Tasks
  BY DEF TypeOK, TableTypes, Rows, Tasks, NoTask
<1>2. CASE scan'[s].state = scan[s].state /\ scan'[s].task = scan[s].task
  BY <1>1, <1>2 DEF KeepsTasks, KeepsTask, Dispatched, Queued, IsDispatched, IsQueued,
                    DispatchedTaskStates
<1>3. CASE Unclaimed(scan'[s])
  BY <1>1, <1>3 DEF Unclaimed, Dispatched, Queued, IsDispatched, IsQueued
<1> QED
  BY <1>2, <1>3 DEF KeepsScan

LEMMA WorkKept ==
  ASSUME TypeOK, TypeOK', Work, KeepsScans, KeepsTasks, KeepsWorkers, NoRevival,
         argOf' = argOf
  PROVE  Work'
<1>1. OneCarrier'
  BY DEF Work, OneCarrier, KeepsTasks, KeepsTask, KeepsWorkers, KeepsWorker, Busy, TypeOK,
         ProcessTypes
<1>2. OneScanPerTask'
  BY DEF Work, OneScanPerTask, KeepsScans, KeepsScan, Unclaimed
<1>3. CarriedScans'
  <2>1. \A s \in Queued' : argOf'[scan'[s].task] = s
    BY KeptScans DEF Work, CarriedScans, KeepsScans, Queued
  <2>2. ASSUME NEW t \in Tasks, provider' = "active", provider = "active", WaitsFor(t)
        PROVE  WaitsFor(t)'
    <3>1. CASE ~Scheduled(t)
      <4>1. argOf[t] \in Scans /\ t # NoTask
        BY <3>1 DEF Scheduled, TypeOK, TaskTypes, Tasks, NoTask
      <4>2. scan[argOf[t]].task = t /\ scan[argOf[t]].state = "AVAILABLE"
        BY <2>2, <3>1 DEF WaitsFor
      <4>3. /\ scan'[argOf[t]].state = scan[argOf[t]].state
            /\ scan'[argOf[t]].task = scan[argOf[t]].task
        BY <2>2, <4>1, <4>2 DEF KeepsScans, KeepsScan, Unclaimed
      <4> QED
        BY <4>2, <4>3 DEF WaitsFor
    <3>2. CASE Scheduled(t)
      BY <3>2 DEF WaitsFor, Scheduled
    <3> QED
      BY <3>1, <3>2
  <2>3. ASSUME provider' = "active", NEW t \in Tasks, queue'[t] > 0
        PROVE  WaitsFor(t)'
    <3>1. provider = "active" /\ queue[t] > 0
      BY <2>3 DEF NoRevival, KeepsTasks, KeepsTask
    <3> QED
      BY <2>2, <2>3, <3>1 DEF Work, CarriedScans
  <2>4. ASSUME provider' = "active", NEW w \in Workers, worker'[w].pc = "begin"
        PROVE  WaitsFor(worker[w].task)'
    <3>1. provider = "active" /\ worker[w].pc = "begin" /\ worker'[w].task = worker[w].task
      BY <2>4 DEF NoRevival, KeepsWorkers, KeepsWorker
    <3>2. worker[w].task \in Tasks /\ WaitsFor(worker[w].task)
      BY <3>1 DEF Work, CarriedScans, TypeOK, ProcessTypes
    <3> DEFINE t == worker[w].task
    <3>3. t \in Tasks /\ WaitsFor(t)
      BY <3>2
    <3>4. ASSUME NEW u \in Tasks, WaitsFor(u), u = worker'[w].task
          PROVE  WaitsFor(worker[w].task)'
      BY <2>2, <2>4, <3>1, <3>4 DEF WaitsFor, Scheduled
    <3> QED
      BY <3>1, <3>3, <3>4
  <2> QED
    BY <2>1, <2>3, <2>4 DEF CarriedScans
<1>4. OneDispatched'
  BY KeptScans DEF Work, OneDispatched, KeepsScans, Dispatched
<1>5. RunningDispatched'
  <2> SUFFICES ASSUME provider' = "active", NEW w \in Workers, Running(w)'
               PROVE  /\ worker'[w].scan \in Dispatched'
                      /\ scan'[worker'[w].scan].task = worker'[w].task
    BY DEF RunningDispatched
  <2> DEFINE s == worker[w].scan
  <2>1. /\ provider = "active" /\ Running(w) /\ worker'[w].scan = s
        /\ worker'[w].task = worker[w].task /\ worker'[w].pc # "idle"
    BY DEF NoRevival, KeepsWorkers, KeepsWorker, Running
  <2>2. s \in Dispatched /\ scan[s].task = worker[w].task
    BY <2>1 DEF Work, RunningDispatched
  <2>3. s \in Scans /\ worker[w].task \in Tasks /\ worker[w].task # NoTask
    BY <2>1, <2>2 DEF Dispatched, Running, TypeOK, ProcessTypes, Tasks, NoTask
  <2>4. scan'[s].state = scan[s].state /\ scan'[s].task = scan[s].task
    BY <2>2, <2>3 DEF KeepsScans, KeepsScan, Unclaimed
  <2>5. status'[scan[s].task] = status[scan[s].task]
    BY <2>1, <2>2, <2>3 DEF KeepsTasks, KeepsTask, Busy
  <2>6. s \in Dispatched'
    BY <2>2, <2>3, <2>4, <2>5 DEF Dispatched, IsDispatched
  <2> QED
    BY <2>1, <2>2, <2>4, <2>6
<1> QED
  BY <1>1, <1>2, <1>3, <1>4, <1>5 DEF Work

StartsNoScan == \A w \in Workers : Running(w)' => Running(w)

LEMMA RunnerKept ==
  /\ KeepsWorkers => StartsNoScan
  /\ OneRunner /\ StartsNoScan => OneRunner'
BY DEF OneRunner, StartsNoScan, KeepsWorkers, KeepsWorker, Running

-----------------------------------------------------------------------------
(* Tables: what the helpers do to claimed scans and to unused ranks *)

\* What the queue goes by is the same in both rows; two tables are alike when
\* they differ only in rows that no task has claimed.
SameClaim(old, new) ==
  new.state = old.state /\ new.task = old.task /\ new.trigger = old.trigger
Alike(old, new) ==
  \A s \in Scans : SameClaim(old[s], new[s]) \/ (Unclaimed(old[s]) /\ Unclaimed(new[s]))
WellKept(rows, n) ==
  /\ \A s \in Scans : s >= n => rows[s] = NoRow
  /\ \A s \in Scans : rows[s].state = "none" => rows[s].task = NoTask

LEMMA UnclaimedRows ==
  /\ Unclaimed(NoRow) /\ NoRow.state = "none" /\ NoRow.task = NoTask
  /\ \A b : ~IsPlaceholder(NoRow, b)
  /\ \A r, b : IsPlaceholder(r, b) => Unclaimed(r) /\ r.state \in {"SCHEDULED", "AVAILABLE"}
  /\ \A b, state : state \in {"SCHEDULED", "AVAILABLE"} =>
                     /\ Unclaimed(PlaceholderRow(state, b))
                     /\ PlaceholderRow(state, b).state = state
                     /\ PlaceholderRow(state, b).task = NoTask
  BY DEF Unclaimed, NoRow, IsPlaceholder, PlaceholderRow

LEMMA CleanupAlike ==
  ASSUME NEW rows \in [Scans -> Rows], NEW n \in Nat, NEW b \in Nat, WellKept(rows, n)
  PROVE  /\ Alike(rows, CleanupOrphans(rows, b))
         /\ WellKept(CleanupOrphans(rows, b), n)
  BY CleanupFacts, UnclaimedRows DEF Alike, SameClaim, WellKept

LEMMA GetOrCreateAlike ==
  ASSUME NEW rows \in [Scans -> Rows], NEW n \in Scans, NEW b \in Nat, NEW update,
         NEW r \in GetOrCreateScheduled(rows, n, b, update), WellKept(rows, n)
  PROVE  /\ Alike(rows, r.rows) /\ WellKept(r.rows, r.next)
         /\ r.pick < r.next /\ r.next \in {n, n + 1}
         /\ Unclaimed(r.rows[r.pick]) /\ r.rows[r.pick].state \in {"SCHEDULED", "AVAILABLE"}
<1>1. /\ r.rows \in [Scans -> Rows] /\ r.pick \in Scans
      /\ \/ r.pick = n /\ r.next = n + 1
         \/ IsPlaceholder(rows[r.pick], b) /\ r.next = n
      /\ IsPlaceholder(r.rows[r.pick], b)
      /\ \A s \in Scans \ {r.pick} :
           \/ r.rows[s] = rows[s]
           \/ IsPlaceholder(rows[s], b) /\ r.rows[s] = NoRow
  BY GetOrCreateFacts
<1>2. n \in Nat /\ r.pick \in Nat /\ Scans \subseteq Nat
  BY <1>1 DEF Scans
<1>3. r.pick < r.next /\ r.next \in {n, n + 1}
  BY <1>1, <1>2, UnclaimedRows DEF WellKept
<1>4. Unclaimed(rows[r.pick]) /\ Unclaimed(r.rows[r.pick])
      /\ r.rows[r.pick].state \in {"SCHEDULED", "AVAILABLE"}
  BY <1>1, <1>2, UnclaimedRows DEF WellKept
<1>5. Alike(rows, r.rows)
  BY <1>1, <1>4, UnclaimedRows DEF Alike, SameClaim
<1>6. WellKept(r.rows, r.next)
  <2>1. ASSUME NEW s \in Scans, s >= r.next PROVE r.rows[s] = NoRow
    BY <1>1, <1>2, <1>3, <2>1 DEF WellKept
  <2>2. ASSUME NEW s \in Scans, r.rows[s].state = "none" PROVE r.rows[s].task = NoTask
    BY <1>1, <1>4, <2>2, UnclaimedRows DEF WellKept
  <2> QED
    BY <2>1, <2>2 DEF WellKept
<1> QED
  BY <1>3, <1>4, <1>5, <1>6

LEMMA UnlinkAlike ==
  ASSUME NEW rows \in [Scans -> Rows], NEW n \in Nat, WellKept(rows, n)
  PROVE  Alike(rows, Unlink(rows)) /\ WellKept(Unlink(rows), n)
  BY UnlinkFacts DEF Alike, SameClaim, WellKept

LEMMA AlikeTransitive ==
  ASSUME NEW a, NEW b, NEW c, Alike(a, b), Alike(b, c)
  PROVE  Alike(a, c)
  BY DEF Alike, SameClaim, Unclaimed

\* One row is replaced: an unclaimed one by an unclaimed one.
LEMMA ReplaceRow ==
  ASSUME NEW rows \in [Scans -> Rows], NEW n \in Nat, NEW s \in Scans, NEW r \in Rows,
         WellKept(rows, n), s < n, r.state # "none" \/ r.task = NoTask
  PROVE  /\ WellKept([rows EXCEPT ![s] = r], n)
         /\ Unclaimed(rows[s]) /\ Unclaimed(r) => Alike(rows, [rows EXCEPT ![s] = r])
<1>1. \A u \in Scans : u # s => [rows EXCEPT ![s] = r][u] = rows[u]
  OBVIOUS
<1>2. [rows EXCEPT ![s] = r][s] = r
  OBVIOUS
<1>3. ASSUME NEW u \in Scans, u >= n PROVE u # s
  BY <1>3 DEF Scans
<1> QED
  BY <1>1, <1>2, <1>3 DEF WellKept, Alike, SameClaim

LEMMA TableFacts ==
  ASSUME TypeOK, Fresh
  PROVE  /\ scan \in [Scans -> Rows] /\ nextScan \in Nat /\ periodic \in Nat
         /\ WellKept(scan, nextScan) /\ NoScan \notin Scans
         /\ \A s \in Scans : s < nextScan \/ scan[s] = NoRow
  BY BoundsAssumption
  DEF TypeOK, TableTypes, Fresh, FreshScans, WellKept, Scans, NoScan

\* A write of the table by a step that claims no scan.
Tidy ==
  /\ WellKept(scan', nextScan') /\ nextScan' \in {nextScan, nextScan + 1}
  /\ \A s \in Scans : SameClaim(scan[s], scan'[s]) \/ Unclaimed(scan'[s])
  /\ ~clobbered' => Alike(scan, scan')

LEMMA TidyWhenAlike ==
  ASSUME WellKept(scan', nextScan'), nextScan' \in {nextScan, nextScan + 1},
         Alike(scan, scan')
  PROVE  Tidy
  BY DEF Tidy, Alike, SameClaim, Unclaimed

\* The insertion of a placeholder.
LEMMA InsertTidy ==
  ASSUME TypeOK, Fresh, nextScan \in Scans, NEW b \in Nat,
         NEW st \in {"SCHEDULED", "AVAILABLE"},
         scan' = [scan EXCEPT ![nextScan] = PlaceholderRow(st, b)],
         nextScan' = nextScan + 1
  PROVE  Tidy
<1> DEFINE r == PlaceholderRow(st, b)
           n == nextScan + 1
<1>1. r \in Rows /\ Unclaimed(r) /\ r.state # "none" /\ r.task = NoTask
  BY RowFacts, UnclaimedRows DEF ScanStates
<1>2. n \in Nat /\ nextScan < n /\ WellKept(scan, n) /\ Unclaimed(scan[nextScan])
  BY TableFacts, UnclaimedRows DEF WellKept, Scans
<1>3. WellKept([scan EXCEPT ![nextScan] = r], n)
      /\ Alike(scan, [scan EXCEPT ![nextScan] = r])
  <2> HIDE DEF r, n
  <2> QED
    BY <1>1, <1>2, TableFacts, ReplaceRow
<1> QED
  BY <1>3, TidyWhenAlike

LEMMA RemoveTidy ==
  ASSUME TypeOK, Fresh, RemoveSchedule
  PROVE  Tidy
<1> DEFINE kept == [s \in Scans |-> IF IsPlaceholder(scan[s], periodic) THEN NoRow
                                   ELSE scan[s]]
<1>1. kept \in [Scans -> Rows] /\ Alike(scan, kept) /\ WellKept(kept, nextScan)
  BY TableFacts, RowFacts, UnclaimedRows DEF Alike, SameClaim, WellKept
<1>2. scan' = Unlink(kept) /\ nextScan' = nextScan
  BY DEF RemoveSchedule
<1> HIDE DEF kept
<1>3. Alike(kept, scan') /\ WellKept(scan', nextScan')
  BY <1>1, <1>2, TableFacts, UnlinkAlike
<1>4. Alike(scan, scan')
  BY <1>1, <1>3, AlikeTransitive
<1> QED
  BY <1>2, <1>3, <1>4, TidyWhenAlike

LEMMA SkipTidy ==
  ASSUME TypeOK, Fresh, NEW w \in Workers, SkipScheduled(w)
  PROVE  Tidy
<1>1. nextScan' = nextScan /\ (scan' = scan \/ scan' = Unlink(scan))
  BY DEF SkipScheduled
<1>2. Alike(scan, scan') /\ WellKept(scan', nextScan')
  <2>1. Alike(scan, scan)
    BY DEF Alike, SameClaim
  <2> QED
    BY <1>1, <2>1, TableFacts, UnlinkAlike
<1> QED
  BY <1>1, <1>2, TidyWhenAlike

LEMMA UpsertTidy ==
  ASSUME TypeOK, Fresh, UpsertCommit
  PROVE  Tidy
<1> DEFINE b == IF periodic = 0 THEN 2 + Budget["edit"] - budget["edit"] ELSE periodic
           st == IF edit.on THEN "SCHEDULED" ELSE "AVAILABLE"
<1>1. b \in Nat /\ st \in {"SCHEDULED", "AVAILABLE"}
  BY BoundsAssumption DEF TypeOK, TableTypes, HistoryTypes, Kinds
<1>2. \/ UNCHANGED <<scan, nextScan>>
      \/ /\ nextScan \in Scans /\ nextScan' = nextScan + 1
         /\ scan' = [scan EXCEPT ![nextScan] = PlaceholderRow(st, b)]
      \/ /\ edit.keep # NoScan /\ nextScan' = nextScan
         /\ scan' = [scan EXCEPT ![edit.keep] = PlaceholderRow(st, b)]
         /\ clobbered' = (clobbered \/ ~IsPlaceholder(scan[edit.keep], b))
  BY DEF UpsertCommit, scanVars
<1> HIDE DEF b, st
<1>3. CASE UNCHANGED <<scan, nextScan>>
  <2>1. Alike(scan, scan)
    BY DEF Alike, SameClaim
  <2> QED
    BY <1>3, <2>1, TableFacts, TidyWhenAlike
<1>4. CASE /\ nextScan \in Scans /\ nextScan' = nextScan + 1
           /\ scan' = [scan EXCEPT ![nextScan] = PlaceholderRow(st, b)]
  BY <1>1, <1>4, InsertTidy
<1>5. CASE /\ edit.keep # NoScan /\ nextScan' = nextScan
           /\ scan' = [scan EXCEPT ![edit.keep] = PlaceholderRow(st, b)]
           /\ clobbered' = (clobbered \/ ~IsPlaceholder(scan[edit.keep], b))
  <2> DEFINE r == PlaceholderRow(st, b)
             k == edit.keep
  <2>1. r \in Rows /\ Unclaimed(r) /\ r.state # "none" /\ r.task = NoTask
    BY <1>1, RowFacts, UnclaimedRows DEF ScanStates
  <2>2. k \in Scans /\ k < nextScan
    BY <1>5 DEF TypeOK, ProcessTypes, EditStates, Fresh, FreshScans
  <2>3. ~clobbered' => Unclaimed(scan[k])
    BY <1>5, UnclaimedRows
  <2> HIDE DEF r, k
  <2>4. WellKept([scan EXCEPT ![k] = r], nextScan)
        /\ (Unclaimed(scan[k]) => Alike(scan, [scan EXCEPT ![k] = r]))
    BY <2>1, <2>2, TableFacts, ReplaceRow
  <2>5. scan' = [scan EXCEPT ![k] = r]
    BY <1>5 DEF r, k
  <2>6. \A s \in Scans : scan'[s] = scan[s] \/ Unclaimed(scan'[s])
    BY <2>1, <2>2, <2>5, TableFacts
  <2> QED
    BY <1>5, <2>3, <2>4, <2>5, <2>6 DEF Tidy, SameClaim
<1> QED
  BY <1>2, <1>3, <1>4, <1>5

LEMMA EnsureTidy ==
  ASSUME TypeOK, Fresh, NEW w \in Workers, EnsureWrite(w)
  PROVE  Tidy
<1> DEFINE me == worker[w]
           dropped == [s \in Scans |-> IF s \in me.drop THEN NoRow ELSE scan[s]]
           touched == me.drop \cup (IF me.save THEN {me.keep} ELSE {})
           r == PlaceholderRow("SCHEDULED", me.beat)
<1>1. /\ me.beat \in Nat /\ me.keep \in Scans \cup {NoScan} /\ me.drop \subseteq Scans
      /\ me.keep < nextScan
  BY DEF TypeOK, ProcessTypes, WorkerStates, Fresh, FreshScans
<1>2. \/ UNCHANGED <<scan, nextScan>>
      \/ /\ nextScan \in Scans /\ nextScan' = nextScan + 1
         /\ scan' = [scan EXCEPT ![nextScan] = r]
      \/ /\ me.keep # NoScan /\ nextScan' = nextScan
         /\ scan' = IF me.save THEN [dropped EXCEPT ![me.keep] = r] ELSE dropped
         /\ clobbered' = \/ clobbered
                         \/ \E s \in touched : /\ scan[s].state # "none"
                                              /\ ~IsPlaceholder(scan[s], me.beat)
  BY DEF EnsureWrite, scanVars
<1>3. CASE UNCHANGED <<scan, nextScan>>
  <2>1. Alike(scan, scan)
    BY DEF Alike, SameClaim
  <2> QED
    BY <1>3, <2>1, TableFacts, TidyWhenAlike
<1>4. CASE /\ nextScan \in Scans /\ nextScan' = nextScan + 1
           /\ scan' = [scan EXCEPT ![nextScan] = r]
  BY <1>1, <1>4, InsertTidy
<1>5. CASE /\ me.keep # NoScan /\ nextScan' = nextScan
           /\ scan' = IF me.save THEN [dropped EXCEPT ![me.keep] = r] ELSE dropped
           /\ clobbered' = \/ clobbered
                           \/ \E s \in touched : /\ scan[s].state # "none"
                                                /\ ~IsPlaceholder(scan[s], me.beat)
  <2>1. r \in Rows /\ Unclaimed(r) /\ r.state # "none" /\ r.task = NoTask
    BY <1>1, RowFacts, UnclaimedRows DEF ScanStates
  <2>2. /\ dropped \in [Scans -> Rows] /\ WellKept(dropped, nextScan)
        /\ \A s \in Scans : dropped[s] = scan[s] \/ Unclaimed(dropped[s])
    BY TableFacts, RowFacts, UnclaimedRows DEF WellKept
  <2>3. ~clobbered' => \A s \in touched : s \in Scans => Unclaimed(scan[s])
    BY <1>5, TableFacts, UnclaimedRows DEF WellKept, Unclaimed
  <2>4. ~clobbered' => Alike(scan, dropped)
    BY <2>3, <1>1, UnclaimedRows DEF Alike, SameClaim
  <2>5. CASE ~me.save
    BY <1>5, <2>2, <2>4, <2>5 DEF Tidy, SameClaim
  <2>6. CASE me.save
    <3>1. me.keep \in Scans /\ me.keep \in touched
      BY <1>1, <1>5, <2>6
    <3>2. ~clobbered' => Unclaimed(dropped[me.keep])
      BY <2>3, <3>1, UnclaimedRows
    <3>3. scan' = [dropped EXCEPT ![me.keep] = r]
      BY <1>5, <2>6
    <3> DEFINE k == me.keep
    <3> HIDE DEF dropped, touched, r, k
    <3>4. /\ WellKept([dropped EXCEPT ![k] = r], nextScan)
          /\ Unclaimed(dropped[k]) => Alike(dropped, [dropped EXCEPT ![k] = r])
      BY <1>1, <2>1, <2>2, <3>1, TableFacts, ReplaceRow DEF k
    <3>5. ~clobbered' => Alike(scan, scan')
      BY <2>4, <3>2, <3>3, <3>4, AlikeTransitive DEF k
    <3>6. \A s \in Scans : scan'[s] = scan[s] \/ Unclaimed(scan'[s])
      BY <2>1, <2>2, <3>1, <3>3
    <3> QED
      BY <1>5, <3>3, <3>4, <3>5, <3>6 DEF Tidy, SameClaim, k
  <2> QED
    BY <2>5, <2>6
<1> QED
  BY <1>2, <1>3, <1>4, <1>5

-----------------------------------------------------------------------------
(* Fresh, in every execution *)

\* A step that hands out one task at most.
LEMMA FreshKept ==
  ASSUME TypeOK, TypeOK', Fresh, nextTask' \in {nextTask, nextTask + 1},
         WellKept(scan', nextScan'), nextScan' \in {nextScan, nextScan + 1, nextScan + 2},
         edit'.keep = NoScan \/ edit'.keep < nextScan,
         \A s \in Scans : scan'[s].task < nextTask',
         \A w \in Workers : worker'[w].keep = NoScan \/ worker'[w].keep < nextScan,
         \A w \in Workers : worker'[w].task = NoTask \/ worker'[w].task < nextTask,
         \A t \in Tasks : t >= nextTask' =>
           /\ status'[t] = status[t] /\ argOf'[t] = argOf[t] /\ queue'[t] = queue[t]
  PROVE  Fresh'
<1>1. /\ nextScan \in Nat /\ nextScan' \in Nat /\ 0 < nextScan /\ nextScan <= nextScan'
      /\ nextTask \in Nat /\ nextTask' \in Nat /\ 0 < nextTask /\ nextTask <= nextTask'
  BY BoundsAssumption DEF TypeOK, TableTypes, TaskTypes
<1>2. edit'.keep \in Nat
  BY DEF TypeOK, ProcessTypes, EditStates, Scans, NoScan
<1>3. \A w \in Workers : worker'[w].keep \in Nat /\ worker'[w].task \in Nat
  BY DEF TypeOK, ProcessTypes, WorkerStates, Scans, NoScan, Tasks, NoTask
<1>4. FreshScans'
  BY <1>1, <1>2, <1>3 DEF WellKept, FreshScans, NoScan
<1>5. FreshTasks'
  <2>1. \A w \in Workers : worker'[w].task < nextTask'
    BY <1>1, <1>3 DEF NoTask
  <2>2. \A t \in Tasks : t >= nextTask' => t >= nextTask
    BY <1>1 DEF Tasks
  <2> QED
    BY <2>1, <2>2 DEF Fresh, FreshTasks
<1> QED
  BY <1>4, <1>5 DEF Fresh

LEMMA SameTidy ==
  ASSUME TypeOK, Fresh, scan' = scan, nextScan' = nextScan
  PROVE  Tidy
<1>1. Alike(scan, scan)
  BY DEF Alike, SameClaim
<1> QED
  BY <1>1, TableFacts, TidyWhenAlike

\* The running scan changes its state.
LEMMA StateTidy ==
  ASSUME TypeOK, Fresh, NEW s \in Scans, scan[s].state # "none", nextScan' = nextScan,
         NEW st \in {"EXECUTING", "COMPLETED", "FAILED"},
         scan' = [scan EXCEPT ![s].state = st]
  PROVE  /\ WellKept(scan', nextScan')
         /\ \A u \in Scans : scan'[u].task = scan[u].task
<1> DEFINE r == [scan[s] EXCEPT !.state = st]
<1>1. r \in Rows /\ r.state = st /\ r.task = scan[s].task
  BY TableFacts DEF Rows, ScanStates
<1>2. s < nextScan
  BY TableFacts, UnclaimedRows
<1>3. scan' = [scan EXCEPT ![s] = r]
  BY TableFacts
<1> HIDE DEF r
<1>4. WellKept([scan EXCEPT ![s] = r], nextScan)
  BY <1>1, <1>2, TableFacts, ReplaceRow
<1> QED
  BY <1>1, <1>3, <1>4, TableFacts

\* What a step of a worker does to the workers.
LEMMA StepEffects ==
  ASSUME TypeOK, Fresh, NEW w \in Workers, WorkerStep(w) \/ DbError(w) \/ Crash(w)
  PROVE  /\ \A v \in Workers : v # w => worker'[v] = worker[v]
         /\ worker[w].pc # "idle" /\ worker[w].task \in Tasks
         /\ worker'[w].pc # "idle" => worker'[w].task = worker[w].task
         /\ worker'[w].pc = "idle" => worker'[w] = Idle
         /\ worker'[w].keep = NoScan \/ worker'[w].keep < nextScan
<1>1. worker \in [Workers -> WorkerStates] /\ worker[w].keep < nextScan
  BY DEF TypeOK, ProcessTypes, Fresh, FreshScans
<1>2. worker[w].pc # "idle" /\ worker[w].task \in Tasks
  BY WorkerFacts
  DEF TypeOK, WorkerStep, DbError, Crash, BeginManual, SkipScheduled, QueueScheduled,
      RunScheduled, CanRunScheduled, EnterScan, FinishScan, EnsureRead, EnsureWrite,
      DispatchNext, FinishTask, At
<1>3. CASE worker' = [worker EXCEPT ![w] = Idle]
  BY <1>1, <1>2, <1>3 DEF Idle
<1>4. ASSUME NEW pc \in {"enter", "scanning", "ensureRead", "ensureWrite", "dispatch", "finish"},
             \/ Goto(w, pc) \/ Fail(w, pc)
             \/ \E s : worker' = [worker EXCEPT ![w].pc = pc, ![w].scan = s]
             \/ \E s, b : worker' = [worker EXCEPT ![w].pc = pc, ![w].scan = s, ![w].beat = b]
             \/ \E k, d, v : /\ k = NoScan \/ k < nextScan
                            /\ worker' = [worker EXCEPT ![w].pc = pc, ![w].keep = k,
                                                        ![w].drop = d, ![w].save = v]
      PROVE  /\ \A v \in Workers : v # w => worker'[v] = worker[v]
             /\ worker'[w].pc = pc /\ worker'[w].task = worker[w].task
             /\ worker'[w].keep = NoScan \/ worker'[w].keep < nextScan
  <2>1. CASE Goto(w, pc) \/ Fail(w, pc)
    BY <1>1, <2>1 DEF WorkerStates, Goto, Fail
  <2>2. CASE \E s : worker' = [worker EXCEPT ![w].pc = pc, ![w].scan = s]
    <3>1. PICK s : worker' = [worker EXCEPT ![w].pc = pc, ![w].scan = s]
      BY <2>2
    <3> QED
      BY <1>1, <3>1 DEF WorkerStates
  <2>3. CASE \E s, b : worker' = [worker EXCEPT ![w].pc = pc, ![w].scan = s, ![w].beat = b]
    <3>1. PICK s, b : worker' = [worker EXCEPT ![w].pc = pc, ![w].scan = s, ![w].beat = b]
      BY <2>3
    <3> QED
      BY <1>1, <3>1 DEF WorkerStates
  <2>4. CASE \E k, d, v : /\ k = NoScan \/ k < nextScan
                         /\ worker' = [worker EXCEPT ![w].pc = pc, ![w].keep = k,
                                                     ![w].drop = d, ![w].save = v]
    <3>1. PICK k, d, v : /\ k = NoScan \/ k < nextScan
                         /\ worker' = [worker EXCEPT ![w].pc = pc, ![w].keep = k,
                                                     ![w].drop = d, ![w].save = v]
      BY <2>4
    <3> QED
      BY <1>1, <3>1 DEF WorkerStates
  <2> QED
    BY <1>4, <2>1, <2>2, <2>3, <2>4
<1>5. CASE DispatchNext(w) \/ SkipScheduled(w) \/ QueueScheduled(w)
  BY <1>2, <1>4, <1>5 DEF DispatchNext, SkipScheduled, QueueScheduled
<1>6. CASE BeginManual(w) \/ RunScheduled(w)
  <2>1. \/ Goto(w, "finish")
        \/ \E s : worker' = [worker EXCEPT ![w].pc = "enter", ![w].scan = s]
        \/ \E s, b : worker' = [worker EXCEPT ![w].pc = "enter", ![w].scan = s, ![w].beat = b]
    BY <1>6 DEF BeginManual, RunScheduled
  <2> QED
    BY <1>2, <1>4, <2>1
<1>7. CASE EnterScan(w) \/ FinishScan(w)
  BY <1>2, <1>4, <1>7 DEF EnterScan, FinishScan, Finally
<1>8. CASE EnsureRead(w)
  <2>1. PICK k, d, v :
          /\ k = NoScan \/ k \in Placeholders(scan, worker[w].beat)
          /\ worker' = [worker EXCEPT ![w].pc = "ensureWrite", ![w].keep = k,
                                      ![w].drop = d, ![w].save = v]
    BY <1>8 DEF EnsureRead, Placeholders
  <2>2. k = NoScan \/ k < nextScan
    BY <2>1, TableFacts, UnclaimedRows DEF Placeholders
  <2> QED
    BY <1>2, <1>4, <2>1, <2>2
<1>9. CASE EnsureWrite(w)
  <2>1. \E k, d, v : /\ k = NoScan \/ k < nextScan
                     /\ worker' = [worker EXCEPT ![w].pc = "dispatch", ![w].keep = k,
                                                 ![w].drop = d, ![w].save = v]
    BY <1>9 DEF EnsureWrite
  <2> QED
    BY <1>2, <1>4, <2>1
<1>10. CASE FinishTask(w) \/ Crash(w)
  BY <1>2, <1>3, <1>10 DEF FinishTask, Crash
<1>11. CASE DbError(w)
  <2>1. \/ \E pc \in {"ensureRead", "dispatch", "finish"} : Goto(w, pc) \/ Fail(w, pc)
        \/ \E k, d, v : /\ k = NoScan \/ k < nextScan
                       /\ worker' = [worker EXCEPT ![w].pc = "dispatch", ![w].keep = k,
                                                   ![w].drop = d, ![w].save = v]
    BY <1>11 DEF DbError, Finally
  <2> QED
    BY <1>2, <1>4, <2>1
<1> QED
  BY <1>5, <1>6, <1>7, <1>8, <1>9, <1>10, <1>11 DEF WorkerStep

\* The scan that is promoted is a queued one.
LEMMA OldestQueued ==
  ASSUME Queued # {}
  PROVE  /\ Min(Queued) \in Queued /\ \A s \in Queued : Min(Queued) <= s
<1>1. Queued \subseteq Nat
  BY DEF Queued, Scans
<1> DEFINE R == {p \in Nat \X Nat : p[1] < p[2]}
<1>2. IsWellFoundedOn(R, Nat)
  BY NatLessThanWellFounded DEF OpToRel
<1>3. \E n \in Queued : \A m \in Queued : <<m, n>> \notin R
  <2> HIDE DEF R
  <2> QED
    BY <1>1, <1>2, WFMin
<1>4. \A m, n \in Nat : <<m, n>> \in R <=> m < n
  OBVIOUS
<1> HIDE DEF R
<1>5. PICK n \in Queued : \A m \in Queued : <<m, n>> \notin R
  BY <1>3
<1>6. \A m \in Queued : n <= m
  <2> SUFFICES ASSUME NEW m \in Queued PROVE n <= m
    OBVIOUS
  <2>1. m \in Nat /\ n \in Nat /\ ~(m < n)
    BY <1>1, <1>4, <1>5
  <2> QED
    BY <2>1
<1> QED
  BY <1>6 DEF Min

LEMMA QueuedTask ==
  ASSUME TypeOK, NEW s \in Queued
  PROVE  /\ s \in Scans /\ scan[s].task \in Tasks /\ status[scan[s].task] = "QUEUED"
         /\ scan[s].state = "AVAILABLE"
  BY DEF Queued, IsQueued, TypeOK, TableTypes, Rows

\* Claimed tasks were handed out.
LEMMA TaskOrder ==
  ASSUME TypeOK, Fresh
  PROVE  /\ nextTask \in Nat /\ 0 < nextTask /\ NoTask < nextTask
         /\ \A s \in Scans : scan[s].task < nextTask
         /\ \A w \in Workers : worker[w].task < nextTask
         /\ \A t \in Tasks : queue[t] > 0 => t < nextTask
         /\ edit.keep < nextScan /\ \A w \in Workers : worker[w].keep < nextScan
<1>1. nextTask \in Nat /\ 0 < nextTask
  BY BoundsAssumption DEF TypeOK, TaskTypes
<1>2. \A t \in Tasks : t \in Nat
  BY DEF Tasks
<1> QED
  BY <1>1, <1>2 DEF Fresh, FreshScans, FreshTasks, NoTask

\* A row with the next task, at the next rank.
LEMMA NewTaskRow ==
  ASSUME TypeOK, Fresh, nextTask' = nextTask + 1, NEW r, r.task = nextTask
  PROVE  \A s \in Scans : [scan EXCEPT ![nextScan] = r][s].task < nextTask'
<1>1. \A s \in Scans : scan[s].task \in Nat
  BY DEF TypeOK, TableTypes, Rows, Tasks, NoTask
<1>2. nextTask < nextTask' /\ \A k \in Nat : k < nextTask => k < nextTask'
  BY TaskOrder
<1>3. \A s \in Scans : scan[s].task < nextTask'
  BY <1>1, <1>2, TaskOrder
<1> QED
  BY <1>2, <1>3, TableFacts

\* Steps of a worker that leave the scans alone.
LEMMA FreshWorker ==
  ASSUME TypeOK, TypeOK', Fresh, NEW w \in Workers,
         \/ BeginManual(w) \/ EnsureRead(w) \/ DispatchNext(w) \/ FinishTask(w)
         \/ DbError(w) \/ Crash(w)
  PROVE  Fresh'
<1>1. UNCHANGED <<scan, nextScan, edit, argOf, nextTask>>
  BY DEF BeginManual, EnsureRead, DispatchNext, FinishTask, DbError, Crash, scanVars, taskVars
<1>2. WellKept(scan', nextScan')
  BY <1>1, TableFacts
<1>3. \A v \in Workers : /\ worker'[v].keep = NoScan \/ worker'[v].keep < nextScan
                         /\ worker'[v].task = NoTask \/ worker'[v].task < nextTask
  BY StepEffects, TaskOrder DEF WorkerStep, Idle
<1>4. \A t \in Tasks : t >= nextTask => status'[t] = status[t] /\ queue'[t] = queue[t]
  <2>1. CASE DispatchNext(w)
    <3>1. \/ UNCHANGED <<status, queue>>
          \/ /\ Queued # {} /\ status' = [status EXCEPT ![scan[Min(Queued)].task] = "PENDING"]
             /\ \/ queue' = queue
                \/ queue' = [queue EXCEPT ![scan[Min(Queued)].task] = @ + 1]
      BY <2>1 DEF DispatchNext
    <3>2. Queued # {} => scan[Min(Queued)].task < nextTask /\ scan[Min(Queued)].task \in Nat
      BY OldestQueued, QueuedTask, TaskOrder DEF Tasks
    <3>3. \A t \in Tasks : t \in Nat
      BY DEF Tasks
    <3> QED
      BY <3>1, <3>2, <3>3, TaskOrder DEF TypeOK, TaskTypes
  <2>2. CASE FinishTask(w) \/ Crash(w)
    <3>1. queue' = queue /\ (\/ status' = status
                             \/ \E x : status' = [status EXCEPT ![worker[w].task] = x])
      BY <2>2 DEF FinishTask, Crash
    <3>2. \A t \in Tasks : t >= nextTask => t # worker[w].task
      BY TaskOrder DEF Tasks
    <3> QED
      BY <3>1, <3>2 DEF TypeOK, TaskTypes
  <2>3. CASE BeginManual(w) \/ EnsureRead(w) \/ DbError(w)
    BY <2>3 DEF BeginManual, EnsureRead, DbError, taskVars
  <2> QED
    BY <2>1, <2>2, <2>3
<1>5. \A s \in Scans : scan'[s].task < nextTask'
  BY <1>1, TaskOrder
<1> QED
  BY <1>1, <1>2, <1>3, <1>4, <1>5, TaskOrder, FreshKept

\* Steps that write the scans but claim none.
LEMMA FreshTidy ==
  ASSUME TypeOK, TypeOK', Fresh, Tidy, UNCHANGED taskVars,
         edit'.keep = NoScan \/ edit'.keep < nextScan,
         \/ worker' = worker
         \/ \E w \in Workers : WorkerStep(w)
  PROVE  Fresh'
<1>1. \A v \in Workers : /\ worker'[v].keep = NoScan \/ worker'[v].keep < nextScan
                         /\ worker'[v].task = NoTask \/ worker'[v].task < nextTask
  BY StepEffects, TaskOrder DEF Idle
<1>2. \A s \in Scans : scan'[s].task < nextTask'
  BY TaskOrder DEF Tidy, SameClaim, taskVars, Unclaimed
<1> QED
  BY <1>1, <1>2, FreshKept DEF Tidy, SameClaim, taskVars

LEMMA FreshState ==
  ASSUME TypeOK, TypeOK', Fresh, NEW w \in Workers, EnterScan(w) \/ FinishScan(w)
  PROVE  Fresh'
<1>1. worker[w].scan \in Scans
  BY WorkerFacts DEF EnterScan, FinishScan, At, TypeOK
<1>2. UNCHANGED <<nextScan, edit, taskVars>>
  BY DEF EnterScan, FinishScan
<1>3. \/ scan' = scan
      \/ /\ scan[worker[w].scan].state # "none"
         /\ \E st \in {"EXECUTING", "COMPLETED", "FAILED"} :
              scan' = [scan EXCEPT ![worker[w].scan].state = st]
  BY DEF EnterScan, FinishScan
<1>4. WellKept(scan', nextScan') /\ \A s \in Scans : scan'[s].task = scan[s].task
  BY <1>1, <1>2, <1>3, StateTidy, TableFacts
<1>5. \A v \in Workers : /\ worker'[v].keep = NoScan \/ worker'[v].keep < nextScan
                         /\ worker'[v].task = NoTask \/ worker'[v].task < nextTask
  BY StepEffects, TaskOrder DEF WorkerStep, Idle
<1> QED
  BY <1>2, <1>4, <1>5, TaskOrder, FreshKept DEF taskVars

-----------------------------------------------------------------------------
(* The two ways a scheduled run claims a scan *)

\* The table with the queued run at the next rank.
QueuedRow == [state |-> "AVAILABLE", trigger |-> "scheduled", task |-> nextTask,
              beat |-> periodic]
WithQueued == [scan EXCEPT ![nextScan] = QueuedRow]

\* A run that is queued: another one waits already, or it is inserted.
LEMMA QueueFacts ==
  ASSUME TypeOK, Fresh, NEW w \in Workers, QueueScheduled(w)
  PROVE  /\ queue' = queue /\ WellKept(scan', nextScan')
         /\ \/ /\ Alike(scan, scan') /\ nextScan' \in {nextScan, nextScan + 1}
               /\ UNCHANGED <<status, argOf, nextTask>>
            \/ /\ Alike(WithQueued, scan') /\ nextScan' \in {nextScan + 1, nextScan + 2}
               /\ nextScan \in Scans /\ nextTask \in Tasks /\ nextTask' = nextTask + 1
               /\ status' = [status EXCEPT ![nextTask] = "QUEUED"]
               /\ argOf' = [argOf EXCEPT ![nextTask] = nextScan]
<1> DEFINE cleaned == CleanupOrphans(scan, periodic)
<1>1. cleaned \in [Scans -> Rows] /\ Alike(scan, cleaned) /\ WellKept(cleaned, nextScan)
  BY TableFacts, CleanupFacts, CleanupAlike
<1>2. queue' = queue
  BY DEF QueueScheduled
<1>3. CASE ReuseQueued
  <2>1. PICK r \in GetOrCreateScheduled(cleaned, nextScan, periodic, "state") :
          scan' = r.rows /\ nextScan' = r.next
    BY <1>3 DEF QueueScheduled
  <2>2. nextScan \in Scans /\ UNCHANGED <<status, argOf, nextTask>>
    BY <1>3 DEF QueueScheduled
  <2> HIDE DEF cleaned
  <2>3. Alike(cleaned, scan') /\ WellKept(scan', nextScan')
        /\ nextScan' \in {nextScan, nextScan + 1}
    BY <1>1, <2>1, <2>2, TableFacts, GetOrCreateAlike
  <2>4. Alike(scan, scan')
    BY <1>1, <2>3, AlikeTransitive
  <2> QED
    BY <1>2, <2>2, <2>3, <2>4
<1>4. CASE ~ReuseQueued
  <2> DEFINE n == nextScan + 1
             rows == [cleaned EXCEPT ![nextScan] = QueuedRow]
  <2>1. PICK r \in GetOrCreateScheduled(rows, n, periodic, "state") :
          scan' = r.rows /\ nextScan' = r.next
    BY <1>4 DEF QueueScheduled, QueuedRow
  <2>2. /\ nextTask \in Tasks /\ nextTask' = nextTask + 1
        /\ status' = [status EXCEPT ![nextTask] = "QUEUED"]
        /\ argOf' = [argOf EXCEPT ![nextTask] = nextScan]
    BY <1>4 DEF QueueScheduled
  <2>3. nextScan \in Scans /\ n \in Scans /\ n \in Nat /\ nextScan < n
    <3>1. n \in Scans
      BY <1>4 DEF QueueScheduled
    <3>2. nextScan \in 1 .. MaxScans + 1 /\ MaxScans \in Nat
      BY BoundsAssumption DEF TypeOK, TableTypes
    <3> QED
      BY <3>1, <3>2 DEF Scans
  <2>4. QueuedRow \in Rows /\ QueuedRow.state = "AVAILABLE"
    BY <2>2, TableFacts DEF QueuedRow, Rows, ScanStates
  <2>5. WellKept(cleaned, n)
    BY <1>1, <2>3 DEF WellKept, Scans
  <2>6. rows \in [Scans -> Rows] /\ WellKept(rows, n) /\ Alike(WithQueued, rows)
    <3>1. WellKept(rows, n)
      <4> HIDE DEF cleaned, n
      <4> QED
        BY <1>1, <2>3, <2>4, <2>5, ReplaceRow
    <3>2. Alike(WithQueued, rows)
      <4> HIDE DEF cleaned
      <4> QED
        BY <1>1, TableFacts DEF Alike, SameClaim, WithQueued
    <3> QED
      BY <1>1, <2>4, <3>1, <3>2
  <2>7. Alike(rows, scan') /\ WellKept(scan', nextScan') /\ nextScan' \in {n, n + 1}
    <3> HIDE DEF rows, n
    <3> QED
      BY <2>1, <2>3, <2>6, TableFacts, GetOrCreateAlike
  <2>8. Alike(WithQueued, scan')
    <3> HIDE DEF rows
    <3> QED
      BY <2>6, <2>7, AlikeTransitive
  <2>9. nextScan' \in {nextScan + 1, nextScan + 2}
    BY <2>7, TableFacts
  <2> QED
    BY <1>2, <2>2, <2>3, <2>7, <2>8, <2>9
<1> QED
  BY <1>3, <1>4

\* A run that starts at once takes the placeholder p.
LEMMA RunFacts ==
  ASSUME TypeOK, Fresh, NEW w \in Workers, RunScheduled(w)
  PROVE  /\ WellKept(scan', nextScan') /\ nextScan' \in {nextScan, nextScan + 1}
         /\ UNCHANGED taskVars
         /\ worker'[w].pc = "enter" /\ worker'[w].task = worker[w].task
         /\ \E p \in Scans :
              /\ worker'[w].scan = p /\ scan'[p].task = worker[w].task
              /\ scan'[p].state \in {"SCHEDULED", "AVAILABLE"} /\ Unclaimed(scan[p])
              /\ \A s \in Scans \ {p} :
                   \/ SameClaim(scan[s], scan'[s])
                   \/ Unclaimed(scan[s]) /\ Unclaimed(scan'[s])
<1> DEFINE cleaned == CleanupOrphans(scan, periodic)
           t == worker[w].task
<1>1. cleaned \in [Scans -> Rows] /\ Alike(scan, cleaned) /\ WellKept(cleaned, nextScan)
  BY TableFacts, CleanupFacts, CleanupAlike
<1>2. PICK r \in GetOrCreateScheduled(cleaned, nextScan, periodic, "none") :
        /\ scan' = [r.rows EXCEPT ![r.pick].task = t]
        /\ nextScan' = r.next
        /\ worker' = [worker EXCEPT ![w].pc = "enter", ![w].scan = r.pick,
                                    ![w].beat = periodic]
  BY DEF RunScheduled
<1>3. nextScan \in Scans /\ UNCHANGED taskVars /\ t \in Tasks
  BY WorkerFacts DEF RunScheduled, CanRunScheduled, At, TypeOK
<1>4. r.rows \in [Scans -> Rows] /\ r.pick \in Scans
  <2> HIDE DEF cleaned
  <2> QED
    BY <1>1, <1>2, <1>3, TableFacts, GetOrCreateFacts
<1>5. /\ Alike(cleaned, r.rows) /\ WellKept(r.rows, r.next) /\ r.pick < r.next
      /\ r.next \in {nextScan, nextScan + 1} /\ Unclaimed(r.rows[r.pick])
      /\ r.rows[r.pick].state \in {"SCHEDULED", "AVAILABLE"}
  <2> HIDE DEF cleaned
  <2> QED
    BY <1>1, <1>2, <1>3, TableFacts, GetOrCreateAlike
<1>6. Alike(scan, r.rows)
  BY <1>1, <1>5, AlikeTransitive
<1> DEFINE row == [r.rows[r.pick] EXCEPT !.task = t]
<1>7. row \in Rows /\ row.state = r.rows[r.pick].state /\ row.task = t
  BY <1>3, <1>4 DEF Rows
<1>8. scan' = [r.rows EXCEPT ![r.pick] = row]
  BY <1>2, <1>4
<1>9. r.next \in Nat
  BY <1>5, TableFacts
<1> HIDE DEF row
<1>10. WellKept([r.rows EXCEPT ![r.pick] = row], r.next)
  BY <1>4, <1>5, <1>7, <1>9, ReplaceRow
<1>11. /\ scan'[r.pick] = row
       /\ \A s \in Scans \ {r.pick} : scan'[s] = r.rows[s]
  BY <1>4, <1>8
<1>12. Unclaimed(scan[r.pick])
  BY <1>4, <1>5, <1>6 DEF Alike, SameClaim, Unclaimed
<1>13. /\ worker'[w].pc = "enter" /\ worker'[w].task = t /\ worker'[w].scan = r.pick
  BY <1>2 DEF TypeOK, ProcessTypes, WorkerStates
<1>14. \A s \in Scans \ {r.pick} :
         \/ SameClaim(scan[s], scan'[s])
         \/ Unclaimed(scan[s]) /\ Unclaimed(scan'[s])
  BY <1>6, <1>11 DEF Alike, SameClaim
<1> QED
  BY <1>2, <1>3, <1>4, <1>5, <1>7, <1>8, <1>10, <1>11, <1>12, <1>13, <1>14

LEMMA FreshQueue ==
  ASSUME TypeOK, TypeOK', Fresh, NEW w \in Workers, QueueScheduled(w)
  PROVE  Fresh'
<1>1. edit' = edit
  BY DEF QueueScheduled
<1>2. \A v \in Workers : /\ worker'[v].keep = NoScan \/ worker'[v].keep < nextScan
                         /\ worker'[v].task = NoTask \/ worker'[v].task < nextTask
  BY StepEffects, TaskOrder DEF WorkerStep, Idle
<1>3. CASE /\ Alike(scan, scan') /\ nextScan' \in {nextScan, nextScan + 1}
           /\ UNCHANGED <<status, argOf, nextTask>>
  <2>1. \A s \in Scans : scan'[s].task < nextTask'
    BY <1>3, TaskOrder DEF Alike, SameClaim, Unclaimed
  <2> QED
    BY <1>1, <1>2, <1>3, <2>1, QueueFacts, TaskOrder, FreshKept
<1>4. CASE /\ Alike(WithQueued, scan') /\ nextScan' \in {nextScan + 1, nextScan + 2}
           /\ nextScan \in Scans /\ nextTask \in Tasks /\ nextTask' = nextTask + 1
           /\ status' = [status EXCEPT ![nextTask] = "QUEUED"]
           /\ argOf' = [argOf EXCEPT ![nextTask] = nextScan]
  <2>1. \A s \in Scans : WithQueued[s].task < nextTask'
    <3>1. QueuedRow.task = nextTask
      BY DEF QueuedRow
    <3> QED
      BY <1>4, <3>1, NewTaskRow, TableFacts DEF WithQueued
  <2>2. \A s \in Scans : scan'[s].task < nextTask'
    BY <1>4, <2>1, TaskOrder DEF Alike, SameClaim, Unclaimed
  <2>3. \A t \in Tasks : t >= nextTask' => t # nextTask
    BY <1>4, TaskOrder DEF Tasks
  <2>4. \A t \in Tasks : t >= nextTask' => status'[t] = status[t] /\ argOf'[t] = argOf[t]
    BY <1>4, <2>3 DEF TypeOK, TaskTypes
  <2> QED
    BY <1>1, <1>2, <1>4, <2>2, <2>4, QueueFacts, TaskOrder, FreshKept
<1> QED
  BY <1>3, <1>4, QueueFacts

LEMMA FreshRun ==
  ASSUME TypeOK, TypeOK', Fresh, NEW w \in Workers, RunScheduled(w)
  PROVE  Fresh'
<1>1. edit' = edit
  BY DEF RunScheduled
<1>2. \A v \in Workers : /\ worker'[v].keep = NoScan \/ worker'[v].keep < nextScan
                         /\ worker'[v].task = NoTask \/ worker'[v].task < nextTask
  BY StepEffects, TaskOrder DEF WorkerStep, Idle
<1>3. \A s \in Scans : scan'[s].task < nextTask'
  BY RunFacts, TaskOrder DEF Unclaimed, SameClaim, taskVars
<1> QED
  BY <1>1, <1>2, <1>3, RunFacts, TaskOrder, FreshKept DEF taskVars

\* A task is handed out: what was unused stays so.
LEMMA FreshTask ==
  ASSUME TypeOK, TypeOK', Fresh,
         CreateScan \/ BeatFire \/ \E on, daily \in BOOLEAN : UpsertRead(on, daily)
  PROVE  Fresh'
<1>1. worker' = worker /\ nextTask \in Nat /\ NoTask < nextTask
  BY TaskOrder DEF CreateScan, BeatFire, UpsertRead
<1>2. \A t \in Tasks : t \in Nat
  BY DEF Tasks
<1>3. CASE CreateScan
  <2> DEFINE n == nextScan + 1
             r == [state |-> "AVAILABLE", trigger |-> "manual", task |-> nextTask, beat |-> 0]
  <2>1. /\ nextScan \in Scans /\ nextTask \in Tasks /\ nextScan' = n /\ nextTask' = nextTask + 1
        /\ scan' = [scan EXCEPT ![nextScan] = r] /\ edit' = edit
        /\ argOf' = [argOf EXCEPT ![nextTask] = nextScan]
        /\ \E st : status' = [status EXCEPT ![nextTask] = st]
        /\ queue' = queue \/ queue' = [queue EXCEPT ![nextTask] = 1]
    BY <1>3 DEF CreateScan
  <2>2. r \in Rows /\ r.state = "AVAILABLE" /\ r.task = nextTask
    BY <2>1 DEF Rows, ScanStates
  <2>3. n \in Nat /\ nextScan < n /\ WellKept(scan, n)
    BY TableFacts DEF WellKept, Scans
  <2>4. WellKept(scan', nextScan')
    <3> HIDE DEF r, n
    <3> QED
      BY <2>1, <2>2, <2>3, TableFacts, ReplaceRow
  <2>5. \A s \in Scans : scan'[s].task < nextTask'
    <3> HIDE DEF r, n
    <3> QED
      BY <2>1, <2>2, NewTaskRow, TableFacts
  <2>6. \A t \in Tasks : t >= nextTask' =>
          status'[t] = status[t] /\ argOf'[t] = argOf[t] /\ queue'[t] = queue[t]
    BY <1>1, <1>2, <2>1 DEF TypeOK, TaskTypes
  <2> QED
    BY <1>1, <2>1, <2>4, <2>5, <2>6, TaskOrder, FreshKept
<1>4. CASE BeatFire \/ \E on, daily \in BOOLEAN : UpsertRead(on, daily)
  <2>1. /\ UNCHANGED <<scan, nextScan, argOf>>
        /\ \/ UNCHANGED <<status, queue, nextTask>>
           \/ /\ nextTask \in Tasks /\ nextTask' = nextTask + 1
              /\ status' = [status EXCEPT ![nextTask] = "PENDING"]
              /\ queue' = [queue EXCEPT ![nextTask] = 1]
    BY <1>4 DEF BeatFire, UpsertRead, scanVars
  <2>2. edit'.keep = NoScan \/ edit'.keep < nextScan
    <3>1. CASE BeatFire
      BY <3>1, TaskOrder DEF BeatFire
    <3>2. CASE \E on, daily \in BOOLEAN : UpsertRead(on, daily)
      <4>1. \/ edit'.keep = NoScan
            \/ edit'.keep \in Placeholders(scan, periodic)
        BY <3>2 DEF UpsertRead
      <4> QED
        BY <4>1, TableFacts, UnclaimedRows DEF Placeholders
    <3> QED
      BY <1>4, <3>1, <3>2
  <2>3. \A s \in Scans : scan'[s].task < nextTask'
    BY <1>1, <2>1, TaskOrder, TableFacts DEF Rows, Tasks, NoTask
  <2>4. \A t \in Tasks : t >= nextTask' => status'[t] = status[t] /\ queue'[t] = queue[t]
    BY <1>1, <1>2, <2>1 DEF TypeOK, TaskTypes
  <2>5. nextTask' \in {nextTask, nextTask + 1} /\ WellKept(scan', nextScan')
    BY <2>1, TableFacts
  <2> QED
    BY <1>1, <2>1, <2>2, <2>3, <2>4, <2>5, TaskOrder, FreshKept
<1> QED
  BY <1>3, <1>4

\* A worker that takes a message, unless it discards it.
LEMMA StartFacts ==
  ASSUME TypeOK, NEW w \in Workers, NEW t \in Tasks, Start(w, t)
  PROVE  /\ worker[w].pc = "idle" /\ queue[t] > 0
         /\ queue' = [queue EXCEPT ![t] = @ - 1]
         /\ UNCHANGED <<provider, scan, nextScan, argOf, nextTask, edit>>
         /\ \/ /\ status' = [status EXCEPT ![t] = "REVOKED"] /\ worker' = worker
            \/ /\ status' = [status EXCEPT ![t] = "STARTED"]
               /\ \A v \in Workers : v # w => worker'[v] = worker[v]
               /\ worker'[w].pc = "begin" /\ worker'[w].task = t
               /\ worker'[w].keep = NoScan
<1> DEFINE r == [Idle EXCEPT !.pc = "begin", !.task = t]
<1>1. r.pc = "begin" /\ r.task = t /\ r.keep = NoScan
  BY DEF Idle
<1>2. worker \in [Workers -> WorkerStates]
  BY DEF TypeOK, ProcessTypes
<1>3. \/ /\ status' = [status EXCEPT ![t] = "REVOKED"] /\ worker' = worker
      \/ status' = [status EXCEPT ![t] = "STARTED"] /\ worker' = [worker EXCEPT ![w] = r]
  BY DEF Start
<1>4. /\ worker[w].pc = "idle" /\ queue[t] > 0
      /\ queue' = [queue EXCEPT ![t] = @ - 1]
      /\ UNCHANGED <<provider, scan, nextScan, argOf, nextTask, edit>>
  BY DEF Start, scanVars
<1> HIDE DEF r
<1> QED
  BY <1>1, <1>2, <1>3, <1>4

\* A message is taken, redelivered or revoked.
LEMMA FreshMessage ==
  ASSUME TypeOK, TypeOK', Fresh, NEW t \in Tasks,
         RevokeTask(t) \/ Redeliver(t) \/ \E w \in Workers : Start(w, t)
  PROVE  Fresh'
<1>1. UNCHANGED <<scan, nextScan, edit, argOf, nextTask>>
  BY DEF RevokeTask, Redeliver, Start, scanVars
<1>2. \/ UNCHANGED <<status, queue, worker>>
      \/ queue[t] > 0
  BY DEF RevokeTask, Redeliver, Start
<1>3. t \in Nat /\ (queue[t] > 0 => t < nextTask)
  BY TaskOrder DEF Tasks
<1>4. \A u \in Tasks : u # t => status'[u] = status[u] /\ queue'[u] = queue[u]
  <2>1. /\ status' = status \/ \E st : status' = [status EXCEPT ![t] = st]
        /\ queue' = queue \/ \E n : queue' = [queue EXCEPT ![t] = n]
    BY StartFacts DEF RevokeTask, Redeliver
  <2>2. \A u \in Tasks : u # t => status'[u] = status[u]
    BY <2>1 DEF TypeOK, TaskTypes
  <2>3. \A u \in Tasks : u # t => queue'[u] = queue[u]
    BY <2>1 DEF TypeOK, TaskTypes
  <2> QED
    BY <2>2, <2>3
<1>5. ASSUME NEW u \in Tasks, u >= nextTask PROVE status'[u] = status[u] /\ queue'[u] = queue[u]
  <2>1. CASE UNCHANGED <<status, queue>>
    BY <2>1
  <2>2. CASE queue[t] > 0
    <3>1. nextTask \in Nat /\ u \in Nat /\ t < nextTask
      BY <1>3, <2>2, TaskOrder DEF Tasks
    <3>2. u # t
      BY <1>3, <1>5, <3>1
    <3> QED
      BY <1>4, <3>2
  <2> QED
    BY <1>2, <2>1, <2>2
<1>6. \A v \in Workers :
        \/ worker'[v] = worker[v]
        \/ worker'[v].task = t /\ worker'[v].keep = NoScan /\ queue[t] > 0
  <2>1. CASE worker' = worker
    BY <2>1
  <2>2. ASSUME NEW w \in Workers, Start(w, t)
        PROVE  \A v \in Workers :
                 \/ worker'[v] = worker[v]
                 \/ worker'[v].task = t /\ worker'[v].keep = NoScan /\ queue[t] > 0
    BY <2>2, StartFacts
  <2> QED
    BY <2>1, <2>2 DEF RevokeTask, Redeliver
<1>7. \A v \in Workers : /\ worker'[v].keep = NoScan \/ worker'[v].keep < nextScan
                         /\ worker'[v].task = NoTask \/ worker'[v].task < nextTask
  BY <1>3, <1>6, TaskOrder
<1>8. \A s \in Scans : scan'[s].task < nextTask'
  BY <1>1, TaskOrder
<1>9. WellKept(scan', nextScan')
  BY <1>1, TableFacts
<1>10. edit'.keep < nextScan
  BY <1>1, TaskOrder
<1> QED
  BY <1>1, <1>5, <1>7, <1>8, <1>9, <1>10, FreshKept

LEMMA FreshPurge ==
  ASSUME TypeOK, TypeOK', Fresh, DeleteProvider \/ PurgeScans \/ PurgeProvider
  PROVE  Fresh'
<1>1. UNCHANGED <<nextScan, worker, edit, taskVars>>
  BY DEF DeleteProvider, PurgeScans, PurgeProvider, scanVars
<1>2. scan' = scan \/ scan' = [s \in Scans |-> NoRow]
  BY DEF DeleteProvider, PurgeScans, PurgeProvider, scanVars
<1>3. WellKept(scan', nextScan')
  BY <1>1, <1>2, TableFacts, UnclaimedRows DEF WellKept
<1>4. \A s \in Scans : scan'[s].task < nextTask'
  BY <1>1, <1>2, TaskOrder, UnclaimedRows DEF taskVars
<1> QED
  BY <1>1, <1>3, <1>4, TaskOrder, FreshKept DEF taskVars

LEMMA FreshStep == TypeOK /\ TypeOK' /\ Fresh /\ [Next]_vars => Fresh'
<1> SUFFICES ASSUME TypeOK, TypeOK', Fresh, [Next]_vars PROVE Fresh'
  OBVIOUS
<1>1. CASE RemoveSchedule \/ UpsertCommit
  <2>1. Tidy /\ UNCHANGED <<taskVars, worker>>
    BY <1>1, RemoveTidy, UpsertTidy DEF RemoveSchedule, UpsertCommit
  <2>2. edit'.keep = NoScan \/ edit'.keep < nextScan
    BY <1>1, TaskOrder DEF RemoveSchedule, UpsertCommit, NoEdit
  <2> QED
    BY <2>1, <2>2, FreshTidy
<1>2. ASSUME NEW w \in Workers, SkipScheduled(w) \/ EnsureWrite(w) PROVE Fresh'
  <2>1. Tidy /\ UNCHANGED taskVars /\ edit' = edit
    BY <1>2, SkipTidy, EnsureTidy DEF SkipScheduled, EnsureWrite
  <2>2. WorkerStep(w)
    BY <1>2 DEF WorkerStep
  <2> QED
    BY <2>1, <2>2, TaskOrder, FreshTidy
<1>3. ASSUME NEW w \in Workers, WorkerStep(w) \/ DbError(w) \/ Crash(w) PROVE Fresh'
  BY <1>2, <1>3, FreshWorker, FreshState, FreshQueue, FreshRun DEF WorkerStep
<1>4. ASSUME NEW t \in Tasks, RevokeTask(t) \/ Redeliver(t) \/ \E w \in Workers : Start(w, t)
      PROVE  Fresh'
  BY <1>4, FreshMessage
<1>5. CASE UNCHANGED vars
  BY <1>5 DEF vars, scanVars, taskVars, Fresh, FreshScans, FreshTasks
<1> QED
  BY <1>1, <1>3, <1>4, <1>5, FreshTask, FreshPurge DEF Next

-----------------------------------------------------------------------------
(* Work, in the executions nothing has disturbed *)

\* The budget is spent, never refilled, and what is spent stays spent.
LEMMA BudgetMoves ==
  ASSUME [Next]_vars
  PROVE  budget' = budget \/ \E kinds \in SUBSET Kinds : Spend(kinds)
<1>1. /\ {"create"} \subseteq Kinds /\ {"create", "publish"} \subseteq Kinds
      /\ {"beat"} \subseteq Kinds /\ {"edit"} \subseteq Kinds /\ {"redeliver"} \subseteq Kinds
      /\ {"crash"} \subseteq Kinds /\ {"revoke"} \subseteq Kinds /\ {"publish"} \subseteq Kinds
      /\ {"db"} \subseteq Kinds
  BY DEF Kinds
<1>2. ASSUME NEW w \in Workers, WorkerStep(w) \/ DbError(w) \/ Crash(w)
      PROVE  budget' = budget \/ \E kinds \in SUBSET Kinds : Spend(kinds)
  <2>1. CASE FinishScan(w) \/ DispatchNext(w) \/ DbError(w) \/ Crash(w)
    BY <1>1, <2>1 DEF FinishScan, DispatchNext, DbError, Crash
  <2>2. CASE ~(FinishScan(w) \/ DispatchNext(w) \/ DbError(w) \/ Crash(w))
    BY <1>2, <2>2 DEF WorkerStep, BeginManual, SkipScheduled, QueueScheduled, RunScheduled,
                      EnterScan, EnsureRead, EnsureWrite, FinishTask
  <2> QED
    BY <2>1, <2>2
<1>3. CASE CreateScan \/ RemoveSchedule \/ UpsertCommit \/ BeatFire
  BY <1>1, <1>3 DEF CreateScan, RemoveSchedule, UpsertCommit, BeatFire
<1>4. CASE \E on, daily \in BOOLEAN : UpsertRead(on, daily)
  BY <1>1, <1>4 DEF UpsertRead
<1>5. CASE \E t \in Tasks : RevokeTask(t) \/ Redeliver(t)
  BY <1>1, <1>5 DEF RevokeTask, Redeliver
<1>6. CASE \/ \E w \in Workers, t \in Tasks : Start(w, t)
           \/ DeleteProvider \/ PurgeScans \/ PurgeProvider
  BY <1>6 DEF Start, DeleteProvider, PurgeScans, PurgeProvider
<1>7. CASE UNCHANGED vars
  BY <1>7 DEF vars
<1> QED
  BY <1>2, <1>3, <1>4, <1>5, <1>6, <1>7 DEF Next

LEMMA Spends ==
  ASSUME TypeOK, NEW kinds \in SUBSET Kinds, Spend(kinds), NEW k \in Kinds
  PROVE  /\ k \in kinds => Spent(k)'
         /\ Spent(k) => Spent(k)'
<1>1. budget[k] \in Nat /\ Budget[k] \in Nat /\ budget[k] <= Budget[k]
  BY BoundsAssumption DEF TypeOK, HistoryTypes
<1>2. budget'[k] = IF k \in kinds THEN budget[k] - 1 ELSE budget[k]
  BY DEF Spend
<1> QED
  BY <1>1, <1>2 DEF Spent

LEMMA SpentStays ==
  ASSUME TypeOK, [Next]_vars, NEW k \in Kinds, Spent(k)
  PROVE  Spent(k)'
<1>1. CASE budget' = budget
  BY <1>1 DEF Spent
<1> QED
  BY <1>1, BudgetMoves, Spends

LEMMA UndisturbedStep ==
  ASSUME TypeOK, [Next]_vars, Undisturbed'
  PROVE  Undisturbed /\ ~clobbered' /\ \A t \in Tasks : ~Redeliver(t)
<1>1. "redeliver" \in Kinds /\ ~clobbered' /\ ~Spent("redeliver")'
  BY DEF Undisturbed, Kinds
<1>2. clobbered => clobbered'
  BY DEF Next, WorkerStep, CreateScan, RemoveSchedule, UpsertCommit, BeatFire, UpsertRead,
         RevokeTask, Redeliver, Start, BeginManual, SkipScheduled, QueueScheduled,
         RunScheduled, EnterScan, FinishScan, EnsureRead, EnsureWrite, DispatchNext,
         FinishTask, DbError, Crash, DeleteProvider, PurgeScans, PurgeProvider, vars
<1>3. ASSUME NEW t \in Tasks, Redeliver(t) PROVE FALSE
  <2>1. Spend({"redeliver"})
    BY <1>3 DEF Redeliver
  <2> QED
    BY <1>1, <2>1, Spends
<1> QED
  BY <1>1, <1>2, <1>3, SpentStays DEF Undisturbed

\* With a provider, the dispatched scan is the only one a worker can run.
LEMMA OneRunnerWhileActive ==
  ASSUME TypeOK', Work', provider' = "active"
  PROVE  OneRunner'
<1> SUFFICES ASSUME NEW v \in Workers, NEW w \in Workers, Running(v)', Running(w)'
             PROVE  v = w
  BY DEF OneRunner
<1>1. worker'[v].scan = worker'[w].scan
  BY DEF Work, RunningDispatched, OneDispatched
<1>2. worker'[v].task = worker'[w].task
  BY <1>1 DEF Work, RunningDispatched
<1>3. worker'[v].pc # "idle" /\ worker'[w].pc # "idle"
  BY DEF Running
<1> QED
  BY <1>2, <1>3 DEF Work, OneCarrier

LEMMA AlikeKeeps ==
  ASSUME Alike(scan, scan')
  PROVE  KeepsScans
BY DEF Alike, SameClaim, KeepsScans, KeepsScan

LEMMA SameKeeps ==
  /\ worker' = worker => KeepsWorkers
  /\ scan' = scan => KeepsScans
  /\ status' = status /\ queue' = queue => KeepsTasks
  /\ provider' = provider => NoRevival
BY DEF KeepsWorkers, KeepsWorker, Running, KeepsScans, KeepsScan, KeepsTasks, KeepsTask,
       NoRevival

\* A worker moves to a stage where it runs no scan.
LEMMA LeavesKeep ==
  ASSUME TypeOK, Fresh, NEW w \in Workers, WorkerStep(w) \/ DbError(w) \/ Crash(w),
         worker'[w].pc \notin {"begin", "enter", "scanning"}
  PROVE  KeepsWorkers
<1>1. KeepsWorker(w)
  BY StepEffects DEF KeepsWorker, Running
<1>2. \A v \in Workers : v # w => KeepsWorker(v)
  BY StepEffects DEF KeepsWorker, Running
<1> QED
  BY <1>1, <1>2 DEF KeepsWorkers

\* Requests that bring no scan and no task, and the deletion of the provider.
LEMMA WorkApi ==
  ASSUME TypeOK, TypeOK', Fresh, Work, ~clobbered',
         \/ RemoveSchedule \/ UpsertCommit \/ \E t \in Tasks : RevokeTask(t)
         \/ DeleteProvider \/ PurgeScans \/ PurgeProvider
         \/ \E on, daily \in BOOLEAN :
              UpsertRead(on, daily) /\ UNCHANGED <<status, queue, nextTask>>
  PROVE  Work' /\ KeepsWorkers
<1>1. UNCHANGED <<status, queue, argOf, worker>>
  BY DEF RemoveSchedule, UpsertCommit, RevokeTask, DeleteProvider, PurgeScans, PurgeProvider,
         UpsertRead, taskVars
<1>2. NoRevival
  BY DEF RemoveSchedule, UpsertCommit, RevokeTask, DeleteProvider, PurgeScans, PurgeProvider,
         UpsertRead, NoRevival
<1>3. KeepsScans
  <2>1. CASE RemoveSchedule \/ UpsertCommit
    BY <2>1, RemoveTidy, UpsertTidy, AlikeKeeps DEF Tidy, SameClaim
  <2>2. CASE PurgeScans \/ PurgeProvider
    BY <2>2, UnclaimedRows DEF PurgeScans, PurgeProvider, KeepsScans, KeepsScan
  <2>3. CASE scan' = scan
    BY <2>3, SameKeeps
  <2> QED
    BY <2>1, <2>2, <2>3 DEF RevokeTask, DeleteProvider, UpsertRead, scanVars
<1> QED
  BY <1>1, <1>2, <1>3, SameKeeps, WorkKept

\* Steps of a worker that starts no scan and ends none.
LEMMA WorkQuietWorker ==
  ASSUME TypeOK, TypeOK', Fresh, Work, ~clobbered', NEW w \in Workers,
         \/ SkipScheduled(w) \/ EnsureRead(w) \/ EnsureWrite(w) \/ DbError(w)
         \/ FinishTask(w) \/ Crash(w)
         \/ QueueScheduled(w) /\ UNCHANGED <<status, argOf, nextTask>>
         \/ BeginManual(w) /\ provider # "active"
         \/ EnterScan(w) /\ ~(provider = "active" /\ scan[worker[w].scan].state # "none")
         \/ FinishScan(w) /\ scan[worker[w].scan].state = "none"
         \/ DispatchNext(w) /\ UNCHANGED <<status, queue>>
  PROVE  Work' /\ KeepsWorkers
<1>1. argOf' = argOf /\ NoRevival
  BY DEF SkipScheduled, EnsureRead, EnsureWrite, DbError, FinishTask, Crash, QueueScheduled,
         BeginManual, EnterScan, FinishScan, DispatchNext, taskVars, NoRevival
<1>2. WorkerStep(w) \/ DbError(w) \/ Crash(w)
  BY DEF WorkerStep
<1>3. KeepsWorkers
  <2>1. worker \in [Workers -> WorkerStates]
    BY DEF TypeOK, ProcessTypes
  <2>2. worker'[w].pc \notin {"begin", "enter", "scanning"}
    <3>1. CASE \/ SkipScheduled(w) \/ QueueScheduled(w) \/ DispatchNext(w)
               \/ BeginManual(w) /\ provider # "active"
      BY <2>1, <3>1 DEF SkipScheduled, QueueScheduled, BeginManual, DispatchNext, Goto, Fail,
                        WorkerStates
    <3>2. CASE FinishTask(w) \/ Crash(w)
      BY <2>1, <3>2 DEF FinishTask, Crash, Idle
    <3>3. CASE EnsureRead(w)
      <4>1. \E k, d, v : worker' = [worker EXCEPT ![w].pc = "ensureWrite", ![w].keep = k,
                                                  ![w].drop = d, ![w].save = v]
        BY <3>3 DEF EnsureRead
      <4> QED
        BY <2>1, <4>1 DEF WorkerStates
    <3>4. CASE EnsureWrite(w)
      BY <2>1, <3>4 DEF EnsureWrite, WorkerStates
    <3>5. CASE DbError(w)
      BY <2>1, <3>5 DEF DbError, Goto, Fail, Finally, WorkerStates
    <3>6. CASE EnterScan(w) /\ ~(provider = "active" /\ scan[worker[w].scan].state # "none")
      BY <2>1, <3>6 DEF EnterScan, Fail, Finally, WorkerStates
    <3>7. CASE FinishScan(w)
      <4>1. Goto(w, Finally(w)) \/ Fail(w, Finally(w))
        BY <3>7 DEF FinishScan
      <4> QED
        BY <2>1, <4>1 DEF Goto, Fail, Finally, WorkerStates
    <3> QED
      BY <3>1, <3>2, <3>3, <3>4, <3>5, <3>6, <3>7
  <2> QED
    BY <1>2, <2>2, LeavesKeep
<1>4. KeepsScans
  <2>1. CASE SkipScheduled(w) \/ EnsureWrite(w)
    BY <2>1, SkipTidy, EnsureTidy, AlikeKeeps DEF Tidy, SameClaim
  <2>2. CASE QueueScheduled(w) /\ UNCHANGED <<status, argOf, nextTask>>
    <3>1. nextTask \in Nat
      BY TaskOrder
    <3>2. Alike(scan, scan')
      BY <2>2, <3>1, QueueFacts
    <3> QED
      BY <3>2, AlikeKeeps
  <2>3. CASE scan' = scan
    BY <2>3, SameKeeps
  <2> QED
    BY <2>1, <2>2, <2>3
    DEF EnsureRead, DbError, FinishTask, Crash, BeginManual, EnterScan, FinishScan,
        DispatchNext, scanVars
<1>5. KeepsTasks
  <2>1. CASE FinishTask(w) \/ Crash(w)
    <3> DEFINE t == worker[w].task
    <3>1. /\ worker[w].pc # "idle" /\ worker'[w].pc = "idle" /\ queue' = queue
          /\ \A v \in Workers : v # w => worker'[v] = worker[v]
      BY <2>1, StepEffects DEF WorkerStep, FinishTask, Crash, TypeOK, ProcessTypes, Idle
    <3>2. t \in Tasks /\ status[t] = "STARTED" /\ queue[t] \in Nat /\ ~(queue[t] > 0)
      BY <3>1 DEF Work, OneCarrier, TypeOK, ProcessTypes, TaskTypes
    <3>3. \A v \in Workers : ~(Busy(v)' /\ worker'[v].task = t)
      BY <3>1 DEF Work, OneCarrier, Busy
    <3>4. status' = status \/ \E x \in {"SUCCESS", "FAILURE"} : status' = [status EXCEPT ![t] = x]
      BY <2>1 DEF FinishTask, Crash
    <3>5. queue'[t] = 0
      BY <3>1, <3>2
    <3> HIDE DEF t
    <3> QED
      BY <3>1, <3>2, <3>3, <3>4, <3>5 DEF KeepsTasks, KeepsTask, TypeOK, TaskTypes
  <2>2. CASE UNCHANGED <<status, queue>>
    BY <2>2, SameKeeps
  <2> QED
    BY <2>1, <2>2
    DEF SkipScheduled, EnsureRead, EnsureWrite, DbError, QueueScheduled, BeginManual,
        EnterScan, FinishScan, DispatchNext, taskVars
<1> QED
  BY <1>1, <1>3, <1>4, <1>5, WorkKept

LEMMA WorkRevoked ==
  ASSUME TypeOK, TypeOK', Work, NEW w \in Workers, NEW t \in Tasks, Start(w, t),
         status' = [status EXCEPT ![t] = "REVOKED"], worker' = worker
  PROVE  Work' /\ KeepsWorkers
<1>1. /\ UNCHANGED <<provider, scan, argOf, worker>> /\ queue[t] > 0
      /\ queue' = [queue EXCEPT ![t] = @ - 1]
  BY StartFacts
<1>2. queue[t] = 1 /\ status[t] = "PENDING"
  BY <1>1 DEF Work, OneCarrier
<1>3. queue'[t] = 0 /\ status'[t] = "REVOKED"
  BY <1>1, <1>2 DEF TypeOK, TaskTypes
<1>4. \A v \in Workers : ~(Busy(v)' /\ worker'[v].task = t)
  BY <1>1, <1>2 DEF Work, OneCarrier, Busy
<1>5. \A u \in Tasks : u # t => status'[u] = status[u] /\ queue'[u] = queue[u]
  BY <1>1 DEF TypeOK, TaskTypes
<1>6. KeepsTasks
  BY <1>3, <1>4, <1>5 DEF KeepsTasks, KeepsTask
<1> QED
  BY <1>1, <1>6, SameKeeps, WorkKept

\* A task is handed out: of the schedule, or of the new scan n, which is queued
\* or, when nothing is dispatched, waits for its message.
NewScheduledTask ==
  /\ KeepsScans /\ argOf'[nextTask] = NoScan
  /\ status'[nextTask] = "PENDING" /\ queue'[nextTask] = 1
NewScanTask(n) ==
  /\ \A s \in Scans \ {n} : KeepsScan(s)
  /\ Unclaimed(scan[n]) /\ scan'[n].state = "AVAILABLE" /\ scan'[n].task = nextTask
  /\ argOf'[nextTask] = n
  /\ \/ status'[nextTask] = "QUEUED" /\ queue'[nextTask] = 0
     \/ status'[nextTask] = "PENDING" /\ queue'[nextTask] \in {0, 1} /\ Dispatched = {}
OthersKept ==
  \A t \in Tasks : t # nextTask =>
    status'[t] = status[t] /\ queue'[t] = queue[t] /\ argOf'[t] = argOf[t]

LEMMA WorkGrows ==
  ASSUME TypeOK, TypeOK', Fresh, Work, KeepsWorkers, NoRevival, nextTask \in Tasks,
         OthersKept, NewScheduledTask \/ \E n \in Scans : NewScanTask(n)
  PROVE  Work'
<1>1. /\ \A s \in Scans : scan[s].task # nextTask /\ scan[s].task \in Tasks \cup {NoTask}
      /\ \A w \in Workers : worker[w].task # nextTask
      /\ queue[nextTask] = 0 /\ argOf[nextTask] = NoScan /\ nextTask # NoTask
      /\ NoTask \notin Tasks
  <2>1. nextTask \in Nat /\ nextTask >= nextTask /\ ~(nextTask < nextTask) /\ 0 < nextTask
    BY TaskOrder
  <2>2. /\ queue[nextTask] = 0 /\ argOf[nextTask] = NoScan
        /\ \A s \in Scans : scan[s].task # nextTask
        /\ \A w \in Workers : worker[w].task # nextTask
    BY <2>1 DEF Fresh, FreshTasks
  <2> QED
    BY <2>1, <2>2 DEF TypeOK, TableTypes, Rows, Tasks, NoTask
<1>2. \A w \in Workers : Busy(w)' =>
        /\ Busy(w) /\ worker'[w].task = worker[w].task /\ worker[w].task \in Tasks
        /\ worker'[w].task # nextTask
        /\ status'[worker[w].task] = status[worker[w].task]
  BY <1>1 DEF KeepsWorkers, KeepsWorker, Busy, OthersKept, TypeOK, ProcessTypes
<1>3. OneCarrier'
  <2>1. ASSUME NEW t \in Tasks, queue'[t] > 0 PROVE queue'[t] = 1 /\ status'[t] = "PENDING"
    BY <2>1 DEF Work, OneCarrier, OthersKept, NewScheduledTask, NewScanTask
  <2>2. ASSUME NEW w \in Workers, worker'[w].pc # "idle"
        PROVE  status'[worker'[w].task] = "STARTED"
    BY <1>2, <2>2 DEF Work, OneCarrier, Busy
  <2>3. ASSUME NEW v \in Workers, NEW w \in Workers, worker'[v].pc # "idle",
               worker'[w].pc # "idle", worker'[v].task = worker'[w].task
        PROVE  v = w
    BY <1>2, <2>3 DEF Work, OneCarrier, Busy
  <2> QED
    BY <2>1, <2>2, <2>3 DEF OneCarrier
<1>4. ASSUME NEW s \in Scans, KeepsScan(s)
      PROVE  /\ scan'[s].task # nextTask
             /\ s \in Dispatched' => s \in Dispatched /\ scan'[s].task = scan[s].task
             /\ s \in Queued' => /\ s \in Queued /\ scan'[s].task = scan[s].task
                                 /\ argOf'[scan'[s].task] = s
  <2>1. CASE scan'[s].state = scan[s].state /\ scan'[s].task = scan[s].task
    <3>1. scan[s].task # NoTask => /\ status'[scan[s].task] = status[scan[s].task]
                                   /\ argOf'[scan[s].task] = argOf[scan[s].task]
      BY <1>1 DEF OthersKept
    <3> QED
      BY <1>1, <2>1, <3>1 DEF Dispatched, Queued, IsDispatched, IsQueued, Work, CarriedScans
  <2>2. CASE Unclaimed(scan'[s])
    BY <1>1, <2>2 DEF Unclaimed, Dispatched, Queued, IsDispatched, IsQueued
  <2> QED
    BY <1>4, <2>1, <2>2 DEF KeepsScan
<1>5. ASSUME NEW t \in Tasks, t # nextTask, provider = "active", provider' = "active",
             WaitsFor(t)
      PROVE  WaitsFor(t)'
  <2>1. CASE Scheduled(t)
    BY <1>5, <2>1 DEF WaitsFor, Scheduled, OthersKept
  <2>2. CASE ~Scheduled(t)
    <3> DEFINE s == argOf[t]
    <3>1. /\ s \in Scans /\ t # NoTask /\ scan[s].task = t /\ scan[s].state = "AVAILABLE"
          /\ argOf'[t] = s
      BY <1>1, <1>5, <2>2 DEF WaitsFor, Scheduled, TypeOK, TaskTypes, OthersKept
    <3>2. ~Unclaimed(scan[s])
      BY <3>1 DEF Unclaimed
    <3>3. KeepsScan(s)
      BY <3>1, <3>2 DEF KeepsScans, NewScheduledTask, NewScanTask
    <3>4. scan'[s].state = scan[s].state /\ scan'[s].task = scan[s].task
      BY <1>5, <3>2, <3>3 DEF KeepsScan
    <3> QED
      BY <3>1, <3>4 DEF WaitsFor
  <2> QED
    BY <2>1, <2>2
<1>6. ASSUME NEW t \in Tasks, t = nextTask PROVE WaitsFor(t)'
  <2>1. CASE NewScheduledTask
    <3>1. argOf'[nextTask] = NoScan
      BY <2>1 DEF NewScheduledTask
    <3> QED
      BY <1>6, <3>1 DEF WaitsFor, Scheduled
  <2>2. ASSUME NEW n \in Scans, NewScanTask(n) PROVE WaitsFor(t)'
    <3>1. /\ argOf'[nextTask] = n /\ scan'[n].state = "AVAILABLE" /\ scan'[n].task = nextTask
      BY <2>2 DEF NewScanTask
    <3> QED
      BY <1>6, <3>1 DEF WaitsFor
  <2> QED
    BY <2>1, <2>2
<1>7. ASSUME NEW s \in Scans
      PROVE  \/ KeepsScan(s)
             \/ NewScanTask(s)
  BY DEF NewScheduledTask, NewScanTask, KeepsScans
<1>8. CarriedScans'
  <2>1. ASSUME NEW s \in Scans, s \in Queued' PROVE argOf'[scan'[s].task] = s
    <3>1. CASE KeepsScan(s)
      BY <1>4, <2>1, <3>1
    <3>2. CASE NewScanTask(s)
      BY <3>2 DEF NewScanTask
    <3> QED
      BY <1>7, <3>1, <3>2
  <2>2. ASSUME provider' = "active", NEW t \in Tasks, queue'[t] > 0 PROVE WaitsFor(t)'
    <3>1. CASE t = nextTask
      BY <1>6, <3>1
    <3>2. CASE t # nextTask
      <4>1. provider = "active" /\ queue[t] > 0
        BY <2>2, <3>2 DEF NoRevival, OthersKept
      <4> QED
        BY <1>5, <2>2, <3>2, <4>1 DEF Work, CarriedScans
    <3> QED
      BY <3>1, <3>2
  <2>3. ASSUME provider' = "active", NEW w \in Workers, worker'[w].pc = "begin"
        PROVE  WaitsFor(worker[w].task)'
    <3>1. /\ provider = "active" /\ worker[w].pc = "begin" /\ worker[w].task \in Tasks
          /\ worker'[w].task = worker[w].task /\ worker[w].task # nextTask
      BY <1>1, <1>2, <2>3 DEF NoRevival, KeepsWorkers, KeepsWorker, Busy
    <3>2. WaitsFor(worker[w].task)
      BY <3>1 DEF Work, CarriedScans
    <3>3. ASSUME NEW u \in Tasks, u # nextTask, WaitsFor(u), u = worker'[w].task
          PROVE  WaitsFor(worker[w].task)'
      BY <1>5, <2>3, <3>1, <3>3 DEF WaitsFor, Scheduled
    <3> QED
      BY <3>1, <3>2, <3>3
  <2> QED
    BY <2>1, <2>2, <2>3 DEF CarriedScans, Queued
<1>9. OneScanPerTask'
  <2> SUFFICES ASSUME NEW s \in Scans, NEW u \in Scans, scan'[s].task # NoTask,
                      scan'[s].task = scan'[u].task
               PROVE  s = u
    BY DEF OneScanPerTask
  <2>1. CASE KeepsScan(s) /\ KeepsScan(u)
    BY <2>1 DEF KeepsScan, Unclaimed, Work, OneScanPerTask
  <2>2. CASE NewScanTask(s) \/ NewScanTask(u)
    BY <1>4, <2>2 DEF NewScanTask
  <2> QED
    BY <1>7, <2>1, <2>2
<1>10. OneDispatched'
  <2>1. ASSUME NEW s \in Dispatched', NewScanTask(s) PROVE Dispatched = {}
    <3>1. s \in Scans /\ scan'[s].state = "AVAILABLE" /\ scan'[s].task = nextTask
      BY <2>1 DEF NewScanTask, Dispatched
    <3>2. status'[nextTask] \in DispatchedTaskStates
      BY <2>1, <3>1 DEF Dispatched, IsDispatched
    <3> QED
      BY <2>1, <3>2 DEF NewScanTask, DispatchedTaskStates
  <2> SUFFICES ASSUME NEW s \in Dispatched', NEW u \in Dispatched' PROVE s = u
    BY DEF OneDispatched
  <2>2. s \in Scans /\ u \in Scans
    BY DEF Dispatched
  <2>3. CASE KeepsScan(s) /\ KeepsScan(u)
    BY <1>4, <2>2, <2>3 DEF Work, OneDispatched
  <2>4. CASE NewScanTask(s) \/ NewScanTask(u)
    BY <1>4, <1>7, <2>1, <2>2, <2>4 DEF NewScanTask
  <2> QED
    BY <1>7, <2>2, <2>3, <2>4
<1>11. RunningDispatched'
  <2> SUFFICES ASSUME provider' = "active", NEW w \in Workers, Running(w)'
               PROVE  /\ worker'[w].scan \in Dispatched'
                      /\ scan'[worker'[w].scan].task = worker'[w].task
    BY DEF RunningDispatched
  <2> DEFINE s == worker[w].scan
  <2>1. provider = "active" /\ Running(w) /\ worker'[w].scan = s /\ Busy(w)'
    BY DEF NoRevival, KeepsWorkers, KeepsWorker, Running, Busy
  <2>2. s \in Dispatched /\ scan[s].task = worker[w].task /\ s \in Scans
    BY <2>1 DEF Work, RunningDispatched, Dispatched
  <2>3. /\ worker'[w].task = worker[w].task /\ worker[w].task \in Tasks
        /\ status'[worker[w].task] = status[worker[w].task]
    BY <1>2, <2>1
  <2>4. ~Unclaimed(scan[s])
    BY <1>1, <2>2, <2>3 DEF Unclaimed
  <2>5. scan'[s].state = scan[s].state /\ scan'[s].task = scan[s].task
    BY <1>7, <2>2, <2>4 DEF KeepsScan, NewScanTask
  <2>6. s \in Dispatched'
    BY <2>2, <2>3, <2>5 DEF Dispatched, IsDispatched
  <2> QED
    BY <2>1, <2>2, <2>3, <2>5, <2>6
<1> QED
  BY <1>3, <1>8, <1>9, <1>10, <1>11 DEF Work

LEMMA WorkNewTask ==
  ASSUME TypeOK, TypeOK', Fresh, Work,
         BeatFire \/ \E on, daily \in BOOLEAN : UpsertRead(on, daily)
  PROVE  Work' /\ KeepsWorkers
<1>1. UNCHANGED <<provider, scan, argOf, worker>>
  BY DEF BeatFire, UpsertRead, scanVars
<1>2. \/ UNCHANGED <<status, queue>>
      \/ /\ nextTask \in Tasks
         /\ status' = [status EXCEPT ![nextTask] = "PENDING"]
         /\ queue' = [queue EXCEPT ![nextTask] = 1]
  BY DEF BeatFire, UpsertRead
<1>3. CASE UNCHANGED <<status, queue>>
  BY <1>1, <1>3, SameKeeps, WorkKept
<1>4. CASE /\ nextTask \in Tasks
           /\ status' = [status EXCEPT ![nextTask] = "PENDING"]
           /\ queue' = [queue EXCEPT ![nextTask] = 1]
  <2>1. OthersKept
    BY <1>1, <1>4 DEF OthersKept, TypeOK, TaskTypes
  <2>2. nextTask >= nextTask
    BY TaskOrder
  <2>3. NewScheduledTask
    BY <1>1, <1>4, <2>2, SameKeeps DEF NewScheduledTask, Fresh, FreshTasks, TypeOK, TaskTypes
  <2> QED
    BY <1>1, <1>4, <2>1, <2>3, SameKeeps, WorkGrows
<1> QED
  BY <1>2, <1>3, <1>4

LEMMA WorkCreate ==
  ASSUME TypeOK, TypeOK', Fresh, Work, CreateScan
  PROVE  Work' /\ KeepsWorkers
<1> DEFINE r == [state |-> "AVAILABLE", trigger |-> "manual", task |-> nextTask, beat |-> 0]
           st == IF ActiveScan THEN "QUEUED" ELSE "PENDING"
<1>1. /\ nextScan \in Scans /\ nextTask \in Tasks /\ UNCHANGED <<provider, worker>>
      /\ scan' = [scan EXCEPT ![nextScan] = r]
      /\ argOf' = [argOf EXCEPT ![nextTask] = nextScan]
      /\ status' = [status EXCEPT ![nextTask] = st]
  BY DEF CreateScan
<1>2. \/ ~ActiveScan /\ queue' = [queue EXCEPT ![nextTask] = 1]
      \/ queue' = queue
  BY DEF CreateScan
<1>3. queue[nextTask] = 0 /\ scan[nextScan] = NoRow
  <2>1. nextTask >= nextTask /\ nextScan >= nextScan
    BY TaskOrder, TableFacts
  <2> QED
    BY <1>1, <2>1 DEF Fresh, FreshScans, FreshTasks
<1>4. queue'[nextTask] \in {0, 1} /\ (ActiveScan => queue'[nextTask] = 0)
  BY <1>1, <1>2, <1>3 DEF TypeOK, TaskTypes
<1>5. /\ ActiveScan => status'[nextTask] = "QUEUED"
      /\ ~ActiveScan => status'[nextTask] = "PENDING" /\ Dispatched = {}
  BY <1>1 DEF TypeOK, TaskTypes, ActiveScan
<1>6. r.state = "AVAILABLE" /\ r.task = nextTask
  OBVIOUS
<1> HIDE DEF r, st
<1>7. /\ \A s \in Scans \ {nextScan} : scan'[s] = scan[s]
      /\ scan'[nextScan] = r /\ argOf'[nextTask] = nextScan
  BY <1>1 DEF TypeOK, TableTypes, TaskTypes
<1>8. NewScanTask(nextScan)
  BY <1>3, <1>4, <1>5, <1>6, <1>7, UnclaimedRows DEF NewScanTask, KeepsScan
<1>9. OthersKept
  BY <1>1, <1>2 DEF OthersKept, TypeOK, TaskTypes
<1> QED
  BY <1>1, <1>8, <1>9, SameKeeps, WorkGrows

LEMMA WorkQueue ==
  ASSUME TypeOK, TypeOK', Fresh, Work, ~clobbered', NEW w \in Workers, QueueScheduled(w)
  PROVE  Work' /\ KeepsWorkers
<1>1. CASE UNCHANGED <<status, argOf, nextTask>>
  BY <1>1, WorkQuietWorker
<1>2. CASE /\ Alike(WithQueued, scan') /\ nextScan \in Scans /\ nextTask \in Tasks
           /\ status' = [status EXCEPT ![nextTask] = "QUEUED"]
           /\ argOf' = [argOf EXCEPT ![nextTask] = nextScan]
  <2>1. /\ worker'[w].pc = "finish" /\ UNCHANGED <<provider, queue>> /\ WorkerStep(w)
    BY DEF QueueScheduled, Goto, WorkerStep, TypeOK, ProcessTypes, WorkerStates
  <2>2. KeepsWorkers
    BY <2>1, LeavesKeep
  <2>3. queue[nextTask] = 0 /\ scan[nextScan] = NoRow
    <3>1. nextTask >= nextTask /\ nextScan >= nextScan
      BY TaskOrder, TableFacts
    <3> QED
      BY <1>2, <3>1 DEF Fresh, FreshScans, FreshTasks
  <2>4. /\ WithQueued[nextScan].state = "AVAILABLE" /\ WithQueued[nextScan].task = nextTask
        /\ \A s \in Scans \ {nextScan} : WithQueued[s] = scan[s]
    BY <1>2, TableFacts DEF WithQueued, QueuedRow
  <2>5. nextTask # NoTask
    BY TaskOrder
  <2>6. scan'[nextScan].state = "AVAILABLE" /\ scan'[nextScan].task = nextTask
    BY <1>2, <2>4, <2>5 DEF Alike, SameClaim, Unclaimed
  <2>7. \A s \in Scans \ {nextScan} : KeepsScan(s)
    BY <1>2, <2>4 DEF Alike, SameClaim, KeepsScan
  <2>8. status'[nextTask] = "QUEUED" /\ argOf'[nextTask] = nextScan /\ queue'[nextTask] = 0
    BY <1>2, <2>1, <2>3 DEF TypeOK, TaskTypes
  <2>9. NewScanTask(nextScan)
    BY <2>3, <2>6, <2>7, <2>8, UnclaimedRows DEF NewScanTask
  <2>10. OthersKept
    BY <1>2, <2>1 DEF OthersKept, TypeOK, TaskTypes
  <2> QED
    BY <1>2, <2>1, <2>2, <2>9, <2>10, SameKeeps, WorkGrows
<1> QED
  BY <1>1, <1>2, QueueFacts

\* The message becomes a worker: the scan it is for stays dispatched.
LEMMA WorkStart ==
  ASSUME TypeOK, TypeOK', Work, NEW w \in Workers, NEW t \in Tasks, Start(w, t)
  PROVE  Work' /\ StartsNoScan
<1>1. /\ worker[w].pc = "idle" /\ queue[t] > 0 /\ queue' = [queue EXCEPT ![t] = @ - 1]
      /\ UNCHANGED <<provider, scan, argOf>>
  BY StartFacts
<1>2. CASE status' = [status EXCEPT ![t] = "REVOKED"] /\ worker' = worker
  BY <1>2, WorkRevoked DEF StartsNoScan, KeepsWorkers, KeepsWorker, Running
<1>3. CASE /\ status' = [status EXCEPT ![t] = "STARTED"]
           /\ \A v \in Workers : v # w => worker'[v] = worker[v]
           /\ worker'[w].pc = "begin" /\ worker'[w].task = t
  <2>1. queue[t] = 1 /\ status[t] = "PENDING"
    BY <1>1 DEF Work, OneCarrier
  <2>2. queue'[t] = 0 /\ status'[t] = "STARTED"
    BY <1>1, <1>3, <2>1 DEF TypeOK, TaskTypes
  <2>3. \A u \in Tasks : u # t => status'[u] = status[u] /\ queue'[u] = queue[u]
    BY <1>1, <1>3 DEF TypeOK, TaskTypes
  <2>4. \A v \in Workers : worker[v].pc # "idle" => worker[v].task # t /\ v # w
                                                   /\ worker[v].task \in Tasks
    BY <1>1, <2>1 DEF Work, OneCarrier, TypeOK, ProcessTypes
  <2>5. OneCarrier'
    BY <1>3, <2>2, <2>3, <2>4 DEF Work, OneCarrier
  <2>6. OneScanPerTask'
    BY <1>1 DEF Work, OneScanPerTask
  <2>7. ASSUME NEW s \in Scans
        PROVE  (s \in Dispatched' <=> s \in Dispatched) /\ (s \in Queued' <=> s \in Queued)
    <3>1. scan[s].task \in Tasks \cup {NoTask} /\ NoTask \notin Tasks
      BY DEF TypeOK, TableTypes, Rows, Tasks, NoTask
    <3> QED
      BY <1>1, <2>1, <2>2, <2>3, <3>1 DEF Dispatched, Queued, IsDispatched, IsQueued,
                                          DispatchedTaskStates
  <2>8. \A u \in Tasks : WaitsFor(u)' <=> WaitsFor(u)
    BY <1>1 DEF WaitsFor, Scheduled
  <2>9. CarriedScans'
    <3>1. \A s \in Queued' : argOf'[scan'[s].task] = s
      BY <1>1, <2>7 DEF Work, CarriedScans, Queued
    <3>2. ASSUME provider' = "active", NEW u \in Tasks, queue'[u] > 0 PROVE WaitsFor(u)'
      <4>1. queue[u] > 0
        BY <2>2, <2>3, <3>2
      <4> QED
        BY <1>1, <2>8, <3>2, <4>1 DEF Work, CarriedScans
    <3>3. ASSUME provider' = "active", NEW v \in Workers, worker'[v].pc = "begin"
          PROVE  WaitsFor(worker[v].task)'
      <4>1. /\ worker'[v].task \in Tasks
            /\ \A u \in Tasks : u = worker'[v].task => WaitsFor(u)
        <5>1. CASE v = w
          BY <1>1, <1>3, <3>3, <5>1 DEF Work, CarriedScans
        <5>2. CASE v # w
          BY <1>1, <1>3, <2>4, <3>3, <5>2 DEF Work, CarriedScans
        <5> QED
          BY <5>1, <5>2
      <4>2. PICK u \in Tasks : u = worker'[v].task
        BY <4>1
      <4>3. WaitsFor(u)'
        BY <2>8, <4>1, <4>2
      <4> QED
        BY <4>2, <4>3 DEF WaitsFor, Scheduled
    <3> QED
      BY <3>1, <3>2, <3>3 DEF CarriedScans
  <2>10. OneDispatched'
    BY <2>7 DEF Work, OneDispatched, Dispatched
  <2>11. \A v \in Workers : Running(v)' => Running(v) /\ worker'[v] = worker[v]
    BY <1>3 DEF Running
  <2>12. RunningDispatched'
    BY <1>1, <2>7, <2>11 DEF Work, RunningDispatched, Dispatched
  <2> QED
    BY <2>5, <2>6, <2>9, <2>10, <2>11, <2>12 DEF Work, StartsNoScan
<1> QED
  BY <1>2, <1>3, StartFacts

\* scan-perform goes for the scan it names, which waited for it.
LEMMA WorkBegin ==
  ASSUME TypeOK, TypeOK', Work, NEW w \in Workers, BeginManual(w), provider = "active"
  PROVE  Work'
<1> DEFINE t == worker[w].task
           s == argOf[t]
<1>1. /\ worker[w].pc = "begin" /\ ~Scheduled(t) /\ t \in Tasks /\ t # NoTask /\ s \in Scans
      /\ UNCHANGED <<provider, scan, status, argOf, queue>>
  BY DEF BeginManual, At, Scheduled, TypeOK, ProcessTypes, TaskTypes, Tasks, NoTask, scanVars,
         taskVars
<1>2. /\ worker'[w].pc = "enter" /\ worker'[w].scan = s /\ worker'[w].task = t
      /\ \A v \in Workers : v # w => worker'[v] = worker[v]
  BY DEF BeginManual, TypeOK, ProcessTypes, WorkerStates
<1>3. status[t] = "STARTED" /\ scan[s].state = "AVAILABLE" /\ scan[s].task = t
  BY <1>1 DEF Work, OneCarrier, CarriedScans, WaitsFor
<1>4. \A v \in Workers : worker'[v].task = worker[v].task
                         /\ (worker'[v].pc # "idle" => worker[v].pc # "idle")
  BY <1>1, <1>2
<1> HIDE DEF t, s
<1>5. OneCarrier'
  BY <1>1, <1>4 DEF Work, OneCarrier
<1>6. OneScanPerTask'
  BY <1>1 DEF Work, OneScanPerTask
<1>7. Dispatched' = Dispatched /\ Queued' = Queued
  BY <1>1 DEF Dispatched, Queued, IsDispatched, IsQueued
<1>8. CarriedScans'
  <2>1. \A q \in Queued' : argOf'[scan'[q].task] = q
    BY <1>1, <1>7 DEF Work, CarriedScans
  <2>2. \A u \in Tasks : WaitsFor(u)' <=> WaitsFor(u)
    BY <1>1 DEF WaitsFor, Scheduled
  <2>3. \A u \in Tasks : provider' = "active" /\ queue'[u] > 0 => WaitsFor(u)'
    BY <1>1, <2>2 DEF Work, CarriedScans
  <2>4. ASSUME provider' = "active", NEW v \in Workers, worker'[v].pc = "begin"
        PROVE  WaitsFor(worker[v].task)'
    <3>1. v # w /\ worker'[v] = worker[v]
      BY <1>2, <2>4
    <3>2. worker[v].task \in Tasks /\ WaitsFor(worker[v].task)
      BY <1>1, <2>4, <3>1 DEF Work, CarriedScans, TypeOK, ProcessTypes
    <3> QED
      BY <1>1, <3>1, <3>2 DEF WaitsFor, Scheduled
  <2> QED
    BY <2>1, <2>3, <2>4 DEF CarriedScans
<1>9. OneDispatched'
  BY <1>7 DEF Work, OneDispatched
<1>10. RunningDispatched'
  <2>1. s \in Dispatched
    BY <1>1, <1>3 DEF Dispatched, IsDispatched, DispatchedTaskStates
  <2> SUFFICES ASSUME NEW v \in Workers, Running(v)', provider' = "active"
               PROVE  /\ worker'[v].scan \in Dispatched'
                      /\ scan'[worker'[v].scan].task = worker'[v].task
    BY DEF RunningDispatched
  <2>2. CASE v = w
    BY <1>1, <1>2, <1>3, <1>7, <2>1, <2>2
  <2>3. CASE v # w
    <3>1. Running(v) /\ worker'[v] = worker[v]
      BY <1>2, <2>3 DEF Running
    <3> QED
      BY <1>1, <1>7, <3>1 DEF Work, RunningDispatched
  <2> QED
    BY <2>2, <2>3
<1> QED
  BY <1>5, <1>6, <1>8, <1>9, <1>10 DEF Work

\* The scheduled run takes the placeholder p; nothing else was active.
LEMMA WorkRun ==
  ASSUME TypeOK, TypeOK', Fresh, Work, NEW w \in Workers, RunScheduled(w)
  PROVE  Work'
<1> DEFINE t == worker[w].task
<1>1. /\ worker[w].pc = "begin" /\ Scheduled(t) /\ t \in Tasks /\ t # NoTask
      /\ provider = "active" /\ provider' = "active" /\ Dispatched = {} /\ Queued = {}
      /\ \A s \in Scans : scan[s].task # t
  BY DEF RunScheduled, CanRunScheduled, Executed, ActiveScan, At, TypeOK, ProcessTypes, Tasks,
         NoTask
<1>2. UNCHANGED <<status, argOf, queue>> /\ worker'[w].pc = "enter" /\ worker'[w].task = t
  BY RunFacts DEF taskVars
<1>3. PICK p \in Scans :
        /\ worker'[w].scan = p /\ scan'[p].task = t
        /\ scan'[p].state \in {"SCHEDULED", "AVAILABLE"} /\ Unclaimed(scan[p])
        /\ \A s \in Scans \ {p} :
             \/ scan'[s].state = scan[s].state /\ scan'[s].task = scan[s].task
             \/ Unclaimed(scan[s]) /\ Unclaimed(scan'[s])
  BY RunFacts DEF SameClaim
<1>4. \A v \in Workers : v # w => worker'[v] = worker[v]
  BY StepEffects DEF WorkerStep
<1> HIDE DEF t
<1>5. status[t] = "STARTED"
  BY <1>1 DEF Work, OneCarrier, t
<1>6. \A v \in Workers : worker'[v].task = worker[v].task
                         /\ (worker'[v].pc # "idle" => worker[v].pc # "idle")
  BY <1>1, <1>2, <1>4 DEF t
<1>7. OneCarrier'
  BY <1>2, <1>6 DEF Work, OneCarrier
<1>8. OneScanPerTask'
  <2> SUFFICES ASSUME NEW s \in Scans, NEW u \in Scans, scan'[s].task # NoTask,
                      scan'[s].task = scan'[u].task
               PROVE  s = u
    BY DEF OneScanPerTask
  <2>1. \A x \in Scans \ {p} : scan'[x].task \in {scan[x].task, NoTask}
    BY <1>3 DEF Unclaimed
  <2> QED
    BY <1>1, <1>3, <2>1 DEF Work, OneScanPerTask
<1>9. \A s \in Scans \ {p} : s \notin Dispatched' /\ s \notin Queued'
  <2> SUFFICES ASSUME NEW s \in Scans \ {p} PROVE s \notin Dispatched' /\ s \notin Queued'
    OBVIOUS
  <2>1. s \notin Dispatched /\ s \notin Queued
    BY <1>1
  <2>2. CASE scan'[s].state = scan[s].state /\ scan'[s].task = scan[s].task
    BY <1>2, <2>1, <2>2 DEF Dispatched, Queued, IsDispatched, IsQueued
  <2>3. CASE Unclaimed(scan'[s])
    BY <2>3 DEF Dispatched, Queued, IsDispatched, IsQueued, Unclaimed
  <2> QED
    BY <1>3, <2>2, <2>3
<1>10. p \in Dispatched' /\ p \notin Queued'
  BY <1>1, <1>2, <1>3, <1>5 DEF Dispatched, Queued, IsDispatched, IsQueued,
                                DispatchedTaskStates
<1>11. \A u \in Tasks : WaitsFor(u) => WaitsFor(u)'
  <2> SUFFICES ASSUME NEW u \in Tasks, WaitsFor(u), ~Scheduled(u) PROVE WaitsFor(u)'
    BY <1>2 DEF WaitsFor, Scheduled
  <2>1. argOf[u] \in Scans /\ u # NoTask /\ scan[argOf[u]].task = u
        /\ scan[argOf[u]].state = "AVAILABLE"
    BY DEF WaitsFor, Scheduled, TypeOK, TaskTypes, Tasks, NoTask
  <2>2. argOf[u] # p /\ ~Unclaimed(scan[argOf[u]])
    BY <1>3, <2>1 DEF Unclaimed
  <2> QED
    BY <1>2, <1>3, <2>1, <2>2 DEF WaitsFor
<1>12. CarriedScans'
  <2>1. \A q \in Queued' : argOf'[scan'[q].task] = q
    BY <1>9, <1>10 DEF Queued
  <2>2. \A u \in Tasks : queue'[u] > 0 => WaitsFor(u)'
    BY <1>1, <1>2, <1>11 DEF Work, CarriedScans
  <2>3. ASSUME NEW v \in Workers, worker'[v].pc = "begin" PROVE WaitsFor(worker[v].task)'
    <3>1. v # w /\ worker'[v] = worker[v]
      BY <1>2, <1>4, <2>3
    <3>2. worker[v].task \in Tasks /\ WaitsFor(worker[v].task)
      BY <1>1, <2>3, <3>1 DEF Work, CarriedScans, TypeOK, ProcessTypes
    <3>3. PICK u \in Tasks : u = worker[v].task
      BY <3>2
    <3>4. WaitsFor(u)'
      BY <1>11, <3>2, <3>3
    <3> QED
      BY <3>1, <3>3, <3>4 DEF WaitsFor, Scheduled
  <2> QED
    BY <2>1, <2>2, <2>3 DEF CarriedScans
<1>13. OneDispatched'
  BY <1>9 DEF OneDispatched, Dispatched
<1>14. RunningDispatched'
  <2> SUFFICES ASSUME NEW v \in Workers, Running(v)'
               PROVE  /\ worker'[v].scan \in Dispatched'
                      /\ scan'[worker'[v].scan].task = worker'[v].task
    BY DEF RunningDispatched
  <2>1. CASE v = w
    BY <1>2, <1>3, <1>10, <2>1
  <2>2. CASE v # w
    <3>1. Running(v)
      BY <1>4, <2>2 DEF Running
    <3> QED
      BY <1>1, <3>1 DEF Work, RunningDispatched
  <2> QED
    BY <2>1, <2>2
<1> QED
  BY <1>7, <1>8, <1>12, <1>13, <1>14 DEF Work

\* The running scan becomes EXECUTING, or ends.
LEMMA WorkState ==
  ASSUME TypeOK, TypeOK', Work, OneRunner, NEW w \in Workers,
         \/ EnterScan(w) /\ provider = "active" /\ scan[worker[w].scan].state # "none"
         \/ FinishScan(w) /\ scan[worker[w].scan].state # "none"
  PROVE  Work' /\ StartsNoScan
<1> DEFINE s == worker[w].scan
           t == worker[w].task
<1>1. /\ Running(w) /\ s \in Scans /\ t \in Tasks /\ t # NoTask
      /\ UNCHANGED <<provider, status, argOf, queue>>
  BY DEF EnterScan, FinishScan, At, Running, TypeOK, ProcessTypes, Tasks, NoTask, taskVars
<1>2. /\ scan'[s].task = scan[s].task
      /\ \A u \in Scans \ {s} : scan'[u] = scan[u]
      /\ \/ /\ provider = "active" /\ scan'[s].state = "EXECUTING" /\ EnterScan(w)
         \/ scan'[s].state \in {"COMPLETED", "FAILED"} /\ FinishScan(w)
  <2>1. scan \in [Scans -> Rows]
    BY DEF TypeOK, TableTypes
  <2>2. CASE EnterScan(w) /\ provider = "active" /\ scan[s].state # "none"
    BY <1>1, <2>1, <2>2 DEF EnterScan, Rows
  <2>3. CASE FinishScan(w) /\ scan[s].state # "none"
    <3>1. PICK st \in {"COMPLETED", "FAILED"} : scan' = [scan EXCEPT ![s].state = st]
      BY <2>3 DEF FinishScan
    <3> QED
      BY <1>1, <2>1, <2>3, <3>1 DEF Rows
  <2> QED
    BY <2>2, <2>3
<1>3. /\ worker'[w].task = t /\ worker'[w].pc # "begin"
      /\ EnterScan(w) /\ provider = "active" => worker'[w].pc = "scanning" /\ worker'[w].scan = s
      /\ FinishScan(w) => ~Running(w)'
      /\ \A v \in Workers : v # w => worker'[v] = worker[v]
  <2>1. worker \in [Workers -> WorkerStates]
    BY DEF TypeOK, ProcessTypes
  <2>2. CASE EnterScan(w) /\ provider = "active" /\ scan[s].state # "none"
    <3>1. worker[w].pc = "enter" /\ Goto(w, "scanning")
      BY <2>2 DEF EnterScan, At
    <3>2. ~FinishScan(w)
      BY <3>1 DEF FinishScan, At
    <3> QED
      BY <2>1, <3>1, <3>2 DEF Goto, WorkerStates
  <2>3. CASE FinishScan(w)
    <3>1. worker[w].pc = "scanning" /\ (Goto(w, Finally(w)) \/ Fail(w, Finally(w)))
      BY <2>3 DEF FinishScan, At
    <3>2. ~EnterScan(w)
      BY <3>1 DEF EnterScan, At
    <3> QED
      BY <2>1, <3>1, <3>2 DEF Goto, Fail, Finally, Running, WorkerStates
  <2> QED
    BY <2>2, <2>3
<1>4. provider = "active" => s \in Dispatched /\ scan[s].task = t
  BY <1>1 DEF Work, RunningDispatched
<1>5. status[t] = "STARTED"
  BY <1>1 DEF Work, OneCarrier, Running
<1>6. \A v \in Workers : worker'[v].task = worker[v].task
                         /\ (worker'[v].pc # "idle" => worker[v].pc # "idle")
  BY <1>1, <1>3 DEF Running
<1> HIDE DEF s, t
<1>7. OneCarrier'
  BY <1>1, <1>6 DEF Work, OneCarrier
<1>8. OneScanPerTask'
  BY <1>2 DEF Work, OneScanPerTask
<1>9. /\ \A u \in Scans \ {s} : /\ u \in Dispatched' => u \in Dispatched
                                /\ u \in Queued' => u \in Queued
      /\ s \notin Queued' /\ (s \in Dispatched' => scan'[s].state = "EXECUTING")
      /\ scan'[s].state = "EXECUTING" => s \in Dispatched'
  BY <1>1, <1>2 DEF Dispatched, Queued, IsDispatched, IsQueued
<1>10. \A u \in Tasks : provider = "active" /\ WaitsFor(u) /\ u # t => WaitsFor(u)'
  <2> SUFFICES ASSUME NEW u \in Tasks, provider = "active", WaitsFor(u), u # t, ~Scheduled(u)
               PROVE  WaitsFor(u)'
    BY <1>1 DEF WaitsFor, Scheduled
  <2>1. argOf[u] \in Scans /\ argOf[u] # s
    BY <1>4 DEF WaitsFor, Scheduled, TypeOK, TaskTypes
  <2> QED
    BY <1>1, <1>2, <2>1 DEF WaitsFor
<1>11. CarriedScans'
  <2>1. \A q \in Queued' : argOf'[scan'[q].task] = q
    BY <1>1, <1>2, <1>9 DEF Work, CarriedScans, Queued
  <2>2. ASSUME provider' = "active", NEW u \in Tasks, queue'[u] > 0 PROVE WaitsFor(u)'
    <3>1. status[u] = "PENDING" /\ WaitsFor(u)
      BY <1>1, <2>2 DEF Work, OneCarrier, CarriedScans
    <3> QED
      BY <1>1, <1>5, <1>10, <2>2, <3>1
  <2>3. ASSUME provider' = "active", NEW v \in Workers, worker'[v].pc = "begin"
        PROVE  WaitsFor(worker[v].task)'
    <3>1. v # w /\ worker'[v] = worker[v]
      BY <1>3, <2>3
    <3>2. worker[v].task \in Tasks /\ WaitsFor(worker[v].task) /\ worker[v].task # t
      BY <1>1, <2>3, <3>1 DEF Work, CarriedScans, OneCarrier, TypeOK, ProcessTypes, Running, t
    <3>3. PICK u \in Tasks : u = worker[v].task
      BY <3>2
    <3>4. WaitsFor(u)'
      BY <1>1, <1>10, <2>3, <3>2, <3>3
    <3> QED
      BY <3>1, <3>3, <3>4 DEF WaitsFor, Scheduled
  <2> QED
    BY <2>1, <2>2, <2>3 DEF CarriedScans
<1>12. OneDispatched'
  <2>1. s \in Dispatched' => s \in Dispatched
    BY <1>2, <1>4, <1>9
  <2>2. ASSUME NEW u \in Scans, u \in Dispatched' PROVE u \in Dispatched
    <3>1. CASE u = s
      BY <2>1, <2>2, <3>1
    <3>2. CASE u # s
      BY <1>9, <2>2, <3>2
    <3> QED
      BY <3>1, <3>2
  <2> QED
    BY <2>2 DEF Work, OneDispatched, Dispatched
<1>13. StartsNoScan
  BY <1>1, <1>3 DEF StartsNoScan, Running
<1>14. RunningDispatched'
  <2> SUFFICES ASSUME NEW v \in Workers, Running(v)', provider' = "active"
               PROVE  /\ worker'[v].scan \in Dispatched'
                      /\ scan'[worker'[v].scan].task = worker'[v].task
    BY DEF RunningDispatched
  <2>1. Running(v)
    BY <1>13 DEF StartsNoScan
  <2>2. v = w
    BY <1>1, <2>1 DEF OneRunner
  <2>3. worker'[w].scan = s /\ scan'[s].state = "EXECUTING"
    BY <1>1, <1>2, <1>3, <2>2
  <2> QED
    BY <1>1, <1>2, <1>3, <1>4, <1>9, <2>2, <2>3
<1> QED
  BY <1>7, <1>8, <1>11, <1>12, <1>13, <1>14 DEF Work

\* The oldest queued scan becomes the dispatched one.
LEMMA WorkDispatch ==
  ASSUME TypeOK, TypeOK', Fresh, Work, ~clobbered', NEW w \in Workers, DispatchNext(w)
  PROVE  Work' /\ KeepsWorkers
<1>1. CASE UNCHANGED <<status, queue>>
  BY <1>1, WorkQuietWorker
<1> DEFINE q == Min(Queued)
           t == scan[q].task
<1>2. CASE ~UNCHANGED <<status, queue>>
  <2>1. /\ provider = "active" /\ Dispatched = {} /\ Queued # {}
        /\ status' = [status EXCEPT ![t] = "PENDING"]
        /\ queue' = queue \/ queue' = [queue EXCEPT ![t] = @ + 1]
    BY <1>2 DEF DispatchNext
  <2>2. /\ UNCHANGED <<provider, scan, argOf>> /\ WorkerStep(w)
        /\ worker'[w].pc = "finish"
    <3>1. worker \in [Workers -> WorkerStates] /\ Goto(w, "finish")
      BY DEF DispatchNext, TypeOK, ProcessTypes
    <3>2. worker'[w].pc = "finish"
      BY <3>1 DEF Goto, WorkerStates
    <3>3. UNCHANGED <<provider, scan, argOf>>
      BY DEF DispatchNext, scanVars
    <3> QED
      BY <3>2, <3>3 DEF WorkerStep
  <2>3. KeepsWorkers
    BY <2>2, LeavesKeep
  <2>4. /\ q \in Queued /\ q \in Scans /\ t \in Tasks /\ t # NoTask /\ status[t] = "QUEUED"
        /\ scan[q].state = "AVAILABLE"
    BY <2>1, OldestQueued, QueuedTask DEF Tasks, NoTask
  <2> HIDE DEF q
  <2>5. queue[t] = 0
    <3>1. queue[t] \in Nat /\ ~(queue[t] > 0)
      BY <2>4 DEF Work, OneCarrier, TypeOK, TaskTypes
    <3> QED
      BY <3>1
  <2>6. status'[t] = "PENDING" /\ queue'[t] \in {0, 1}
    BY <2>1, <2>4, <2>5 DEF TypeOK, TaskTypes
  <2>7. \A u \in Tasks : u # t => status'[u] = status[u] /\ queue'[u] = queue[u]
    BY <2>1, <2>4 DEF TypeOK, TaskTypes
  <2>8. argOf[t] = q
    BY <2>4 DEF Work, CarriedScans
  <2>9. \A v \in Workers : worker'[v].pc # "idle" =>
          /\ worker[v].pc # "idle" /\ worker'[v].task = worker[v].task
          /\ worker[v].task \in Tasks /\ worker[v].task # t
    BY <2>3, <2>4 DEF KeepsWorkers, KeepsWorker, Work, OneCarrier, TypeOK, ProcessTypes
  <2>10. \A s \in Scans : scan[s].task = t => s = q
    BY <2>4 DEF Work, OneScanPerTask
  <2>11. /\ \A s \in Scans : scan[s].task \in Tasks \cup {NoTask}
         /\ NoTask \notin Tasks
    BY DEF TypeOK, TableTypes, Rows, Tasks, NoTask
  <2> HIDE DEF t
  <2>12. OneCarrier'
    <3>1. ASSUME NEW u \in Tasks, queue'[u] > 0 PROVE queue'[u] = 1 /\ status'[u] = "PENDING"
      BY <2>6, <2>7, <3>1 DEF Work, OneCarrier
    <3>2. ASSUME NEW v \in Workers, worker'[v].pc # "idle"
          PROVE  status'[worker'[v].task] = "STARTED"
      BY <2>7, <2>9, <3>2 DEF Work, OneCarrier
    <3>3. ASSUME NEW v \in Workers, NEW x \in Workers, worker'[v].pc # "idle",
                 worker'[x].pc # "idle", worker'[v].task = worker'[x].task
          PROVE  v = x
      BY <2>9, <3>3 DEF Work, OneCarrier
    <3> QED
      BY <3>1, <3>2, <3>3 DEF OneCarrier
  <2>13. OneScanPerTask'
    BY <2>2 DEF Work, OneScanPerTask
  <2>14. \A s \in Scans \ {q} : s \notin Dispatched' /\ (s \in Queued' => s \in Queued)
    <3> SUFFICES ASSUME NEW s \in Scans \ {q}
                 PROVE  s \notin Dispatched' /\ (s \in Queued' => s \in Queued)
      OBVIOUS
    <3>1. s \notin Dispatched /\ scan[s].task # t
      BY <2>1, <2>10
    <3> QED
      BY <2>2, <2>7, <2>11, <3>1 DEF Dispatched, Queued, IsDispatched, IsQueued
  <2>15. q \notin Queued'
    BY <2>2, <2>4, <2>6 DEF Queued, IsQueued, t
  <2>16. CarriedScans'
    <3>1. \A s \in Queued' : argOf'[scan'[s].task] = s
      BY <2>2, <2>14, <2>15 DEF Work, CarriedScans, Queued
    <3>2. \A u \in Tasks : WaitsFor(u) => WaitsFor(u)'
      BY <2>2 DEF WaitsFor, Scheduled
    <3>3. WaitsFor(t)
      BY <2>4, <2>8 DEF WaitsFor, t
    <3>4. ASSUME NEW u \in Tasks, queue'[u] > 0 PROVE WaitsFor(u)'
      <4>1. WaitsFor(u)
        BY <2>1, <2>7, <3>3, <3>4 DEF Work, CarriedScans
      <4> QED
        BY <3>2, <4>1
    <3>5. ASSUME NEW v \in Workers, worker'[v].pc = "begin" PROVE WaitsFor(worker[v].task)'
      <4>1. worker[v].pc = "begin" /\ worker'[v].task = worker[v].task
        BY <2>3, <3>5 DEF KeepsWorkers, KeepsWorker
      <4>2. worker[v].task \in Tasks /\ WaitsFor(worker[v].task)
        BY <2>1, <4>1 DEF Work, CarriedScans, TypeOK, ProcessTypes
      <4> QED
        BY <2>2, <4>1, <4>2 DEF WaitsFor, Scheduled
    <3> QED
      BY <3>1, <3>4, <3>5 DEF CarriedScans
  <2>17. OneDispatched'
    BY <2>14 DEF OneDispatched, Dispatched
  <2>18. RunningDispatched'
    BY <2>1, <2>3 DEF Work, RunningDispatched, KeepsWorkers, KeepsWorker, Running
  <2> QED
    BY <2>3, <2>12, <2>13, <2>16, <2>17, <2>18 DEF Work
<1> QED
  BY <1>1, <1>2

LEMMA WorkStep ==
  ASSUME TypeOK, TypeOK', Fresh, Work, OneRunner, [Next]_vars, Undisturbed'
  PROVE  Work' /\ OneRunner'
<1>1. ~clobbered' /\ \A t \in Tasks : ~Redeliver(t)
  BY UndisturbedStep
<1>2. ASSUME Work', KeepsWorkers \/ StartsNoScan PROVE Work' /\ OneRunner'
  BY <1>2, RunnerKept
<1>3. ASSUME NEW w \in Workers, WorkerStep(w) PROVE Work' /\ OneRunner'
  <2>1. CASE BeginManual(w) \/ RunScheduled(w)
    <3>1. CASE BeginManual(w) /\ provider # "active"
      BY <1>1, <1>2, <3>1, WorkQuietWorker
    <3>2. CASE ~(BeginManual(w) /\ provider # "active")
      <4>1. Work'
        BY <2>1, <3>2, WorkBegin, WorkRun
      <4>2. provider' = "active"
        BY <2>1, <3>2 DEF BeginManual, RunScheduled, CanRunScheduled
      <4> QED
        BY <4>1, <4>2, OneRunnerWhileActive
    <3> QED
      BY <3>1, <3>2
  <2>2. CASE EnterScan(w) \/ FinishScan(w)
    BY <1>1, <1>2, <2>2, WorkState, WorkQuietWorker
  <2>3. CASE QueueScheduled(w) \/ DispatchNext(w)
    BY <1>1, <1>2, <2>3, WorkQueue, WorkDispatch
  <2>4. CASE SkipScheduled(w) \/ EnsureRead(w) \/ EnsureWrite(w) \/ FinishTask(w)
    BY <1>1, <1>2, <2>4, WorkQuietWorker
  <2> QED
    BY <1>3, <2>1, <2>2, <2>3, <2>4 DEF WorkerStep
<1>4. ASSUME NEW w \in Workers, DbError(w) \/ Crash(w) PROVE Work' /\ OneRunner'
  BY <1>1, <1>2, <1>4, WorkQuietWorker
<1>5. ASSUME NEW w \in Workers, NEW t \in Tasks, Start(w, t) PROVE Work' /\ OneRunner'
  BY <1>2, <1>5, WorkStart
<1>6. CASE \/ CreateScan \/ BeatFire
           \/ \E on, daily \in BOOLEAN : UpsertRead(on, daily)
  BY <1>2, <1>6, WorkCreate, WorkNewTask
<1>7. CASE \/ RemoveSchedule \/ UpsertCommit \/ \E t \in Tasks : RevokeTask(t)
           \/ DeleteProvider \/ PurgeScans \/ PurgeProvider
  BY <1>1, <1>2, <1>7, WorkApi
<1>8. CASE UNCHANGED vars
  <2>1. UNCHANGED <<provider, scan, status, queue, argOf, worker>>
    BY <1>8 DEF vars, scanVars, taskVars
  <2> QED
    BY <1>2, <2>1, SameKeeps, WorkKept
<1> QED
  BY <1>1, <1>3, <1>4, <1>5, <1>6, <1>7, <1>8 DEF Next

LEMMA FlightInit == Init => SingleFlightInv
<1> SUFFICES ASSUME Init PROVE SingleFlightInv
  OBVIOUS
<1>1. /\ TypeOK /\ provider = "active" /\ periodic \in {0, 1} /\ nextScan = periodic + 1
      /\ nextTask = 1 /\ edit.keep = NoScan
      /\ \A w \in Workers : /\ worker[w].pc = "idle" /\ worker[w].task = NoTask
                            /\ worker[w].keep = NoScan
      /\ \A t \in Tasks : status[t] = "none" /\ argOf[t] = NoScan /\ queue[t] = 0
  BY TypeInit DEF Init, Idle, NoEdit
<1>2. /\ \A s \in Scans : scan[s].task = NoTask /\ scan[s].state \in {"none", "SCHEDULED"}
      /\ \A s \in Scans : s >= nextScan => scan[s] = NoRow
  BY UnclaimedRows DEF Init, Scans
<1>3. Fresh
  BY <1>1, <1>2 DEF Fresh, FreshScans, FreshTasks, NoTask, NoScan
<1>4. Dispatched = {} /\ Queued = {}
  BY <1>2 DEF Dispatched, Queued, IsDispatched, IsQueued
<1>5. Work
  BY <1>1, <1>2, <1>4
  DEF Work, OneCarrier, OneScanPerTask, CarriedScans, OneDispatched, RunningDispatched, Running
<1>6. SingleFlight
  BY <1>1 DEF SingleFlight, Running
<1> QED
  BY <1>1, <1>3, <1>5, <1>6 DEF SingleFlightInv

LEMMA FlightStep == SingleFlightInv /\ [Next]_vars => SingleFlightInv'
<1> SUFFICES ASSUME SingleFlightInv, [Next]_vars PROVE SingleFlightInv'
  OBVIOUS
<1>1. TypeOK /\ Fresh /\ (Undisturbed => Work) /\ (Undisturbed => OneRunner)
  BY DEF SingleFlightInv, SingleFlight, OneRunner
<1>2. TypeOK'
  BY <1>1, TypeStep
<1>3. Fresh'
  BY <1>1, <1>2, FreshStep
<1>4. Undisturbed' => Work' /\ OneRunner'
  BY <1>1, <1>2, UndisturbedStep, WorkStep
<1> QED
  BY <1>2, <1>3, <1>4 DEF SingleFlightInv, SingleFlight, OneRunner

\* At most one worker runs a scan of the provider, whatever crashes,
\* revocations, lost publishes and failed transactions happen, as long as no
\* stale save and no second delivery has happened: the dispatcher of
\* tasks/tasks.py and tasks/jobs/queue.py, for every number of workers, scans
\* and tasks.
THEOREM ScansRunAlone == Spec => []SingleFlight
<1>1. SingleFlightInv => SingleFlight
  BY DEF SingleFlightInv
<1> QED
  BY <1>1, FlightInit, FlightStep, PTL DEF Spec

-----------------------------------------------------------------------------
(* One scan per task, in every execution: a second delivery finds the scan of *)
(* its task, and a stale save only detaches one.                              *)

LoseTasks(S) == \A s \in S : scan'[s].task \in {scan[s].task, NoTask}
ClaimTask(n) == /\ LoseTasks(Scans \ {n})
                /\ \A s \in Scans : scan[s].task # scan'[n].task

LEMMA ClaimsByWorker ==
  ASSUME TypeOK, Fresh, NEW w \in Workers, WorkerStep(w) \/ DbError(w) \/ Crash(w)
  PROVE  LoseTasks(Scans) \/ \E n \in Scans : ClaimTask(n)
<1>1. CASE SkipScheduled(w) \/ EnsureWrite(w)
  BY <1>1, SkipTidy, EnsureTidy DEF Tidy, SameClaim, LoseTasks, Unclaimed
<1>2. CASE EnterScan(w) \/ FinishScan(w)
  <2>1. scan' = scan \/ \E st : scan' = [scan EXCEPT ![worker[w].scan].state = st]
    BY <1>2 DEF EnterScan, FinishScan
  <2>2. CASE scan' = scan
    BY <2>2 DEF LoseTasks
  <2>3. CASE \E st : scan' = [scan EXCEPT ![worker[w].scan].state = st]
    <3>1. PICK st : scan' = [scan EXCEPT ![worker[w].scan].state = st]
      BY <2>3
    <3>2. \A s \in Scans : scan'[s].task = scan[s].task
      BY <3>1, TableFacts DEF Rows
    <3> QED
      BY <3>2 DEF LoseTasks
  <2> QED
    BY <2>1, <2>2, <2>3
<1>3. CASE RunScheduled(w)
  <2>1. PICK p \in Scans :
          /\ scan'[p].task = worker[w].task
          /\ \A s \in Scans \ {p} :
               \/ scan'[s].state = scan[s].state /\ scan'[s].task = scan[s].task
               \/ Unclaimed(scan[s]) /\ Unclaimed(scan'[s])
    BY <1>3, RunFacts DEF SameClaim
  <2>2. \A s \in Scans : scan[s].task # worker[w].task
    BY <1>3 DEF RunScheduled, CanRunScheduled, Executed
  <2> QED
    BY <2>1, <2>2 DEF ClaimTask, LoseTasks, Unclaimed
<1>4. CASE QueueScheduled(w)
  <2>1. CASE Alike(scan, scan')
    BY <2>1 DEF Alike, SameClaim, LoseTasks, Unclaimed
  <2>2. CASE Alike(WithQueued, scan') /\ nextScan \in Scans
    <3>1. /\ WithQueued[nextScan].task = nextTask
          /\ \A s \in Scans \ {nextScan} : WithQueued[s] = scan[s]
      BY <2>2, TableFacts DEF WithQueued, QueuedRow
    <3>2. nextTask # NoTask /\ \A s \in Scans : scan[s].task # nextTask
      BY TaskOrder
    <3>3. scan'[nextScan].task = nextTask
      BY <2>2, <3>1, <3>2 DEF Alike, SameClaim, Unclaimed
    <3>4. ClaimTask(nextScan)
      BY <2>2, <3>1, <3>2, <3>3 DEF ClaimTask, LoseTasks, Alike, SameClaim, Unclaimed
    <3> QED
      BY <2>2, <3>4
  <2> QED
    BY <1>4, <2>1, <2>2, QueueFacts
<1>5. CASE scan' = scan
  BY <1>5 DEF LoseTasks
<1> QED
  BY <1>1, <1>2, <1>3, <1>4, <1>5
  DEF WorkerStep, BeginManual, EnsureRead, DispatchNext, FinishTask, DbError, Crash, scanVars

LEMMA Claims ==
  ASSUME TypeOK, Fresh, [Next]_vars
  PROVE  LoseTasks(Scans) \/ \E n \in Scans : ClaimTask(n)
<1>1. CASE RemoveSchedule \/ UpsertCommit
  BY <1>1, RemoveTidy, UpsertTidy DEF Tidy, SameClaim, LoseTasks, Unclaimed
<1>2. CASE CreateScan
  <2> DEFINE r == [state |-> "AVAILABLE", trigger |-> "manual", task |-> nextTask, beat |-> 0]
  <2>1. nextScan \in Scans /\ scan' = [scan EXCEPT ![nextScan] = r] /\ r.task = nextTask
    BY <1>2 DEF CreateScan
  <2> HIDE DEF r
  <2>2. \A s \in Scans : scan[s].task # nextTask
    BY TaskOrder
  <2>3. ClaimTask(nextScan)
    BY <2>1, <2>2, TableFacts DEF ClaimTask, LoseTasks
  <2> QED
    BY <2>1, <2>3
<1>3. CASE PurgeScans \/ PurgeProvider
  BY <1>3, UnclaimedRows DEF PurgeScans, PurgeProvider, LoseTasks
<1>4. CASE scan' = scan
  BY <1>4 DEF LoseTasks
<1> QED
  BY <1>1, <1>2, <1>3, <1>4, ClaimsByWorker
  DEF Next, BeatFire, UpsertRead, RevokeTask, Redeliver, Start, DeleteProvider, vars, scanVars

OneScanPerTaskInv == TypeOK /\ Fresh /\ OneScanPerTask

LEMMA OneScanPerTaskStep == OneScanPerTaskInv /\ [Next]_vars => OneScanPerTaskInv'
<1> SUFFICES ASSUME TypeOK, Fresh, OneScanPerTask, [Next]_vars PROVE OneScanPerTaskInv'
  BY DEF OneScanPerTaskInv
<1>1. TypeOK' /\ Fresh'
  BY TypeStep, FreshStep
<1>2. ASSUME LoseTasks(Scans) PROVE OneScanPerTask'
  BY <1>2 DEF LoseTasks, OneScanPerTask
<1>3. ASSUME NEW n \in Scans, ClaimTask(n) PROVE OneScanPerTask'
  BY <1>3 DEF ClaimTask, LoseTasks, OneScanPerTask
<1> QED
  BY <1>1, <1>2, <1>3, Claims DEF OneScanPerTaskInv

\* However often a message is delivered, its task runs one scan, unless a stale
\* save has detached the scan it ran: the guard on duplicated executions in
\* perform_scheduled_scan_task, together with the fresh task of every run that
\* is queued.
THEOREM OneRunPerTask == Spec => []OneRunPerScheduledTask
<1>1. Init => OneScanPerTaskInv
  <2> SUFFICES ASSUME Init PROVE OneScanPerTask
    BY FlightInit DEF SingleFlightInv, OneScanPerTaskInv
  <2>1. \A s \in Scans : scan[s].task = NoTask
    BY UnclaimedRows DEF Init
  <2> QED
    BY <2>1 DEF OneScanPerTask
<1>2. OneScanPerTaskInv => OneRunPerScheduledTask
  BY DEF OneScanPerTaskInv, OneRunPerScheduledTask
<1> QED
  BY <1>1, <1>2, OneScanPerTaskStep, PTL DEF Spec

-----------------------------------------------------------------------------
(* The queue of ScanQueue: which steps move it, and how *)

QueueStep == SQ!Next \/ UNCHANGED <<Queued, Dispatched>>

\* The tasks that scans have claimed stay as they are, start or end.
ClaimedTasksMoveOn ==
  \A s \in Scans :
    scan[s].task # NoTask =>
      \/ status'[scan[s].task] = status[scan[s].task]
      \/ /\ status[scan[s].task] \in {"PENDING", "STARTED"}
         /\ status'[scan[s].task] # "QUEUED"

\* A scan whose row and task move on keeps its place or leaves the dispatched ones.
LEMMA PlaceKept ==
  ASSUME ClaimedTasksMoveOn, NEW s \in Scans,
         \/ scan'[s].state = scan[s].state /\ scan'[s].task = scan[s].task
         \/ Unclaimed(scan[s]) /\ Unclaimed(scan'[s])
  PROVE  (s \in Queued' <=> s \in Queued) /\ (s \in Dispatched' => s \in Dispatched)
<1>1. CASE scan'[s].state = scan[s].state /\ scan'[s].task = scan[s].task
  BY <1>1 DEF ClaimedTasksMoveOn, Dispatched, Queued, IsDispatched, IsQueued,
              DispatchedTaskStates
<1>2. CASE Unclaimed(scan[s]) /\ Unclaimed(scan'[s])
  BY <1>2 DEF Unclaimed, Dispatched, Queued, IsDispatched, IsQueued
<1> QED
  BY <1>1, <1>2

\* The dispatched scan ends, if anything happens at all.
LEMMA ShrinkingStep ==
  ASSUME OneDispatched, Queued' = Queued, Dispatched' \subseteq Dispatched
  PROVE  QueueStep
<1>1. Dispatched' = Dispatched \/ (Dispatched' = {} /\ Dispatched # {})
  BY DEF OneDispatched
<1> QED
  BY <1>1 DEF QueueStep, SQ!Next, SQ!Finish

LEMMA MovingOnStep ==
  ASSUME OneDispatched, ClaimedTasksMoveOn, Alike(scan, scan')
  PROVE  QueueStep
<1>1. \A s \in Scans : (s \in Queued' <=> s \in Queued) /\ (s \in Dispatched' => s \in Dispatched)
  BY PlaceKept DEF Alike, SameClaim
<1>2. Queued \subseteq Scans /\ Queued' \subseteq Scans /\ Dispatched' \subseteq Scans
  BY DEF Queued, Dispatched
<1> QED
  BY <1>1, <1>2, ShrinkingStep

\* The steps that hand out no task to a scan, claim no scan and promote none.
LEMMA StatusMovesOn ==
  ASSUME TypeOK, Fresh, Work, NEW t \in Tasks, NEW st \in TaskStatuses \ {"QUEUED"},
         status' = [status EXCEPT ![t] = st],
         status[t] \in {"PENDING", "STARTED"} \/ t >= nextTask
  PROVE  ClaimedTasksMoveOn
<1>1. \A s \in Scans : scan[s].task = t => ~(t >= nextTask)
  BY TaskOrder DEF Tasks
<1> QED
  BY <1>1 DEF ClaimedTasksMoveOn, TypeOK, TaskTypes

LEMMA SameTasksMoveOn ==
  ASSUME status' = status
  PROVE  ClaimedTasksMoveOn
BY DEF ClaimedTasksMoveOn

\* A scan is inserted with a task of its own: it runs at once or joins the queue.
LEMMA InsertedStep ==
  ASSUME TypeOK, Fresh, nextScan \in Scans, nextTask \in Tasks, NEW row \in Rows,
         row.state = "AVAILABLE", row.task = nextTask,
         Alike([scan EXCEPT ![nextScan] = row], scan'),
         NEW st \in {"QUEUED", "PENDING"}, ActiveScan <=> st = "QUEUED",
         status' = [status EXCEPT ![nextTask] = st]
  PROVE  /\ QueueStep
         /\ Queued' = IF ActiveScan THEN Queued \cup {nextScan} ELSE Queued
<1> DEFINE n == nextScan
<1>1. /\ scan \in [Scans -> Rows] /\ status \in [Tasks -> TaskStatuses]
      /\ NoTask \notin Tasks
  BY DEF TypeOK, TableTypes, TaskTypes, Tasks, NoTask
<1>2. scan'[n].state = "AVAILABLE" /\ scan'[n].task = nextTask
  BY <1>1 DEF Alike, SameClaim, Unclaimed
<1>3. status'[nextTask] = st
  BY <1>1
<1>4. n \notin Queued \cup Dispatched
  <2>1. scan[n] = NoRow
    BY TableFacts DEF WellKept
  <2> QED
    BY <2>1, UnclaimedRows DEF Queued, Dispatched, IsQueued, IsDispatched
<1>5. \A s \in Scans \ {n} : (s \in Queued' <=> s \in Queued)
                             /\ (s \in Dispatched' <=> s \in Dispatched)
  <2> SUFFICES ASSUME NEW s \in Scans \ {n}
               PROVE  (s \in Queued' <=> s \in Queued) /\ (s \in Dispatched' <=> s \in Dispatched)
    OBVIOUS
  <2>1. \/ scan'[s].state = scan[s].state /\ scan'[s].task = scan[s].task
        \/ Unclaimed(scan[s]) /\ Unclaimed(scan'[s])
    BY <1>1 DEF Alike, SameClaim
  <2>2. scan[s].task # NoTask => status'[scan[s].task] = status[scan[s].task]
    <3>1. scan[s].task # nextTask
      BY TaskOrder
    <3> QED
      BY <1>1, <3>1 DEF Rows
  <2>3. CASE scan'[s].state = scan[s].state /\ scan'[s].task = scan[s].task
    BY <2>2, <2>3 DEF Dispatched, Queued, IsDispatched, IsQueued
  <2>4. CASE Unclaimed(scan[s]) /\ Unclaimed(scan'[s])
    BY <2>4 DEF Unclaimed, Dispatched, Queued, IsDispatched, IsQueued
  <2> QED
    BY <2>1, <2>3, <2>4
<1>6. /\ st = "QUEUED" => n \in Queued' /\ n \notin Dispatched'
      /\ st = "PENDING" => n \notin Queued' /\ n \in Dispatched'
  BY <1>1, <1>2, <1>3 DEF Dispatched, Queued, IsDispatched, IsQueued, DispatchedTaskStates
<1>7. /\ Queued \subseteq Scans /\ Queued' \subseteq Scans
      /\ Dispatched \subseteq Scans /\ Dispatched' \subseteq Scans
  BY DEF Queued, Dispatched
<1>8. \A q \in Queued : q < n
  BY <1>7, TableFacts, UnclaimedRows DEF Queued, IsQueued
<1>9. CASE ActiveScan
  <2>1. Queued' = Queued \cup {n} /\ Dispatched' = Dispatched
    BY <1>4, <1>5, <1>6, <1>7, <1>9
  <2>2. SQ!Submit(n)
    BY <1>4, <1>8, <1>9, <2>1 DEF SQ!Submit, ActiveScan
  <2> QED
    BY <1>9, <2>1, <2>2 DEF QueueStep, SQ!Next
<1>10. CASE ~ActiveScan
  <2>1. Queued = {} /\ Dispatched = {}
    BY <1>10 DEF ActiveScan
  <2>2. Queued' = Queued /\ Dispatched' = {n}
    BY <1>4, <1>5, <1>6, <1>7, <1>10, <2>1
  <2>3. SQ!Submit(n)
    BY <1>4, <2>1, <2>2 DEF SQ!Submit
  <2> QED
    BY <1>10, <2>2, <2>3 DEF QueueStep, SQ!Next
<1> QED
  BY <1>9, <1>10

LEMMA CreateStep ==
  ASSUME TypeOK, Fresh, CreateScan
  PROVE  QueueStep /\ Queued' = IF ActiveScan THEN Queued \cup {nextScan} ELSE Queued
<1> DEFINE r == [state |-> "AVAILABLE", trigger |-> "manual", task |-> nextTask, beat |-> 0]
           st == IF ActiveScan THEN "QUEUED" ELSE "PENDING"
<1>1. /\ nextScan \in Scans /\ nextTask \in Tasks
      /\ scan' = [scan EXCEPT ![nextScan] = r] /\ status' = [status EXCEPT ![nextTask] = st]
  BY DEF CreateScan
<1>2. /\ r \in Rows /\ r.state = "AVAILABLE" /\ r.task = nextTask
      /\ st \in {"QUEUED", "PENDING"} /\ (ActiveScan <=> st = "QUEUED")
  BY <1>1 DEF Rows, ScanStates
<1> HIDE DEF r, st
<1>3. Alike([scan EXCEPT ![nextScan] = r], scan')
  BY <1>1 DEF Alike, SameClaim
<1> QED
  BY <1>1, <1>2, <1>3, InsertedStep

LEMMA QueueScheduledStep ==
  ASSUME TypeOK, Fresh, Work, NEW w \in Workers, QueueScheduled(w)
  PROVE  QueueStep
<1>1. CASE Alike(scan, scan') /\ UNCHANGED <<status, argOf, nextTask>>
  BY <1>1, SameTasksMoveOn, MovingOnStep DEF Work
<1>2. CASE /\ Alike(WithQueued, scan') /\ nextScan \in Scans /\ nextTask \in Tasks
           /\ status' = [status EXCEPT ![nextTask] = "QUEUED"]
  <2>1. QueuedRow \in Rows /\ QueuedRow.state = "AVAILABLE" /\ QueuedRow.task = nextTask
    BY <1>2, TableFacts DEF QueuedRow, Rows, ScanStates
  <2>2. ActiveScan
    BY DEF QueueScheduled
  <2> QED
    BY <1>2, <2>1, <2>2, InsertedStep DEF WithQueued
<1> QED
  BY <1>1, <1>2, QueueFacts

\* The scheduled run that finds nothing active takes a placeholder and runs.
LEMMA RunScheduledStep ==
  ASSUME TypeOK, Fresh, Work, NEW w \in Workers, RunScheduled(w)
  PROVE  QueueStep
<1>1. PICK p \in Scans :
        /\ scan'[p].task = worker[w].task
        /\ scan'[p].state \in {"SCHEDULED", "AVAILABLE"} /\ Unclaimed(scan[p])
        /\ \A s \in Scans \ {p} :
             \/ scan'[s].state = scan[s].state /\ scan'[s].task = scan[s].task
             \/ Unclaimed(scan[s]) /\ Unclaimed(scan'[s])
  BY RunFacts DEF SameClaim
<1>2. Queued = {} /\ Dispatched = {} /\ status' = status
  BY RunFacts DEF RunScheduled, ActiveScan, taskVars
<1>3. /\ worker[w].pc # "idle" /\ worker[w].task \in Tasks /\ worker[w].task # NoTask
      /\ status[worker[w].task] = "STARTED"
  <2>1. worker[w].pc = "begin"
    BY DEF RunScheduled, CanRunScheduled, At
  <2> QED
    BY <2>1, WorkerFacts DEF Work, OneCarrier, TypeOK, Tasks, NoTask
<1>4. \A s \in Scans \ {p} : s \notin Queued' /\ s \notin Dispatched'
  BY <1>1, <1>2, SameTasksMoveOn, PlaceKept
<1>5. p \in Dispatched' /\ p \notin Queued'
  BY <1>1, <1>2, <1>3 DEF Dispatched, Queued, IsDispatched, IsQueued, DispatchedTaskStates
<1>6. Queued' = {} /\ Dispatched' = {p}
  BY <1>4, <1>5 DEF Queued, Dispatched
<1>7. SQ!Submit(p)
  BY <1>2, <1>6 DEF SQ!Submit
<1> QED
  BY <1>7 DEF QueueStep, SQ!Next

\* The oldest queued scan becomes the dispatched one.
LEMMA DispatchStep ==
  ASSUME TypeOK, Fresh, Work, NEW w \in Workers, DispatchNext(w)
  PROVE  QueueStep
<1> DEFINE q == Min(Queued)
           t == scan[q].task
<1>1. CASE ~(provider = "active" /\ Dispatched = {} /\ Queued # {})
  <2>1. status' = status /\ scan' = scan
    BY <1>1 DEF DispatchNext, scanVars
  <2> QED
    BY <2>1, SameTasksMoveOn, MovingOnStep DEF Work, Alike, SameClaim
<1>2. CASE provider = "active" /\ Dispatched = {} /\ Queued # {}
  <2>1. status' = [status EXCEPT ![t] = "PENDING"] /\ scan' = scan
    BY <1>2 DEF DispatchNext, scanVars
  <2>2. /\ q \in Queued /\ q \in Scans /\ t \in Tasks /\ t # NoTask
        /\ scan[q].state = "AVAILABLE"
    BY <1>2, OldestQueued, QueuedTask DEF Tasks, NoTask
  <2> HIDE DEF q
  <2>3. status'[t] = "PENDING"
    BY <2>1, <2>2 DEF TypeOK, TaskTypes
  <2>4. q \in Dispatched' /\ q \notin Queued'
    BY <2>1, <2>2, <2>3 DEF Dispatched, Queued, IsDispatched, IsQueued, DispatchedTaskStates
  <2>5. \A s \in Scans \ {q} : (s \in Queued' <=> s \in Queued) /\ s \notin Dispatched'
    <3> SUFFICES ASSUME NEW s \in Scans \ {q}
                 PROVE  (s \in Queued' <=> s \in Queued) /\ s \notin Dispatched'
      OBVIOUS
    <3>1. s \notin Dispatched /\ scan[s].task # t
      BY <1>2, <2>2 DEF Work, OneScanPerTask
    <3>2. scan[s].task # NoTask => status'[scan[s].task] = status[scan[s].task]
      BY <2>1, <2>2, <3>1 DEF TypeOK, TableTypes, TaskTypes, Rows
    <3> QED
      BY <2>1, <3>1, <3>2 DEF Dispatched, Queued, IsDispatched, IsQueued
  <2>6. Dispatched' = {q} /\ Queued' = Queued \ {q}
    BY <2>2, <2>4, <2>5 DEF Queued, Dispatched
  <2>7. SQ!Min(Queued) = q
    BY DEF SQ!Min, Min, q
  <2>8. SQ!Promote
    BY <1>2, <2>6, <2>7 DEF SQ!Promote
  <2> QED
    BY <2>8 DEF QueueStep, SQ!Next
<1> QED
  BY <1>1, <1>2

-----------------------------------------------------------------------------
(* What a worker runs has not ended and does not wait, not even when the     *)
(* provider is deleted under it.                                              *)

Finished(r) == r.state \in {"COMPLETED", "FAILED"}

RunnersUnfinished ==
  \A w \in Workers : Running(w) => /\ worker[w].scan \notin Queued
                                   /\ ~Finished(scan[worker[w].scan])

QueueInv == SingleFlightInv /\ (Undisturbed => RunnersUnfinished)

\* With a provider this follows from SingleFlightInv.
LEMMA RunnersWhileActive ==
  ASSUME Work', provider' = "active"
  PROVE  RunnersUnfinished'
<1>1. \A s \in Dispatched' : s \notin Queued' /\ ~Finished(scan'[s])
  BY DEF Queued, Dispatched, IsQueued, IsDispatched, DispatchedTaskStates, Finished
<1> QED
  BY <1>1 DEF RunnersUnfinished, Work, RunningDispatched, Running, Finished

\* Without one, workers start no scan and scans only leave the queue.
LEMMA RunnersKept ==
  ASSUME TypeOK, RunnersUnfinished, KeepsWorkers,
         \A s \in Scans : (s \in Queued' => s \in Queued)
                          /\ (Finished(scan'[s]) => Finished(scan[s]))
  PROVE  RunnersUnfinished'
<1> SUFFICES ASSUME NEW w \in Workers, Running(w)'
             PROVE  worker'[w].scan \notin Queued' /\ ~Finished(scan'[worker'[w].scan])
  BY DEF RunnersUnfinished, Finished
<1>1. Running(w) /\ worker'[w].scan = worker[w].scan
  BY DEF KeepsWorkers, KeepsWorker, Running
<1>2. worker[w].scan \in Scans
  BY <1>1 DEF TypeOK, ProcessTypes, Running
<1> QED
  BY <1>1, <1>2 DEF RunnersUnfinished

LEMMA RowsRest ==
  ASSUME Alike(scan, scan')
  PROVE  \A s \in Scans : Finished(scan'[s]) <=> Finished(scan[s])
BY DEF Alike, SameClaim, Unclaimed, Finished

LEMMA RunnersKeptAlike ==
  ASSUME TypeOK, RunnersUnfinished, KeepsWorkers, ClaimedTasksMoveOn, Alike(scan, scan')
  PROVE  RunnersUnfinished'
<1>1. \A s \in Scans : s \in Queued' => s \in Queued
  BY PlaceKept DEF Alike, SameClaim
<1> QED
  BY <1>1, RowsRest, RunnersKept

\* Steps that write the table but claim no scan, and those that do not write it.
LEMMA QuietAlike ==
  ASSUME TypeOK, Fresh, ~clobbered',
         \/ RemoveSchedule \/ UpsertCommit \/ DeleteProvider \/ BeatFire
         \/ \E on, daily \in BOOLEAN : UpsertRead(on, daily)
         \/ \E t \in Tasks : RevokeTask(t) \/ \E w \in Workers : Start(w, t)
         \/ \E w \in Workers : \/ SkipScheduled(w) \/ EnsureRead(w) \/ EnsureWrite(w)
                               \/ BeginManual(w) \/ DispatchNext(w) \/ FinishTask(w)
                               \/ DbError(w) \/ Crash(w)
         \/ UNCHANGED vars
  PROVE  Alike(scan, scan')
<1>1. CASE \/ RemoveSchedule \/ UpsertCommit
           \/ \E w \in Workers : SkipScheduled(w) \/ EnsureWrite(w)
  BY <1>1, RemoveTidy, UpsertTidy, SkipTidy, EnsureTidy DEF Tidy, SameClaim
<1>2. CASE \/ DeleteProvider \/ BeatFire
           \/ \E on, daily \in BOOLEAN : UpsertRead(on, daily)
           \/ \E t \in Tasks : RevokeTask(t) \/ \E w \in Workers : Start(w, t)
           \/ \E w \in Workers : \/ EnsureRead(w) \/ BeginManual(w) \/ DispatchNext(w)
                                 \/ FinishTask(w) \/ DbError(w) \/ Crash(w)
           \/ UNCHANGED vars
  <2>1. scan' = scan
    BY <1>2 DEF DeleteProvider, BeatFire, UpsertRead, RevokeTask, Start, EnsureRead,
                BeginManual, DispatchNext, FinishTask, DbError, Crash, vars, scanVars
  <2> QED
    BY <2>1 DEF Alike, SameClaim
<1> QED
  BY <1>1, <1>2

\* All of them but DispatchNext let the claimed tasks move on.
LEMMA QuietMovesOn ==
  ASSUME TypeOK, Fresh, Work,
         \/ RemoveSchedule \/ UpsertCommit \/ DeleteProvider \/ BeatFire
         \/ \E on, daily \in BOOLEAN : UpsertRead(on, daily)
         \/ \E t \in Tasks : RevokeTask(t) \/ \E w \in Workers : Start(w, t)
         \/ \E w \in Workers : \/ SkipScheduled(w) \/ EnsureRead(w) \/ EnsureWrite(w)
                               \/ BeginManual(w) \/ FinishTask(w) \/ DbError(w) \/ Crash(w)
         \/ UNCHANGED vars
  PROVE  ClaimedTasksMoveOn
<1>1. nextTask \in Nat
  BY TaskOrder
<1>2. CASE BeatFire \/ \E on, daily \in BOOLEAN : UpsertRead(on, daily)
  <2>1. \/ status' = status
        \/ nextTask \in Tasks /\ status' = [status EXCEPT ![nextTask] = "PENDING"]
    BY <1>2 DEF BeatFire, UpsertRead
  <2> QED
    BY <1>1, <2>1, SameTasksMoveOn, StatusMovesOn DEF TaskStatuses
<1>3. ASSUME NEW t \in Tasks, NEW w \in Workers, Start(w, t) PROVE ClaimedTasksMoveOn
  <2>1. status[t] = "PENDING"
    BY <1>3, StartFacts DEF Work, OneCarrier
  <2>2. \/ status' = [status EXCEPT ![t] = "REVOKED"]
        \/ status' = [status EXCEPT ![t] = "STARTED"]
    BY <1>3, StartFacts
  <2> QED
    BY <2>1, <2>2, StatusMovesOn DEF TaskStatuses
<1>4. ASSUME NEW w \in Workers, FinishTask(w) \/ Crash(w) PROVE ClaimedTasksMoveOn
  <2>1. worker[w].pc # "idle" /\ worker[w].task \in Tasks /\ status[worker[w].task] = "STARTED"
    BY <1>4, WorkerFacts DEF FinishTask, Crash, At, Work, OneCarrier, TypeOK
  <2>2. \/ status' = status
        \/ \E st \in {"SUCCESS", "FAILURE"} : status' = [status EXCEPT ![worker[w].task] = st]
    BY <1>4 DEF FinishTask, Crash
  <2> QED
    BY <2>1, <2>2, SameTasksMoveOn, StatusMovesOn DEF TaskStatuses
<1>5. CASE \/ RemoveSchedule \/ UpsertCommit \/ DeleteProvider
           \/ \E t \in Tasks : RevokeTask(t)
           \/ \E w \in Workers : \/ SkipScheduled(w) \/ EnsureRead(w) \/ EnsureWrite(w)
                                 \/ BeginManual(w) \/ DbError(w)
           \/ UNCHANGED vars
  <2>1. status' = status
    BY <1>5 DEF RemoveSchedule, UpsertCommit, DeleteProvider, RevokeTask, SkipScheduled,
                EnsureRead, EnsureWrite, BeginManual, DbError, vars, taskVars
  <2> QED
    BY <2>1, SameTasksMoveOn
<1> QED
  BY <1>2, <1>3, <1>4, <1>5

\* The running scan enters or ends.
LEMMA StateStep ==
  ASSUME TypeOK, OneDispatched, NEW n \in Scans, n \notin Queued,
         NEW st \in {"EXECUTING", "COMPLETED", "FAILED"},
         st = "EXECUTING" => n \in Dispatched,
         scan' = [scan EXCEPT ![n].state = st], status' = status
  PROVE  QueueStep
<1>1. scan'[n].state = st /\ \A s \in Scans \ {n} : scan'[s] = scan[s]
  BY DEF TypeOK, TableTypes, Rows
<1>2. n \notin Queued' /\ (n \in Dispatched' => n \in Dispatched)
  BY <1>1 DEF Queued, IsQueued, Dispatched, IsDispatched
<1>3. \A s \in Scans \ {n} : (s \in Queued' <=> s \in Queued)
                             /\ (s \in Dispatched' => s \in Dispatched)
  BY <1>1, SameTasksMoveOn, PlaceKept
<1>4. Queued \subseteq Scans /\ Queued' \subseteq Scans /\ Dispatched' \subseteq Scans
  BY DEF Queued, Dispatched
<1> QED
  BY <1>2, <1>3, <1>4, ShrinkingStep

LEMMA ScanningStep ==
  ASSUME TypeOK, Work, RunnersUnfinished, NEW w \in Workers, EnterScan(w) \/ FinishScan(w)
  PROVE  QueueStep
<1> DEFINE n == worker[w].scan
<1>1. Running(w) /\ n \in Scans /\ n \notin Queued
  BY WorkerFacts DEF EnterScan, FinishScan, At, Running, TypeOK, RunnersUnfinished
<1>2. status' = status
  BY DEF EnterScan, FinishScan, taskVars
<1>3. CASE scan' = scan
  BY <1>2, <1>3, SameTasksMoveOn, MovingOnStep DEF Work, Alike, SameClaim
<1>4. CASE EnterScan(w) /\ scan' # scan
  <2>1. scan' = [scan EXCEPT ![n].state = "EXECUTING"] /\ provider = "active"
    BY <1>4 DEF EnterScan
  <2>2. n \in Dispatched
    BY <1>1, <2>1 DEF Work, RunningDispatched
  <2> HIDE DEF n
  <2> QED
    BY <1>1, <1>2, <2>1, <2>2, StateStep DEF Work
<1>5. CASE FinishScan(w) /\ scan' # scan
  <2>1. \E st \in {"COMPLETED", "FAILED"} : scan' = [scan EXCEPT ![n].state = st]
    BY <1>5 DEF FinishScan
  <2> HIDE DEF n
  <2> QED
    BY <1>1, <1>2, <2>1, StateStep DEF Work
<1> QED
  BY <1>3, <1>4, <1>5

LEMMA PurgeStep ==
  ASSUME PurgeScans \/ PurgeProvider
  PROVE  /\ QueueStep /\ Queued' = {} /\ Dispatched' = {}
         /\ \A s \in Scans : scan'[s] = NoRow
<1>1. \A s \in Scans : scan'[s] = NoRow
  BY DEF PurgeScans, PurgeProvider
<1>2. Queued' = {} /\ Dispatched' = {}
  BY <1>1, UnclaimedRows DEF Queued, Dispatched, IsQueued, IsDispatched
<1> QED
  BY <1>1, <1>2 DEF QueueStep, SQ!Next, SQ!Withdraw

LEMMA StepOfQueue ==
  ASSUME TypeOK, Fresh, Work, RunnersUnfinished, [Next]_vars,
         ~clobbered', \A t \in Tasks : ~Redeliver(t)
  PROVE  QueueStep
<1>1. ASSUME NEW w \in Workers, WorkerStep(w) \/ DbError(w) \/ Crash(w) PROVE QueueStep
  <2>1. CASE \/ SkipScheduled(w) \/ EnsureRead(w) \/ EnsureWrite(w) \/ BeginManual(w)
             \/ FinishTask(w) \/ DbError(w) \/ Crash(w)
    BY <2>1, QuietAlike, QuietMovesOn, MovingOnStep DEF Work
  <2>2. CASE QueueScheduled(w) \/ RunScheduled(w) \/ DispatchNext(w)
    BY <2>2, QueueScheduledStep, RunScheduledStep, DispatchStep
  <2>3. CASE EnterScan(w) \/ FinishScan(w)
    BY <2>3, ScanningStep
  <2> QED
    BY <1>1, <2>1, <2>2, <2>3 DEF WorkerStep
<1>2. CASE CreateScan \/ PurgeScans \/ PurgeProvider
  BY <1>2, CreateStep, PurgeStep
<1>3. CASE \/ RemoveSchedule \/ UpsertCommit \/ DeleteProvider \/ BeatFire
           \/ \E on, daily \in BOOLEAN : UpsertRead(on, daily)
           \/ \E t \in Tasks : RevokeTask(t) \/ \E w \in Workers : Start(w, t)
           \/ UNCHANGED vars
  BY <1>3, QuietAlike, QuietMovesOn, MovingOnStep DEF Work
<1> QED
  BY <1>1, <1>2, <1>3 DEF Next

\* While the provider is deleted, no worker starts a scan.
LEMMA RunnersStep ==
  ASSUME TypeOK, TypeOK', Fresh, Work, Work', OneRunner, RunnersUnfinished, [Next]_vars,
         Undisturbed'
  PROVE  RunnersUnfinished'
<1>1. ~clobbered' /\ \A t \in Tasks : ~Redeliver(t)
  BY UndisturbedStep
<1>2. CASE provider' = "active"
  BY <1>2, RunnersWhileActive
<1>3. CASE provider' # "active"
  <2>1. ASSUME NEW w \in Workers, WorkerStep(w) \/ DbError(w) \/ Crash(w)
        PROVE  RunnersUnfinished'
    <3>1. provider # "active"
      BY <1>3, <2>1 DEF WorkerStep, BeginManual, SkipScheduled, QueueScheduled, RunScheduled,
                        EnterScan, FinishScan, EnsureRead, EnsureWrite, DispatchNext,
                        FinishTask, DbError, Crash
    <3>2. ~QueueScheduled(w) /\ ~RunScheduled(w)
      BY <3>1 DEF QueueScheduled, RunScheduled, CanRunScheduled
    <3>3. CASE \/ SkipScheduled(w) \/ EnsureRead(w) \/ EnsureWrite(w) \/ BeginManual(w)
               \/ FinishTask(w) \/ DbError(w) \/ Crash(w)
      BY <1>1, <3>1, <3>3, QuietAlike, QuietMovesOn, WorkQuietWorker, RunnersKeptAlike
    <3>4. CASE DispatchNext(w)
      <4>1. UNCHANGED <<status, queue>>
        BY <3>1, <3>4 DEF DispatchNext
      <4> QED
        BY <1>1, <3>4, <4>1, QuietAlike, SameTasksMoveOn, WorkQuietWorker, RunnersKeptAlike
    <3>5. CASE EnterScan(w)
      <4>1. KeepsWorkers
        BY <1>1, <3>1, <3>5, WorkQuietWorker
      <4>2. scan' = scan /\ status' = status
        BY <3>1, <3>5 DEF EnterScan, taskVars
      <4>3. Alike(scan, scan')
        BY <4>2 DEF Alike, SameClaim
      <4> QED
        BY <4>1, <4>2, <4>3, SameTasksMoveOn, RunnersKeptAlike
    <3>6. CASE FinishScan(w)
      <4>1. StartsNoScan
        <5>1. CASE scan[worker[w].scan].state = "none"
          BY <1>1, <3>6, <5>1, WorkQuietWorker, RunnerKept
        <5>2. CASE scan[worker[w].scan].state # "none"
          BY <3>6, <5>2, WorkState
        <5> QED
          BY <5>1, <5>2
      <4>2. Running(w) /\ ~Running(w)'
        BY <3>6 DEF FinishScan, At, Running, Goto, Fail, Finally, TypeOK, ProcessTypes,
                    WorkerStates
      <4>3. \A v \in Workers : ~Running(v)'
        BY <4>1, <4>2 DEF OneRunner, StartsNoScan
      <4> QED
        BY <4>3 DEF RunnersUnfinished
    <3> QED
      BY <2>1, <3>2, <3>3, <3>4, <3>5, <3>6 DEF WorkerStep
  <2>2. CASE PurgeScans \/ PurgeProvider
    <3>1. KeepsWorkers
      BY <2>2, SameKeeps DEF PurgeScans, PurgeProvider
    <3>2. \A s \in Scans : s \notin Queued' /\ ~Finished(scan'[s])
      BY <2>2, PurgeStep, UnclaimedRows DEF Finished
    <3> QED
      BY <3>1, <3>2, RunnersKept
  <2>3. CASE \/ RemoveSchedule \/ UpsertCommit \/ DeleteProvider \/ BeatFire
             \/ \E on, daily \in BOOLEAN : UpsertRead(on, daily)
             \/ \E t \in Tasks : RevokeTask(t)
             \/ UNCHANGED vars
    <3>1. worker' = worker
      BY <2>3 DEF RemoveSchedule, UpsertCommit, DeleteProvider, BeatFire, UpsertRead,
                  RevokeTask, vars
    <3>2. KeepsWorkers
      BY <3>1, SameKeeps
    <3> QED
      BY <1>1, <2>3, <3>2, QuietAlike, QuietMovesOn, RunnersKeptAlike
  <2>4. ASSUME NEW w \in Workers, NEW t \in Tasks, Start(w, t) PROVE RunnersUnfinished'
    <3>1. \A v \in Workers : Running(v)' => Running(v) /\ worker'[v].scan = worker[v].scan
      <4>1. \/ worker' = worker
            \/ /\ \A v \in Workers : v # w => worker'[v] = worker[v]
               /\ worker'[w].pc = "begin"
        BY <2>4, StartFacts
      <4> QED
        BY <4>1 DEF Running
    <3>2. Alike(scan, scan') /\ ClaimedTasksMoveOn
      BY <1>1, <2>4, QuietAlike, QuietMovesOn
    <3>3. \A s \in Scans : (s \in Queued' => s \in Queued)
                           /\ (Finished(scan'[s]) => Finished(scan[s]))
      BY <3>2, PlaceKept, RowsRest DEF Alike, SameClaim
    <3>4. \A v \in Workers : Running(v) => worker[v].scan \in Scans
      BY WorkerFacts DEF TypeOK, Running
    <3> QED
      BY <3>1, <3>3, <3>4 DEF RunnersUnfinished, Finished
  <2>5. ~CreateScan
    BY <1>3 DEF CreateScan
  <2> QED
    BY <1>1, <2>1, <2>2, <2>3, <2>4, <2>5 DEF Next
<1> QED
  BY <1>2, <1>3

LEMMA QueueInvInit == Init => QueueInv /\ SQ!Init
<1> SUFFICES ASSUME Init PROVE QueueInv /\ SQ!Init
  OBVIOUS
<1>1. SingleFlightInv
  BY FlightInit
<1>2. RunnersUnfinished
  BY DEF Init, Idle, RunnersUnfinished, Running
<1>3. \A s \in Scans : scan[s].task = NoTask /\ scan[s].state # "EXECUTING"
  BY UnclaimedRows DEF Init, Unclaimed
<1>4. Queued = {} /\ Dispatched = {}
  BY <1>3 DEF Queued, Dispatched, IsQueued, IsDispatched
<1> QED
  BY <1>1, <1>2, <1>4 DEF QueueInv, SQ!Init

LEMMA QueueInvStep ==
  ASSUME QueueInv, [Next]_vars
  PROVE  QueueInv' /\ (Undisturbed' => QueueStep)
<1>1. SingleFlightInv'
  BY FlightStep DEF QueueInv
<1>2. ASSUME Undisturbed' PROVE RunnersUnfinished' /\ QueueStep
  <2>1. Undisturbed
    BY <1>2, UndisturbedStep DEF QueueInv, SingleFlightInv
  <2>2. TypeOK /\ Fresh /\ Work /\ OneRunner /\ RunnersUnfinished
    BY <2>1 DEF QueueInv, SingleFlightInv, SingleFlight, OneRunner
  <2>3. TypeOK' /\ Work'
    BY <1>1, <1>2 DEF SingleFlightInv
  <2> QED
    BY <1>2, <2>2, <2>3, UndisturbedStep, RunnersStep, StepOfQueue
<1> QED
  BY <1>1, <1>2 DEF QueueInv

\* The inductive invariant behind single flight, as Spec => []SingleFlightInv:
\* what the run scan_faults checks on one instance.
THEOREM DispatchInvariant == Spec => []SingleFlightInv
BY FlightInit, FlightStep, PTL DEF Spec

\* The dispatcher refines the first-in first-out queue of ScanQueue as far as
\* safety goes: it begins empty, and whatever crashes, revocations, lost
\* publishes and failed transactions happen, every step of an execution that no
\* stale save and no second delivery disturbs is a submission, a promotion of
\* the oldest waiting scan, an end of the running one or the removal of all, or
\* leaves the queue alone.
THEOREM QueueRefined == Spec => SQ!Init /\ QueueSteps
<1>1. QueueInv /\ [Next]_vars => QueueInv'
  BY QueueInvStep
<1>2. QueueInv /\ [Next]_vars =>
        (Undisturbed' => SQ!Next \/ UNCHANGED <<Queued, Dispatched>>)
  BY QueueInvStep DEF QueueStep
<1> QED
  BY QueueInvInit, <1>1, <1>2, PTL DEF Spec, QueueSteps

-----------------------------------------------------------------------------
(* No overtaking, and finished scans *)

LEMMA OnlySavesClobber ==
  ASSUME [Next]_vars, ~clobbered, clobbered'
  PROVE  UpsertCommit \/ \E w \in Workers : EnsureWrite(w)
BY DEF Next, WorkerStep, CreateScan, RemoveSchedule, BeatFire, UpsertRead, RevokeTask,
       Redeliver, Start, BeginManual, SkipScheduled, QueueScheduled, RunScheduled, EnterScan,
       FinishScan, EnsureRead, DispatchNext, FinishTask, DbError, Crash, DeleteProvider,
       PurgeScans, PurgeProvider, vars

\* Even a stale save dispatches nothing.
LEMMA SavesDispatchNothing ==
  ASSUME TypeOK, Fresh, UpsertCommit \/ \E w \in Workers : EnsureWrite(w)
  PROVE  Dispatched' \subseteq Dispatched
<1>1. Tidy /\ status' = status
  BY UpsertTidy, EnsureTidy DEF UpsertCommit, EnsureWrite, taskVars
<1>2. \A s \in Scans : s \in Dispatched' => s \in Dispatched
  BY <1>1 DEF Tidy, SameClaim, Unclaimed, Dispatched, IsDispatched
<1> QED
  BY <1>2 DEF Dispatched

LEMMA OldestFirst ==
  ASSUME QueueStep, NEW s \in Dispatched' \ Dispatched, NEW q \in Queued \cap Queued'
  PROVE  s < q
<1>1. SQ!Next
  BY DEF QueueStep
<1>2. CASE SQ!Promote
  <2>1. s = Min(Queued) /\ q # s
    BY <1>2 DEF SQ!Promote, SQ!Min, Min
  <2>2. Min(Queued) <= q /\ Min(Queued) \in Queued
    BY OldestQueued
  <2>3. s \in Nat /\ q \in Nat
    BY <2>1, <2>2 DEF Queued, Scans
  <2> QED
    BY <2>1, <2>2, <2>3
<1>3. CASE SQ!Finish \/ SQ!Withdraw
  BY <1>3 DEF SQ!Finish, SQ!Withdraw
<1>4. ASSUME NEW n \in Scans, SQ!Submit(n) PROVE s < q
  BY <1>4 DEF SQ!Submit
<1> QED
  BY <1>1, <1>2, <1>3, <1>4 DEF SQ!Next

LEMMA NoOvertakingStep ==
  ASSUME QueueInv, [Next]_vars, Undisturbed
  PROVE  \A s \in Dispatched' \ Dispatched : \A q \in Queued \cap Queued' : s < q
<1>1. TypeOK /\ Fresh /\ Work /\ RunnersUnfinished /\ ~clobbered
  BY DEF QueueInv, SingleFlightInv, Undisturbed
<1>2. CASE clobbered'
  BY <1>1, <1>2, OnlySavesClobber, SavesDispatchNothing
<1>3. CASE \E t \in Tasks : Redeliver(t)
  <2>1. scan' = scan /\ status' = status
    BY <1>3 DEF Redeliver, scanVars
  <2>2. Dispatched' = Dispatched
    BY <2>1 DEF Dispatched
  <2> QED
    BY <2>2
<1>4. CASE ~clobbered' /\ \A t \in Tasks : ~Redeliver(t)
  <2>1. QueueStep
    BY <1>1, <1>4, StepOfQueue
  <2> QED
    BY <2>1, OldestFirst
<1> QED
  BY <1>2, <1>3, <1>4

\* A scan is dispatched only when no scan inserted before it is still queued:
\* the order of _dispatch_next_queued_provider_scan is the order of insertion,
\* and no request and no scheduled run jumps the queue.
THEOREM OldestFirstAlways == Spec => NoOvertaking
<1>1. QueueInv /\ [Next]_vars => QueueInv'
  BY QueueInvStep
<1>2. QueueInv /\ [Next]_vars =>
        (Undisturbed /\ provider' = "active" =>
           \A s \in Dispatched' \ Dispatched : \A q \in Queued \cap Queued' : s < q)
  BY NoOvertakingStep
<1> QED
  BY QueueInvInit, <1>1, <1>2, PTL DEF Spec, NoOvertaking

LEMMA TerminalStep ==
  ASSUME QueueInv, [Next]_vars, Undisturbed, ~clobbered',
         NEW s \in Scans, scan[s].state \in {"COMPLETED", "FAILED"}
  PROVE  scan'[s].state \in {scan[s].state, "none"}
<1>1. TypeOK /\ Fresh /\ Work /\ RunnersUnfinished /\ ~clobbered
  BY DEF QueueInv, SingleFlightInv, Undisturbed
<1>2. ~Unclaimed(scan[s]) /\ scan[s] # NoRow
  BY UnclaimedRows DEF Unclaimed
<1>3. nextScan # s
  BY <1>1, <1>2, TableFacts DEF WellKept
<1>4. scan' = scan => scan'[s].state = scan[s].state
  OBVIOUS
<1>5. Alike(scan, scan') => scan'[s].state = scan[s].state
  BY <1>2 DEF Alike, SameClaim
<1>6. ASSUME NEW w \in Workers, EnterScan(w) \/ FinishScan(w)
      PROVE  scan'[s].state = scan[s].state
  <2> DEFINE n == worker[w].scan
  <2>1. Running(w) /\ n \in Scans
    BY <1>1, <1>6, WorkerFacts DEF EnterScan, FinishScan, At, Running, TypeOK
  <2>2. n # s
    BY <1>1, <2>1 DEF RunnersUnfinished, Finished
  <2>3. scan' = scan \/ \E st \in ScanStates : scan' = [scan EXCEPT ![n].state = st]
    BY <1>6 DEF EnterScan, FinishScan, ScanStates
  <2> QED
    BY <1>1, <2>1, <2>2, <2>3 DEF TypeOK, TableTypes
<1>7. ASSUME NEW w \in Workers, QueueScheduled(w) PROVE scan'[s].state = scan[s].state
  <2>1. CASE Alike(scan, scan')
    BY <1>5, <2>1
  <2>2. CASE Alike(WithQueued, scan')
    <3>1. WithQueued[s] = scan[s]
      BY <1>1, <1>3, TableFacts DEF WithQueued
    <3> QED
      BY <1>2, <2>2, <3>1 DEF Alike, SameClaim
  <2> QED
    BY <1>1, <1>7, <2>1, <2>2, QueueFacts
<1>8. ASSUME NEW w \in Workers, RunScheduled(w) PROVE scan'[s].state = scan[s].state
  BY <1>1, <1>2, <1>8, RunFacts DEF SameClaim
<1>9. CASE CreateScan
  BY <1>1, <1>3, <1>9, TableFacts DEF CreateScan
<1>10. CASE PurgeScans \/ PurgeProvider
  BY <1>10, PurgeStep, UnclaimedRows
<1>11. CASE \E t \in Tasks : Redeliver(t)
  BY <1>4, <1>11 DEF Redeliver, scanVars
<1> QED
  BY <1>1, <1>5, <1>6, <1>7, <1>8, <1>9, <1>10, <1>11, QuietAlike DEF Next, WorkerStep

\* A finished scan stays as it finished until its row is deleted: neither the
\* placeholders of the schedule, nor a second worker, nor a promotion reopens it.
THEOREM FinishedStaysFinished == Spec => TerminalStays
<1>1. QueueInv /\ [Next]_vars => QueueInv'
  BY QueueInvStep
<1>2. QueueInv /\ [Next]_vars =>
        (Undisturbed /\ ~clobbered' =>
           \A s \in Scans : scan[s].state \in {"COMPLETED", "FAILED"} =>
                              scan'[s].state \in {scan[s].state, "none"})
  BY TerminalStep
<1> QED
  BY QueueInvInit, <1>1, <1>2, PTL DEF Spec, TerminalStays

-----------------------------------------------------------------------------
(* One queued scheduled run, in every execution *)

\* A task that waits in the queue has no message and no worker.
Unpublished ==
  \A t \in Tasks : status[t] = "QUEUED" =>
    /\ queue[t] = 0
    /\ \A w \in Workers : worker[w].pc # "idle" => worker[w].task # t

OneWaits == \A s, u \in QueuedScheduled : s = u

OneWaitsInv == TypeOK /\ Fresh /\ Unpublished /\ OneWaits

\* No task joins the queue; one that waits is not published and not taken up.
LEMMA UnpublishedKept ==
  ASSUME Unpublished,
         \A t \in Tasks : status'[t] = "QUEUED" =>
           /\ status[t] = "QUEUED" /\ queue'[t] = queue[t]
           /\ \A w \in Workers : worker'[w].pc # "idle" /\ worker'[w].task = t =>
                worker[w].pc # "idle" /\ worker[w].task = t
  PROVE  Unpublished'
BY DEF Unpublished

\* A task joins the queue when it is created.
LEMMA UnpublishedNew ==
  ASSUME TypeOK, Fresh, Unpublished, nextTask \in Tasks,
         \E st \in TaskStatuses : status' = [status EXCEPT ![nextTask] = st],
         \/ queue' = queue
         \/ status'[nextTask] # "QUEUED" /\ \E n \in Nat : queue' = [queue EXCEPT ![nextTask] = n],
         \A w \in Workers : worker'[w].pc # "idle" =>
           worker[w].pc # "idle" /\ worker'[w].task = worker[w].task
  PROVE  Unpublished'
<1>1. \A t \in Tasks : t # nextTask =>
        status'[t] = status[t] /\ queue'[t] = queue[t]
  BY DEF TypeOK, TaskTypes
<1>2. \A w \in Workers : worker[w].task # nextTask
  BY TaskOrder
<1>3. queue[nextTask] = 0
  BY TaskOrder DEF Fresh, FreshTasks
<1>4. status'[nextTask] = "QUEUED" => queue'[nextTask] = 0
  BY <1>3
<1> QED
  BY <1>1, <1>2, <1>4 DEF Unpublished

LEMMA UnpublishedStep ==
  ASSUME TypeOK, Fresh, Unpublished, [Next]_vars
  PROVE  Unpublished'
<1>1. ASSUME NEW w \in Workers, WorkerStep(w) \/ DbError(w) \/ Crash(w) PROVE Unpublished'
  <2>1. \A v \in Workers : worker'[v].pc # "idle" =>
          worker[v].pc # "idle" /\ worker'[v].task = worker[v].task
    BY <1>1, StepEffects
  <2>2. CASE QueueScheduled(w) /\ ~ReuseQueued
    <3>1. nextTask \in Tasks /\ status' = [status EXCEPT ![nextTask] = "QUEUED"] /\ queue' = queue
      BY <2>2 DEF QueueScheduled
    <3> QED
      BY <2>1, <3>1, UnpublishedNew DEF TaskStatuses
  <2>3. CASE DispatchNext(w) /\ status' # status
    <3> DEFINE t == scan[Min(Queued)].task
    <3>1. /\ status' = [status EXCEPT ![t] = "PENDING"]
          /\ queue' = queue \/ queue' = [queue EXCEPT ![t] = @ + 1]
      BY <2>3 DEF DispatchNext
    <3> HIDE DEF t
    <3>2. \A u \in Tasks : status'[u] = "QUEUED" => status[u] = "QUEUED" /\ queue'[u] = queue[u]
      BY <3>1 DEF TypeOK, TaskTypes
    <3> QED
      BY <2>1, <3>2, UnpublishedKept
  <2>4. CASE /\ ~(QueueScheduled(w) /\ ~ReuseQueued)
             /\ ~(DispatchNext(w) /\ status' # status)
    <3>1. queue' = queue \/ (DispatchNext(w) /\ status' = status)
      BY <1>1, <2>4 DEF WorkerStep, BeginManual, SkipScheduled, QueueScheduled, RunScheduled,
                        EnterScan, FinishScan, EnsureRead, EnsureWrite, FinishTask, DbError,
                        Crash, taskVars
    <3>2. \/ status' = status
          \/ \E st \in {"SUCCESS", "FAILURE"} : status' = [status EXCEPT ![worker[w].task] = st]
      BY <1>1, <2>4 DEF WorkerStep, BeginManual, SkipScheduled, QueueScheduled, RunScheduled,
                        EnterScan, FinishScan, EnsureRead, EnsureWrite, FinishTask, DbError,
                        Crash, taskVars
    <3>3. \A u \in Tasks : status'[u] = "QUEUED" => status[u] = "QUEUED"
      BY <3>2 DEF TypeOK, TaskTypes
    <3>4. CASE queue' = queue
      BY <2>1, <3>3, <3>4, UnpublishedKept
    <3>5. CASE DispatchNext(w) /\ status' = status
      <4>1. CASE provider = "active" /\ Dispatched = {} /\ Queued # {}
        <5> DEFINE t == scan[Min(Queued)].task
        <5>1. t \in Tasks /\ status[t] = "QUEUED"
          BY <4>1, OldestQueued, QueuedTask
        <5>2. status'[t] = "PENDING"
          BY <3>5, <4>1, <5>1 DEF DispatchNext, TypeOK, TaskTypes
        <5> QED
          BY <3>5, <5>1, <5>2
      <4>2. CASE ~(provider = "active" /\ Dispatched = {} /\ Queued # {})
        <5>1. queue' = queue
          BY <3>5, <4>2 DEF DispatchNext
        <5> QED
          BY <3>4, <5>1
      <4> QED
        BY <4>1, <4>2
    <3> QED
      BY <3>1, <3>4, <3>5
  <2> QED
    BY <2>2, <2>3, <2>4
<1>2. CASE CreateScan \/ BeatFire \/ \E on, daily \in BOOLEAN : UpsertRead(on, daily)
  <2>1. worker' = worker
    BY <1>2 DEF CreateScan, BeatFire, UpsertRead
  <2>2. CASE status' = status /\ queue' = queue
    BY <2>1, <2>2, UnpublishedKept
  <2>3. CASE ~(status' = status /\ queue' = queue)
    <3>1. CASE CreateScan
      <4>1. /\ nextTask \in Tasks
            /\ status' = [status EXCEPT ![nextTask] = IF ActiveScan THEN "QUEUED" ELSE "PENDING"]
            /\ queue' = queue \/ (~ActiveScan /\ queue' = [queue EXCEPT ![nextTask] = 1])
        BY <3>1 DEF CreateScan
      <4>2. ~ActiveScan => status'[nextTask] = "PENDING"
        BY <4>1 DEF TypeOK, TaskTypes
      <4> QED
        BY <2>1, <4>1, <4>2, UnpublishedNew DEF TaskStatuses
    <3>2. CASE BeatFire \/ \E on, daily \in BOOLEAN : UpsertRead(on, daily)
      <4>1. /\ nextTask \in Tasks
            /\ status' = [status EXCEPT ![nextTask] = "PENDING"]
            /\ queue' = [queue EXCEPT ![nextTask] = 1]
        BY <2>3, <3>2 DEF BeatFire, UpsertRead
      <4>2. status'[nextTask] = "PENDING"
        BY <4>1 DEF TypeOK, TaskTypes
      <4> QED
        BY <2>1, <4>1, <4>2, UnpublishedNew DEF TaskStatuses
    <3> QED
      BY <1>2, <3>1, <3>2
  <2> QED
    BY <2>2, <2>3
<1>3. ASSUME NEW t \in Tasks, NEW w \in Workers, Start(w, t) PROVE Unpublished'
  <2>1. /\ queue[t] > 0 /\ queue' = [queue EXCEPT ![t] = @ - 1]
        /\ \/ status' = [status EXCEPT ![t] = "REVOKED"] /\ worker' = worker
           \/ /\ status' = [status EXCEPT ![t] = "STARTED"]
              /\ \A v \in Workers : v # w => worker'[v] = worker[v]
              /\ worker'[w].task = t
    BY <1>3, StartFacts
  <2>2. status'[t] # "QUEUED" /\ \A u \in Tasks : u # t =>
          status'[u] = status[u] /\ queue'[u] = queue[u]
    BY <2>1 DEF TypeOK, TaskTypes
  <2> QED
    BY <2>1, <2>2, UnpublishedKept
<1>4. ASSUME NEW t \in Tasks, Redeliver(t) PROVE Unpublished'
  <2>1. /\ queue[t] > 0 /\ queue' = [queue EXCEPT ![t] = @ + 1]
        /\ status' = status /\ worker' = worker
    BY <1>4 DEF Redeliver
  <2>2. status[t] # "QUEUED" /\ \A u \in Tasks : u # t => queue'[u] = queue[u]
    BY <2>1 DEF TypeOK, TaskTypes, Unpublished
  <2> QED
    BY <2>1, <2>2, UnpublishedKept
<1>5. CASE \/ RemoveSchedule \/ UpsertCommit \/ \E t \in Tasks : RevokeTask(t)
           \/ DeleteProvider \/ PurgeScans \/ PurgeProvider \/ UNCHANGED vars
  <2>1. UNCHANGED <<status, queue, worker>>
    BY <1>5 DEF RemoveSchedule, UpsertCommit, RevokeTask, DeleteProvider, PurgeScans,
                PurgeProvider, vars, taskVars
  <2> QED
    BY <2>1, UnpublishedKept
<1> QED
  BY <1>1, <1>2, <1>3, <1>4, <1>5 DEF Next

\* No row becomes that of a queued scheduled run.
LEMMA NoneWaitsAnew ==
  ASSUME TypeOK, Fresh,
         \A t \in Tasks : status'[t] = "QUEUED" => status[t] = "QUEUED" \/ t >= nextTask,
         NEW s \in Scans,
         \/ SameClaim(scan[s], scan'[s])
         \/ scan'[s].trigger # "scheduled"
         \/ ~IsQueued(scan'[s], status')
  PROVE  s \in QueuedScheduled' => s \in QueuedScheduled
<1> SUFFICES ASSUME s \in QueuedScheduled' PROVE s \in QueuedScheduled
  OBVIOUS
<1>1. IsQueued(scan'[s], status') /\ SameClaim(scan[s], scan'[s])
      /\ scan'[s].trigger = "scheduled"
  BY DEF QueuedScheduled, Queued, IsQueued
<1>2. scan[s].task \in Tasks /\ ~(scan[s].task >= nextTask)
  BY <1>1, TaskOrder DEF SameClaim, IsQueued, TypeOK, TableTypes, Rows, Tasks, NoTask
<1> QED
  BY <1>1, <1>2 DEF SameClaim, QueuedScheduled, Queued, IsQueued

LEMMA FewerWait ==
  ASSUME TypeOK, OneWaits, \A s \in Scans : s \in QueuedScheduled' => s \in QueuedScheduled
  PROVE  OneWaits'
<1>1. QueuedScheduled' \subseteq Scans
  BY DEF QueuedScheduled, Queued
<1> QED
  BY <1>1 DEF OneWaits

LEMMA UnclaimedNotQueued ==
  ASSUME NEW r, NEW st, Unclaimed(r) \/ r.state # "AVAILABLE"
  PROVE  ~IsQueued(r, st)
BY DEF Unclaimed, IsQueued

\* Which tasks wait after a step: only CreateScan and QueueScheduled add one.
LEMMA StatusWaits ==
  ASSUME TypeOK, Fresh, [Next]_vars, NEW t \in Tasks, status'[t] = "QUEUED"
  PROVE  status[t] = "QUEUED" \/ t >= nextTask
<1>1. nextTask >= nextTask /\ status \in [Tasks -> TaskStatuses]
  BY TaskOrder DEF TypeOK, TaskTypes
<1>2. ASSUME NEW w \in Workers, WorkerStep(w) \/ DbError(w) \/ Crash(w)
      PROVE  status[t] = "QUEUED" \/ t >= nextTask
  <2>1. \/ status' = status
        \/ \E u \in Tasks \cup {scan[Min(Queued)].task}, st \in {"PENDING", "SUCCESS", "FAILURE"} :
             status' = [status EXCEPT ![u] = st]
        \/ status' = [status EXCEPT ![nextTask] = "QUEUED"]
    <3>1. worker[w].task \in Tasks
      BY <1>2, StepEffects
    <3> QED
      BY <1>2, <3>1 DEF WorkerStep, BeginManual, SkipScheduled, QueueScheduled, RunScheduled,
                   EnterScan, FinishScan, EnsureRead, EnsureWrite, DispatchNext, FinishTask,
                   DbError, Crash, taskVars
  <2>2. t # nextTask => status[t] = "QUEUED"
    BY <1>1, <2>1
  <2> QED
    BY <1>1, <2>2
<1>3. CASE CreateScan \/ BeatFire \/ \E on, daily \in BOOLEAN : UpsertRead(on, daily)
  <2>1. status' = status \/ \E st \in TaskStatuses : status' = [status EXCEPT ![nextTask] = st]
    BY <1>3 DEF CreateScan, BeatFire, UpsertRead, TaskStatuses
  <2>2. t # nextTask => status[t] = "QUEUED"
    BY <1>1, <2>1
  <2> QED
    BY <1>1, <2>2
<1>4. ASSUME NEW u \in Tasks, NEW w \in Workers, Start(w, u) PROVE status[t] = "QUEUED"
  BY <1>1, <1>4, StartFacts
<1>5. CASE \/ RemoveSchedule \/ UpsertCommit \/ \E u \in Tasks : RevokeTask(u) \/ Redeliver(u)
           \/ DeleteProvider \/ PurgeScans \/ PurgeProvider \/ UNCHANGED vars
  BY <1>5 DEF RemoveSchedule, UpsertCommit, RevokeTask, Redeliver, DeleteProvider, PurgeScans,
              PurgeProvider, vars, taskVars
<1> QED
  BY <1>2, <1>3, <1>4, <1>5 DEF Next

LEMMA OneWaitsStep ==
  ASSUME OneWaitsInv, [Next]_vars
  PROVE  OneWaits'
<1>1. TypeOK /\ Fresh /\ Unpublished /\ OneWaits
  BY DEF OneWaitsInv
<1>2. \A t \in Tasks : status'[t] = "QUEUED" => status[t] = "QUEUED" \/ t >= nextTask
  BY <1>1, StatusWaits
<1> DEFINE Waits(s) == /\ ~SameClaim(scan[s], scan'[s]) /\ scan'[s].trigger = "scheduled"
                       /\ IsQueued(scan'[s], status')
<1>3. ASSUME \A s \in Scans : ~Waits(s) PROVE OneWaits'
  BY <1>1, <1>2, <1>3, NoneWaitsAnew, FewerWait
<1>4. Tidy => OneWaits'
  BY <1>3, UnclaimedNotQueued DEF Tidy
<1>5. scan' = scan => OneWaits'
  BY <1>3 DEF SameClaim
<1>6. Alike(scan, scan') => OneWaits'
  BY <1>3, UnclaimedNotQueued DEF Alike
<1>7. ASSUME NEW w \in Workers, QueueScheduled(w) PROVE OneWaits'
  <2>1. CASE ReuseQueued
    <3>1. status' = status
      BY <1>7, <2>1 DEF QueueScheduled
    <3>2. CASE Alike(scan, scan')
      BY <1>6, <3>2
    <3>3. CASE ~Alike(scan, scan')
      <4>1. nextTask \in Tasks /\ status' = [status EXCEPT ![nextTask] = "QUEUED"]
        BY <1>1, <1>7, <3>3, QueueFacts
      <4>2. status'[nextTask] = "QUEUED" /\ status[nextTask] = "none"
        BY <1>1, <4>1, TaskOrder DEF TypeOK, TaskTypes, Fresh, FreshTasks
      <4> QED
        BY <3>1, <4>2
    <3> QED
      BY <3>2, <3>3
  <2>2. CASE ~ReuseQueued
    <3>1. QueuedScheduled = {}
      BY <2>2 DEF ReuseQueued
    <3>2. CASE Alike(scan, scan')
      BY <1>6, <3>2
    <3>3. CASE Alike(WithQueued, scan') /\ nextScan \in Scans
      <4>1. \A s \in Scans \ {nextScan} : WithQueued[s] = scan[s]
        BY <1>1, TableFacts DEF WithQueued
      <4>2. \A s \in Scans \ {nextScan} : SameClaim(scan[s], scan'[s]) \/ Unclaimed(scan'[s])
        BY <3>3, <4>1 DEF Alike
      <4>3. \A s \in Scans \ {nextScan} : s \notin QueuedScheduled'
        BY <1>1, <1>2, <3>1, <4>2, UnclaimedNotQueued, NoneWaitsAnew
      <4> QED
        BY <4>3 DEF OneWaits, QueuedScheduled, Queued
    <3> QED
      BY <1>1, <1>7, <3>2, <3>3, QueueFacts
  <2> QED
    BY <2>1, <2>2
<1>8. ASSUME NEW w \in Workers, RunScheduled(w) PROVE OneWaits'
  <2>1. PICK p \in Scans :
          /\ scan'[p].task = worker[w].task
          /\ \A s \in Scans \ {p} : SameClaim(scan[s], scan'[s]) \/ Unclaimed(scan'[s])
    BY <1>1, <1>8, RunFacts
  <2>2. status' = status /\ status[worker[w].task] # "QUEUED"
    <3>1. worker[w].pc # "idle" /\ worker[w].task \in Tasks
      BY <1>1, <1>8, StepEffects DEF WorkerStep
    <3>2. status' = status
      BY <1>8 DEF RunScheduled, taskVars
    <3> QED
      BY <1>1, <3>1, <3>2 DEF Unpublished
  <2>3. ~IsQueued(scan'[p], status')
    BY <2>1, <2>2 DEF IsQueued
  <2> QED
    BY <1>3, <2>1, <2>3, UnclaimedNotQueued
<1>9. ASSUME NEW w \in Workers, EnterScan(w) \/ FinishScan(w) PROVE OneWaits'
  <2> DEFINE n == worker[w].scan
  <2>1. \/ scan' = scan
        \/ \E st \in {"EXECUTING", "COMPLETED", "FAILED"} : scan' = [scan EXCEPT ![n].state = st]
    BY <1>9 DEF EnterScan, FinishScan
  <2>2. \A s \in Scans : scan'[s] = scan[s] \/ scan'[s].state # "AVAILABLE"
    BY <1>1, <2>1 DEF TypeOK, TableTypes, Rows
  <2> QED
    BY <1>3, <2>2, UnclaimedNotQueued DEF SameClaim
<1>10. CASE CreateScan
  <2>1. \A s \in Scans : scan'[s] = scan[s] \/ scan'[s].trigger = "manual"
    BY <1>1, <1>10, TableFacts DEF CreateScan
  <2> QED
    BY <1>3, <2>1 DEF SameClaim
<1>11. CASE PurgeScans \/ PurgeProvider
  BY <1>3, <1>11, PurgeStep, UnclaimedRows, UnclaimedNotQueued
<1>12. CASE \/ RemoveSchedule \/ UpsertCommit
            \/ \E w \in Workers : SkipScheduled(w) \/ EnsureWrite(w)
  BY <1>1, <1>4, <1>12, RemoveTidy, UpsertTidy, SkipTidy, EnsureTidy
<1>13. CASE \/ DeleteProvider \/ BeatFire
            \/ \E on, daily \in BOOLEAN : UpsertRead(on, daily)
            \/ \E t \in Tasks : RevokeTask(t) \/ Redeliver(t) \/ \E w \in Workers : Start(w, t)
            \/ \E w \in Workers : \/ EnsureRead(w) \/ BeginManual(w) \/ DispatchNext(w)
                                  \/ FinishTask(w) \/ DbError(w) \/ Crash(w)
            \/ UNCHANGED vars
  <2>1. scan' = scan
    BY <1>13 DEF DeleteProvider, BeatFire, UpsertRead, RevokeTask, Redeliver, Start, EnsureRead,
                 BeginManual, DispatchNext, FinishTask, DbError, Crash, vars, scanVars
  <2> QED
    BY <1>5, <2>1
<1> QED
  BY <1>7, <1>8, <1>9, <1>10, <1>11, <1>12, <1>13 DEF Next, WorkerStep

LEMMA OneWaitsInit == Init => OneWaitsInv
<1> SUFFICES ASSUME Init PROVE OneWaitsInv
  OBVIOUS
<1>1. TypeOK /\ Fresh
  BY FlightInit DEF SingleFlightInv
<1>2. Queued = {}
  BY QueueInvInit DEF SQ!Init
<1>3. \A t \in Tasks : status[t] # "QUEUED"
  BY DEF Init
<1> QED
  BY <1>1, <1>2, <1>3 DEF OneWaitsInv, Unpublished, OneWaits, QueuedScheduled

\* However often the schedule fires while a scan is active, one run waits: the
\* reuse of the queued run in perform_scheduled_scan_task, in every execution,
\* those with stale saves and second deliveries included.  A redelivered task
\* cannot be one that waits, since a task that waits has not been published.
THEOREM OneRunWaits == Spec => []OneQueuedScheduledScan
<1>1. OneWaitsInv /\ [Next]_vars => OneWaitsInv'
  BY TypeStep, FreshStep, UnpublishedStep, OneWaitsStep DEF OneWaitsInv
<1>2. OneWaitsInv => OneQueuedScheduledScan
  <2> SUFFICES ASSUME OneWaitsInv PROVE Cardinality(QueuedScheduled) <= 1
    BY DEF OneQueuedScheduledScan
  <2>1. CASE QueuedScheduled = {}
    BY <2>1, FS_EmptySet
  <2>2. ASSUME NEW s \in QueuedScheduled PROVE Cardinality(QueuedScheduled) <= 1
    <3>1. QueuedScheduled = {s}
      BY <2>2 DEF OneWaitsInv, OneWaits
    <3>2. Cardinality({s}) = 1
      BY FS_Singleton
    <3> QED
      BY <3>1, <3>2
  <2> QED
    BY <2>1, <2>2
<1> QED
  BY OneWaitsInit, <1>1, <1>2, PTL DEF Spec

-----------------------------------------------------------------------------
(* No lost wakeup, in the executions without faults *)

Faults == {"crash", "revoke", "publish", "db"}
Quiet == Undisturbed /\ \A k \in Faults : ~Spent(k)

\* What will run, or runs, a scan.
Carries(w, s) ==
  \/ Running(w) /\ worker[w].scan = s
  \/ worker[w].pc = "begin" /\ argOf[worker[w].task] = s
InFlight(t, s) == queue[t] > 0 /\ argOf[t] = s
Carried(s) == (\E w \in Workers : Carries(w, s)) \/ (\E t \in Tasks : InFlight(t, s))

\* A worker past its scan, on its way to _dispatch_next_queued_provider_scan.
PastScan(w) == worker[w].pc \in {"ensureRead", "ensureWrite", "dispatch"}

\* Every dispatched scan is carried, and queued scans have a waker.
Attended ==
  /\ \A s \in Dispatched : Carried(s)
  /\ Queued # {} => Waker

WakerInv ==
  /\ SingleFlightInv
  /\ Quiet => revoked = {} /\ (provider = "active" => Attended)

LEMMA QuietStep ==
  ASSUME TypeOK, [Next]_vars, Quiet'
  PROVE  /\ Quiet /\ Undisturbed' /\ ~clobbered'
         /\ \A t \in Tasks : ~Redeliver(t) /\ ~RevokeTask(t)
         /\ \A w \in Workers : ~Crash(w) /\ ~DbError(w)
         /\ \A kinds \in SUBSET Kinds : Spend(kinds) => kinds \cap Faults = {}
<1>1. Faults \subseteq Kinds /\ Undisturbed' /\ \A k \in Faults : ~Spent(k)'
  BY DEF Quiet, Faults, Kinds
<1>2. \A kinds \in SUBSET Kinds : Spend(kinds) => kinds \cap Faults = {}
  <2> SUFFICES ASSUME NEW kinds \in SUBSET Kinds, Spend(kinds), NEW k \in kinds \cap Faults
               PROVE  FALSE
    OBVIOUS
  <2> QED
    BY <1>1, Spends
<1>3. \A t \in Tasks : ~RevokeTask(t)
  <2>1. ~Spend({"revoke"})
    BY <1>2 DEF Kinds, Faults
  <2> QED
    BY <2>1 DEF RevokeTask
<1>4. \A w \in Workers : ~Crash(w) /\ ~DbError(w)
  <2>1. ~Spend({"crash"}) /\ ~Spend({"db"})
    BY <1>2 DEF Kinds, Faults
  <2> QED
    BY <2>1 DEF Crash, DbError
<1>5. Quiet
  BY <1>1, UndisturbedStep, SpentStays DEF Quiet
<1> QED
  BY <1>1, <1>2, <1>3, <1>4, <1>5, UndisturbedStep

\* A carrier of a dispatched scan is a waker.
LEMMA CarriedWakes ==
  ASSUME Dispatched # {}, \A s \in Dispatched : Carried(s)
  PROVE  Waker
BY DEF Carried, Carries, InFlight, Waker, Running, At

\* With nothing dispatched, the waker is past its scan.
LEMMA IdleWaker ==
  ASSUME TypeOK, Work, provider = "active", Dispatched = {}, Waker
  PROVE  \E w \in Workers : PastScan(w)
BY DEF Waker, Work, RunningDispatched, Running, PastScan

LEMMA PastScanWakes == (\E w \in Workers : PastScan(w)) => Waker
BY DEF PastScan, Waker

\* Steps that end no scan: each carrier stays or is replaced, each worker past
\* its scan stays so, and a queue that is left with nothing dispatched was left
\* so before.
LEMMA AttendedKept ==
  ASSUME TypeOK, Work, Attended, provider = "active",
         Dispatched \subseteq Dispatched',
         \A s \in Dispatched : Carried(s) => Carried(s)',
         \A s \in Dispatched' \ Dispatched : Carried(s)',
         Dispatched' = {} /\ Queued' # {} => Queued # {},
         Dispatched' = {} /\ (\E w \in Workers : PastScan(w)) => \E w \in Workers : PastScan(w)'
  PROVE  Attended'
<1>1. \A s \in Dispatched' : Carried(s)'
  BY DEF Attended
<1>2. CASE Dispatched' # {}
  <2>1. Waker'
    BY <1>1, <1>2 DEF Carried, Carries, InFlight, Waker, Running, At
  <2> QED
    BY <1>1, <2>1 DEF Attended
<1>3. CASE Dispatched' = {}
  <2>1. ASSUME Queued' # {} PROVE Waker'
    <3>1. Dispatched = {} /\ Waker
      BY <1>3, <2>1 DEF Attended
    <3>2. \E w \in Workers : PastScan(w)'
      BY <1>3, <3>1, IdleWaker
    <3> QED
      BY <3>2 DEF PastScan, Waker
  <2> QED
    BY <1>1, <2>1 DEF Attended
<1> QED
  BY <1>2, <1>3

\* A step that leaves the messages and the carriers where they are.
LEMMA CarriersStay ==
  ASSUME TypeOK, queue' = queue, argOf' = argOf,
         \A w \in Workers :
           \/ worker'[w] = worker[w]
           \/ ~Running(w) /\ (worker[w].pc = "begin" => argOf[worker[w].task] = NoScan),
         NEW s \in Scans, Carried(s)
  PROVE  Carried(s)'
<1>1. NoScan \notin Scans
  BY DEF NoScan, Scans
<1>2. CASE \E w \in Workers : Carries(w, s)
  <2>1. PICK w \in Workers : Carries(w, s)
    BY <1>2
  <2>2. worker'[w] = worker[w]
    BY <1>1, <2>1 DEF Carries
  <2>3. Carries(w, s)'
    BY <2>1, <2>2 DEF Carries, Running
  <2> QED
    BY <2>3 DEF Carried
<1>3. CASE \E t \in Tasks : InFlight(t, s)
  BY <1>3 DEF Carried, InFlight
<1> QED
  BY <1>2, <1>3 DEF Carried

\* A scan whose row stays and whose task does not end stays dispatched.
LEMMA StaysDispatched ==
  ASSUME Alike(scan, scan'), NEW s \in Dispatched,
         \/ status'[scan[s].task] = status[scan[s].task]
         \/ status'[scan[s].task] \in DispatchedTaskStates
  PROVE  s \in Dispatched'
<1>1. SameClaim(scan[s], scan'[s])
  BY DEF Alike, Dispatched, IsDispatched, Unclaimed, NoTask
<1> QED
  BY <1>1 DEF SameClaim, Dispatched, IsDispatched

\* A worker that ends its task carries no scan any more.
LEMMA EndedTaskCarries ==
  ASSUME TypeOK, Work, provider = "active", NEW w \in Workers, worker[w].pc = "finish",
         NEW s \in Scans, Carried(s)
  PROVE  scan[s].task # worker[w].task
<1> SUFFICES ASSUME scan[s].task = worker[w].task PROVE FALSE
  OBVIOUS
<1>1. s # NoScan /\ status[worker[w].task] = "STARTED"
  BY DEF NoScan, Scans, Work, OneCarrier
<1>2. CASE \E v \in Workers : Carries(v, s)
  <2>1. PICK v \in Workers : Carries(v, s)
    BY <1>2
  <2>2. worker[v].pc # "finish" /\ worker[v].pc # "idle"
    BY <2>1 DEF Carries, Running
  <2>3. scan[s].task = worker[v].task
    BY <1>1, <2>1 DEF Carries, Work, RunningDispatched, CarriedScans, WaitsFor, Scheduled
  <2> QED
    BY <2>2, <2>3 DEF Work, OneCarrier
<1>3. CASE \E t \in Tasks : InFlight(t, s)
  <2>1. PICK t \in Tasks : InFlight(t, s)
    BY <1>3
  <2>2. scan[s].task = t /\ status[t] = "PENDING"
    BY <1>1, <2>1 DEF InFlight, Work, OneCarrier, CarriedScans, WaitsFor, Scheduled
  <2> QED
    BY <1>1, <2>2
<1> QED
  BY <1>2, <1>3 DEF Carried

\* The steps that move no scan in or out of the queue and leave the broker alone.
LEMMA AttendedQuietly ==
  ASSUME TypeOK, Fresh, Work, Attended, provider = "active", ~clobbered',
         \/ RemoveSchedule \/ UpsertCommit \/ UNCHANGED vars
         \/ \E w \in Workers : \/ SkipScheduled(w) \/ EnsureRead(w) \/ EnsureWrite(w)
                               \/ FinishTask(w)
  PROVE  Attended'
<1>1. Alike(scan, scan') /\ ClaimedTasksMoveOn
  BY QuietAlike, QuietMovesOn
<1>2. \A s \in Scans : (s \in Queued' <=> s \in Queued) /\ (s \in Dispatched' => s \in Dispatched)
  BY <1>1, PlaceKept DEF Alike, SameClaim
<1>3. Queued' = Queued /\ Dispatched' \subseteq Dispatched
  BY <1>2 DEF Queued, Dispatched
<1>4. queue' = queue /\ argOf' = argOf
  BY DEF RemoveSchedule, UpsertCommit, SkipScheduled, EnsureRead, EnsureWrite, FinishTask,
         vars, taskVars
<1>5. Dispatched \subseteq Dispatched'
  <2>1. CASE status' = status
    BY <1>1, <2>1, StaysDispatched
  <2>2. ASSUME NEW w \in Workers, FinishTask(w) PROVE Dispatched \subseteq Dispatched'
    <3>1. worker[w].pc = "finish" /\ worker[w].task \in Tasks
      BY <2>2, WorkerFacts DEF FinishTask, At, TypeOK
    <3>2. \A s \in Dispatched : scan[s].task # worker[w].task
      BY <3>1, EndedTaskCarries DEF Attended, Dispatched
    <3>3. \E st \in TaskStatuses : status' = [status EXCEPT ![worker[w].task] = st]
      BY <2>2 DEF FinishTask, TaskStatuses
    <3>4. \A s \in Dispatched : status'[scan[s].task] = status[scan[s].task]
      BY <3>2, <3>3 DEF TypeOK, TaskTypes
    <3> QED
      BY <1>1, <3>4, StaysDispatched
  <2>3. status' = status \/ \E w \in Workers : FinishTask(w)
    BY DEF RemoveSchedule, UpsertCommit, SkipScheduled, EnsureRead, EnsureWrite, vars, taskVars
  <2> QED
    BY <2>1, <2>2, <2>3
<1>6. \A w \in Workers :
        \/ worker'[w] = worker[w]
        \/ /\ ~Running(w) /\ (worker[w].pc = "begin" => argOf[worker[w].task] = NoScan)
           /\ PastScan(w) => PastScan(w)'
  <2>1. CASE RemoveSchedule \/ UpsertCommit \/ UNCHANGED vars
    BY <2>1 DEF RemoveSchedule, UpsertCommit, vars
  <2>2. ASSUME NEW w \in Workers, EnsureRead(w) \/ EnsureWrite(w)
        PROVE  /\ \A v \in Workers : v # w => worker'[v] = worker[v]
               /\ ~Running(w) /\ worker[w].pc # "begin" /\ PastScan(w)'
    <3>1. \A v \in Workers : v # w => worker'[v] = worker[v]
      BY <2>2, StepEffects DEF WorkerStep
    <3>2. worker[w].pc \in {"ensureRead", "ensureWrite"}
      BY <2>2 DEF EnsureRead, EnsureWrite, At
    <3>3. worker'[w].pc \in {"ensureWrite", "dispatch"}
      <4>1. CASE EnsureRead(w)
        <5>1. PICK keep, drop, save :
                worker' = [worker EXCEPT ![w].pc = "ensureWrite", ![w].keep = keep,
                                         ![w].drop = drop, ![w].save = save]
          BY <4>1 DEF EnsureRead
        <5> QED
          BY <5>1 DEF TypeOK, ProcessTypes, WorkerStates
      <4>2. CASE EnsureWrite(w)
        <5>1. worker' = [worker EXCEPT ![w].pc = "dispatch", ![w].keep = NoScan,
                                       ![w].drop = {}, ![w].save = FALSE]
          BY <4>2 DEF EnsureWrite
        <5> QED
          BY <5>1 DEF TypeOK, ProcessTypes, WorkerStates
      <4> QED
        BY <2>2, <4>1, <4>2
    <3> QED
      BY <3>1, <3>2, <3>3 DEF Running, PastScan
  <2>3. ASSUME NEW w \in Workers, SkipScheduled(w) \/ FinishTask(w)
        PROVE  /\ \A v \in Workers : v # w => worker'[v] = worker[v]
               /\ ~Running(w) /\ (worker[w].pc = "begin" => argOf[worker[w].task] = NoScan)
               /\ ~PastScan(w)
    <3>1. \A v \in Workers : v # w => worker'[v] = worker[v]
      BY <2>3, StepEffects DEF WorkerStep
    <3> QED
      BY <2>3, <3>1 DEF SkipScheduled, FinishTask, Scheduled, At, Running, PastScan
  <2> QED
    BY <2>1, <2>2, <2>3
<1>7. \A s \in Dispatched : Carried(s) => Carried(s)'
  BY <1>4, <1>6, CarriersStay DEF Dispatched
<1>8. (\E w \in Workers : PastScan(w)) => \E w \in Workers : PastScan(w)'
  BY <1>6 DEF PastScan
<1> QED
  BY <1>3, <1>5, <1>7, <1>8, AttendedKept

\* A task is handed out: the scan of CreateScan gets its message.
LEMMA AttendedNewTask ==
  ASSUME TypeOK, TypeOK', Fresh, Work, Attended, provider = "active",
         ~clobbered', ~Spend({"create", "publish"}),
         CreateScan \/ BeatFire \/ \E on, daily \in BOOLEAN : UpsertRead(on, daily)
  PROVE  Attended'
<1>1. worker' = worker
  BY DEF CreateScan, BeatFire, UpsertRead
<1>2. \A t \in Tasks : t < nextTask => queue'[t] = queue[t] /\ argOf'[t] = argOf[t]
  <2>1. \A t \in Tasks : t < nextTask => t # nextTask
    BY TaskOrder DEF Tasks
  <2>2. \/ queue' = queue
        \/ \E n \in Nat : queue' = [queue EXCEPT ![nextTask] = n]
    BY DEF CreateScan, BeatFire, UpsertRead
  <2>3. \/ argOf' = argOf
        \/ \E s \in Scans : argOf' = [argOf EXCEPT ![nextTask] = s]
    BY DEF CreateScan, BeatFire, UpsertRead
  <2> QED
    BY <2>1, <2>2, <2>3 DEF TypeOK, TaskTypes
<1>3. \A s \in Scans : Carried(s) => Carried(s)'
  <2> SUFFICES ASSUME NEW s \in Scans, Carried(s) PROVE Carried(s)'
    OBVIOUS
  <2>1. ASSUME NEW w \in Workers, Carries(w, s) PROVE Carries(w, s)'
    <3>1. worker[w].pc = "begin" => worker[w].task \in Tasks /\ worker[w].task < nextTask
      BY WorkerFacts, TaskOrder DEF TypeOK
    <3> QED
      BY <1>1, <1>2, <2>1, <3>1 DEF Carries, Running
  <2>2. ASSUME NEW t \in Tasks, InFlight(t, s) PROVE InFlight(t, s)'
    BY <1>2, <2>2, TaskOrder DEF InFlight
  <2> QED
    BY <2>1, <2>2 DEF Carried
<1>4. (\E w \in Workers : PastScan(w)) => \E w \in Workers : PastScan(w)'
  BY <1>1 DEF PastScan
<1>5. CASE CreateScan
  <2> DEFINE n == nextScan
  <2>1. /\ n \in Scans /\ nextTask \in Tasks
        /\ scan' = [scan EXCEPT ![n] = [state |-> "AVAILABLE", trigger |-> "manual",
                                        task |-> nextTask, beat |-> 0]]
        /\ status' = [status EXCEPT ![nextTask] = IF ActiveScan THEN "QUEUED" ELSE "PENDING"]
        /\ argOf' = [argOf EXCEPT ![nextTask] = n]
    BY <1>5 DEF CreateScan
  <2>2. ~ActiveScan => queue' = [queue EXCEPT ![nextTask] = 1]
    BY <1>5 DEF CreateScan
  <2>3. /\ Queued' = IF ActiveScan THEN Queued \cup {n} ELSE Queued
        /\ QueueStep
    BY <1>5, CreateStep
  <2>4. CASE ActiveScan
    <3>1. \A s \in Scans \ {n} : scan'[s] = scan[s] /\ scan[s].task # nextTask
      BY <2>1, TaskOrder DEF TypeOK, TableTypes
    <3>2. \A s \in Scans \ {n} : s \in Dispatched' <=> s \in Dispatched
      BY <2>1, <3>1 DEF Dispatched, IsDispatched, TypeOK, TableTypes, TaskTypes, Rows
    <3>3. n \notin Dispatched
      BY TableFacts, UnclaimedRows DEF Dispatched, IsDispatched, WellKept
    <3>4. scan'[n].state = "AVAILABLE" /\ scan'[n].task = nextTask /\ status'[nextTask] = "QUEUED"
      BY <2>1, <2>4 DEF TypeOK, TableTypes, TaskTypes
    <3>5. n \notin Dispatched'
      BY <3>4 DEF Dispatched, IsDispatched, DispatchedTaskStates
    <3>6. Dispatched' = Dispatched
      BY <3>2, <3>3, <3>5 DEF Dispatched
    <3>7. Dispatched' = {} => Queued # {}
      BY <2>4, <3>6 DEF ActiveScan
    <3> QED
      BY <1>3, <1>4, <3>6, <3>7, AttendedKept DEF Dispatched
  <2>5. CASE ~ActiveScan
    <3>1. Dispatched = {} /\ Queued' = {}
      BY <2>3, <2>5 DEF ActiveScan
    <3>2. PICK s \in Scans, t \in Tasks : s = n /\ t = nextTask
      BY <2>1
    <3>3. InFlight(t, s)'
      <4>1. queue'[nextTask] = 1 /\ argOf'[nextTask] = n
        BY <2>1, <2>2, <2>5 DEF TypeOK, TaskTypes
      <4>2. queue'[t] = 1 /\ argOf'[t] = s
        BY <3>2, <4>1
      <4> QED
        BY <4>2 DEF InFlight
    <3>4. \A u \in Dispatched' : u = n
      <4>1. n \in Dispatched'
        <5>1. /\ scan'[n].state = "AVAILABLE" /\ scan'[n].task = nextTask
              /\ status'[nextTask] = "PENDING"
          BY <2>1, <2>5 DEF TypeOK, TableTypes, TaskTypes
        <5> QED
          BY <2>1, <5>1, TaskOrder DEF Dispatched, IsDispatched, DispatchedTaskStates
      <4>2. Work'
        BY <1>5, WorkCreate
      <4> QED
        BY <4>1, <4>2 DEF Work, OneDispatched
    <3>5. Carried(s)'
      BY <3>3 DEF Carried
    <3>6. \A u \in Dispatched' : Carried(u)'
      BY <3>2, <3>4, <3>5
    <3> QED
      BY <3>1, <3>6 DEF Attended
  <2> QED
    BY <2>4, <2>5
<1>6. CASE BeatFire \/ \E on, daily \in BOOLEAN : UpsertRead(on, daily)
  <2>1. Alike(scan, scan') /\ ClaimedTasksMoveOn
    BY <1>6, QuietAlike, QuietMovesOn
  <2>2. \A s \in Scans : (s \in Queued' <=> s \in Queued) /\ (s \in Dispatched' => s \in Dispatched)
    BY <2>1, PlaceKept DEF Alike, SameClaim
  <2>3. Queued' = Queued /\ Dispatched' \subseteq Dispatched
    BY <2>2 DEF Queued, Dispatched
  <2>4. \A s \in Dispatched : scan[s].task # nextTask
    BY TaskOrder DEF Dispatched
  <2>5. \/ status' = status
        \/ nextTask \in Tasks /\ status' = [status EXCEPT ![nextTask] = "PENDING"]
    BY <1>6 DEF BeatFire, UpsertRead
  <2>6. \A s \in Dispatched : \/ status'[scan[s].task] = status[scan[s].task]
                              \/ scan[s].task = NoTask
    BY <2>4, <2>5 DEF Dispatched, TypeOK, TableTypes, TaskTypes, Rows
  <2>7. Dispatched \subseteq Dispatched'
    <3> SUFFICES ASSUME NEW s \in Dispatched PROVE s \in Dispatched'
      OBVIOUS
    <3>1. CASE scan[s].task = NoTask
      <4>1. SameClaim(scan[s], scan'[s]) /\ scan[s].state = "EXECUTING"
        BY <2>1, <3>1 DEF Alike, Dispatched, IsDispatched, Unclaimed
      <4> QED
        BY <4>1 DEF SameClaim, Dispatched, IsDispatched
    <3>2. CASE scan[s].task # NoTask
      BY <2>1, <2>6, <3>2, StaysDispatched
    <3> QED
      BY <3>1, <3>2
  <2> QED
    BY <1>3, <1>4, <2>3, <2>7, AttendedKept DEF Dispatched
<1> QED
  BY <1>5, <1>6

\* A message becomes a worker.
LEMMA AttendedStart ==
  ASSUME TypeOK, TypeOK', Fresh, Work, Attended, provider = "active", ~clobbered', revoked = {},
         NEW w \in Workers, NEW t \in Tasks, Start(w, t)
  PROVE  Attended'
<1>1. /\ worker[w].pc = "idle" /\ queue[t] = 1 /\ status[t] = "PENDING"
      /\ queue' = [queue EXCEPT ![t] = @ - 1] /\ argOf' = argOf
      /\ status' = [status EXCEPT ![t] = "STARTED"]
      /\ \A v \in Workers : v # w => worker'[v] = worker[v]
      /\ worker'[w].pc = "begin" /\ worker'[w].task = t
  <2>1. status' = [status EXCEPT ![t] = "STARTED"] /\ worker' # worker
    BY DEF Start, TypeOK, ProcessTypes, WorkerStates, Idle
  <2>2. queue[t] > 0
    BY StartFacts
  <2>3. queue[t] = 1 /\ status[t] = "PENDING"
    BY <2>2 DEF Work, OneCarrier
  <2> QED
    BY <2>1, <2>3, StartFacts
<1>2. Alike(scan, scan') /\ ClaimedTasksMoveOn
  BY QuietAlike, QuietMovesOn
<1>3. \A s \in Scans : (s \in Queued' <=> s \in Queued) /\ (s \in Dispatched' => s \in Dispatched)
  BY <1>2, PlaceKept DEF Alike, SameClaim
<1>4. Queued' = Queued /\ Dispatched' \subseteq Dispatched
  BY <1>3 DEF Queued, Dispatched
<1>5. Dispatched \subseteq Dispatched'
  <2>1. \A s \in Dispatched : \/ status'[scan[s].task] = status[scan[s].task]
                              \/ status'[scan[s].task] \in DispatchedTaskStates
    BY <1>1 DEF DispatchedTaskStates, TypeOK, TaskTypes
  <2> QED
    BY <1>2, <2>1, StaysDispatched
<1>6. ASSUME NEW s \in Scans, Carried(s) PROVE Carried(s)'
  <2>1. ASSUME NEW v \in Workers, Carries(v, s) PROVE Carried(s)'
    <3>1. worker'[v] = worker[v]
      BY <1>1, <2>1 DEF Carries, Running
    <3>2. Carries(v, s)'
      BY <1>1, <2>1, <3>1 DEF Carries, Running
    <3> QED
      BY <3>2 DEF Carried
  <2>2. ASSUME NEW u \in Tasks, InFlight(u, s) PROVE Carried(s)'
    <3>1. CASE u = t
      <4>1. Carries(w, s)'
        BY <1>1, <2>2, <3>1 DEF InFlight, Carries
      <4> QED
        BY <4>1 DEF Carried
    <3>2. CASE u # t
      <4>1. InFlight(u, s)'
        BY <1>1, <2>2, <3>2 DEF InFlight, TypeOK, TaskTypes
      <4> QED
        BY <4>1 DEF Carried
    <3> QED
      BY <3>1, <3>2
  <2> QED
    BY <1>6, <2>1, <2>2 DEF Carried
<1>7. (\E v \in Workers : PastScan(v)) => \E v \in Workers : PastScan(v)'
  BY <1>1 DEF PastScan
<1> QED
  BY <1>4, <1>5, <1>6, <1>7, AttendedKept DEF Dispatched

\* scan-perform goes for the scan it carries, which enters.
LEMMA AttendedEnters ==
  ASSUME TypeOK, TypeOK', Fresh, Work, Attended, provider = "active", ~clobbered',
         NEW w \in Workers, BeginManual(w) \/ EnterScan(w)
  PROVE  Attended'
<1> DEFINE n == worker[w].scan
<1>1. /\ \A v \in Workers : v # w => worker'[v] = worker[v]
      /\ UNCHANGED <<status, queue, argOf>>
  BY StepEffects DEF WorkerStep, BeginManual, EnterScan, taskVars
<1>2. CASE BeginManual(w)
  <2>1. /\ worker[w].pc = "begin" /\ worker'[w].pc = "enter"
        /\ worker'[w].scan = argOf[worker[w].task] /\ scan' = scan
    BY <1>2 DEF BeginManual, At, TypeOK, ProcessTypes, WorkerStates, scanVars
  <2>2. \A s \in Scans : Carries(w, s) => Carries(w, s)'
    BY <2>1 DEF Carries, Running
  <2>3. Queued' = Queued /\ Dispatched' = Dispatched
    BY <1>1, <2>1 DEF Queued, Dispatched
  <2>4. ~PastScan(w)
    BY <2>1 DEF PastScan
  <2>5. \A v \in Workers, s \in Scans : v # w /\ Carries(v, s) => Carries(v, s)'
    BY <1>1 DEF Carries, Running
  <2>6. \A t \in Tasks, s \in Scans : InFlight(t, s) => InFlight(t, s)'
    BY <1>1 DEF InFlight
  <2>7. \A s \in Scans : Carried(s) => Carried(s)'
    BY <2>2, <2>5, <2>6 DEF Carried
  <2>8. (\E v \in Workers : PastScan(v)) => \E v \in Workers : PastScan(v)'
    BY <1>1, <2>4 DEF PastScan
  <2> QED
    BY <2>3, <2>7, <2>8, AttendedKept DEF Dispatched
<1>3. CASE EnterScan(w)
  <2>1. Running(w) /\ n \in Scans /\ n \in Dispatched /\ worker[w].pc = "enter"
    BY <1>3, WorkerFacts DEF EnterScan, At, Running, TypeOK, Work, RunningDispatched
  <2>2. scan[n].state # "none"
    BY <2>1 DEF Dispatched, IsDispatched
  <2>3. scan' = [scan EXCEPT ![n].state = "EXECUTING"] /\ Goto(w, "scanning")
    BY <1>3, <2>2 DEF EnterScan
  <2>4. worker'[w].pc = "scanning" /\ worker'[w].scan = n
    BY <2>3 DEF Goto, TypeOK, ProcessTypes, WorkerStates
  <2>5. scan'[n].state = "EXECUTING" /\ \A s \in Scans \ {n} : scan'[s] = scan[s]
    BY <2>1, <2>3 DEF TypeOK, TableTypes, Rows
  <2>6. n \in Dispatched' /\ n \notin Queued'
    BY <2>1, <2>5 DEF Dispatched, IsDispatched, Queued, IsQueued
  <2>7. \A s \in Scans \ {n} : (s \in Dispatched' <=> s \in Dispatched)
    BY <1>1, <2>5 DEF Dispatched
  <2>8. Dispatched' = Dispatched
    BY <2>1, <2>6, <2>7 DEF Dispatched
  <2>9. \A v \in Workers, s \in Scans : Carries(v, s) => Carries(v, s)'
    <3>1. \A s \in Scans : Carries(w, s) => s = n
      BY <2>1 DEF Carries, Running
    <3>2. \A s \in Scans : s = n => Carries(w, s)'
      BY <2>4 DEF Carries, Running
    <3>3. \A v \in Workers, s \in Scans : v # w /\ Carries(v, s) => Carries(v, s)'
      BY <1>1 DEF Carries, Running
    <3> QED
      BY <3>1, <3>2, <3>3
  <2>10. \A t \in Tasks, s \in Scans : InFlight(t, s) => InFlight(t, s)'
    BY <1>1 DEF InFlight
  <2>11. \A s \in Scans : Carried(s) => Carried(s)'
    BY <2>9, <2>10 DEF Carried
  <2> QED
    BY <2>1, <2>8, <2>11, AttendedKept DEF Dispatched
<1> QED
  BY <1>2, <1>3

\* The scan ends, and its worker goes on to wake the queue.
LEMMA AttendedFinish ==
  ASSUME TypeOK, TypeOK', Work, RunnersUnfinished, provider = "active",
         NEW w \in Workers, FinishScan(w)
  PROVE  Attended'
<1> DEFINE n == worker[w].scan
<1>1. Running(w) /\ n \in Scans /\ n \in Dispatched /\ worker[w].pc = "scanning"
  BY WorkerFacts DEF FinishScan, At, Running, TypeOK, Work, RunningDispatched
<1>2. scan[n].state # "none"
  BY <1>1 DEF Dispatched, IsDispatched
<1>3. \E st \in {"COMPLETED", "FAILED"} : scan' = [scan EXCEPT ![n].state = st]
  BY <1>2 DEF FinishScan
<1>4. scan'[n].state \in {"COMPLETED", "FAILED"} /\ \A s \in Scans \ {n} : scan'[s] = scan[s]
  BY <1>1, <1>3 DEF TypeOK, TableTypes, Rows
<1>5. status' = status
  BY DEF FinishScan, taskVars
<1>6. \A s \in Scans : s \notin Dispatched'
  <2>1. n \notin Dispatched'
    BY <1>4 DEF Dispatched, IsDispatched
  <2>2. \A s \in Scans \ {n} : s \notin Dispatched
    BY <1>1 DEF Work, OneDispatched
  <2>3. \A s \in Scans \ {n} : s \notin Dispatched'
    BY <1>4, <1>5, <2>2 DEF Dispatched, IsDispatched
  <2> QED
    BY <2>1, <2>3
<1>7. PastScan(w)'
  <2>1. \/ worker' = [worker EXCEPT ![w].pc = Finally(w)]
        \/ worker' = [worker EXCEPT ![w].pc = Finally(w), ![w].ok = FALSE]
    BY DEF FinishScan, Goto, Fail
  <2>2. Finally(w) \in {"ensureRead", "dispatch"}
    BY DEF Finally
  <2>3. worker'[w].pc = Finally(w)
    BY <2>1 DEF TypeOK, ProcessTypes, WorkerStates
  <2> QED
    BY <2>2, <2>3 DEF PastScan
<1>8. Waker'
  BY <1>7 DEF PastScan, Waker
<1> QED
  BY <1>6, <1>8 DEF Attended, Dispatched

\* The oldest queued scan gets its message.
LEMMA AttendedDispatch ==
  ASSUME TypeOK, TypeOK', Fresh, Work, Attended, provider = "active", ~clobbered',
         ~Spend({"publish"}), NEW w \in Workers, DispatchNext(w)
  PROVE  Attended'
<1>1. worker[w].pc = "dispatch" /\ scan' = scan /\ argOf' = argOf
  BY DEF DispatchNext, At, scanVars
<1>2. CASE ~(Dispatched = {} /\ Queued # {})
  <2>1. status' = status /\ queue' = queue
    BY <1>2 DEF DispatchNext
  <2>2. Queued' = Queued /\ Dispatched' = Dispatched
    BY <1>1, <2>1 DEF Queued, Dispatched
  <2>3. \A v \in Workers : v # w => worker'[v] = worker[v]
    BY StepEffects DEF WorkerStep
  <2>4. \A s \in Scans : Carried(s) => Carried(s)'
    BY <1>1, <2>1, <2>3, CarriersStay DEF Running
  <2>5. \A s \in Dispatched' : Carried(s)'
    BY <2>2, <2>4 DEF Attended, Dispatched
  <2>6. Queued' # {} => Waker'
    <3> SUFFICES ASSUME Queued' # {} PROVE Waker'
      OBVIOUS
    <3>1. Dispatched' # {}
      BY <1>2, <2>2
    <3> QED
      BY <2>5, <3>1 DEF Carried, Carries, InFlight, Waker, Running, At
  <2> QED
    BY <2>5, <2>6 DEF Attended
<1>3. CASE Dispatched = {} /\ Queued # {}
  <2>1. PICK q \in Scans : q = Min(Queued) /\ q \in Queued
    BY <1>3, OldestQueued DEF Queued
  <2>2. PICK t \in Tasks : t = scan[q].task
    BY <2>1, QueuedTask
  <2>3. /\ status' = [status EXCEPT ![t] = "PENDING"]
        /\ queue' = [queue EXCEPT ![t] = @ + 1]
    BY <1>3, <2>1, <2>2 DEF DispatchNext
  <2>4. argOf[t] = q
    BY <2>1, <2>2 DEF Work, CarriedScans
  <2>5. queue'[t] > 0 /\ status'[t] = "PENDING"
    BY <2>3 DEF TypeOK, TaskTypes
  <2>6. InFlight(t, q)'
    BY <1>1, <2>4, <2>5 DEF InFlight
  <2>7. q \in Dispatched'
    <3>1. scan[q].state = "AVAILABLE"
      BY <2>1, QueuedTask
    <3>2. t # NoTask
      BY DEF Tasks, NoTask
    <3> QED
      BY <1>1, <2>2, <2>5, <3>1, <3>2 DEF Dispatched, IsDispatched, DispatchedTaskStates
  <2>8. \A s \in Dispatched' : s = q
    <3>1. Work'
      BY WorkDispatch
    <3> QED
      BY <2>7, <3>1 DEF Work, OneDispatched
  <2>9. Carried(q)'
    BY <2>6 DEF Carried
  <2>10. Waker'
    BY <1>1, <2>4, <2>5, <2>7 DEF Waker
  <2> QED
    BY <2>8, <2>9, <2>10 DEF Attended
<1> QED
  BY <1>2, <1>3

\* The run that is queued finds a scan that is active, and attended.
LEMMA AttendedQueue ==
  ASSUME TypeOK, TypeOK', Fresh, Work, Attended, provider = "active", ~clobbered',
         NEW w \in Workers, QueueScheduled(w)
  PROVE  Attended'
<1>1. /\ worker[w].pc = "begin" /\ argOf[worker[w].task] = NoScan /\ queue' = queue
      /\ ActiveScan
      /\ \A v \in Workers : v # w => worker'[v] = worker[v]
  BY StepEffects DEF QueueScheduled, CanRunScheduled, At, Scheduled, WorkerStep
<1>2. \A t \in Tasks : t < nextTask => argOf'[t] = argOf[t]
  <2>1. \/ argOf' = argOf
        \/ nextTask \in Tasks /\ argOf' = [argOf EXCEPT ![nextTask] = nextScan]
    BY QueueFacts
  <2>2. \A t \in Tasks : t < nextTask => t # nextTask
    BY TaskOrder DEF Tasks
  <2> QED
    BY <2>1, <2>2 DEF TypeOK, TaskTypes
<1>3. ASSUME NEW s \in Scans, Carried(s) PROVE Carried(s)'
  <2>1. ASSUME NEW v \in Workers, Carries(v, s) PROVE Carries(v, s)'
    <3>1. v # w
      BY <1>1, <2>1 DEF Carries, Running, NoScan, Scans
    <3>2. worker[v].pc = "begin" => worker[v].task \in Tasks /\ worker[v].task < nextTask
      BY WorkerFacts, TaskOrder DEF TypeOK
    <3> QED
      BY <1>1, <1>2, <2>1, <3>1, <3>2 DEF Carries, Running
  <2>2. ASSUME NEW t \in Tasks, InFlight(t, s) PROVE InFlight(t, s)'
    BY <1>1, <1>2, <2>2, TaskOrder DEF InFlight
  <2> QED
    BY <1>3, <2>1, <2>2 DEF Carried
<1>4. \A s \in Scans : s \in Dispatched' <=> s \in Dispatched
  <2>1. CASE Alike(scan, scan') /\ status' = status
    <3>1. \A s \in Scans : s \in Dispatched' => s \in Dispatched
      BY <2>1, SameTasksMoveOn, PlaceKept DEF Alike, SameClaim
    <3>2. \A s \in Dispatched : s \in Dispatched'
      BY <2>1, StaysDispatched
    <3> QED
      BY <3>1, <3>2
  <2>2. CASE /\ Alike(WithQueued, scan') /\ nextScan \in Scans /\ nextTask \in Tasks
             /\ status' = [status EXCEPT ![nextTask] = "QUEUED"]
    <3>1. \A s \in Scans \ {nextScan} : WithQueued[s] = scan[s]
      BY TableFacts DEF WithQueued
    <3>2. ASSUME NEW s \in Scans \ {nextScan} PROVE s \in Dispatched' <=> s \in Dispatched
      <4>1. SameClaim(scan[s], scan'[s]) \/ (Unclaimed(scan[s]) /\ Unclaimed(scan'[s]))
        BY <2>2, <3>1 DEF Alike
      <4>2. scan[s].task # NoTask => status'[scan[s].task] = status[scan[s].task]
        BY <2>2, TaskOrder DEF TypeOK, TableTypes, TaskTypes, Rows
      <4>3. CASE SameClaim(scan[s], scan'[s])
        BY <4>2, <4>3 DEF SameClaim, Dispatched, IsDispatched
      <4>4. CASE Unclaimed(scan[s]) /\ Unclaimed(scan'[s])
        BY <4>4 DEF Unclaimed, Dispatched, IsDispatched
      <4> QED
        BY <4>1, <4>3, <4>4
    <3>3. nextScan \notin Dispatched
      BY TableFacts, UnclaimedRows DEF Dispatched, IsDispatched, WellKept
    <3>4. nextScan \notin Dispatched'
      <4>1. WithQueued[nextScan].state = "AVAILABLE" /\ WithQueued[nextScan].task = nextTask
        BY <2>2, TableFacts DEF WithQueued, QueuedRow
      <4>2. scan'[nextScan].state = "AVAILABLE" /\ scan'[nextScan].task = nextTask
        BY <2>2, <4>1, TaskOrder DEF Alike, SameClaim, Unclaimed
      <4>3. status'[nextTask] = "QUEUED"
        BY <2>2 DEF TypeOK, TaskTypes
      <4> QED
        BY <4>2, <4>3 DEF Dispatched, IsDispatched, DispatchedTaskStates
    <3> QED
      BY <3>2, <3>3, <3>4
  <2> QED
    BY <2>1, <2>2, QueueFacts
<1>5. Dispatched' = Dispatched
  BY <1>4 DEF Dispatched
<1>6. Dispatched' = {} => Queued # {}
  BY <1>1, <1>5 DEF ActiveScan
<1>7. (\E v \in Workers : PastScan(v)) => \E v \in Workers : PastScan(v)'
  BY <1>1 DEF PastScan
<1> QED
  BY <1>3, <1>5, <1>6, <1>7, AttendedKept DEF Dispatched

\* The scheduled run that starts at once runs the only dispatched scan.
LEMMA AttendedRun ==
  ASSUME TypeOK, TypeOK', Fresh, Work, NEW w \in Workers, RunScheduled(w)
  PROVE  Attended'
<1>1. PICK p \in Scans :
        /\ worker'[w].scan = p
        /\ \A s \in Scans \ {p} : SameClaim(scan[s], scan'[s])
                                  \/ (Unclaimed(scan[s]) /\ Unclaimed(scan'[s]))
  BY RunFacts
<1>2. worker'[w].pc = "enter" /\ status' = status
  BY RunFacts DEF taskVars
<1>3. Queued = {} /\ Dispatched = {}
  BY DEF RunScheduled, ActiveScan
<1>4. \A s \in Dispatched' : s = p
  BY <1>1, <1>2, <1>3, SameTasksMoveOn, PlaceKept DEF SameClaim, Dispatched
<1>5. Carries(w, p)' /\ Running(w)'
  BY <1>1, <1>2 DEF Carries, Running
<1>6. Carried(p)' /\ Waker'
  BY <1>2, <1>5 DEF Carried, Waker
<1> QED
  BY <1>4, <1>6 DEF Attended

LEMMA WakerStep ==
  ASSUME WakerInv, QueueInv, [Next]_vars, Quiet'
  PROVE  revoked' = {} /\ (provider' = "active" => Attended')
<1>1. /\ Quiet /\ Undisturbed' /\ ~clobbered'
      /\ \A t \in Tasks : ~Redeliver(t) /\ ~RevokeTask(t)
      /\ \A w \in Workers : ~Crash(w) /\ ~DbError(w)
      /\ ~Spend({"publish"}) /\ ~Spend({"create", "publish"})
  BY QuietStep DEF WakerInv, SingleFlightInv, Kinds, Faults
<1>2. /\ TypeOK /\ Fresh /\ Work /\ RunnersUnfinished /\ revoked = {}
      /\ provider = "active" => Attended
  BY <1>1 DEF WakerInv, QueueInv, SingleFlightInv, Quiet
<1>3. TypeOK'
  BY <1>2, TypeStep
<1>4. revoked' = revoked
  BY <1>1 DEF Next, WorkerStep, CreateScan, RemoveSchedule, UpsertCommit, BeatFire, UpsertRead,
         Start, BeginManual, SkipScheduled, QueueScheduled, RunScheduled, EnterScan, FinishScan,
         EnsureRead, EnsureWrite, DispatchNext, FinishTask, DeleteProvider, PurgeScans,
         PurgeProvider, vars, taskVars
<1>5. ASSUME provider' = "active" PROVE Attended'
  <2>1. ~DeleteProvider /\ ~PurgeProvider /\ ~PurgeScans
    BY <1>5 DEF DeleteProvider, PurgeProvider, PurgeScans
  <2>2. provider = "active"
    BY <1>5, <2>1 DEF Next, WorkerStep, CreateScan, RemoveSchedule, UpsertCommit, BeatFire,
           UpsertRead, RevokeTask, Redeliver, Start, BeginManual, SkipScheduled, QueueScheduled,
           RunScheduled, EnterScan, FinishScan, EnsureRead, EnsureWrite, DispatchNext,
           FinishTask, DbError, Crash, vars
  <2>3. Attended
    BY <1>2, <2>2
  <2>4. CASE \/ RemoveSchedule \/ UpsertCommit \/ UNCHANGED vars
             \/ \E w \in Workers : \/ SkipScheduled(w) \/ EnsureRead(w) \/ EnsureWrite(w)
                                   \/ FinishTask(w)
    BY <1>1, <1>2, <2>2, <2>3, <2>4, AttendedQuietly
  <2>5. CASE CreateScan \/ BeatFire \/ \E on, daily \in BOOLEAN : UpsertRead(on, daily)
    BY <1>1, <1>2, <1>3, <2>2, <2>3, <2>5, AttendedNewTask
  <2>6. CASE \E w \in Workers, t \in Tasks : Start(w, t)
    BY <1>1, <1>2, <1>3, <2>2, <2>3, <2>6, AttendedStart
  <2>7. CASE \E w \in Workers : BeginManual(w) \/ EnterScan(w)
    BY <1>1, <1>2, <1>3, <2>2, <2>3, <2>7, AttendedEnters
  <2>8. CASE \E w \in Workers : FinishScan(w)
    BY <1>2, <1>3, <2>2, <2>8, AttendedFinish
  <2>9. CASE \E w \in Workers : DispatchNext(w)
    BY <1>1, <1>2, <1>3, <2>2, <2>3, <2>9, AttendedDispatch
  <2>10. CASE \E w \in Workers : QueueScheduled(w)
    BY <1>1, <1>2, <1>3, <2>2, <2>3, <2>10, AttendedQueue
  <2>11. CASE \E w \in Workers : RunScheduled(w)
    BY <1>2, <1>3, <2>11, AttendedRun
  <2> QED
    BY <1>1, <2>1, <2>4, <2>5, <2>6, <2>7, <2>8, <2>9, <2>10, <2>11 DEF Next, WorkerStep
<1> QED
  BY <1>2, <1>4, <1>5

LEMMA WakerInit == Init => WakerInv
<1> SUFFICES ASSUME Init PROVE WakerInv
  OBVIOUS
<1>1. Queued = {} /\ Dispatched = {}
  BY QueueInvInit DEF SQ!Init
<1> QED
  BY <1>1, FlightInit DEF WakerInv, Attended, Init

\* No lost wakeup: in an execution without crashes, revocations, lost publishes
\* and failed transactions, the queued scans of a provider that exists always
\* have something that will call _dispatch_next_queued_provider_scan.
THEOREM WakerAlways == Spec => []QueuedHasWaker
<1>1. WakerInv /\ QueueInv /\ [Next]_vars => WakerInv' /\ QueueInv'
  BY QueueInvStep, FlightStep, WakerStep DEF WakerInv
<1>2. WakerInv => QueuedHasWaker
  BY DEF WakerInv, Attended, Quiet, Faults, QueuedHasWaker
<1> QED
  BY QueueInvInit, WakerInit, <1>1, <1>2, PTL DEF Spec

-----------------------------------------------------------------------------
(* The next run is planned *)

\* The placeholders of the schedule; a worker that has yet to make sure of one.
Planned == Placeholders(scan, periodic)
Writing(w) == At(w, "ensureWrite")
Planner(w) ==
  /\ worker[w].beat = periodic
  /\ \/ At(w, "ensureRead")
     \/ Running(w) /\ Scheduled(worker[w].task)
     \/ Writing(w) /\ worker[w].save

\* The scans that scan-perform tasks name have a task or are gone, no upkeep or edit
\* has read them as placeholders, and their tasks run no other scan; ...
Settled(s) ==
  /\ s < nextScan /\ (scan[s].state # "none" => scan[s].task # NoTask)
  /\ edit.keep # s /\ \A w \in Workers : worker[w].keep # s
TaskRows == \A t \in Tasks : argOf[t] # NoScan => Settled(argOf[t])
RunsOwn(w) ==
  Running(w) =>
    /\ worker[w].scan < nextScan
    /\ ~Scheduled(worker[w].task) => worker[w].scan = argOf[worker[w].task]
\* ... an upkeep inserts a placeholder or keeps one it does not drop; ...
WritesApart(w) ==
  Writing(w) => /\ worker[w].keep \notin worker[w].drop
                /\ worker[w].keep = NoScan => worker[w].save
\* ... a scan belongs to one schedule, in the table and to everybody who has read
\* it; an edit that has read a placeholder edits a schedule that exists; ...
Holds(s, b) ==
  \/ b # 0 /\ scan[s].beat = b
  \/ \E w \in Workers : /\ Running(w) /\ Scheduled(worker[w].task)
                        /\ worker[w].scan = s /\ worker[w].beat = b
  \/ b # 0 /\ \E w \in Workers : Writing(w) /\ worker[w].keep = s /\ worker[w].beat = b
  \/ edit.pc = "read" /\ edit.keep = s /\ periodic = b
OneBeat == \A s \in Scans : \A b, c : Holds(s, b) /\ Holds(s, c) => b = c
EditKnows == edit.pc = "read" /\ edit.keep # NoScan => periodic # 0
\* ... and without a placeholder somebody is about to write one.
Soon ==
  /\ ~disputed /\ ~Spent("crash") /\ ~Spent("db")
  /\ provider = "active" /\ periodic # 0
  => Planned # {} \/ \E w \in Workers : Planner(w)

Books == /\ TaskRows /\ \A w \in Workers : RunsOwn(w) /\ WritesApart(w)
         /\ provider = "active" => OneBeat /\ EditKnows
PlanInv == Books /\ Soon

\* _get_or_create_scheduled_scan leaves one placeholder.
LEMMA OnlyPick ==
  ASSUME NEW rows \in [Scans -> Rows], NEW n \in Scans, NEW b \in Nat,
         NEW update, NEW r \in GetOrCreateScheduled(rows, n, b, update)
  PROVE  Placeholders(r.rows, b) = {r.pick}
<1>1. /\ r.pick \in Scans /\ IsPlaceholder(r.rows[r.pick], b)
      /\ \A s \in Scans \ {r.pick} : r.rows[s] = rows[s] \/ r.rows[s] = NoRow
  BY GetOrCreateFacts
<1>2. ~IsPlaceholder(NoRow, b)
  BY DEF IsPlaceholder, NoRow
<1>3. ASSUME NEW s \in Scans \ {r.pick}, IsPlaceholder(rows[s], b)
      PROVE  r.rows[s] = NoRow
  <2> DEFINE ps == Placeholders(rows, b)
             new(p) == [rows[p] EXCEPT !.state = IF update = "state" THEN "SCHEDULED"
                                                 ELSE rows[p].state]
  <2>1. s \in ps
    BY <1>3 DEF Placeholders
  <2>2. PICK p \in ps :
          r = [rows |-> [u \in Scans |-> IF u = p THEN new(p)
                                         ELSE IF u \in ps THEN NoRow ELSE rows[u]],
               pick |-> p, next |-> n]
    BY <2>1 DEF GetOrCreateScheduled
  <2> HIDE DEF ps, new
  <2>3. r.pick = p /\ r.rows = [u \in Scans |-> IF u = p THEN new(p)
                                                ELSE IF u \in ps THEN NoRow ELSE rows[u]]
    BY <2>2
  <2> QED
    BY <1>3, <2>1, <2>3
<1> QED
  BY <1>1, <1>2, <1>3 DEF Placeholders

\* A row that is no placeholder stays or goes, also when orphans are cleaned up.
LEMMA OthersStay ==
  ASSUME TypeOK, NEW n \in Scans, NEW update, NEW rows \in [Scans -> Rows],
         NEW s \in Scans, s # n, ~IsPlaceholder(rows[s], periodic),
         NEW r \in GetOrCreateScheduled(rows, n, periodic, update)
  PROVE  s # r.pick /\ r.rows[s] \in {rows[s], NoRow}
BY GetOrCreateFacts DEF TypeOK, TableTypes

LEMMA CleanedOthers ==
  ASSUME TypeOK, NEW s \in Scans, ~IsPlaceholder(scan[s], periodic)
  PROVE  CleanupOrphans(scan, periodic)[s] = scan[s]
BY CleanupFacts DEF TypeOK, TableTypes

\* A run that is queued leaves one placeholder, ...
LEMMA QueuePlans ==
  ASSUME TypeOK, Fresh, NEW w \in Workers, QueueScheduled(w)
  PROVE  /\ \E p \in Scans : Planned' = {p}
         /\ \A s \in Scans : s < nextScan /\ ~IsPlaceholder(scan[s], periodic)
                               => scan'[s] \in {scan[s], NoRow}
         /\ argOf' # argOf => scan'[nextScan].task # NoTask /\ nextScan' > nextScan
<1> DEFINE cleaned == CleanupOrphans(scan, periodic)
<1>1. cleaned \in [Scans -> Rows] /\ periodic \in Nat /\ periodic' = periodic
  BY CleanupFacts DEF TypeOK, TableTypes, QueueScheduled, schedule
<1>2. \A s \in Scans : ~IsPlaceholder(scan[s], periodic) => cleaned[s] = scan[s]
  BY CleanedOthers
<1>3. CASE ReuseQueued
  <2>1. PICK r \in GetOrCreateScheduled(cleaned, nextScan, periodic, "state") :
          scan' = r.rows /\ nextScan' = r.next
    BY <1>3 DEF QueueScheduled
  <2>2. nextScan \in Scans /\ argOf' = argOf
    BY <1>3 DEF QueueScheduled
  <2> HIDE DEF cleaned
  <2>3. Placeholders(r.rows, periodic) = {r.pick}
    <3> DEFINE n == nextScan
    <3>1. PICK q \in GetOrCreateScheduled(cleaned, n, periodic, "state") : q = r
      OBVIOUS
    <3>2. cleaned \in [Scans -> Rows] /\ periodic \in Nat /\ n \in Scans
      BY <1>1, <2>2
    <3> HIDE DEF n
    <3> QED
      BY <3>1, <3>2, OnlyPick
  <2>4. \A s \in Scans : s # nextScan /\ ~IsPlaceholder(scan[s], periodic)
                           => scan'[s] \in {scan[s], NoRow}
    BY <1>1, <1>2, <2>1, <2>2, OthersStay
  <2>5. Planned' = {r.pick} /\ r.pick \in Scans
    BY <1>1, <2>1, <2>3 DEF Planned, Placeholders
  <2> QED
    BY <2>2, <2>4, <2>5, TableFacts DEF Scans
<1>4. CASE ~ReuseQueued
  <2> DEFINE n == nextScan + 1
             rows == [cleaned EXCEPT ![nextScan] = QueuedRow]
  <2>1. PICK r \in GetOrCreateScheduled(rows, n, periodic, "state") :
          scan' = r.rows /\ nextScan' = r.next
    BY <1>4 DEF QueueScheduled, QueuedRow
  <2>2. n \in Scans /\ nextTask \in Tasks /\ nextScan \in Nat
    BY <1>4, TableFacts DEF QueueScheduled
  <2>3. nextScan \in Scans /\ n # nextScan
    <3>1. nextScan \in 1 .. MaxScans + 1 /\ MaxScans \in Nat
      BY BoundsAssumption DEF TypeOK, TableTypes
    <3> QED
      BY <2>2, <3>1 DEF Scans
  <2>4. QueuedRow \in Rows /\ QueuedRow.task = nextTask /\ nextTask # NoTask
    BY <1>1, <2>2 DEF QueuedRow, Rows, ScanStates, Tasks, NoTask
  <2>5. /\ rows \in [Scans -> Rows] /\ rows[nextScan] = QueuedRow
        /\ \A s \in Scans : s # nextScan => rows[s] = cleaned[s]
    BY <1>1, <2>3, <2>4
  <2> HIDE DEF cleaned, rows, n
  <2>6. Placeholders(r.rows, periodic) = {r.pick} /\ r.pick \in Scans
        /\ (r.next = n \/ r.next = n + 1)
    BY <1>1, <2>1, <2>2, <2>5, OnlyPick, GetOrCreateFacts
  <2>7. \A s \in Scans : s # n /\ ~IsPlaceholder(rows[s], periodic)
                           => s # r.pick /\ r.rows[s] \in {rows[s], NoRow}
    BY <1>1, <2>1, <2>2, <2>5, OthersStay
  <2>8. scan'[nextScan] = QueuedRow
    <3>1. ~IsPlaceholder(QueuedRow, periodic)
      BY <2>4 DEF IsPlaceholder
    <3>2. nextScan # r.pick
      BY <2>3, <2>5, <2>7, <3>1
    <3>3. \A s \in Scans \ {r.pick} : \/ r.rows[s] = rows[s]
                                      \/ IsPlaceholder(rows[s], periodic)
      BY <1>1, <2>1, <2>2, <2>5, GetOrCreateFacts
    <3> QED
      BY <2>1, <2>3, <2>5, <3>1, <3>2, <3>3
  <2>9. ASSUME NEW s \in Scans, s < nextScan, ~IsPlaceholder(scan[s], periodic)
        PROVE  scan'[s] \in {scan[s], NoRow}
    <3>1. s # nextScan /\ s # n
      BY <2>2, <2>9 DEF Scans, n
    <3> QED
      BY <1>2, <2>1, <2>5, <2>7, <2>9, <3>1
  <2>10. Planned' = {r.pick} /\ nextScan' > nextScan
    BY <1>1, <2>1, <2>2, <2>6 DEF Planned, n
  <2> QED
    BY <2>4, <2>6, <2>8, <2>9, <2>10
<1> QED
  BY <1>3, <1>4

\* ... and one that starts at once leaves none.
LEMMA RunPlans ==
  ASSUME TypeOK, Fresh, NEW w \in Workers, RunScheduled(w)
  PROVE  /\ Planned' = {}
         /\ \A s \in Scans : s < nextScan /\ ~IsPlaceholder(scan[s], periodic)
                               => scan'[s] \in {scan[s], NoRow}
<1> DEFINE cleaned == CleanupOrphans(scan, periodic)
           t == worker[w].task
<1>1. cleaned \in [Scans -> Rows] /\ periodic \in Nat /\ periodic' = periodic
  BY CleanupFacts DEF TypeOK, TableTypes, RunScheduled, schedule
<1>2. PICK r \in GetOrCreateScheduled(cleaned, nextScan, periodic, "none") :
        scan' = [r.rows EXCEPT ![r.pick].task = t]
  BY DEF RunScheduled
<1>3. nextScan \in Scans /\ t \in Tasks
  BY WorkerFacts DEF RunScheduled, CanRunScheduled, At, TypeOK
<1>4. \A s \in Scans : ~IsPlaceholder(scan[s], periodic) => cleaned[s] = scan[s]
  BY CleanedOthers
<1> HIDE DEF cleaned
<1>5. /\ Placeholders(r.rows, periodic) = {r.pick} /\ r.pick \in Scans
      /\ r.rows \in [Scans -> Rows]
  <2>1. r.rows \in [Scans -> Rows] /\ r.pick \in Scans
    BY ONLY <1>1, <1>2, <1>3, GetOrCreateFacts
  <2>2. Placeholders(r.rows, periodic) = {r.pick}
    BY ONLY <1>1, <1>2, <1>3, OnlyPick
  <2> QED
    BY <2>1, <2>2
<1>6. scan'[r.pick].task = t /\ \A s \in Scans \ {r.pick} : scan'[s] = r.rows[s]
  BY <1>2, <1>5 DEF Rows
<1>7. \A s \in Scans : ~IsPlaceholder(scan'[s], periodic)
  <2>1. ~IsPlaceholder(scan'[r.pick], periodic)
    BY <1>3, <1>6 DEF IsPlaceholder, Tasks, NoTask
  <2> QED
    BY <1>5, <1>6, <2>1 DEF Placeholders
<1>8. ASSUME NEW s \in Scans, s < nextScan, ~IsPlaceholder(scan[s], periodic)
      PROVE  scan'[s] \in {scan[s], NoRow}
  <2>1. s # nextScan
    BY <1>8 DEF Scans
  <2>2. s # r.pick /\ r.rows[s] \in {scan[s], NoRow}
    BY <1>1, <1>2, <1>3, <1>4, <1>8, <2>1, OthersStay
  <2> QED
    BY <1>6, <2>2
<1> QED
  BY <1>1, <1>7, <1>8 DEF Planned, Placeholders

\* What a step may do to the books: rows that a scan-perform task names keep their
\* task, a new argument is a new scan, placeholders are read as they are, ...
RowsMove ==
  /\ nextScan' \in {nextScan, nextScan + 1, nextScan + 2}
  /\ \A s \in Scans : Settled(s) => (scan'[s].state # "none" => scan'[s].task # NoTask)
ArgsMove ==
  \A t \in Tasks : \/ argOf'[t] = argOf[t]
                   \/ /\ t = nextTask /\ argOf'[t] = nextScan
                      /\ nextScan < nextScan' /\ scan'[nextScan].task # NoTask
Readable(k) == k \in Scans /\ scan[k].state # "none" /\ scan[k].task = NoTask
KeepsMove ==
  /\ edit'.keep \in {edit.keep, NoScan} \/ Readable(edit'.keep)
  /\ \A w \in Workers : \/ worker'[w].keep \in {worker[w].keep, NoScan}
                        \/ Readable(worker'[w].keep)
\* ... and a row, a worker or an edit holds a scan of the schedule it held before
\* or a new scan of the schedule there is.
HeldOrNew(s, b) == Holds(s, b) \/ (s >= nextScan /\ b = periodic')
BeatsMove ==
  \A s \in Scans : scan'[s].beat \in {0, scan[s].beat} \/ HeldOrNew(s, scan'[s].beat)
HolderMoves(w) ==
  /\ Running(w)' /\ Scheduled(worker[w].task)' => HeldOrNew(worker'[w].scan, worker'[w].beat)
  /\ Writing(w)' /\ worker'[w].keep # NoScan /\ worker'[w].beat # 0
       => Holds(worker'[w].keep, worker'[w].beat)
EditMoves ==
  edit'.pc = "read" => \/ edit' = edit /\ periodic' = periodic
                       \/ edit'.keep = NoScan
                       \/ Holds(edit'.keep, periodic') /\ periodic' # 0
WorkerFine(w) ==
  \/ worker'[w] = worker[w]
  \/ RunsOwn(w)' /\ WritesApart(w)' /\ (provider' = "active" => HolderMoves(w))

LEMMA RankGrows ==
  ASSUME TypeOK, Fresh, RowsMove
  PROVE  /\ nextScan \in Nat /\ nextScan' \in Nat /\ nextScan <= nextScan'
         /\ NoScan \notin Scans /\ Scans \subseteq Nat
BY TableFacts DEF RowsMove, Scans

LEMMA SettledKept ==
  ASSUME TypeOK, Fresh, RowsMove, KeepsMove, NEW s \in Scans, Settled(s)
  PROVE  Settled(s)'
<1>1. ~Readable(s) /\ s # NoScan
  BY RankGrows DEF Settled, Readable
<1>2. edit'.keep # s /\ \A w \in Workers : worker'[w].keep # s
  BY <1>1 DEF Settled, KeepsMove
<1>3. s < nextScan'
  BY RankGrows DEF Settled
<1> QED
  BY <1>2, <1>3 DEF Settled, RowsMove

\* A task that a worker runs keeps its argument.
LEMMA OwnArgument ==
  ASSUME TypeOK, Fresh, ArgsMove, NEW w \in Workers, worker[w].pc # "idle"
  PROVE  argOf'[worker[w].task] = argOf[worker[w].task]
<1>1. worker[w].task \in Tasks /\ worker[w].task < nextTask /\ nextTask \in Nat
  BY WorkerFacts, TaskOrder DEF TypeOK
<1> QED
  BY <1>1 DEF ArgsMove, Tasks

LEMMA TasksKept ==
  ASSUME TypeOK, TypeOK', Fresh, TaskRows, RowsMove, ArgsMove, KeepsMove
  PROVE  TaskRows'
<1>1. ASSUME NEW t \in Tasks, NEW s \in Scans, argOf'[t] = s PROVE Settled(s)'
  <2>1. CASE argOf'[t] = argOf[t]
    <3>1. s # NoScan
      BY RankGrows
    <3>2. Settled(s)
      BY <1>1, <2>1, <3>1 DEF TaskRows
    <3> QED
      BY <3>2, SettledKept
  <2>2. CASE /\ argOf'[t] = nextScan
             /\ nextScan < nextScan' /\ scan'[nextScan].task # NoTask
    <3>1. s = nextScan /\ ~Readable(s) /\ s # NoScan
      BY <1>1, <2>2, TableFacts, RankGrows, UnclaimedRows DEF Readable
    <3>2. edit.keep # s /\ \A w \in Workers : worker[w].keep # s
      BY <3>1, TaskOrder, RankGrows
    <3>3. edit'.keep # s /\ \A w \in Workers : worker'[w].keep # s
      BY <3>1, <3>2 DEF KeepsMove
    <3> QED
      BY <2>2, <3>1, <3>3 DEF Settled
  <2> QED
    BY <2>1, <2>2 DEF ArgsMove
<1>2. \A t \in Tasks : argOf'[t] # NoScan => argOf'[t] \in Scans
  BY DEF TypeOK, TaskTypes
<1>3. \A t \in Tasks : argOf'[t] # NoScan =>
        \E s \in Scans : argOf'[t] = s /\ Settled(s)'
  BY <1>1, <1>2
<1> QED
  BY <1>3 DEF TaskRows, Settled

\* Nobody holds a scan that is not inserted yet.
LEMMA NewUnheld ==
  ASSUME TypeOK, Fresh, \A w \in Workers : RunsOwn(w),
         NEW s \in Scans, s >= nextScan, NEW b
  PROVE  ~Holds(s, b)
<1>1. scan[s].beat = 0 /\ s \in Nat /\ nextScan \in Nat
  BY TableFacts DEF Scans, NoRow
<1>2. edit.keep # s /\ \A w \in Workers : worker[w].keep # s
  BY <1>1, TaskOrder
<1>3. \A w \in Workers : Running(w) => worker[w].scan # s
  BY <1>1 DEF RunsOwn
<1> QED
  BY <1>1, <1>2, <1>3 DEF Holds

\* Whoever holds a scan after the step held it, or it is new.
LEMMA HeldBefore ==
  ASSUME TypeOK, Fresh, ArgsMove, BeatsMove, EditMoves,
         \A w \in Workers : worker'[w] = worker[w] \/ HolderMoves(w),
         NEW s \in Scans, NEW b, Holds(s, b)'
  PROVE  HeldOrNew(s, b)
<1>1. CASE b # 0 /\ scan'[s].beat = b
  BY <1>1 DEF BeatsMove, HeldOrNew, Holds
<1>2. ASSUME NEW w \in Workers, Running(w)', Scheduled(worker[w].task)',
             worker'[w].scan = s, worker'[w].beat = b
      PROVE  HeldOrNew(s, b)
  <2>1. CASE worker'[w] = worker[w]
    <3>1. Running(w)
      BY <1>2, <2>1 DEF Running
    <3>2. Scheduled(worker[w].task)
      BY <1>2, <2>1, <3>1, OwnArgument DEF Scheduled, Running
    <3> QED
      BY <1>2, <2>1, <3>1, <3>2 DEF HeldOrNew, Holds
  <2>2. CASE HolderMoves(w)
    BY <1>2, <2>2 DEF HolderMoves
  <2> QED
    BY <2>1, <2>2
<1>3. ASSUME b # 0, NEW w \in Workers, Writing(w)', worker'[w].keep = s, worker'[w].beat = b
      PROVE  HeldOrNew(s, b)
  <2>1. s # NoScan
    BY TableFacts
  <2> QED
    BY <1>3, <2>1 DEF HolderMoves, HeldOrNew, Holds, Writing, At
<1>4. CASE edit'.pc = "read" /\ edit'.keep = s /\ periodic' = b
  <2>1. s # NoScan
    BY TableFacts
  <2> QED
    BY <1>4, <2>1 DEF EditMoves, HeldOrNew, Holds
<1> QED
  BY <1>1, <1>2, <1>3, <1>4 DEF Holds

LEMMA BooksKept ==
  ASSUME TypeOK, TypeOK', Fresh, Books, RowsMove, ArgsMove, KeepsMove,
         \A w \in Workers : WorkerFine(w),
         provider' = "active" => provider = "active" /\ BeatsMove /\ EditMoves
  PROVE  Books'
<1>1. TaskRows'
  BY TasksKept DEF Books
<1>2. ASSUME NEW w \in Workers PROVE RunsOwn(w)' /\ WritesApart(w)'
  <2>1. CASE worker'[w] = worker[w]
    <3>1. Running(w)' => /\ Running(w) /\ worker[w].scan \in Nat
                         /\ argOf'[worker[w].task] = argOf[worker[w].task]
      BY <2>1, OwnArgument DEF Running, TypeOK, ProcessTypes, Scans
    <3>2. RunsOwn(w)'
      BY <2>1, <3>1, RankGrows DEF Books, RunsOwn, Running, Scheduled
    <3> QED
      BY <2>1, <3>2 DEF Books, WritesApart, Writing, At
  <2> QED
    BY <2>1 DEF WorkerFine
<1>3. ASSUME provider' = "active" PROVE OneBeat' /\ EditKnows'
  <2>1. OneBeat /\ EditKnows /\ \A w \in Workers : RunsOwn(w)
    BY <1>3 DEF Books
  <2>2. \A w \in Workers : worker'[w] = worker[w] \/ HolderMoves(w)
    BY <1>3 DEF WorkerFine
  <2>3. \A s \in Scans : \A b : Holds(s, b)' => HeldOrNew(s, b)
    BY <1>3, <2>2, HeldBefore
  <2>4. OneBeat'
    BY <2>1, <2>3, NewUnheld DEF OneBeat, HeldOrNew
  <2> QED
    BY <1>3, <2>1, <2>4 DEF EditMoves, EditKnows
<1> QED
  BY <1>1, <1>2, <1>3 DEF Books

LEMMA SameRows ==
  ASSUME TypeOK, Fresh, UNCHANGED <<scan, nextScan, argOf>>
  PROVE  RowsMove /\ ArgsMove /\ BeatsMove
BY DEF RowsMove, ArgsMove, BeatsMove, Settled

\* A step of one worker, or of none.
LEMMA OneMoves ==
  ASSUME UNCHANGED <<edit, periodic>>, NEW w \in Workers,
         \A v \in Workers : v # w => worker'[v] = worker[v],
         worker'[w].keep \in {worker[w].keep, NoScan} \/ Readable(worker'[w].keep),
         WorkerFine(w)
  PROVE  KeepsMove /\ EditMoves /\ \A v \in Workers : WorkerFine(v)
BY DEF KeepsMove, EditMoves, WorkerFine

LEMMA NoneMoves ==
  ASSUME UNCHANGED <<edit, periodic, worker>>
  PROVE  KeepsMove /\ EditMoves /\ \A v \in Workers : WorkerFine(v)
BY DEF KeepsMove, EditMoves, WorkerFine

\* Requests, ticks and the broker.
LEMMA BooksCreate ==
  ASSUME TypeOK, TypeOK', Fresh, Books, CreateScan
  PROVE  Books'
<1> DEFINE r == [state |-> "AVAILABLE", trigger |-> "manual", task |-> nextTask, beat |-> 0]
<1>1. /\ nextScan \in Scans /\ nextTask \in Tasks /\ UNCHANGED <<worker, edit, periodic>>
      /\ scan' = [scan EXCEPT ![nextScan] = r] /\ nextScan' = nextScan + 1
      /\ argOf' = [argOf EXCEPT ![nextTask] = nextScan] /\ provider = "active"
  BY DEF CreateScan, schedule
<1>2. r.task = nextTask /\ r.beat = 0 /\ nextTask # NoTask
  BY <1>1 DEF Tasks, NoTask
<1> HIDE DEF r
<1>3. scan'[nextScan] = r /\ \A s \in Scans : s # nextScan => scan'[s] = scan[s]
  BY <1>1, TableFacts
<1>4. RowsMove /\ BeatsMove
  BY <1>1, <1>2, <1>3, TableFacts DEF RowsMove, BeatsMove, Settled
<1>5. ArgsMove
  BY <1>1, <1>2, <1>3, TableFacts DEF ArgsMove, TypeOK, TaskTypes
<1> QED
  BY <1>1, <1>4, <1>5, NoneMoves, BooksKept

LEMMA BooksUpsert ==
  ASSUME TypeOK, TypeOK', Fresh, Books, UpsertCommit
  PROVE  Books'
<1> DEFINE b == IF periodic = 0 THEN 2 + Budget["edit"] - budget["edit"] ELSE periodic
           row == PlaceholderRow(IF edit.on THEN "SCHEDULED" ELSE "AVAILABLE", b)
           k == edit.keep
<1>1. /\ edit.pc = "read" /\ edit' = NoEdit /\ UNCHANGED <<provider, argOf, worker>>
      /\ \/ UNCHANGED <<periodic, scan, nextScan>>
         \/ /\ periodic' = b /\ k = NoScan /\ nextScan \in Scans
            /\ scan' = [scan EXCEPT ![nextScan] = row] /\ nextScan' = nextScan + 1
         \/ /\ periodic' = b /\ k # NoScan /\ nextScan' = nextScan
            /\ scan' = [scan EXCEPT ![k] = row]
  BY DEF UpsertCommit, taskVars, scanVars
<1>2. row.beat = b
  BY DEF PlaceholderRow
<1>3. k # NoScan => k \in Scans
  BY DEF TypeOK, ProcessTypes, EditStates
<1> DEFINE n == IF k = NoScan THEN nextScan ELSE k
<1>4. \/ UNCHANGED <<scan, nextScan>>
      \/ /\ n \in Scans /\ scan'[n] = row /\ periodic' = b
         /\ \A s \in Scans : s # n => scan'[s] = scan[s]
         /\ nextScan' \in {nextScan, nextScan + 1}
  <2> HIDE DEF row, b
  <2> QED
    BY <1>1, <1>3, TableFacts
<1>5. RowsMove
  <2>1. \A s \in Scans : Settled(s) => s # n
    BY TableFacts DEF Settled, Scans
  <2> HIDE DEF n, row
  <2> QED
    BY <1>4, <2>1 DEF RowsMove, Settled
<1>6. provider' = "active" => BeatsMove /\ EditMoves
  <2>1. EditMoves
    BY <1>1 DEF EditMoves, NoEdit
  <2>2. ASSUME provider' = "active" PROVE HeldOrNew(n, b) \/ UNCHANGED scan
    <3>1. CASE k = NoScan
      BY <1>1, <3>1, TableFacts DEF HeldOrNew
    <3>2. CASE k # NoScan
      <4>1. periodic # 0
        BY <1>1, <2>2, <3>2 DEF Books, EditKnows
      <4> QED
        BY <1>1, <3>2, <4>1 DEF HeldOrNew, Holds
    <3> QED
      BY <3>1, <3>2
  <2> HIDE DEF n, b, row
  <2> QED
    BY <1>2, <1>4, <2>1, <2>2 DEF BeatsMove
<1>7. ArgsMove /\ KeepsMove /\ \A w \in Workers : WorkerFine(w)
  BY <1>1 DEF ArgsMove, KeepsMove, WorkerFine, NoEdit
<1> QED
  BY <1>1, <1>5, <1>6, <1>7, BooksKept

LEMMA BooksRead ==
  ASSUME TypeOK, TypeOK', Fresh, Books, NEW on, NEW daily, UpsertRead(on, daily)
  PROVE  Books'
<1>1. /\ UNCHANGED <<scan, nextScan, argOf, worker, periodic>> /\ provider = "active"
      /\ \/ edit'.keep = NoScan
         \/ edit'.keep \in Planned /\ periodic # 0
  BY DEF UpsertRead, scanVars, schedule, Planned
<1>2. edit'.keep \in Planned => Readable(edit'.keep)
  BY UnclaimedRows DEF Planned, Placeholders, Readable, Unclaimed
<1>3. EditMoves
  BY <1>1 DEF EditMoves, Holds, Planned, Placeholders, IsPlaceholder
<1>4. KeepsMove /\ \A w \in Workers : WorkerFine(w)
  BY <1>1, <1>2 DEF KeepsMove, WorkerFine
<1> QED
  BY <1>1, <1>3, <1>4, SameRows, BooksKept

\* Rows are deleted or lose their schedule.
LEMMA BooksRemove ==
  ASSUME TypeOK, TypeOK', Fresh, Books,
         RemoveSchedule \/ DeleteProvider \/ PurgeScans \/ PurgeProvider
  PROVE  Books'
<1>1. /\ UNCHANGED <<nextScan, argOf, worker, edit>>
      /\ provider' = "active" => provider = "active" /\ edit.pc = "idle"
  BY DEF RemoveSchedule, DeleteProvider, PurgeScans, PurgeProvider, scanVars, taskVars
<1>2. \A s \in Scans :
        \/ scan'[s] = scan[s]
        \/ scan'[s].state = "none" /\ scan'[s].beat = 0
        \/ /\ scan'[s].state = scan[s].state /\ scan'[s].task = scan[s].task
           /\ scan'[s].beat = 0
  <2>1. CASE RemoveSchedule
    <3> DEFINE kept == [s \in Scans |-> IF IsPlaceholder(scan[s], periodic) THEN NoRow
                                        ELSE scan[s]]
    <3>1. kept \in [Scans -> Rows] /\ \A s \in Scans : kept[s] \in {scan[s], NoRow}
      BY TableFacts, RowFacts
    <3>2. scan' = [s \in Scans |-> [kept[s] EXCEPT !.beat = 0]]
      BY <2>1 DEF RemoveSchedule, Unlink
    <3> HIDE DEF kept
    <3>3. ASSUME NEW s \in Scans
          PROVE  /\ scan'[s].state = kept[s].state /\ scan'[s].task = kept[s].task
                 /\ scan'[s].beat = 0
      <4>1. kept[s] \in Rows
        BY <3>1
      <4> QED
        BY <3>2, <4>1 DEF Rows
    <3> QED
      BY <3>1, <3>3, UnclaimedRows
  <2>2. CASE DeleteProvider \/ PurgeScans \/ PurgeProvider
    BY <2>2 DEF DeleteProvider, PurgeScans, PurgeProvider, scanVars, NoRow
  <2> QED
    BY <2>1, <2>2
<1>3. RowsMove
  BY <1>1, <1>2 DEF RowsMove, Settled, NoRow
<1>4. BeatsMove /\ ArgsMove
  BY <1>1, <1>2 DEF BeatsMove, ArgsMove, NoRow
<1>5. KeepsMove /\ (provider' = "active" => EditMoves) /\ \A w \in Workers : WorkerFine(w)
  BY <1>1 DEF KeepsMove, EditMoves, WorkerFine
<1> QED
  BY <1>1, <1>3, <1>4, <1>5, BooksKept

LEMMA BooksMessages ==
  ASSUME TypeOK, TypeOK', Fresh, Books,
         \/ BeatFire \/ UNCHANGED vars
         \/ \E t \in Tasks : RevokeTask(t) \/ Redeliver(t)
         \/ \E w \in Workers, t \in Tasks : Start(w, t)
  PROVE  Books'
<1>1. UNCHANGED <<scan, nextScan, argOf, edit, periodic, provider>>
  BY DEF BeatFire, RevokeTask, Redeliver, Start, vars, scanVars, taskVars, schedule
<1>2. CASE worker' = worker
  BY <1>1, <1>2, SameRows, NoneMoves, BooksKept
<1>3. ASSUME NEW w \in Workers, NEW t \in Tasks, Start(w, t), worker' # worker PROVE Books'
  <2> DEFINE r == [Idle EXCEPT !.pc = "begin", !.task = t]
  <2>1. worker' = [worker EXCEPT ![w] = r]
    BY <1>3 DEF Start
  <2>2. r.pc = "begin" /\ r.keep = NoScan
    BY DEF Idle
  <2> HIDE DEF r
  <2>3. worker'[w] = r /\ \A v \in Workers : v # w => worker'[v] = worker[v]
    BY <2>1 DEF TypeOK, ProcessTypes
  <2>4. WorkerFine(w)
    BY <2>2, <2>3 DEF WorkerFine, RunsOwn, WritesApart, HolderMoves, Running, Writing, At
  <2> QED
    BY <1>1, <2>2, <2>3, <2>4, SameRows, OneMoves, BooksKept
<1> QED
  BY <1>2, <1>3 DEF BeatFire, RevokeTask, Redeliver, vars

\* A worker enters or leaves a task, fails or dies.
LEMMA BooksLeaves ==
  ASSUME TypeOK, TypeOK', Fresh, Books, NEW w \in Workers,
         \/ BeginManual(w) \/ SkipScheduled(w) \/ DispatchNext(w) \/ FinishTask(w)
         \/ DbError(w) \/ Crash(w)
  PROVE  Books'
<1>1. /\ UNCHANGED <<nextScan, argOf, edit, provider>>
      /\ provider = "active" => periodic' = periodic
      /\ scan' = scan \/ (SkipScheduled(w) /\ scan' = Unlink(scan))
      /\ \A v \in Workers : v # w => worker'[v] = worker[v]
  BY StepEffects DEF BeginManual, SkipScheduled, DispatchNext, FinishTask, DbError, Crash, scanVars,
                     taskVars, schedule, WorkerStep
<1>2. /\ worker'[w].keep \in {worker[w].keep, NoScan}
      /\ worker'[w].pc \in {"enter", "ensureRead", "dispatch", "finish", "idle"}
      /\ worker'[w].pc = "enter" => /\ worker[w].pc = "begin" /\ ~Scheduled(worker[w].task)
                                    /\ worker'[w].scan = argOf[worker[w].task]
                                    /\ worker'[w].task = worker[w].task
                                    /\ worker[w].task \in Tasks
  <2>1. worker \in [Workers -> WorkerStates]
    BY DEF TypeOK, ProcessTypes
  <2>2. CASE FinishTask(w) \/ Crash(w)
    <3>1. worker'[w] = Idle
      BY <2>1, <2>2 DEF FinishTask, Crash
    <3> QED
      BY <3>1 DEF Idle
  <2>3. ASSUME NEW pc \in {"ensureRead", "dispatch", "finish"}, Goto(w, pc) \/ Fail(w, pc)
        PROVE  worker'[w].keep = worker[w].keep /\ worker'[w].pc = pc
    BY <2>1, <2>3 DEF Goto, Fail, WorkerStates
  <2>4. CASE /\ At(w, "begin") /\ ~Scheduled(worker[w].task)
             /\ worker' = [worker EXCEPT ![w].pc = "enter", ![w].scan = argOf[worker[w].task]]
    BY <2>1, <2>4, WorkerFacts DEF At, WorkerStates, TypeOK
  <2>5. CASE worker' = [worker EXCEPT ![w].pc = "dispatch", ![w].keep = NoScan,
                                      ![w].drop = {}, ![w].save = FALSE]
    BY <2>1, <2>5 DEF WorkerStates
  <2>6. Finally(w) \in {"ensureRead", "dispatch"}
    BY DEF Finally
  <2> QED
    BY <2>2, <2>3, <2>4, <2>5, <2>6
    DEF BeginManual, SkipScheduled, DispatchNext, DbError
<1>3. WorkerFine(w)
  <2>1. worker'[w].pc = "enter" =>
          /\ ~Scheduled(worker[w].task)' /\ worker'[w].scan < nextScan'
    <3>1. ASSUME worker'[w].pc = "enter"
          PROVE  argOf[worker[w].task] # NoScan /\ worker[w].task \in Tasks
      BY <1>2, <3>1 DEF Scheduled
    <3> QED
      BY <1>1, <1>2, <3>1 DEF Scheduled, Books, TaskRows, Settled
  <2> QED
    BY <1>1, <1>2, <2>1
    DEF WorkerFine, RunsOwn, WritesApart, HolderMoves, Running, Writing, At, Scheduled
<1>4. RowsMove /\ ArgsMove /\ BeatsMove
  BY <1>1, UnlinkFacts, SameRows
  DEF RowsMove, ArgsMove, BeatsMove, Settled, Unlink, TypeOK, TableTypes, Rows
<1>5. KeepsMove /\ \A v \in Workers : WorkerFine(v)
  BY <1>1, <1>2, <1>3 DEF KeepsMove, WorkerFine
<1>6. provider' = "active" => provider = "active" /\ EditMoves
  BY <1>1 DEF EditMoves
<1> QED
  BY <1>4, <1>5, <1>6, BooksKept

LEMMA BooksScanning ==
  ASSUME TypeOK, TypeOK', Fresh, Books, NEW w \in Workers, EnterScan(w) \/ FinishScan(w)
  PROVE  Books'
<1> DEFINE n == worker[w].scan
<1>1. /\ UNCHANGED <<periodic, nextScan, argOf, edit, provider>> /\ Running(w) /\ n \in Scans
      /\ worker[w].task \in Tasks
      /\ \A v \in Workers : v # w => worker'[v] = worker[v]
  BY StepEffects, WorkerFacts
  DEF EnterScan, FinishScan, At, Running, taskVars, schedule, TypeOK, WorkerStep
<1>2. /\ worker'[w].pc \in {"scanning", Finally(w)} /\ worker'[w].keep = worker[w].keep
      /\ worker'[w].scan = n /\ worker'[w].task = worker[w].task
      /\ worker'[w].beat = worker[w].beat
  <2>1. worker \in [Workers -> WorkerStates]
    BY DEF TypeOK, ProcessTypes
  <2>2. \E pc \in {"scanning", Finally(w)} : Goto(w, pc) \/ Fail(w, pc)
    BY DEF EnterScan, FinishScan
  <2> QED
    BY <2>1, <2>2 DEF Goto, Fail, WorkerStates
<1>3. \/ scan' = scan
      \/ /\ scan[n].state # "none"
         /\ \E st \in {"EXECUTING", "COMPLETED", "FAILED"} : scan' = [scan EXCEPT ![n].state = st]
  BY DEF EnterScan, FinishScan
<1>4. /\ \A s \in Scans : s # n => scan'[s] = scan[s]
      /\ \/ scan'[n] = scan[n]
         \/ /\ scan[n].state # "none" /\ scan'[n].task = scan[n].task
            /\ scan'[n].beat = scan[n].beat
  BY <1>1, <1>3, TableFacts DEF Rows
<1>5. RowsMove /\ ArgsMove /\ BeatsMove
  BY <1>1, <1>4 DEF RowsMove, ArgsMove, BeatsMove, Settled
<1>6. WorkerFine(w)
  <2>1. RunsOwn(w)' /\ WritesApart(w)'
    BY <1>1, <1>2 DEF Books, RunsOwn, WritesApart, Running, Writing, At, Scheduled, Finally
  <2>2. HolderMoves(w)
    <3>1. Scheduled(worker[w].task)' => Holds(n, worker[w].beat)
      BY <1>1, <1>2 DEF Holds, Scheduled
    <3>2. ~Writing(w)'
      BY <1>2 DEF Writing, At, Finally
    <3> QED
      BY <1>2, <3>1, <3>2 DEF HolderMoves, HeldOrNew
  <2> QED
    BY <2>1, <2>2 DEF WorkerFine
<1> QED
  BY <1>1, <1>2, <1>5, <1>6, OneMoves, BooksKept

\* What the helpers do to the schedule of the rows.
LEMMA PickBeats ==
  ASSUME NEW rows \in [Scans -> Rows], NEW n \in Scans, NEW b \in Nat,
         NEW update, NEW r \in GetOrCreateScheduled(rows, n, b, update), NEW s \in Scans
  PROVE  r.rows[s].beat \in {0, rows[s].beat} \/ (s = n /\ r.rows[s].beat = b)
<1>1. NoRow.beat = 0
  BY DEF NoRow
<1> QED
  BY <1>1, GetOrCreateFacts DEF IsPlaceholder

LEMMA CleanedBeats ==
  ASSUME TypeOK, NEW s \in Scans
  PROVE  CleanupOrphans(scan, periodic)[s].beat \in {0, scan[s].beat}
BY CleanupFacts DEF NoRow, TypeOK, TableTypes

LEMMA BooksQueue ==
  ASSUME TypeOK, TypeOK', Fresh, Books, NEW w \in Workers, QueueScheduled(w)
  PROVE  Books'
<1>1. /\ UNCHANGED <<periodic, edit, provider>>
      /\ \A v \in Workers : v # w => worker'[v] = worker[v]
  BY StepEffects DEF QueueScheduled, schedule, WorkerStep
<1>2. worker'[w].pc = "finish" /\ worker'[w].keep = worker[w].keep
  BY DEF QueueScheduled, Goto, TypeOK, ProcessTypes, WorkerStates
<1>3. WorkerFine(w)
  BY <1>2 DEF WorkerFine, RunsOwn, WritesApart, HolderMoves, Running, Writing, At
<1>4. /\ nextScan' \in {nextScan, nextScan + 1, nextScan + 2}
      /\ \/ argOf' = argOf
         \/ /\ nextTask \in Tasks /\ nextScan \in Scans
            /\ argOf' = [argOf EXCEPT ![nextTask] = nextScan]
  BY QueueFacts, TableFacts
<1>5. RowsMove
  <2> SUFFICES ASSUME NEW s \in Scans, Settled(s)
               PROVE  scan'[s].state # "none" => scan'[s].task # NoTask
    BY <1>4 DEF RowsMove
  <2>1. s < nextScan /\ ~IsPlaceholder(scan[s], periodic)
    BY DEF Settled, IsPlaceholder
  <2>2. scan'[s] \in {scan[s], NoRow}
    BY <2>1, QueuePlans
  <2> QED
    BY <2>2 DEF Settled, NoRow
<1>6. ArgsMove
  <2>1. CASE argOf' = argOf
    BY <2>1 DEF ArgsMove
  <2>2. CASE argOf' # argOf
    <3>1. scan'[nextScan].task # NoTask /\ nextScan < nextScan'
      BY <2>2, QueuePlans, <1>4, TableFacts
    <3> QED
      BY <1>4, <2>2, <3>1 DEF ArgsMove, TypeOK, TaskTypes
  <2> QED
    BY <2>1, <2>2
<1>7. BeatsMove
  <2> DEFINE cleaned == CleanupOrphans(scan, periodic)
             rows == [cleaned EXCEPT ![nextScan] = QueuedRow]
             m == nextScan + 1
  <2>1. /\ cleaned \in [Scans -> Rows] /\ periodic \in Nat /\ nextScan \in Nat
        /\ \A s \in Scans : cleaned[s].beat \in {0, scan[s].beat}
    BY CleanupFacts, CleanedBeats, TableFacts
  <2>2. CASE ReuseQueued
    <3>1. PICK r \in GetOrCreateScheduled(cleaned, nextScan, periodic, "state") : scan' = r.rows
      BY <2>2 DEF QueueScheduled
    <3>2. nextScan \in Scans
      BY <2>2 DEF QueueScheduled
    <3> HIDE DEF cleaned
    <3>3. \A s \in Scans : \/ r.rows[s].beat \in {0, cleaned[s].beat}
                           \/ s = nextScan /\ r.rows[s].beat = periodic
      BY ONLY <2>1, <3>1, <3>2, PickBeats
    <3> QED
      BY <1>1, <2>1, <3>1, <3>3 DEF BeatsMove, HeldOrNew
  <2>3. CASE ~ReuseQueued
    <3>1. PICK r \in GetOrCreateScheduled(rows, m, periodic, "state") : scan' = r.rows
      BY <2>3 DEF QueueScheduled, QueuedRow
    <3>2. m \in Scans /\ nextScan \in Scans /\ nextTask \in Tasks /\ m >= nextScan
      <4>1. nextScan \in 1 .. MaxScans + 1 /\ MaxScans \in Nat
        BY BoundsAssumption DEF TypeOK, TableTypes
      <4> QED
        BY <2>3, <4>1 DEF QueueScheduled, Scans
    <3>3. QueuedRow \in Rows /\ QueuedRow.beat = periodic
      BY <2>1, <3>2 DEF QueuedRow, Rows, ScanStates
    <3>4. /\ rows \in [Scans -> Rows] /\ rows[nextScan].beat = periodic
          /\ \A s \in Scans : s # nextScan => rows[s] = cleaned[s]
      BY <2>1, <3>2, <3>3
    <3> HIDE DEF cleaned, rows, m
    <3>5. \A s \in Scans : \/ r.rows[s].beat \in {0, rows[s].beat}
                           \/ s = m /\ r.rows[s].beat = periodic
      BY <2>1, <3>1, <3>2, <3>4, PickBeats
    <3> QED
      BY <1>1, <2>1, <3>1, <3>2, <3>4, <3>5 DEF BeatsMove, HeldOrNew
  <2> QED
    BY <2>2, <2>3
<1> QED
  BY <1>1, <1>2, <1>3, <1>5, <1>6, <1>7, OneMoves, BooksKept

LEMMA BooksRun ==
  ASSUME TypeOK, TypeOK', Fresh, Books, NEW w \in Workers, RunScheduled(w)
  PROVE  Books'
<1> DEFINE cleaned == CleanupOrphans(scan, periodic)
           t == worker[w].task
<1>1. /\ UNCHANGED <<periodic, edit, provider, argOf>> /\ Scheduled(t) /\ periodic # 0
      /\ nextScan \in Scans /\ nextScan' \in {nextScan, nextScan + 1}
      /\ \A v \in Workers : v # w => worker'[v] = worker[v]
  BY StepEffects, RunFacts
  DEF RunScheduled, CanRunScheduled, schedule, taskVars, WorkerStep
<1>2. PICK r \in GetOrCreateScheduled(cleaned, nextScan, periodic, "none") :
        /\ scan' = [r.rows EXCEPT ![r.pick].task = t] /\ nextScan' = r.next
        /\ worker' = [worker EXCEPT ![w].pc = "enter", ![w].scan = r.pick, ![w].beat = periodic]
  BY DEF RunScheduled
<1>3. /\ worker'[w].pc = "enter" /\ worker'[w].scan = r.pick /\ worker'[w].beat = periodic
      /\ worker'[w].keep = worker[w].keep /\ worker'[w].task = t
  BY <1>2 DEF TypeOK, ProcessTypes, WorkerStates
<1>4. /\ cleaned \in [Scans -> Rows] /\ periodic \in Nat /\ nextScan \in Nat
      /\ \A s \in Scans : cleaned[s].beat \in {0, scan[s].beat}
      /\ \A s \in Scans : cleaned[s] = scan[s] \/ cleaned[s] = NoRow
  BY CleanupFacts, CleanedBeats, TableFacts
<1> HIDE DEF cleaned
<1>5. /\ r.rows \in [Scans -> Rows] /\ r.pick \in Scans
      /\ \/ r.pick = nextScan /\ r.next = nextScan + 1
         \/ IsPlaceholder(cleaned[r.pick], periodic) /\ r.next = nextScan
      /\ \A s \in Scans : \/ r.rows[s].beat \in {0, cleaned[s].beat}
                          \/ s = nextScan /\ r.rows[s].beat = periodic
  BY <1>1, <1>2, <1>4, GetOrCreateFacts, PickBeats
<1>6. \A s \in Scans : scan'[s].beat = r.rows[s].beat
  BY <1>2, <1>5 DEF Rows
<1>7. BeatsMove /\ ArgsMove
  BY <1>1, <1>4, <1>5, <1>6 DEF BeatsMove, ArgsMove, HeldOrNew
<1>8. RowsMove
  <2> SUFFICES ASSUME NEW s \in Scans, Settled(s)
               PROVE  scan'[s].state # "none" => scan'[s].task # NoTask
    BY <1>1 DEF RowsMove
  <2>1. s < nextScan /\ ~IsPlaceholder(scan[s], periodic)
    BY DEF Settled, IsPlaceholder
  <2>2. scan'[s] \in {scan[s], NoRow}
    BY <2>1, RunPlans
  <2> QED
    BY <2>2 DEF Settled, NoRow
<1>9. WorkerFine(w)
  <2>1. r.pick < nextScan'
    <3>1. CASE r.pick = nextScan /\ r.next = nextScan + 1
      BY <1>2, <1>4, <3>1
    <3>2. CASE IsPlaceholder(cleaned[r.pick], periodic) /\ r.next = nextScan
      BY <1>2, <1>4, <1>5, <3>2, TableFacts, UnclaimedRows
    <3> QED
      BY <1>5, <3>1, <3>2
  <2>2. HeldOrNew(r.pick, periodic)
    <3>1. CASE r.pick = nextScan
      BY <1>1, <1>4, <3>1 DEF HeldOrNew
    <3>2. CASE IsPlaceholder(cleaned[r.pick], periodic)
      BY <1>1, <1>4, <1>5, <3>2, UnclaimedRows DEF HeldOrNew, Holds, IsPlaceholder
    <3> QED
      BY <1>5, <3>1, <3>2
  <2>3. RunsOwn(w)' /\ WritesApart(w)'
    BY <1>1, <1>3, <2>1 DEF RunsOwn, WritesApart, Writing, At, Scheduled
  <2> QED
    BY <1>3, <2>2, <2>3 DEF WorkerFine, HolderMoves, Writing, At
<1> QED
  BY <1>1, <1>3, <1>7, <1>8, <1>9, OneMoves, BooksKept

LEMMA BooksEnsureRead ==
  ASSUME TypeOK, TypeOK', Fresh, Books, NEW w \in Workers, EnsureRead(w)
  PROVE  Books'
<1> DEFINE ps == IF provider = "active" THEN Placeholders(scan, worker[w].beat) ELSE {}
<1>1. /\ UNCHANGED <<periodic, scan, nextScan, argOf, edit, provider>>
      /\ \A v \in Workers : v # w => worker'[v] = worker[v]
  BY StepEffects DEF EnsureRead, schedule, scanVars, taskVars, WorkerStep
<1>2. PICK keep \in IF ps = {} THEN {NoScan} ELSE ps, save \in BOOLEAN :
        /\ keep = NoScan => save
        /\ worker' = [worker EXCEPT ![w].pc = "ensureWrite", ![w].keep = keep,
                                    ![w].drop = ps \ {keep}, ![w].save = save]
  BY DEF EnsureRead
<1>3. /\ worker'[w].pc = "ensureWrite" /\ worker'[w].keep = keep
      /\ worker'[w].drop = ps \ {keep} /\ worker'[w].save = save
      /\ worker'[w].beat = worker[w].beat
  <2> HIDE DEF ps
  <2> QED
    BY <1>2 DEF TypeOK, ProcessTypes, WorkerStates
<1>4. keep = NoScan \/ (/\ keep \in Scans /\ provider = "active"
                        /\ IsPlaceholder(scan[keep], worker[w].beat))
  BY <1>2 DEF Placeholders
<1>5. keep = NoScan \/ Readable(keep)
  BY <1>4, UnclaimedRows DEF Readable, Unclaimed
<1>6. WorkerFine(w)
  <2>1. RunsOwn(w)' /\ WritesApart(w)'
    BY <1>2, <1>3 DEF RunsOwn, WritesApart, Running
  <2>2. HolderMoves(w)
    <3>1. ~Running(w)'
      BY <1>3 DEF Running
    <3>2. keep # NoScan /\ worker[w].beat # 0 => Holds(keep, worker[w].beat)
      BY <1>4 DEF Holds, IsPlaceholder
    <3> QED
      BY <1>3, <3>1, <3>2 DEF HolderMoves
  <2> QED
    BY <2>1, <2>2 DEF WorkerFine
<1>7. worker'[w].keep \in {worker[w].keep, NoScan} \/ Readable(worker'[w].keep)
  BY <1>3, <1>5
<1> QED
  BY <1>1, <1>6, <1>7, SameRows, OneMoves, BooksKept

LEMMA BooksWrite ==
  ASSUME TypeOK, TypeOK', Fresh, Books, NEW w \in Workers, EnsureWrite(w)
  PROVE  Books'
<1> DEFINE k == worker[w].keep
           b == worker[w].beat
           row == PlaceholderRow("SCHEDULED", b)
           n == IF k = NoScan THEN nextScan ELSE k
<1>1. /\ UNCHANGED <<periodic, argOf, edit, provider>> /\ Writing(w)
      /\ \A v \in Workers : v # w => worker'[v] = worker[v]
  BY StepEffects DEF EnsureWrite, Writing, taskVars, WorkerStep
<1>2. worker'[w].pc = "dispatch" /\ worker'[w].keep = NoScan
  BY DEF EnsureWrite, TypeOK, ProcessTypes, WorkerStates
<1>3. WorkerFine(w)
  BY <1>2 DEF WorkerFine, RunsOwn, WritesApart, HolderMoves, Running, Writing, At
<1>4. /\ k = NoScan => worker[w].save
      /\ k # NoScan => k \in Scans
  BY <1>1 DEF Books, WritesApart, TypeOK, ProcessTypes, WorkerStates
<1>5. row.beat = b
  BY DEF PlaceholderRow
<1>6. /\ \A s \in Scans : \/ scan'[s] \in {scan[s], NoRow}
                          \/ s = n /\ scan'[s] = row /\ (k = NoScan => periodic = b)
      /\ nextScan' \in {nextScan, nextScan + 1}
  <2> DEFINE dropped == [s \in Scans |-> IF s \in worker[w].drop THEN NoRow ELSE scan[s]]
  <2>1. \/ scan' = scan /\ nextScan' = nextScan
        \/ /\ k = NoScan /\ periodic = b
           /\ scan' = [scan EXCEPT ![nextScan] = row] /\ nextScan' = nextScan + 1
        \/ /\ k # NoScan /\ nextScan' = nextScan
           /\ scan' = dropped \/ scan' = [dropped EXCEPT ![k] = row]
    BY <1>4 DEF EnsureWrite, scanVars
  <2>2. dropped \in [Scans -> Rows] /\ \A s \in Scans : dropped[s] \in {scan[s], NoRow}
    BY TableFacts, RowFacts
  <2> HIDE DEF dropped, row
  <2> QED
    BY <2>1, <2>2, TableFacts
<1>7. RowsMove
  <2>1. \A s \in Scans : Settled(s) => s # n
    BY TableFacts DEF Settled, Scans
  <2> HIDE DEF n, row
  <2> QED
    BY <1>6, <2>1 DEF RowsMove, Settled, NoRow
<1>8. BeatsMove
  <2>1. k = NoScan /\ periodic = b => HeldOrNew(n, b)
    BY <1>1, TableFacts DEF HeldOrNew
  <2>2. k # NoScan /\ b # 0 => HeldOrNew(n, b)
    BY <1>1 DEF HeldOrNew, Holds
  <2> HIDE DEF n, row, k, b
  <2> QED
    BY <1>5, <1>6, <2>1, <2>2 DEF BeatsMove, NoRow
<1>9. ArgsMove
  BY <1>1 DEF ArgsMove
<1> QED
  BY <1>1, <1>2, <1>3, <1>7, <1>8, <1>9, OneMoves, BooksKept

LEMMA BooksStep ==
  ASSUME TypeOK, TypeOK', Fresh, Books, [Next]_vars
  PROVE  Books'
<1>1. ASSUME NEW w \in Workers, WorkerStep(w) \/ DbError(w) \/ Crash(w) PROVE Books'
  BY <1>1, BooksLeaves, BooksScanning, BooksQueue, BooksRun, BooksEnsureRead, BooksWrite
  DEF WorkerStep
<1> QED
  BY <1>1, BooksCreate, BooksUpsert, BooksRead, BooksRemove, BooksMessages DEF Next

LEMMA BooksInit == Init => Books
<1> SUFFICES ASSUME Init PROVE Books
  OBVIOUS
<1>1. /\ \A w \in Workers : worker[w].pc = "idle"
      /\ \A t \in Tasks : argOf[t] = NoScan
      /\ edit.pc = "idle"
  BY DEF Init, Idle, NoEdit
<1>2. \A w \in Workers : ~Running(w) /\ ~Writing(w)
  BY <1>1 DEF Running, Writing, At
<1> QED
  BY <1>1, <1>2 DEF Books, TaskRows, RunsOwn, WritesApart, OneBeat, Holds, EditKnows

\* What Soon asks of the state after a step, and what it promises then.
SoonAsked == /\ ~disputed' /\ ~Spent("crash")' /\ ~Spent("db")'
             /\ provider' = "active" /\ periodic' # 0
Expected == Planned # {} \/ \E w \in Workers : Planner(w)

LEMMA Asked ==
  ASSUME TypeOK, [Next]_vars, SoonAsked
  PROVE  /\ ~disputed /\ ~Spent("crash") /\ ~Spent("db") /\ provider = "active"
         /\ ~RemoveSchedule /\ ~DeleteProvider /\ ~PurgeScans /\ ~PurgeProvider
         /\ \A w \in Workers : ~Crash(w) /\ ~DbError(w)
         /\ periodic' = periodic \/ UpsertCommit
<1>1. "crash" \in Kinds /\ "db" \in Kinds /\ {"crash"} \subseteq Kinds /\ {"db"} \subseteq Kinds
  BY DEF Kinds
<1>2. ~Spent("crash") /\ ~Spent("db")
  BY <1>1, SpentStays DEF SoonAsked
<1>3. ~RemoveSchedule /\ ~DeleteProvider /\ ~PurgeProvider
  BY DEF SoonAsked, RemoveSchedule, DeleteProvider, PurgeProvider
<1>4. ASSUME NEW w \in Workers PROVE ~Crash(w) /\ ~DbError(w)
  <2>1. ~Spend({"crash"}) /\ ~Spend({"db"})
    BY <1>1, Spends DEF SoonAsked
  <2> QED
    BY <2>1 DEF Crash, DbError
<1>5. provider = "active" \/ PurgeScans
  BY <1>3, <1>4
  DEF SoonAsked, Next, WorkerStep, CreateScan, UpsertCommit, BeatFire, UpsertRead, RevokeTask,
      Redeliver, Start, BeginManual, SkipScheduled, QueueScheduled, RunScheduled, EnterScan,
      FinishScan, EnsureRead, EnsureWrite, DispatchNext, FinishTask, vars
<1>6. ~PurgeScans
  BY DEF SoonAsked, PurgeScans
<1>7. disputed => disputed'
  BY DEF Next, WorkerStep, CreateScan, RemoveSchedule, UpsertCommit, BeatFire, UpsertRead,
         RevokeTask, Redeliver, Start, BeginManual, SkipScheduled, QueueScheduled,
         RunScheduled, EnterScan, FinishScan, EnsureRead, EnsureWrite, DispatchNext,
         FinishTask, DbError, Crash, DeleteProvider, PurgeScans, PurgeProvider, vars, schedule
<1>8. periodic' = periodic \/ UpsertCommit
  BY <1>3, <1>4, <1>5, <1>6
  DEF SoonAsked, Next, WorkerStep, CreateScan, UpsertCommit, BeatFire, UpsertRead, RevokeTask,
      Redeliver, Start, BeginManual, SkipScheduled, QueueScheduled, RunScheduled, EnterScan,
      FinishScan, EnsureRead, EnsureWrite, DispatchNext, FinishTask, vars, schedule
<1> QED
  BY <1>2, <1>3, <1>4, <1>5, <1>6, <1>7, <1>8 DEF SoonAsked

\* A worker that has nothing to plan does not change who does.
LEMMA OthersPlan ==
  ASSUME TypeOK, Fresh, periodic' = periodic, ArgsMove, NEW v \in Workers,
         worker'[v] = worker[v], Planner(v)
  PROVE  Planner(v)'
<1>1. worker[v].pc # "idle"
  BY DEF Planner, Running, Writing, At
<1> QED
  BY <1>1, OwnArgument DEF Planner, Running, Writing, At, Scheduled

LEMMA ExpectedKept ==
  ASSUME TypeOK, Fresh, Expected, periodic' = periodic, ArgsMove,
         Planned \subseteq Planned' \/ Planned' # {},
         \A v \in Workers : worker'[v] = worker[v] \/ ~Planner(v)
  PROVE  Expected'
BY OthersPlan DEF Expected

\* Steps that neither take, drop nor plan a placeholder.
LEMMA ExpectedElsewhere ==
  ASSUME TypeOK, TypeOK', Fresh, Expected, provider = "active", periodic' = periodic,
         \/ CreateScan \/ BeatFire \/ UNCHANGED vars
         \/ \E on, daily \in BOOLEAN : UpsertRead(on, daily)
         \/ \E t \in Tasks : RevokeTask(t) \/ Redeliver(t)
         \/ \E w \in Workers, t \in Tasks : Start(w, t)
         \/ \E w \in Workers : BeginManual(w) \/ SkipScheduled(w) \/ DispatchNext(w)
                               \/ FinishTask(w)
  PROVE  Expected'
<1>1. CASE CreateScan
  <2>1. /\ \A s \in Scans : s # nextScan => scan'[s] = scan[s]
        /\ nextScan \in Scans /\ worker' = worker
        /\ argOf' = [argOf EXCEPT ![nextTask] = nextScan]
    BY <1>1, TableFacts DEF CreateScan
  <2>2. nextScan \notin Planned
    BY TableFacts, UnclaimedRows DEF Planned, Placeholders
  <2>3. Planned \subseteq Planned'
    BY <2>1, <2>2 DEF Planned, Placeholders
  <2>4. ArgsMove
    <3>1. nextTask \in Tasks /\ nextTask # NoTask
      BY <1>1 DEF CreateScan, Tasks, NoTask
    <3>2. scan'[nextScan].task = nextTask /\ nextScan < nextScan'
      BY <1>1, <2>1, TableFacts DEF CreateScan
    <3> QED
      BY <2>1, <3>1, <3>2 DEF ArgsMove, TypeOK, TaskTypes
  <2> QED
    BY <2>1, <2>3, <2>4, ExpectedKept
<1>2. CASE ~CreateScan
  <2>1. UNCHANGED <<scan, nextScan, argOf>>
    BY <1>2 DEF BeatFire, UpsertRead, RevokeTask, Redeliver, Start, BeginManual, SkipScheduled,
                DispatchNext, FinishTask, vars, scanVars, taskVars
  <2>2. \A v \in Workers : worker'[v] = worker[v] \/ ~Planner(v)
    <3>1. CASE worker' = worker
      BY <3>1
    <3>2. ASSUME NEW w \in Workers, worker[w].pc \in {"idle", "begin", "dispatch", "finish"},
                 \A v \in Workers : v # w => worker'[v] = worker[v]
          PROVE  \A v \in Workers : worker'[v] = worker[v] \/ ~Planner(v)
      BY <3>2 DEF Planner, Running, Writing, At
    <3>3. ASSUME NEW w \in Workers, NEW t \in Tasks, Start(w, t)
          PROVE  /\ worker[w].pc = "idle"
                 /\ \A v \in Workers : v # w => worker'[v] = worker[v]
      BY <3>3 DEF Start, TypeOK, ProcessTypes
    <3>4. ASSUME NEW w \in Workers,
                 BeginManual(w) \/ SkipScheduled(w) \/ DispatchNext(w) \/ FinishTask(w)
          PROVE  /\ worker[w].pc \in {"begin", "dispatch", "finish"}
                 /\ \A v \in Workers : v # w => worker'[v] = worker[v]
      BY <3>4, StepEffects
      DEF BeginManual, SkipScheduled, DispatchNext, FinishTask, At, WorkerStep
    <3> QED
      BY <1>2, <3>1, <3>2, <3>3, <3>4 DEF BeatFire, UpsertRead, RevokeTask, Redeliver, vars
  <2>3. Planned' = Planned
    BY <2>1 DEF Planned
  <2> QED
    BY <2>1, <2>2, <2>3, SameRows, ExpectedKept
<1> QED
  BY <1>1, <1>2

\* A scheduled run takes or ends its own scan, a placeholder of its own schedule if
\* it is one at all, and plans the next; a manual one works on no placeholder.
LEMMA ExpectedScanning ==
  ASSUME TypeOK, TypeOK', Fresh, Books, Expected, provider = "active", periodic' = periodic,
         periodic # 0, NEW w \in Workers, EnterScan(w) \/ FinishScan(w)
  PROVE  Expected'
<1> DEFINE n == worker[w].scan
<1>1. /\ UNCHANGED <<nextScan, argOf>> /\ Running(w) /\ n \in Scans
      /\ worker[w].task \in Tasks
      /\ \A v \in Workers : v # w => worker'[v] = worker[v]
  BY StepEffects, WorkerFacts
  DEF EnterScan, FinishScan, At, Running, taskVars, TypeOK, WorkerStep
<1>2. /\ worker'[w].pc \in {"scanning", Finally(w)}
      /\ worker'[w].task = worker[w].task /\ worker'[w].beat = worker[w].beat
  <2>1. worker \in [Workers -> WorkerStates]
    BY DEF TypeOK, ProcessTypes
  <2>2. \E pc \in {"scanning", Finally(w)} : Goto(w, pc) \/ Fail(w, pc)
    BY DEF EnterScan, FinishScan
  <2> QED
    BY <2>1, <2>2 DEF Goto, Fail, WorkerStates
<1>3. \A s \in Scans : s # n => scan'[s] = scan[s]
  BY TableFacts DEF EnterScan, FinishScan
<1>4. ArgsMove
  BY <1>1 DEF ArgsMove
<1>5. CASE Scheduled(worker[w].task) /\ worker[w].beat = periodic
  <2>1. Planner(w)'
    BY <1>1, <1>2, <1>5 DEF Planner, Running, At, Finally, Scheduled
  <2> QED
    BY <2>1 DEF Expected
<1>6. CASE ~(Scheduled(worker[w].task) /\ worker[w].beat = periodic)
  <2>1. ~Planner(w)
    BY <1>1, <1>6 DEF Planner, Running, Writing, At
  <2>2. n \notin Planned
    <3>1. CASE ~Scheduled(worker[w].task)
      <4>1. n = argOf[worker[w].task] /\ n # NoScan
        BY <1>1, <3>1, TableFacts DEF Books, RunsOwn
      <4>2. scan[n].state # "none" => scan[n].task # NoTask
        BY <1>1, <4>1 DEF Books, TaskRows, Settled
      <4> QED
        BY <4>2 DEF Planned, Placeholders, IsPlaceholder
    <3>2. CASE Scheduled(worker[w].task) /\ worker[w].beat # periodic
      <4>1. Holds(n, worker[w].beat)
        BY <1>1, <3>2 DEF Holds
      <4>2. scan[n].beat = periodic => Holds(n, periodic)
        BY DEF Holds
      <4> QED
        BY <1>1, <3>2, <4>1, <4>2 DEF Books, OneBeat, Planned, Placeholders, IsPlaceholder
    <3> QED
      BY <1>6, <3>1, <3>2
  <2>3. Planned \subseteq Planned'
    BY <1>3, <2>2 DEF Planned, Placeholders
  <2> QED
    BY <1>1, <1>4, <2>1, <2>3, ExpectedKept
<1> QED
  BY <1>5, <1>6

\* The run that starts at once will plan; the upkeep that reads nothing will insert.
LEMMA ExpectedRun ==
  ASSUME TypeOK, TypeOK', Fresh, NEW w \in Workers, RunScheduled(w)
  PROVE  Expected'
<1>1. UNCHANGED taskVars /\ periodic' = periodic /\ Scheduled(worker[w].task)
  BY RunFacts DEF RunScheduled, CanRunScheduled, schedule
<1>2. PICK p : worker' = [worker EXCEPT ![w].pc = "enter", ![w].scan = p, ![w].beat = periodic]
  BY DEF RunScheduled
<1>3. worker'[w].pc = "enter" /\ worker'[w].beat = periodic /\ worker'[w].task = worker[w].task
  BY <1>2 DEF TypeOK, ProcessTypes, WorkerStates
<1>4. Planner(w)'
  BY <1>1, <1>3 DEF Planner, Running, Scheduled, taskVars
<1> QED
  BY <1>4 DEF Expected

LEMMA ExpectedRead ==
  ASSUME TypeOK, TypeOK', Fresh, Expected, provider = "active", NEW w \in Workers, EnsureRead(w)
  PROVE  Expected'
<1>1. /\ UNCHANGED <<periodic, scan, nextScan, argOf>>
      /\ \A v \in Workers : v # w => worker'[v] = worker[v]
  BY StepEffects DEF EnsureRead, schedule, scanVars, taskVars, WorkerStep
<1>2. Planned' = Planned /\ ArgsMove
  BY <1>1, SameRows DEF Planned
<1>3. CASE Planned # {}
  BY <1>2, <1>3 DEF Expected
<1>4. CASE Planned = {} /\ worker[w].beat = periodic
  <2>1. \E d : worker' = [worker EXCEPT ![w].pc = "ensureWrite", ![w].keep = NoScan,
                                        ![w].drop = d, ![w].save = TRUE]
    BY <1>4 DEF EnsureRead, Planned
  <2>2. PICK d : worker' = [worker EXCEPT ![w].pc = "ensureWrite", ![w].keep = NoScan,
                                          ![w].drop = d, ![w].save = TRUE]
    BY <2>1
  <2>3. worker'[w].pc = "ensureWrite" /\ worker'[w].save /\ worker'[w].beat = periodic
    BY <1>4, <2>2 DEF TypeOK, ProcessTypes, WorkerStates
  <2>4. Planner(w)'
    BY <1>1, <2>3 DEF Planner, Writing, At
  <2> QED
    BY <2>4 DEF Expected
<1>5. CASE worker[w].beat # periodic
  BY <1>1, <1>2, <1>5, ExpectedKept DEF Planner
<1> QED
  BY <1>3, <1>4, <1>5

\* The upkeep writes a placeholder, or deletes duplicates of one that is there.
LEMMA ExpectedWrite ==
  ASSUME TypeOK, TypeOK', Fresh, Books, Expected, provider = "active", periodic # 0,
         NEW w \in Workers, EnsureWrite(w), ~disputed'
  PROVE  Expected'
<1> DEFINE k == worker[w].keep
           b == worker[w].beat
           row == PlaceholderRow("SCHEDULED", b)
           dropped == [s \in Scans |-> IF s \in worker[w].drop THEN NoRow ELSE scan[s]]
<1>1. /\ UNCHANGED <<periodic, argOf>> /\ Writing(w)
      /\ \A v \in Workers : v # w => worker'[v] = worker[v]
  BY StepEffects DEF EnsureWrite, Writing, taskVars, WorkerStep
<1>2. /\ k \notin worker[w].drop /\ (k = NoScan => worker[w].save)
      /\ k # NoScan => k \in Scans
  BY <1>1 DEF Books, WritesApart, TypeOK, ProcessTypes, WorkerStates
<1>3. ArgsMove
  BY <1>1 DEF ArgsMove
<1>4. ProviderExists
  BY DEF ProviderExists
<1>5. CASE worker[w].save /\ b = periodic
  <2>1. \/ nextScan \in Scans /\ scan' = [scan EXCEPT ![nextScan] = row]
        \/ k \in Scans /\ scan' = [dropped EXCEPT ![k] = row]
    BY <1>2, <1>4, <1>5 DEF EnsureWrite
  <2>2. PICK p \in Scans : scan'[p] = row
    <3> HIDE DEF row
    <3> QED
      BY <2>1, TableFacts
  <2>3. p \in Planned'
    BY <1>1, <1>5, <2>2 DEF Planned, Placeholders, IsPlaceholder, PlaceholderRow
  <2> QED
    BY <2>3 DEF Expected
<1>6. CASE worker[w].save /\ b # periodic
  <2>1. scan' = scan
    BY <1>6 DEF EnsureWrite, scanVars
  <2>2. Planned' = Planned
    BY <1>1, <2>1 DEF Planned
  <2>3. ~Planner(w)
    BY <1>6 DEF Planner
  <2> QED
    BY <1>1, <1>3, <2>2, <2>3, ExpectedKept
<1>7. CASE ~worker[w].save
  <2>1. k \in Scans /\ scan' = dropped
    BY <1>2, <1>7 DEF EnsureWrite
  <2>2. ~Planner(w)
    BY <1>1, <1>7 DEF Planner, Running, Writing, At
  <2>3. Planned \subseteq Planned' \/ Planned' # {}
    <3>1. CASE Planned \cap worker[w].drop = {}
      BY <1>1, <2>1, <3>1 DEF Planned, Placeholders
    <3>2. CASE Planned \cap worker[w].drop # {}
      <4>1. IsPlaceholder(scan[k], periodic)
        BY <1>4, <1>7, <3>2 DEF EnsureWrite, Planned, Placeholders
      <4>2. k \in Planned'
        BY <1>1, <1>2, <2>1, <4>1 DEF Planned, Placeholders
      <4> QED
        BY <4>2
    <3> QED
      BY <3>1, <3>2
  <2> QED
    BY <1>1, <1>3, <2>2, <2>3, ExpectedKept
<1> QED
  BY <1>5, <1>6, <1>7

LEMMA ExpectedUpsert ==
  ASSUME TypeOK, TypeOK', Fresh, provider = "active", UpsertCommit
  PROVE  Expected'
<1> DEFINE b == IF periodic = 0 THEN 2 + Budget["edit"] - budget["edit"] ELSE periodic
           row == PlaceholderRow(IF edit.on THEN "SCHEDULED" ELSE "AVAILABLE", b)
<1>1. /\ periodic' = b
      /\ \/ nextScan \in Scans /\ scan' = [scan EXCEPT ![nextScan] = row]
         \/ edit.keep # NoScan /\ scan' = [scan EXCEPT ![edit.keep] = row]
  BY DEF UpsertCommit, ProviderExists
<1>2. edit.keep # NoScan => edit.keep \in Scans
  BY DEF TypeOK, ProcessTypes, EditStates
<1>3. IsPlaceholder(row, b)
  BY DEF IsPlaceholder, PlaceholderRow
<1> HIDE DEF row, b
<1>4. PICK p \in Scans : scan'[p] = row
  BY <1>1, <1>2, TableFacts
<1> QED
  BY <1>1, <1>3, <1>4 DEF Expected, Planned, Placeholders

LEMMA SoonStep ==
  ASSUME TypeOK, TypeOK', Fresh, Books, Soon, [Next]_vars
  PROVE  Soon'
<1> SUFFICES ASSUME SoonAsked PROVE Expected'
  BY DEF Soon, SoonAsked, Expected
<1>1. /\ ~disputed /\ ~Spent("crash") /\ ~Spent("db") /\ provider = "active"
      /\ ~RemoveSchedule /\ ~DeleteProvider /\ ~PurgeScans /\ ~PurgeProvider
      /\ \A w \in Workers : ~Crash(w) /\ ~DbError(w)
      /\ periodic' = periodic \/ UpsertCommit
  BY Asked
<1>2. CASE UpsertCommit
  BY <1>1, <1>2, ExpectedUpsert
<1>3. CASE ~UpsertCommit
  <2>1. periodic' = periodic /\ periodic # 0 /\ Expected /\ ~disputed'
    BY <1>1, <1>3 DEF SoonAsked, Soon, Expected
  <2>2. ASSUME NEW w \in Workers, WorkerStep(w) PROVE Expected'
    <3>1. CASE BeginManual(w) \/ SkipScheduled(w) \/ DispatchNext(w) \/ FinishTask(w)
      BY <1>1, <2>1, <3>1, ExpectedElsewhere
    <3>2. CASE EnterScan(w) \/ FinishScan(w)
      BY <1>1, <2>1, <3>2, ExpectedScanning
    <3>3. CASE QueueScheduled(w)
      BY <3>3, QueuePlans DEF Expected
    <3>4. CASE RunScheduled(w)
      BY <3>4, ExpectedRun
    <3>5. CASE EnsureRead(w)
      BY <1>1, <2>1, <3>5, ExpectedRead
    <3>6. CASE EnsureWrite(w)
      BY <1>1, <2>1, <3>6, ExpectedWrite
    <3> QED
      BY <2>2, <3>1, <3>2, <3>3, <3>4, <3>5, <3>6 DEF WorkerStep
  <2>3. CASE \/ CreateScan \/ BeatFire \/ UNCHANGED vars
             \/ \E on, daily \in BOOLEAN : UpsertRead(on, daily)
             \/ \E t \in Tasks : RevokeTask(t) \/ Redeliver(t)
             \/ \E w \in Workers, t \in Tasks : Start(w, t)
    BY <1>1, <2>1, <2>3, ExpectedElsewhere
  <2> QED
    BY <1>1, <1>3, <2>2, <2>3 DEF Next
<1> QED
  BY <1>2, <1>3

LEMMA SoonInit == Init => Soon
<1> SUFFICES ASSUME Init, periodic # 0 PROVE Planned # {}
  BY DEF Soon
<1>1. periodic = 1 /\ 1 <= MaxScans /\ 1 \in Scans
  BY BoundsAssumption DEF Init, Scans
<1>2. scan[1] = PlaceholderRow("SCHEDULED", 1)
  BY <1>1 DEF Init
<1> QED
  BY <1>1, <1>2 DEF Planned, Placeholders, IsPlaceholder, PlaceholderRow

\* The schedule knows its next run, for any number of workers, scans, runs, edits,
\* ticks, deletions of the schedule and redeliveries: when nobody works for the
\* provider its placeholder is there, unless an upkeep deleted it in favour of one
\* that was none any more.
THEOREM NextRunAlways == Spec => []NextRunPlanned
<1>1. Init => TypeOK /\ Fresh /\ PlanInv
  BY FlightInit, BooksInit, SoonInit DEF SingleFlightInv, PlanInv
<1>2. TypeOK /\ Fresh /\ PlanInv /\ [Next]_vars => (TypeOK /\ Fresh /\ PlanInv)'
  BY TypeStep, FreshStep, BooksStep, SoonStep DEF PlanInv
<1>3. PlanInv => NextRunPlanned
  BY DEF PlanInv, Soon, NextRunPlanned, Planned, Planner, Running, Writing, At
<1> QED
  BY <1>1, <1>2, <1>3, PTL DEF Spec

-----------------------------------------------------------------------------
(* What the deletion of the provider leaves *)

NothingLeft == TypeOK /\ Fresh /\ Books /\ NothingOutlivesProvider

LEMMA NothingComesBack ==
  ASSUME TypeOK, Books, NothingOutlivesProvider, [Next]_vars
  PROVE  NothingOutlivesProvider'
<1> SUFFICES ASSUME provider' = "gone"
             PROVE  periodic' = 0 /\ ~beatOn' /\ \A s \in Scans : scan'[s].state = "none"
  BY DEF NothingOutlivesProvider
<1>1. CASE PurgeProvider
  BY <1>1 DEF PurgeProvider, NoRow
<1>2. CASE ~PurgeProvider
  <2>1. ~CreateScan /\ ~RemoveSchedule /\ ~DeleteProvider /\ ~PurgeScans
        /\ \A on, daily \in BOOLEAN : ~UpsertRead(on, daily)
    BY DEF CreateScan, RemoveSchedule, DeleteProvider, PurgeScans, UpsertRead
  <2>2. provider = "gone"
    BY <1>2, <2>1
    DEF Next, WorkerStep, UpsertCommit, BeatFire, RevokeTask, Redeliver, Start, BeginManual,
        SkipScheduled, QueueScheduled, RunScheduled, EnterScan, FinishScan, EnsureRead,
        EnsureWrite, DispatchNext, FinishTask, DbError, Crash, vars
  <2>3. periodic = 0 /\ ~beatOn /\ \A s \in Scans : scan[s].state = "none"
    BY <2>2 DEF NothingOutlivesProvider
  <2>4. CASE UpsertCommit
    BY <2>2, <2>3, <2>4 DEF UpsertCommit, ProviderExists, scanVars
  <2>5. ASSUME NEW w \in Workers, WorkerStep(w) \/ DbError(w) \/ Crash(w)
        PROVE  periodic' = 0 /\ ~beatOn' /\ \A s \in Scans : scan'[s].state = "none"
    <3>1. ~QueueScheduled(w) /\ ~RunScheduled(w)
      BY <2>2 DEF QueueScheduled, RunScheduled, CanRunScheduled
    <3>2. CASE EnsureWrite(w)
      <4>1. ~ProviderExists /\ UNCHANGED <<periodic, beatOn>>
        BY <2>2, <3>2 DEF EnsureWrite, ProviderExists
      <4>2. CASE worker[w].save
        <5>1. scan' = scan
          BY <3>2, <4>1, <4>2 DEF EnsureWrite, scanVars
        <5> QED
          BY <2>3, <4>1, <5>1
      <4>3. CASE ~worker[w].save
        <5>1. worker[w].keep # NoScan
          BY <3>2, <4>3 DEF EnsureWrite, Books, WritesApart, Writing
        <5>2. \A s \in Scans : scan'[s] \in {scan[s], NoRow}
          BY <3>2, <4>3, <5>1 DEF EnsureWrite
        <5> QED
          BY <2>3, <4>1, <5>2, UnclaimedRows
      <4> QED
        BY <4>2, <4>3
    <3>3. CASE SkipScheduled(w)
      BY <2>2, <2>3, <3>3, UnlinkFacts DEF SkipScheduled, TypeOK, TableTypes, schedule
    <3>4. CASE \/ BeginManual(w) \/ EnterScan(w) \/ FinishScan(w) \/ EnsureRead(w)
               \/ DispatchNext(w) \/ FinishTask(w) \/ DbError(w) \/ Crash(w)
      <4>1. worker[w].pc = "scanning" => worker[w].scan \in Scans
        BY WorkerFacts DEF TypeOK
      <4> QED
        BY <2>2, <2>3, <3>4, <4>1
        DEF BeginManual, EnterScan, FinishScan, EnsureRead, DispatchNext, FinishTask, DbError,
            Crash, At, schedule, scanVars
    <3> QED
      BY <2>5, <3>1, <3>2, <3>3, <3>4 DEF WorkerStep
  <2>6. CASE \/ BeatFire \/ UNCHANGED vars
             \/ \E t \in Tasks : RevokeTask(t) \/ Redeliver(t)
             \/ \E w \in Workers, t \in Tasks : Start(w, t)
    <3>1. UNCHANGED <<periodic, beatOn, scan>>
      BY <2>6 DEF BeatFire, RevokeTask, Redeliver, Start, vars, schedule, scanVars
    <3> QED
      BY <2>3, <3>1
  <2> QED
    BY <1>2, <2>1, <2>4, <2>5, <2>6 DEF Next
<1> QED
  BY <1>1, <1>2

\* Once the provider's row is gone no scan and no schedule of it is there or comes
\* back, for any number of workers, scans and edits that were under way.
THEOREM NothingOutlives == Spec => []NothingOutlivesProvider
<1>1. Init => NothingLeft
  BY FlightInit, BooksInit DEF NothingLeft, SingleFlightInv, Init, NothingOutlivesProvider
<1>2. NothingLeft /\ [Next]_vars => NothingLeft'
  BY TypeStep, FreshStep, BooksStep, NothingComesBack DEF NothingLeft
<1>3. NothingLeft => NothingOutlivesProvider
  BY DEF NothingLeft
<1> QED
  BY <1>1, <1>2, <1>3, PTL DEF Spec

-----------------------------------------------------------------------------
(* Accepted scans are attended, in the executions without faults *)

\* No scan that a task has claimed is forgotten: it has ended, or the queue
\* knows it.
Accounted ==
  \A s \in Scans : scan[s].task # NoTask => Finished(scan[s]) \/ s \in Dispatched \/ s \in Queued
AcceptedInv == Quiet /\ provider = "active" => Accounted

\* The task of a scan that is not finished stays or moves on.
TasksMoveOn ==
  \A s \in Scans :
    scan[s].task # NoTask /\ ~Finished(scan[s]) =>
      \/ status'[scan[s].task] = status[scan[s].task]
      \/ status'[scan[s].task] \in DispatchedTaskStates

\* One scan, whose row keeps its claim while its task moves on.
LEMMA AccountedScan ==
  ASSUME Accounted, TasksMoveOn, NEW s \in Scans, scan'[s].task # NoTask,
         SameClaim(scan[s], scan'[s]) \/ (Unclaimed(scan[s]) /\ Unclaimed(scan'[s]))
  PROVE  (Finished(scan[s]) \/ s \in Dispatched \/ s \in Queued)'
<1>1. SameClaim(scan[s], scan'[s]) /\ scan[s].task # NoTask
  BY DEF Unclaimed, SameClaim
<1>2. CASE Finished(scan[s])
  BY <1>1, <1>2 DEF SameClaim, Finished
<1>3. CASE ~Finished(scan[s])
  <2>1. IsDispatched(scan[s], status) \/ IsQueued(scan[s], status)
    BY <1>1, <1>3 DEF Accounted, Dispatched, Queued
  <2>2. \/ status'[scan[s].task] = status[scan[s].task]
        \/ status'[scan[s].task] \in DispatchedTaskStates
    BY <1>1, <1>3 DEF TasksMoveOn
  <2>3. IsDispatched(scan'[s], status') \/ IsQueued(scan'[s], status')
    BY <1>1, <2>1, <2>2 DEF SameClaim, IsDispatched, IsQueued
  <2> QED
    BY <2>3 DEF Dispatched, Queued
<1> QED
  BY <1>2, <1>3

LEMMA AccountedAlike ==
  ASSUME Accounted, TasksMoveOn, Alike(scan, scan')
  PROVE  Accounted'
<1> SUFFICES ASSUME NEW s \in Scans, scan'[s].task # NoTask
             PROVE  (Finished(scan[s]) \/ s \in Dispatched \/ s \in Queued)'
  BY DEF Accounted
<1> QED
  BY AccountedScan DEF Alike

\* The steps that claim no scan.
LEMMA AccountedQuietly ==
  ASSUME TypeOK, Fresh, Work, Attended, Accounted, provider = "active", ~clobbered', revoked = {},
         \/ RemoveSchedule \/ UpsertCommit \/ BeatFire \/ UNCHANGED vars
         \/ \E on, daily \in BOOLEAN : UpsertRead(on, daily)
         \/ \E w \in Workers, t \in Tasks : Start(w, t)
         \/ \E w \in Workers : \/ SkipScheduled(w) \/ EnsureRead(w) \/ EnsureWrite(w)
                               \/ BeginManual(w) \/ DispatchNext(w) \/ FinishTask(w)
  PROVE  Accounted'
<1>1. Alike(scan, scan')
  BY QuietAlike
<1>2. CASE \/ RemoveSchedule \/ UpsertCommit \/ UNCHANGED vars
           \/ \E w \in Workers : \/ SkipScheduled(w) \/ EnsureRead(w) \/ EnsureWrite(w)
                                 \/ BeginManual(w)
  <2>1. status' = status
    BY <1>2 DEF RemoveSchedule, UpsertCommit, SkipScheduled, EnsureRead, EnsureWrite,
                BeginManual, vars, taskVars
  <2> QED
    BY <1>1, <2>1, AccountedAlike DEF TasksMoveOn
<1>3. CASE BeatFire \/ \E on, daily \in BOOLEAN : UpsertRead(on, daily)
  <2>1. \/ status' = status
        \/ nextTask \in Tasks /\ status' = [status EXCEPT ![nextTask] = "PENDING"]
    BY <1>3 DEF BeatFire, UpsertRead
  <2>2. \A s \in Scans : scan[s].task # nextTask
    BY TaskOrder DEF Tasks
  <2>3. TasksMoveOn
    BY <2>1, <2>2 DEF TasksMoveOn, TypeOK, TableTypes, TaskTypes, Rows
  <2> QED
    BY <1>1, <2>3, AccountedAlike
<1>4. ASSUME NEW w \in Workers, NEW t \in Tasks, Start(w, t) PROVE Accounted'
  <2>1. status' = [status EXCEPT ![t] = "STARTED"]
    BY <1>4 DEF Start
  <2>2. TasksMoveOn
    BY <2>1 DEF TasksMoveOn, DispatchedTaskStates, TypeOK, TableTypes, TaskTypes, Rows
  <2> QED
    BY <1>1, <2>2, AccountedAlike
<1>5. ASSUME NEW w \in Workers, DispatchNext(w) PROVE Accounted'
  <2>1. status' = status \/ \E t : status' = [status EXCEPT ![t] = "PENDING"]
    BY <1>5 DEF DispatchNext
  <2>2. TasksMoveOn
    BY <2>1 DEF TasksMoveOn, DispatchedTaskStates, TypeOK, TableTypes, TaskTypes, Rows
  <2> QED
    BY <1>1, <2>2, AccountedAlike
<1>6. ASSUME NEW w \in Workers, FinishTask(w) PROVE Accounted'
  <2>1. worker[w].pc = "finish" /\ worker[w].task \in Tasks /\ status[worker[w].task] = "STARTED"
    BY <1>6, WorkerFacts DEF FinishTask, At, TypeOK, Work, OneCarrier
  <2>2. \A s \in Dispatched : scan[s].task # worker[w].task
    BY <2>1, EndedTaskCarries DEF Attended, Dispatched
  <2>3. \A s \in Queued : scan[s].task # worker[w].task
    BY <2>1, QueuedTask
  <2>4. \A s \in Scans : scan[s].task # NoTask /\ ~Finished(scan[s])
                         => scan[s].task # worker[w].task
    BY <2>2, <2>3 DEF Accounted
  <2>5. \E st \in TaskStatuses : status' = [status EXCEPT ![worker[w].task] = st]
    BY <1>6 DEF FinishTask, TaskStatuses
  <2>6. TasksMoveOn
    BY <2>1, <2>4, <2>5 DEF TasksMoveOn, TypeOK, TaskTypes
  <2> QED
    BY <1>1, <2>6, AccountedAlike
<1> QED
  BY <1>2, <1>3, <1>4, <1>5, <1>6

\* A new scan is queued or dispatched.
LEMMA AccountedCreate ==
  ASSUME TypeOK, Fresh, Accounted, CreateScan
  PROVE  Accounted'
<1> DEFINE n == nextScan
<1>1. /\ n \in Scans /\ nextTask \in Tasks
      /\ scan' = [scan EXCEPT ![n] = [state |-> "AVAILABLE", trigger |-> "manual",
                                      task |-> nextTask, beat |-> 0]]
      /\ status' = [status EXCEPT ![nextTask] = IF ActiveScan THEN "QUEUED" ELSE "PENDING"]
  BY DEF CreateScan
<1>2. \A s \in Scans : scan[s].task # nextTask
  BY TaskOrder DEF Tasks
<1>3. TasksMoveOn
  BY <1>1, <1>2 DEF TasksMoveOn, TypeOK, TableTypes, TaskTypes, Rows
<1>4. \A s \in Scans \ {n} : SameClaim(scan[s], scan'[s])
  BY <1>1 DEF SameClaim, TypeOK, TableTypes
<1>5. n \in Dispatched' \/ n \in Queued'
  <2>1. /\ scan'[n].state = "AVAILABLE" /\ scan'[n].task = nextTask /\ nextTask # NoTask
        /\ status'[nextTask] \in {"QUEUED", "PENDING"}
    BY <1>1 DEF TypeOK, TableTypes, TaskTypes, Tasks, NoTask
  <2> QED
    BY <1>1, <2>1 DEF Dispatched, Queued, IsDispatched, IsQueued, DispatchedTaskStates
<1> HIDE DEF n
<1> QED
  BY <1>3, <1>4, <1>5, AccountedScan DEF Accounted

\* The run that is queued is known to the queue, and one that starts at once is
\* dispatched.
LEMMA AccountedQueue ==
  ASSUME TypeOK, Fresh, Accounted, NEW w \in Workers, QueueScheduled(w)
  PROVE  Accounted'
<1>1. CASE Alike(scan, scan') /\ status' = status
  BY <1>1, AccountedAlike DEF TasksMoveOn
<1>2. CASE /\ Alike(WithQueued, scan') /\ nextScan \in Scans /\ nextTask \in Tasks
           /\ status' = [status EXCEPT ![nextTask] = "QUEUED"]
  <2> DEFINE n == nextScan
  <2>1. WithQueued[n] = QueuedRow /\ \A s \in Scans \ {n} : WithQueued[s] = scan[s]
    BY <1>2, TableFacts DEF WithQueued
  <2>2. \A s \in Scans : scan[s].task # nextTask
    BY TaskOrder DEF Tasks
  <2>3. TasksMoveOn
    BY <1>2, <2>2 DEF TasksMoveOn, TypeOK, TableTypes, TaskTypes, Rows
  <2>4. n \in Queued'
    <3>1. nextTask # NoTask /\ status'[nextTask] = "QUEUED"
      BY <1>2 DEF TypeOK, TaskTypes, Tasks, NoTask
    <3>2. SameClaim(QueuedRow, scan'[n])
      BY <1>2, <2>1, <3>1 DEF Alike, Unclaimed, QueuedRow
    <3> QED
      BY <1>2, <3>1, <3>2 DEF Queued, IsQueued, SameClaim, QueuedRow
  <2>5. \A s \in Scans \ {n} : SameClaim(scan[s], scan'[s])
                               \/ (Unclaimed(scan[s]) /\ Unclaimed(scan'[s]))
    BY <1>2, <2>1 DEF Alike
  <2> HIDE DEF n
  <2> QED
    BY <2>3, <2>4, <2>5, AccountedScan DEF Accounted
<1> QED
  BY <1>1, <1>2, QueueFacts

LEMMA AccountedRun ==
  ASSUME TypeOK, Fresh, Work, Accounted, NEW w \in Workers, RunScheduled(w)
  PROVE  Accounted'
<1>1. PICK p \in Scans :
        /\ scan'[p].task = worker[w].task /\ scan'[p].state \in {"SCHEDULED", "AVAILABLE"}
        /\ \A s \in Scans \ {p} : SameClaim(scan[s], scan'[s])
                                  \/ (Unclaimed(scan[s]) /\ Unclaimed(scan'[s]))
  BY RunFacts
<1>2. status' = status
  BY RunFacts DEF taskVars
<1>3. TasksMoveOn
  BY <1>2 DEF TasksMoveOn
<1>4. worker[w].task \in Tasks /\ status[worker[w].task] = "STARTED"
  BY WorkerFacts DEF RunScheduled, CanRunScheduled, At, TypeOK, Work, OneCarrier
<1>5. p \in Dispatched'
  BY <1>1, <1>2, <1>4
  DEF Dispatched, IsDispatched, DispatchedTaskStates, Tasks, NoTask
<1> QED
  BY <1>1, <1>3, <1>5, AccountedScan DEF Accounted

\* The running scan enters or ends.
LEMMA AccountedRunning ==
  ASSUME TypeOK, Fresh, Work, Accounted, provider = "active",
         NEW w \in Workers, EnterScan(w) \/ FinishScan(w)
  PROVE  Accounted'
<1>1. PICK n \in Dispatched : n = worker[w].scan
  BY WorkerFacts DEF EnterScan, FinishScan, At, Running, TypeOK, Work, RunningDispatched
<1>2. status' = status
  BY DEF EnterScan, FinishScan, taskVars
<1>3. \E st \in {"EXECUTING", "COMPLETED", "FAILED"} : scan' = [scan EXCEPT ![n].state = st]
  <2>1. scan[n].state # "none"
    BY <1>1 DEF Dispatched, IsDispatched
  <2> QED
    BY <1>1, <2>1 DEF EnterScan, FinishScan
<1>4. /\ scan'[n].state \in {"EXECUTING", "COMPLETED", "FAILED"}
      /\ \A s \in Scans \ {n} : scan'[s] = scan[s]
  BY <1>1, <1>3 DEF TypeOK, TableTypes, Rows, Dispatched
<1>5. Finished(scan'[n]) \/ n \in Dispatched'
  BY <1>1, <1>4 DEF Finished, Dispatched, IsDispatched
<1>6. \A s \in Scans \ {n} : SameClaim(scan[s], scan'[s])
  BY <1>4 DEF SameClaim
<1>7. TasksMoveOn
  BY <1>2 DEF TasksMoveOn
<1> QED
  BY <1>5, <1>6, <1>7, AccountedScan DEF Accounted, Finished

LEMMA AcceptedStep ==
  ASSUME WakerInv, AcceptedInv, [Next]_vars
  PROVE  AcceptedInv'
<1> SUFFICES ASSUME Quiet', provider' = "active" PROVE Accounted'
  BY DEF AcceptedInv
<1>1. /\ Quiet /\ ~clobbered'
      /\ \A t \in Tasks : ~Redeliver(t) /\ ~RevokeTask(t)
      /\ \A w \in Workers : ~Crash(w) /\ ~DbError(w)
  BY QuietStep DEF WakerInv, SingleFlightInv
<1>2. ~DeleteProvider /\ ~PurgeProvider /\ ~PurgeScans
  BY DEF DeleteProvider, PurgeProvider, PurgeScans
<1>3. provider = "active"
  BY <1>2 DEF Next, WorkerStep, CreateScan, RemoveSchedule, UpsertCommit, BeatFire,
         UpsertRead, RevokeTask, Redeliver, Start, BeginManual, SkipScheduled, QueueScheduled,
         RunScheduled, EnterScan, FinishScan, EnsureRead, EnsureWrite, DispatchNext,
         FinishTask, DbError, Crash, vars
<1>4. TypeOK /\ Fresh /\ Work /\ Attended /\ Accounted /\ revoked = {}
  BY <1>1, <1>3 DEF WakerInv, SingleFlightInv, AcceptedInv, Quiet
<1>5. CASE \/ RemoveSchedule \/ UpsertCommit \/ BeatFire \/ UNCHANGED vars
           \/ \E on, daily \in BOOLEAN : UpsertRead(on, daily)
           \/ \E w \in Workers, t \in Tasks : Start(w, t)
           \/ \E w \in Workers : \/ SkipScheduled(w) \/ EnsureRead(w) \/ EnsureWrite(w)
                                 \/ BeginManual(w) \/ DispatchNext(w) \/ FinishTask(w)
  BY <1>1, <1>3, <1>4, <1>5, AccountedQuietly
<1>6. CASE CreateScan
  BY <1>4, <1>6, AccountedCreate
<1>7. CASE \E w \in Workers : QueueScheduled(w) \/ RunScheduled(w)
  BY <1>4, <1>7, AccountedQueue, AccountedRun
<1>8. CASE \E w \in Workers : EnterScan(w) \/ FinishScan(w)
  BY <1>3, <1>4, <1>8, AccountedRunning
<1> QED
  BY <1>1, <1>2, <1>5, <1>6, <1>7, <1>8 DEF Next, WorkerStep

LEMMA AcceptedInit == Init => AcceptedInv
<1> SUFFICES ASSUME Init PROVE \A s \in Scans : scan[s].task = NoTask
  BY DEF AcceptedInv, Accounted
<1> QED
  BY DEF Init, PlaceholderRow, NoRow

\* Without faults no accepted scan is left behind: it has ended, or it is
\* dispatched and a message or a worker carries it, or it is queued and something
\* will call _dispatch_next_queued_provider_scan.  AcceptedScanEnds needs that,
\* and that messages are taken and workers go on.
AcceptedScanAttended ==
  Quiet /\ provider = "active" =>
    \A s \in Scans :
      scan[s].task # NoTask =>
        \/ Finished(scan[s])
        \/ (s \in Dispatched /\ Carried(s))
        \/ (s \in Queued /\ Waker)

\* Without crashes, revocations, lost publishes and failed transactions a scan
\* that CreateScan or the schedule accepted always has what will end it.
THEOREM AcceptedIsAttended == Spec => []AcceptedScanAttended
<1>1. WakerInv /\ QueueInv /\ AcceptedInv /\ [Next]_vars => (WakerInv /\ QueueInv /\ AcceptedInv)'
  BY QueueInvStep, FlightStep, WakerStep, AcceptedStep DEF WakerInv
<1>2. WakerInv /\ AcceptedInv => AcceptedScanAttended
  <2> SUFFICES ASSUME WakerInv, AcceptedInv, Quiet, provider = "active",
                      NEW s \in Scans, scan[s].task # NoTask, ~Finished(scan[s])
               PROVE  \/ s \in Dispatched /\ Carried(s)
                      \/ s \in Queued /\ Waker
    BY DEF AcceptedScanAttended
  <2>1. Attended /\ Accounted
    BY DEF WakerInv, AcceptedInv
  <2> QED
    BY <2>1 DEF Attended, Accounted
<1> QED
  BY QueueInvInit, WakerInit, AcceptedInit, <1>1, <1>2, PTL DEF Spec
=============================================================================
