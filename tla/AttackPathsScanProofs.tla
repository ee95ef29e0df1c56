------------------------ MODULE AttackPathsScanProofs ------------------------
(***************************************************************************)
(* Proofs about AttackPathsScan, for any sets of rows and workers and any  *)
(* budget of faults:                                                       *)
(*   TypeCorrect   its types;                                              *)
(*   RunsOnce      at most one worker runs a row;                          *)
(*   QueriesSafe   a row that lets queries through names a complete graph; *)
(*   EndsOnce      a row that has ended stays as it ended;                 *)
(*   TempsDropped  no temporary database outlives its run;                 *)
(*   GraphReopens  with Neo4j a complete graph is opened again;            *)
(*   CompletedRunIsOpen  a row completes with its graph whole and open;    *)
(*   RowsLiveOnce  a row is scheduled, run and ended once, in that order.  *)
(* EndsOnce, TempsDropped and GraphReopens rest on FailInv: who may end a  *)
(* row.  CompletedRunIsOpen extends the invariant of QueriesSafe.          *)
(***************************************************************************)
EXTENDS AttackPathsScan, TLAPS

-----------------------------------------------------------------------------
(* Workers *)

Undos == {"unstarted", "none", "all", "own"}
Busy == {"begin"} \cup RunSteps \cup FailSteps

\* An idle worker is in one of its states, and on no row.
LEMMA IdleStates == Idle \in WorkerStates /\ OnOneRow(Idle) /\ "idle" \notin Busy
  BY DEF Idle, WorkerStates, OnOneRow, Busy, RunSteps, SwapSteps, FailSteps, Reopening

\* The row a busy worker, or the busy cleanup, is on.
LEMMA OnFacts ==
  ASSUME NEW p, OnOneRow(p), p.pc # "idle"
  PROVE  On(p) \in Rows /\ p.on = {On(p)}
  BY DEF OnOneRow, On

\* The same of a worker.
LEMMA WorkerFacts ==
  ASSUME WorkerTypes, NEW w \in Workers, worker[w].pc # "idle"
  PROVE  R(w) \in Rows /\ worker[w].on = {R(w)}
  BY OnFacts DEF WorkerTypes, R

\* One worker takes a state that is on one row.
LEMMA WorkerUpdate ==
  ASSUME WorkerTypes, NEW w \in Workers, NEW p \in WorkerStates, OnOneRow(p),
         worker' = [worker EXCEPT ![w] = p]
  PROVE  WorkerTypes'
<1>1. worker' \in [Workers -> WorkerStates]
  BY DEF WorkerTypes
<1>2. ASSUME NEW v \in Workers PROVE OnOneRow(worker'[v])
  BY DEF WorkerTypes
<1>3. \A v \in Workers : OnOneRow(worker[v])'
  BY <1>2 DEF OnOneRow
<1> QED
  BY <1>1, <1>3 DEF WorkerTypes

\* A worker moves on, or is free again.
LEMMA GotoUndoTypes ==
  ASSUME WorkerTypes, NEW w \in Workers, worker[w].pc # "idle",
         NEW pc \in Busy, NEW undo \in Undos,
         worker' = [worker EXCEPT ![w].pc = pc, ![w].undo = undo]
  PROVE  WorkerTypes'
<1> DEFINE p == [worker[w] EXCEPT !.pc = pc, !.undo = undo]
<1>1. worker[w] \in WorkerStates /\ OnOneRow(worker[w])
  BY DEF WorkerTypes
<1>2. p \in WorkerStates /\ p.on = worker[w].on
  BY <1>1 DEF WorkerStates, Busy, Undos
<1>3. OnOneRow(p)
  BY <1>1, <1>2 DEF OnOneRow
<1>4. worker' = [worker EXCEPT ![w] = p]
  BY DEF WorkerTypes
<1> QED
  BY <1>2, <1>3, <1>4, WorkerUpdate

\* The same when undo stays.
LEMMA GotoTypes ==
  ASSUME WorkerTypes, NEW w \in Workers, worker[w].pc # "idle",
         NEW pc \in Busy, Goto(w, pc)
  PROVE  WorkerTypes'
<1> DEFINE p == [worker[w] EXCEPT !.pc = pc]
<1>1. worker[w] \in WorkerStates /\ OnOneRow(worker[w])
  BY DEF WorkerTypes
<1>2. p \in WorkerStates /\ p.on = worker[w].on
  BY <1>1 DEF WorkerStates, Busy
<1>3. OnOneRow(p)
  BY <1>1, <1>2 DEF OnOneRow
<1>4. worker' = [worker EXCEPT ![w] = p]
  BY DEF WorkerTypes, Goto
<1> QED
  BY <1>2, <1>3, <1>4, WorkerUpdate

\* A worker that is free again.
LEMMA FreeTypes ==
  ASSUME WorkerTypes, NEW w \in Workers, Free(w)
  PROVE  WorkerTypes'
  BY IdleStates, WorkerUpdate DEF Free

\* A step of somebody else.
LEMMA WorkerSame ==
  ASSUME WorkerTypes, worker' = worker
  PROVE  WorkerTypes'
  BY DEF WorkerTypes, OnOneRow

-----------------------------------------------------------------------------
(* The table, the history and the budget *)

\* What happens to the gate of a row keeps the table well typed.
LEMMA ReadyTypes ==
  ASSUME row \in [Rows -> RowTypes], NEW value \in BOOLEAN
  PROVE  /\ \A sink : SetReady(sink, value) \in [Rows -> RowTypes]
         /\ \A r \in Rows : SetOwnReady(r, value) \in [Rows -> RowTypes]
<1>1. \A r \in Rows : [row[r] EXCEPT !.ready = value] \in RowTypes
  BY DEF RowTypes
<1> QED
  BY <1>1 DEF SetReady, SetOwnReady

\* A row whose state is written stays a row.
LEMMA StateTypes ==
  ASSUME row \in [Rows -> RowTypes], NEW r \in Rows,
         NEW state \in {"EXECUTING", "COMPLETED", "FAILED"}
  PROVE  [row EXCEPT ![r].state = state] \in [Rows -> RowTypes]
<1>1. [row[r] EXCEPT !.state = state] \in RowTypes
  BY DEF RowTypes
<1> QED
  BY <1>1

\* Spending a fault leaves a number of faults.
LEMMA SpendTypes ==
  ASSUME budget \in [Kinds -> Nat], NEW k \in Kinds, Spend(k)
  PROVE  budget' \in [Kinds -> Nat]
  BY SMT DEF Spend

\* The row the busy cleanup is on.
LEMMA CleanerFacts ==
  ASSUME CleanerTypes, cleaner.pc # "idle"
  PROVE  On(cleaner) \in Rows /\ cleaner.on = {On(cleaner)}
  BY OnFacts DEF CleanerTypes

\* The cleanup moves on to another step for its row, or is done with it.
LEMMA CleanerMoves ==
  ASSUME CleanerTypes,
         \/ cleaner' = Sleeping
         \/ /\ cleaner.pc # "idle"
            /\ \E pc \in {"executing", "check", "reopen"} :
                 cleaner' = [cleaner EXCEPT !.pc = pc]
         \/ \E pc \in {"temp", "scheduled"}, r \in Rows :
              cleaner' = [pc |-> pc, on |-> {r}]
  PROVE  CleanerTypes'
<1>1. cleaner' \in CleanerStates
  BY DEF CleanerTypes, CleanerStates, Sleeping
<1>2. OnOneRow(cleaner')
  BY DEF CleanerTypes, CleanerStates, OnOneRow, Sleeping
<1>3. OnOneRow(cleaner)'
  BY <1>2 DEF OnOneRow
<1> QED
  BY <1>1, <1>3 DEF CleanerTypes

\* Reopen and Saved as their callers need them.
LEMMA ReopenTypes ==
  ASSUME row \in [Rows -> RowTypes], excuse \subseteq Excuses, NEW r \in Rows, Reopen(r)
  PROVE  row' \in [Rows -> RowTypes] /\ excuse' \subseteq Excuses
<1>1. CASE Visible(r)
  <2>1. row' = SetReady(row[r].sink, TRUE)
    BY <1>1 DEF Reopen
  <2>2. excuse' \subseteq excuse \cup {"recovered"}
    BY <1>1 DEF Reopen, Excuse
  <2> QED
    BY <2>1, <2>2, ReadyTypes DEF Excuses
<1>2. CASE ~Visible(r)
  BY <1>2 DEF Reopen
<1> QED
  BY <1>1, <1>2

-----------------------------------------------------------------------------
(* The types, action by action *)

\* The initial state.
LEMMA InitTypes == Init => TypeOK
<1> SUFFICES ASSUME Init PROVE TypeOK
  OBVIOUS
<1>1. TableTypes
  BY DEF Init, TableTypes, NoRow, RowTypes, Sinks
<1>2. TaskTypes
  BY AttackBudgetAssumption DEF Init, TaskTypes
<1>3. WorkerTypes
  BY IdleStates DEF Init, WorkerTypes
<1>4. CleanerTypes
  BY DEF Init, CleanerTypes, CleanerStates, Sleeping, OnOneRow
<1>5. GraphTypes /\ excuse \subseteq Excuses
  BY DEF Init, GraphTypes
<1> QED
  BY <1>1, <1>2, <1>3, <1>4, <1>5 DEF TypeOK

\* The insertion of a row.
LEMMA CreateTypes ==
  ASSUME TypeOK, NEW r \in Rows, CreateRead(r) \/ CreateInsert(r)
  PROVE  TypeOK'
<1>1. row' \in [Rows -> RowTypes]
  <2>1. CASE CreateRead(r)
    <3> DEFINE ready == {q \in Rows : Visible(q) /\ row[q].ready}
               sinks == {row[q].sink : q \in ready}
               sink == IF ready = {} THEN "neo4j"
                       ELSE IF TargetSink \in sinks THEN TargetSink
                       ELSE CHOOSE s \in sinks : TRUE
               new == [state |-> "creating", ready |-> ready # {}, sink |-> sink]
    <3>0. \A q \in Rows : row[q].sink \in Sinks
      BY DEF TypeOK, TableTypes, RowTypes
    <3>1. sinks \subseteq Sinks /\ (ready # {} => sinks # {})
      BY <3>0
    <3>2. sink \in Sinks
      BY <3>1, SinkAssumption DEF Sinks
    <3>3. (ready # {}) \in BOOLEAN
      OBVIOUS
    <3>4. new \in RowTypes
      <4> HIDE DEF sink, ready
      <4> QED
        BY <3>2, <3>3 DEF RowTypes
    <3>5. row' = [row EXCEPT ![r] = new]
      BY <2>1 DEF CreateRead
    <3> QED
      <4> HIDE DEF new
      <4> QED
        BY <3>4, <3>5 DEF TypeOK, TableTypes
  <2>2. CASE CreateInsert(r)
    <3>1. NoRow \in RowTypes /\ [row[r] EXCEPT !.state = "SCHEDULED"] \in RowTypes
      BY DEF TypeOK, TableTypes, RowTypes, NoRow, Sinks
    <3> QED
      BY <2>2, <3>1 DEF CreateInsert, TypeOK, TableTypes
  <2> QED
    BY <2>1, <2>2
<1>2. excuse' \subseteq Excuses
  BY DEF TypeOK, CreateRead, CreateInsert, Excuse, Excuses
<1>3. UNCHANGED <<provider, parent, queue, revoke, worker, graphVars, cleaner, budget>>
  BY DEF CreateRead, CreateInsert
<1> QED
  BY <1>1, <1>2, <1>3, WorkerSame
  DEF TypeOK, TableTypes, TaskTypes, CleanerTypes, OnOneRow, GraphTypes, graphVars

\* The end of the parent scan, and the dispatch.
LEMMA ParentTypes ==
  ASSUME TypeOK, NEW r \in Rows, EndParent(r) \/ Dispatch(r)
  PROVE  TypeOK'
<1>1. parent' \in [Rows -> {"running", "ended", "dispatched"}]
  BY DEF TypeOK, TableTypes, EndParent, Dispatch
<1>2. queue' \in [Rows -> Nat]
  BY DEF TypeOK, TaskTypes, EndParent, Dispatch
<1>3. budget' \in [Kinds -> Nat]
  BY SpendTypes DEF TypeOK, TaskTypes, EndParent, Dispatch, Kinds
<1>4. UNCHANGED <<provider, row, revoke, worker, graphVars, cleaner, excuse>>
  BY DEF EndParent, Dispatch
<1> QED
  BY <1>1, <1>2, <1>3, <1>4, WorkerSame
  DEF TypeOK, TableTypes, TaskTypes, CleanerTypes, OnOneRow, GraphTypes, graphVars

\* A delivery.
LEMMA TakeTypes ==
  ASSUME TypeOK, NEW w \in Workers, NEW r \in Rows, Take(w, r)
  PROVE  TypeOK'
<1>1. queue' \in [Rows -> Nat]
  BY DEF TypeOK, TaskTypes, Take
<1>2. WorkerTypes'
  <2> DEFINE p == [Idle EXCEPT !.pc = "begin", !.on = {r}]
  <2>1. p \in WorkerStates /\ OnOneRow(p)
    BY DEF Idle, WorkerStates, OnOneRow
  <2>2. worker' = [worker EXCEPT ![w] = p] \/ worker' = worker
    BY DEF Take
  <2> HIDE DEF p
  <2> QED
    BY <2>1, <2>2, WorkerUpdate, WorkerSame DEF TypeOK
<1>3. UNCHANGED <<provider, parent, row, revoke, graphVars, cleaner, excuse, budget>>
  BY DEF Take
<1> QED
  BY <1>1, <1>2, <1>3
  DEF TypeOK, TableTypes, TaskTypes, CleanerTypes, OnOneRow, GraphTypes, graphVars

-----------------------------------------------------------------------------
(* What the steps of a run do to its worker *)

\* A worker that has a task goes on with it or is free.  Unless it is at the
\* beginning of the task, it enters a step of the run only from another one.
MovesOn(w) ==
  /\ worker[w].pc # "idle"
  /\ \/ Free(w)
     \/ \E pc \in Busy :
          /\ pc \in RunSteps => worker[w].pc \in RunSteps
          /\ \/ Goto(w, pc)
             \/ \E undo \in Undos :
                  worker' = [worker EXCEPT ![w].pc = pc, ![w].undo = undo]

\* Moving on keeps the workers well typed.
LEMMA MovesOnTypes ==
  ASSUME WorkerTypes, NEW w \in Workers, MovesOn(w)
  PROVE  WorkerTypes'
  BY FreeTypes, GotoTypes, GotoUndoTypes DEF MovesOn

\* Handlers and operations that write no row.
MoveStep(w) ==
  \/ CreateTemp(w) \/ Ingest(w) \/ DropBegin(w) \/ DropEnd(w) \/ SyncBegin(w)
  \/ SyncEnd(w) \/ ClearTemp(w) \/ CheckData(w)

\* Those that do; the first step of the task is apart.
WriteStep(w) ==
  \/ Gate(w) \/ Migrate(w) \/ Open(w) \/ Finish(w) \/ Recover(w)
  \/ MarkFailed(w) \/ FailRow(w) \/ ReopenFailed(w)

FaultStep(w) == Raise(w) \/ RaiseInHandler(w) \/ Crash(w) \/ Terminate(w)

\* Each of the first kind moves its worker on.
LEMMA MoveStepMoves ==
  ASSUME NEW w \in Workers, MoveStep(w)
  PROVE  MovesOn(w)
<1> USE DEF MovesOn, At, Busy, RunSteps, SwapSteps, FailSteps, Reopening, Undos
<1>1. CASE CreateTemp(w)
  BY <1>1 DEF CreateTemp
<1>2. CASE Ingest(w)
  BY <1>2 DEF Ingest
<1>3. CASE DropBegin(w)
  BY <1>3 DEF DropBegin
<1>4. CASE DropEnd(w)
  <2>1. /\ worker[w].pc = "dropping"
        /\ \E pc \in {"sync", "recover"} :
             worker' = [worker EXCEPT ![w].pc = pc, ![w].undo = "none"]
    BY <1>4 DEF DropEnd
  <2> QED
    BY <2>1
<1>5. CASE SyncBegin(w)
  BY <1>5 DEF SyncBegin
<1>6. CASE SyncEnd(w)
  <2>1. worker[w].pc = "syncing"
    BY <1>6 DEF SyncEnd
  <2>2. \/ Goto(w, "recover")
        \/ worker' = [worker EXCEPT ![w].pc = "migrate", ![w].undo = "own"]
    BY <1>6 DEF SyncEnd
  <2> QED
    BY <2>1, <2>2
<1>7. CASE ClearTemp(w)
  BY <1>7 DEF ClearTemp
<1>8. CASE CheckData(w)
  BY <1>8 DEF CheckData
<1> QED
  BY <1>1, <1>2, <1>3, <1>4, <1>5, <1>6, <1>7, <1>8 DEF MoveStep

\* So does each of the second.
LEMMA WriteStepMoves ==
  ASSUME NEW w \in Workers, WriteStep(w)
  PROVE  MovesOn(w)
<1> USE DEF MovesOn, At, Busy, RunSteps, SwapSteps, FailSteps, Reopening, Undos
<1>1. CASE Gate(w)
  <2>1. worker[w].pc = "gate"
    BY <1>1 DEF Gate
  <2>2. \/ Goto(w, "recover")
        \/ worker' = [worker EXCEPT ![w].pc = "drop", ![w].undo = "all"]
    BY <1>1 DEF Gate
  <2> QED
    BY <2>1, <2>2
<1>2. CASE Migrate(w)
  BY <1>2 DEF Migrate, Saved
<1>3. CASE Open(w)
  BY <1>3 DEF Open, Saved
<1>4. CASE Finish(w)
  BY <1>4 DEF Finish, Saved
<1>5. CASE Recover(w)
  BY <1>5 DEF Recover
<1>6. CASE MarkFailed(w)
  BY <1>6 DEF MarkFailed
<1>7. CASE FailRow(w)
  BY <1>7 DEF FailRow
<1>8. CASE ReopenFailed(w)
  BY <1>8 DEF ReopenFailed
<1> QED
  BY <1>1, <1>2, <1>3, <1>4, <1>5, <1>6, <1>7, <1>8 DEF WriteStep

\* So does each fault.
LEMMA FaultStepMoves ==
  ASSUME NEW w \in Workers, FaultStep(w)
  PROVE  MovesOn(w)
<1> USE DEF MovesOn, At, Busy, RunSteps, SwapSteps, FailSteps, Reopening
<1>1. CASE Raise(w)
  BY <1>1 DEF Raise
<1>2. CASE RaiseInHandler(w)
  BY <1>2 DEF RaiseInHandler
<1>3. CASE Crash(w)
  BY <1>3 DEF Crash
<1>4. CASE Terminate(w)
  BY <1>4 DEF Terminate
<1> QED
  BY <1>1, <1>2, <1>3, <1>4 DEF FaultStep

-----------------------------------------------------------------------------
(* The types, for the steps of workers *)

\* Steps that write no row.
LEMMA MoveStepTypes ==
  ASSUME TypeOK, NEW w \in Workers, MoveStep(w)
  PROVE  TypeOK'
<1>1. WorkerTypes'
  BY MoveStepMoves, MovesOnTypes DEF TypeOK
<1>2. UNCHANGED <<provider, parent, row, queue, revoke, cleaner, excuse, budget>>
  BY DEF MoveStep, CreateTemp, Ingest, DropBegin, DropEnd, SyncBegin, SyncEnd,
         ClearTemp, CheckData, graphVars
<1>3. R(w) \in Rows
  BY MoveStepMoves, WorkerFacts DEF MovesOn, TypeOK
<1>4. tempdb' \subseteq Rows /\ intact' \subseteq Workers
  BY <1>3 DEF TypeOK, GraphTypes, MoveStep, CreateTemp, Ingest, DropBegin, DropEnd,
              SyncBegin, SyncEnd, ClearTemp, CheckData, graphVars
<1>5. graph' \in [Sinks -> {"empty", "partial", "full"}]
  <2>1. graph' = graph \/ \E c \in {"empty", "partial", "full"} :
                            graph' = [graph EXCEPT ![TargetSink] = c]
    <3>1. graph[TargetSink] \in {"empty", "partial", "full"}
      BY SinkAssumption DEF TypeOK, GraphTypes
    <3> QED
      BY <3>1 DEF MoveStep, CreateTemp, Ingest, DropBegin, DropEnd, SyncBegin,
                  SyncEnd, ClearTemp, CheckData, graphVars
  <2> QED
    BY <2>1 DEF TypeOK, GraphTypes
<1> QED
  BY <1>1, <1>2, <1>4, <1>5
  DEF TypeOK, TableTypes, TaskTypes, CleanerTypes, OnOneRow, GraphTypes

\* Steps that write rows.
LEMMA WriteStepTypes ==
  ASSUME TypeOK, NEW w \in Workers, WriteStep(w)
  PROVE  TypeOK'
<1>1. WorkerTypes'
  BY WriteStepMoves, MovesOnTypes DEF TypeOK
<1>2. UNCHANGED <<provider, parent, queue, revoke, graphVars, cleaner, budget>>
  BY DEF WriteStep, Gate, Migrate, Open, Finish, Saved, Recover, MarkFailed, FailRow,
         ReopenFailed
<1>3. R(w) \in Rows
  BY WriteStepMoves, WorkerFacts DEF MovesOn, TypeOK
<1>4. row \in [Rows -> RowTypes] /\ row[R(w)] \in RowTypes /\ excuse \subseteq Excuses
  BY <1>3 DEF TypeOK, TableTypes
<1>5. row' \in [Rows -> RowTypes] /\ excuse' \subseteq Excuses
  <2>1. CASE Gate(w)
    BY <2>1, <1>4, ReadyTypes DEF Gate, Excuse, Excuses
  <2>2. CASE Migrate(w)
    <3>1. [row[R(w)] EXCEPT !.sink = TargetSink] \in RowTypes
      BY <1>4, SinkAssumption DEF RowTypes
    <3> QED
      BY <2>2, <3>1, <1>4 DEF Migrate, Saved
  <2>3. CASE Open(w)
    <3>1. [row[R(w)] EXCEPT !.ready = TRUE] \in RowTypes
      BY <1>4 DEF RowTypes
    <3> QED
      BY <2>3, <3>1, <1>4 DEF Open, Saved
  <2>4. CASE Finish(w)
    <3>1. [row[R(w)] EXCEPT !.state = "COMPLETED"] \in RowTypes
      BY <1>4 DEF RowTypes
    <3> QED
      BY <2>4, <3>1, <1>4 DEF Finish, Saved
  <2>5. CASE Recover(w)
    BY <2>5, <1>3, <1>4, ReadyTypes DEF Recover, Excuse, Excuses
  <2>6. CASE MarkFailed(w)
    BY <2>6, <1>3, <1>4, StateTypes DEF MarkFailed
  <2>7. CASE FailRow(w)
    BY <2>7, <1>3, <1>4, StateTypes DEF FailRow, Excuse, Excuses
  <2>8. CASE ReopenFailed(w)
    BY <2>8, <1>3, <1>4, ReopenTypes DEF ReopenFailed
  <2> QED
    BY <2>1, <2>2, <2>3, <2>4, <2>5, <2>6, <2>7, <2>8 DEF WriteStep
<1> QED
  BY <1>1, <1>2, <1>5
  DEF TypeOK, TableTypes, TaskTypes, CleanerTypes, OnOneRow, GraphTypes, graphVars

\* What the first step of a task does: the run starts, the task fails, or it
\* has nothing to do.
LEMMA BeginFacts ==
  ASSUME NEW w \in Workers, Begin(w)
  PROVE  /\ worker[w].pc = "begin"
         /\ \/ /\ MayStart(R(w)) /\ Exists(R(w))
               /\ worker' = [worker EXCEPT ![w].pc = "temp", ![w].undo = "none"]
               /\ row' = [row EXCEPT ![R(w)].state = "EXECUTING"]
            \/ (Goto(w, "failtemp") \/ Free(w)) /\ row' = row
         /\ UNCHANGED <<provider, parent, queue, revoke, graphVars, cleaner, excuse,
                        budget>>
  BY DEF Begin, At, Visible

\* The first step of a task.
LEMMA BeginTypes ==
  ASSUME TypeOK, NEW w \in Workers, Begin(w)
  PROVE  TypeOK'
<1>1. R(w) \in Rows
  BY BeginFacts, WorkerFacts DEF TypeOK
<1>2. WorkerTypes'
  <2>1. worker[w].pc # "idle" /\ {"temp", "failtemp"} \subseteq Busy /\ "none" \in Undos
    BY BeginFacts DEF Busy, RunSteps, FailSteps, Reopening, Undos
  <2> QED
    BY <2>1, BeginFacts, GotoTypes, GotoUndoTypes, FreeTypes DEF TypeOK
<1>3. row' \in [Rows -> RowTypes]
  BY <1>1, BeginFacts, StateTypes DEF TypeOK, TableTypes
<1>4. UNCHANGED <<provider, parent, queue, revoke, graphVars, cleaner, excuse, budget>>
  BY BeginFacts
<1> QED
  BY <1>2, <1>3, <1>4
  DEF TypeOK, TableTypes, TaskTypes, CleanerTypes, OnOneRow, GraphTypes, graphVars

\* Faults of a worker, and a redelivery.
LEMMA FaultTypes ==
  ASSUME TypeOK, NEW w \in Workers, FaultStep(w) \/ Redeliver(w)
  PROVE  TypeOK'
<1>1. WorkerTypes'
  BY FaultStepMoves, MovesOnTypes, WorkerSame DEF TypeOK, Redeliver
<1>2. UNCHANGED <<provider, parent, row, revoke, graph, tempdb, cleaner>>
  BY DEF FaultStep, Raise, RaiseInHandler, Crash, Terminate, Redeliver, graphVars
<1>3. intact' \subseteq Workers
  BY DEF TypeOK, GraphTypes, FaultStep, Raise, RaiseInHandler, Crash, Terminate,
         Redeliver, graphVars
<1>4. queue' \in [Rows -> Nat]
  <2>1. queue' = queue \/ queue' = [queue EXCEPT ![R(w)] = @ + 1]
    BY DEF FaultStep, Raise, RaiseInHandler, Crash, Terminate, Redeliver
  <2> QED
    BY <2>1 DEF TypeOK, TaskTypes
<1>5. budget' \in [Kinds -> Nat]
  BY SpendTypes DEF TypeOK, TaskTypes, FaultStep, Raise, RaiseInHandler, Crash,
                    Terminate, Redeliver, Kinds
<1>6. excuse' \subseteq Excuses
  BY DEF TypeOK, FaultStep, Raise, RaiseInHandler, Crash, Terminate, Redeliver,
         Excuse, Excuses
<1> QED
  BY <1>1, <1>2, <1>3, <1>4, <1>5, <1>6
  DEF TypeOK, TableTypes, TaskTypes, CleanerTypes, OnOneRow, GraphTypes

-----------------------------------------------------------------------------
(* The types, for the cleanup and the deletion *)

\* The judgement of a stale row.
LEMMA JudgeTypes ==
  ASSUME TypeOK, NEW r \in Rows, Judge(r) \/ JudgeScheduled(r)
  PROVE  TypeOK'
<1>1. CleanerTypes'
  BY CleanerMoves DEF TypeOK, Judge, JudgeScheduled
<1>2. revoke' \in [Rows -> {"no", "discard", "kill"}]
  BY DEF TypeOK, TaskTypes, Judge, JudgeScheduled
<1>3. budget' \in [Kinds -> Nat]
  BY SpendTypes DEF TypeOK, TaskTypes, Judge, JudgeScheduled, Kinds
<1>4. excuse' \subseteq Excuses
  BY DEF TypeOK, Judge, JudgeScheduled, Excuse, Excuses
<1>5. UNCHANGED <<provider, parent, row, queue, worker, graphVars>>
  BY DEF Judge, JudgeScheduled
<1> QED
  BY <1>1, <1>2, <1>3, <1>4, <1>5, WorkerSame
  DEF TypeOK, TableTypes, TaskTypes, GraphTypes, graphVars

\* The steps of the cleanup for the row it judged.
LEMMA CleanTypes ==
  ASSUME TypeOK, CleanStep \/ CleanRaise
  PROVE  TypeOK'
<1>1. CleanerTypes'
  BY CleanerMoves DEF TypeOK, CleanStep, CleanTemp, Finalize, CleanCheck, CleanReopen,
                         CleanRaise
<1>2. On(cleaner) \in Rows
  BY CleanerFacts DEF TypeOK, CleanStep, CleanTemp, Finalize, CleanCheck, CleanReopen,
                         CleanRaise, Reopening
<1>3. row' \in [Rows -> RowTypes] /\ excuse' \subseteq Excuses
  <2>1. CASE CleanTemp
    BY <2>1 DEF CleanTemp, TypeOK, TableTypes, Excuse, Excuses
  <2>2. CASE Finalize
    BY <2>2, <1>2, StateTypes DEF Finalize, TypeOK, TableTypes
  <2>3. CASE CleanCheck
    BY <2>3 DEF CleanCheck, TypeOK, TableTypes
  <2>4. CASE CleanReopen
    BY <2>4, <1>2, ReopenTypes DEF CleanReopen, TypeOK, TableTypes
  <2>5. CASE CleanRaise
    BY <2>5 DEF CleanRaise, TypeOK, TableTypes, Excuse, Excuses
  <2> QED
    BY <2>1, <2>2, <2>3, <2>4, <2>5 DEF CleanStep
<1>4. tempdb' \subseteq Rows /\ budget' \in [Kinds -> Nat]
  BY SpendTypes DEF TypeOK, TaskTypes, GraphTypes, CleanStep, CleanTemp, Finalize,
                    CleanCheck, CleanReopen, CleanRaise, graphVars, Kinds
<1>5. UNCHANGED <<provider, parent, queue, revoke, worker, graph, intact>>
  BY DEF CleanStep, CleanTemp, Finalize, CleanCheck, CleanReopen, CleanRaise, graphVars
<1> QED
  BY <1>1, <1>3, <1>4, <1>5, WorkerSame
  DEF TypeOK, TableTypes, TaskTypes, GraphTypes

\* The steps of the deletion.
LEMMA PurgeTypes ==
  ASSUME TypeOK, HideProvider \/ PurgeStep
  PROVE  TypeOK'
<1>1. provider' \in {"active", "hidden", "purging", "purged", "gone"}
  BY DEF HideProvider, PurgeStep, PurgeTemps, PurgeGraphs, PurgeRows
<1>2. row' \in [Rows -> RowTypes]
  <2>1. NoRow \in RowTypes
    BY DEF NoRow, RowTypes, Sinks
  <2> QED
    BY <2>1 DEF TypeOK, TableTypes, HideProvider, PurgeStep, PurgeTemps, PurgeGraphs,
                PurgeRows
<1>3. graph' \in [Sinks -> {"empty", "partial", "full"}] /\ intact' \subseteq Workers
  BY DEF TypeOK, GraphTypes, HideProvider, PurgeStep, PurgeTemps, PurgeGraphs,
         PurgeRows, graphVars
<1>4. tempdb' \subseteq Rows
  BY DEF TypeOK, GraphTypes, HideProvider, PurgeStep, PurgeTemps, PurgeGraphs,
         PurgeRows, graphVars
<1>5. UNCHANGED <<parent, queue, revoke, worker, cleaner, excuse, budget>>
  BY DEF HideProvider, PurgeStep, PurgeTemps, PurgeGraphs, PurgeRows
<1> QED
  BY <1>1, <1>2, <1>3, <1>4, <1>5, WorkerSame
  DEF TypeOK, TableTypes, TaskTypes, CleanerTypes, OnOneRow, GraphTypes

-----------------------------------------------------------------------------
(* Next, grouped as the lemmas are *)

\* Every step of the system is in one of the groups.
LEMMA NextGroups ==
  ASSUME Next
  PROVE  \/ \E r \in Rows : CreateRead(r) \/ CreateInsert(r)
         \/ \E r \in Rows : EndParent(r) \/ Dispatch(r)
         \/ \E r \in Rows : Judge(r) \/ JudgeScheduled(r)
         \/ \E w \in Workers, r \in Rows : Take(w, r)
         \/ \E w \in Workers : Begin(w)
         \/ \E w \in Workers : MoveStep(w)
         \/ \E w \in Workers : WriteStep(w)
         \/ \E w \in Workers : FaultStep(w) \/ Redeliver(w)
         \/ CleanStep \/ CleanRaise
         \/ HideProvider \/ PurgeStep
  BY DEF Next, RunStep, MoveStep, WriteStep, FaultStep

\* So every step keeps the types.
LEMMA NextTypes ==
  ASSUME TypeOK, [Next]_vars
  PROVE  TypeOK'
<1>1. CASE Next
  BY <1>1, NextGroups, CreateTypes, ParentTypes, JudgeTypes, TakeTypes, BeginTypes,
     MoveStepTypes, WriteStepTypes, FaultTypes, CleanTypes, PurgeTypes
<1>2. CASE UNCHANGED vars
  BY <1>2, WorkerSame
  DEF vars, graphVars, TypeOK, TableTypes, TaskTypes, CleanerTypes, OnOneRow, GraphTypes
<1> QED
  BY <1>1, <1>2

\* The tables, the tasks, the workers and the graphs keep to their types: in
\* particular a worker is always on one row of the table, a delivery takes a
\* message that is there, and the content of a graph is empty, partial or full.
THEOREM TypeCorrect == Spec => []TypeOK
<1>1. TypeOK /\ [Next]_vars => TypeOK'
  BY NextTypes
<1> QED
  BY InitTypes, <1>1, PTL DEF Spec

-----------------------------------------------------------------------------
(* At most one worker runs a row *)

\* The row of a run was SCHEDULED when the run started, and it never returns to
\* that: so a worker that starts a row finds nobody running it.
Started ==
  \A w \in Workers, r \in Rows :
    Holds(w, r) => row[r].state \notin {"creating", "SCHEDULED"}

\* A row that was deleted under a run is not inserted again.
NotAgain ==
  \A w \in Workers, r \in Rows :
    Holds(w, r) /\ row[r].state = "none" => provider = "gone"

RunInv == TypeOK /\ Started /\ NotAgain /\ OneRunPerRow

\* What every step but the start of a run does: it adds no run, and a row that
\* is being run is not put back.
AddsNoRun == \A w \in Workers, r \in Rows : Holds(w, r)' => Holds(w, r)
PutsNoneBack ==
  \A w \in Workers, r \in Rows :
    Holds(w, r) => \/ row'[r].state = row[r].state
                   \/ row'[r].state \in {"EXECUTING", "COMPLETED", "FAILED"}
                   \/ row'[r].state = "none" /\ provider' = "gone"
GoneForGood == provider = "gone" => provider' = "gone"

\* Such a step keeps the invariant.
LEMMA RunInvKept ==
  ASSUME RunInv, TypeOK', AddsNoRun, PutsNoneBack, GoneForGood
  PROVE  RunInv'
<1>1. Started'
  BY DEF RunInv, Started, AddsNoRun, PutsNoneBack
<1>2. NotAgain'
  BY DEF RunInv, NotAgain, AddsNoRun, PutsNoneBack, GoneForGood
<1>3. OneRunPerRow'
  BY DEF RunInv, OneRunPerRow, AddsNoRun
<1> QED
  BY <1>1, <1>2, <1>3 DEF RunInv

\* A worker that moves on adds no run.
LEMMA MovesOnAdds ==
  ASSUME WorkerTypes, NEW w \in Workers, MovesOn(w)
  PROVE  AddsNoRun
<1>1. \A v \in Workers : v # w => worker'[v] = worker[v]
  BY DEF WorkerTypes, MovesOn, Free, Goto
<1>2. worker'[w].pc \in RunSteps =>
        worker[w].pc \in RunSteps /\ worker'[w].on = worker[w].on
  <2>1. CASE Free(w)
    BY <2>1, IdleStates DEF WorkerTypes, Free, Idle, Busy
  <2>2. CASE ~Free(w)
    BY <2>2 DEF WorkerTypes, WorkerStates, MovesOn, Goto
  <2> QED
    BY <2>1, <2>2
<1>3. ASSUME NEW v \in Workers, NEW r \in Rows, Holds(v, r)'
      PROVE  Holds(v, r)
  BY <1>1, <1>2, <1>3 DEF Holds
<1> QED
  BY <1>3 DEF AddsNoRun

\* Nor does a step of somebody else.
LEMMA WorkersSame ==
  ASSUME worker' = worker
  PROVE  AddsNoRun
  BY DEF AddsNoRun, Holds

\* Gates are not states.
LEMMA ReadyStates ==
  ASSUME row \in [Rows -> RowTypes], NEW r \in Rows
  PROVE  /\ \A sink, value : SetReady(sink, value)[r].state = row[r].state
         /\ \A q, value : SetOwnReady(q, value)[r].state = row[r].state
<1>1. \A value : [row[r] EXCEPT !.ready = value].state = row[r].state
  BY DEF RowTypes
<1> QED
  BY <1>1 DEF SetReady, SetOwnReady

\* A step that writes gates only leaves the states alone.
LEMMA GatesKeepStates ==
  ASSUME row \in [Rows -> RowTypes],
         \/ row' = row
         \/ \E sink, value : row' = SetReady(sink, value)
         \/ \E q, value : row' = SetOwnReady(q, value)
  PROVE  \A r \in Rows : row'[r].state = row[r].state
  BY ReadyStates

\* The start of a run.
LEMMA BeginRunInv ==
  ASSUME RunInv, NEW w \in Workers, Begin(w)
  PROVE  RunInv'
<1> USE DEF RunInv
<1>1. TypeOK' /\ R(w) \in Rows /\ worker[w].on = {R(w)}
  BY BeginTypes, BeginFacts, WorkerFacts DEF TypeOK
<1>2. WorkerTypes /\ row \in [Rows -> RowTypes]
  BY DEF TypeOK, TableTypes
<1>3. CASE row' = row /\ (Goto(w, "failtemp") \/ Free(w))
  <2>1. MovesOn(w)
    BY <1>3, BeginFacts
    DEF MovesOn, Busy, RunSteps, SwapSteps, FailSteps, Reopening
  <2>2. PutsNoneBack /\ GoneForGood
    BY <1>3, BeginFacts DEF PutsNoneBack, GoneForGood
  <2> QED
    BY <1>1, <1>2, <2>1, <2>2, MovesOnAdds, RunInvKept
<1>4. CASE /\ MayStart(R(w)) /\ Exists(R(w))
           /\ worker' = [worker EXCEPT ![w].pc = "temp", ![w].undo = "none"]
           /\ row' = [row EXCEPT ![R(w)].state = "EXECUTING"]
  <2>1. \A v \in Workers : ~Holds(v, R(w))
    BY <1>1, <1>4 DEF Started, MayStart
  <2>2. /\ row'[R(w)].state = "EXECUTING"
        /\ \A r \in Rows : r # R(w) => row'[r] = row[r]
    BY <1>1, <1>2, <1>4 DEF RowTypes
  <2>3. \A v \in Workers, r \in Rows :
          Holds(v, r)' => IF v = w THEN r = R(w) ELSE Holds(v, r)
    <3>1. worker'[w].on = {R(w)} /\ \A v \in Workers : v # w => worker'[v] = worker[v]
      BY <1>1, <1>2, <1>4 DEF WorkerTypes, WorkerStates
    <3> QED
      BY <1>1, <3>1 DEF Holds
  <2>4. Started'
    BY <2>1, <2>2, <2>3 DEF Started
  <2>5. NotAgain'
    BY <2>1, <2>2, <2>3, BeginFacts DEF NotAgain
  <2>6. OneRunPerRow'
    BY <2>1, <2>3 DEF OneRunPerRow
  <2> QED
    BY <1>1, <2>4, <2>5, <2>6
<1> QED
  BY <1>3, <1>4, BeginFacts

\* The insertion: nobody runs the row that is inserted.
LEMMA CreateRunInv ==
  ASSUME RunInv, NEW r \in Rows, CreateRead(r) \/ CreateInsert(r)
  PROVE  RunInv'
<1> USE DEF RunInv
<1>1. provider' = provider /\ worker' = worker
  BY DEF CreateRead, CreateInsert
<1>2. \A w \in Workers : ~Holds(w, r)
  BY DEF CreateRead, CreateInsert, Started, NotAgain
<1>3. \A q \in Rows : q # r => row'[q] = row[q]
  BY DEF CreateRead, CreateInsert, TypeOK, TableTypes
<1> QED
  BY <1>1, <1>2, <1>3, CreateTypes, WorkersSame, RunInvKept DEF PutsNoneBack, GoneForGood

\* Steps that write neither the rows nor the provider.
LEMMA OtherRunInv ==
  ASSUME RunInv, TypeOK', AddsNoRun, row' = row, provider' = provider
  PROVE  RunInv'
  BY RunInvKept DEF PutsNoneBack, GoneForGood

\* A worker that takes a message does not run the row yet.
LEMMA TakeAdds ==
  ASSUME WorkerTypes, NEW w \in Workers, NEW r \in Rows, Take(w, r)
  PROVE  AddsNoRun
<1> DEFINE p == [Idle EXCEPT !.pc = "begin", !.on = {r}]
<1>1. p.pc \notin RunSteps
  BY DEF Idle, RunSteps, SwapSteps
<1>2. worker' = worker \/ worker' = [worker EXCEPT ![w] = p]
  BY DEF Take
<1> HIDE DEF p
<1>3. \A v \in Workers : worker'[v] = worker[v] \/ worker'[v] = p
  BY <1>2 DEF WorkerTypes
<1> QED
  BY <1>1, <1>3 DEF AddsNoRun, Holds

\* Writes of a run end rows and open or close gates.
LEMMA WriteRunInv ==
  ASSUME RunInv, NEW w \in Workers, WriteStep(w)
  PROVE  RunInv'
<1> USE DEF RunInv
<1>1. WorkerTypes /\ row \in [Rows -> RowTypes]
  BY DEF TypeOK, TableTypes
<1>2. R(w) \in Rows
  BY WriteStepMoves, WorkerFacts DEF MovesOn, TypeOK
<1>3. provider' = provider
  BY DEF WriteStep, Gate, Migrate, Open, Finish, Saved, Recover, MarkFailed, FailRow,
         ReopenFailed
<1>4. \A r \in Rows : row'[r].state \in {row[r].state, "COMPLETED", "FAILED"}
  <2>1. CASE Gate(w)
    <3>1. row' = row \/ row' = SetReady(TargetSink, FALSE)
      BY <2>1 DEF Gate
    <3> QED
      BY <3>1, <1>1, GatesKeepStates
  <2>2. CASE Migrate(w) \/ Open(w) \/ Finish(w)
    BY <2>2, <1>1 DEF Migrate, Open, Finish, Saved, RowTypes
  <2>3. CASE Recover(w)
    <3>1. \/ row' = row
          \/ row' = SetReady(TargetSink, TRUE)
          \/ row' = SetOwnReady(R(w), TRUE)
      BY <2>3 DEF Recover
    <3> QED
      BY <3>1, <1>1, GatesKeepStates
  <2>4. CASE MarkFailed(w) \/ FailRow(w)
    BY <2>4, <1>1 DEF MarkFailed, FailRow, RowTypes
  <2>5. CASE ReopenFailed(w)
    <3>1. row' = row \/ row' = SetReady(row[R(w)].sink, TRUE)
      BY <2>5 DEF ReopenFailed, Reopen
    <3> QED
      BY <3>1, <1>1, GatesKeepStates
  <2> QED
    BY <2>1, <2>2, <2>3, <2>4, <2>5 DEF WriteStep
<1> QED
  BY <1>1, <1>3, <1>4, WriteStepTypes, WriteStepMoves, MovesOnAdds, RunInvKept
  DEF PutsNoneBack, GoneForGood

\* So do those of the cleanup.
LEMMA CleanRunInv ==
  ASSUME RunInv, CleanStep \/ CleanRaise
  PROVE  RunInv'
<1> USE DEF RunInv
<1>1. row \in [Rows -> RowTypes]
  BY DEF TypeOK, TableTypes
<1>2. provider' = provider /\ worker' = worker
  BY DEF CleanStep, CleanTemp, Finalize, CleanCheck, CleanReopen, CleanRaise
<1>3. \A r \in Rows : row'[r].state \in {row[r].state, "FAILED"}
  <2>1. CASE CleanTemp \/ CleanCheck \/ CleanRaise
    BY <2>1 DEF CleanTemp, CleanCheck, CleanRaise
  <2>2. CASE Finalize
    BY <2>2, <1>1 DEF Finalize, RowTypes
  <2>3. CASE CleanReopen
    <3>1. row' = row \/ row' = SetReady(row[On(cleaner)].sink, TRUE)
      BY <2>3 DEF CleanReopen, Reopen
    <3> QED
      BY <3>1, <1>1, GatesKeepStates
  <2> QED
    BY <2>1, <2>2, <2>3 DEF CleanStep
<1> QED
  BY <1>2, <1>3, CleanTypes, WorkersSame, RunInvKept DEF PutsNoneBack, GoneForGood

\* Rows go away with their provider only.
LEMMA PurgeRunInv ==
  ASSUME RunInv, HideProvider \/ PurgeStep
  PROVE  RunInv'
<1>1. worker' = worker
  BY DEF HideProvider, PurgeStep, PurgeTemps, PurgeGraphs, PurgeRows
<1>2. GoneForGood
  BY DEF GoneForGood, HideProvider, PurgeStep, PurgeTemps, PurgeGraphs, PurgeRows
<1>3. row' = row \/ PurgeRows
  BY DEF HideProvider, PurgeStep, PurgeTemps, PurgeGraphs
<1>4. PutsNoneBack
  BY <1>3 DEF PutsNoneBack, PurgeRows, NoRow
<1> QED
  BY <1>1, <1>2, <1>4, PurgeTypes, WorkersSame, RunInvKept DEF RunInv

\* Every step keeps the invariant.
LEMMA NextRunInv ==
  ASSUME RunInv, [Next]_vars
  PROVE  RunInv'
<1>1. TypeOK' /\ TypeOK /\ WorkerTypes
  BY NextTypes DEF RunInv, TypeOK
<1>2. CASE \E r \in Rows : \/ EndParent(r) \/ Dispatch(r)
                           \/ Judge(r) \/ JudgeScheduled(r)
  <2>1. worker' = worker /\ row' = row /\ provider' = provider
    BY <1>2 DEF EndParent, Dispatch, Judge, JudgeScheduled
  <2> QED
    BY <1>1, <2>1, WorkersSame, OtherRunInv
<1>3. ASSUME NEW w \in Workers, NEW r \in Rows, Take(w, r) PROVE RunInv'
  <2>1. row' = row /\ provider' = provider
    BY <1>3 DEF Take
  <2> QED
    BY <1>1, <1>3, <2>1, TakeAdds, OtherRunInv
<1>4. ASSUME NEW w \in Workers, MoveStep(w) \/ FaultStep(w) \/ Redeliver(w)
      PROVE  RunInv'
  <2>1. row' = row /\ provider' = provider
    BY <1>4 DEF MoveStep, CreateTemp, Ingest, DropBegin, DropEnd, SyncBegin, SyncEnd,
                ClearTemp, CheckData, FaultStep, Raise, RaiseInHandler, Crash,
                Terminate, Redeliver
  <2>2. AddsNoRun
    BY <1>1, <1>4, MoveStepMoves, FaultStepMoves, MovesOnAdds, WorkersSame
    DEF Redeliver
  <2> QED
    BY <1>1, <2>1, <2>2, OtherRunInv
<1>5. CASE UNCHANGED vars
  BY <1>1, <1>5, WorkersSame, OtherRunInv DEF vars
<1>6. CASE Next
  BY <1>6, <1>2, <1>3, <1>4, NextGroups, CreateRunInv, BeginRunInv, WriteRunInv,
     CleanRunInv, PurgeRunInv
<1> QED
  BY <1>5, <1>6

\* However often a task is published, redelivered or taken again after a crash,
\* and whatever the cleanup does meanwhile, two workers never run one row.
THEOREM RunsOnce == Spec => []OneRunPerRow
<1>1. Init => RunInv
  <2> SUFFICES ASSUME Init PROVE RunInv
    OBVIOUS
  <2>1. \A w \in Workers, r \in Rows : ~Holds(w, r)
    BY IdleStates DEF Init, Holds, Idle, Busy
  <2> QED
    BY <2>1, InitTypes DEF RunInv, Started, NotAgain, OneRunPerRow
<1>2. RunInv /\ [Next]_vars => RunInv'
  BY NextRunInv
<1>3. RunInv => OneRunPerRow
  BY DEF RunInv
<1> QED
  BY <1>1, <1>2, <1>3, PTL DEF Spec

-----------------------------------------------------------------------------
(* What the handler of a run would reopen *)

\* How far the swap got follows from where the run is.
Fits(p) ==
  /\ p.pc = "begin" => p.undo = "unstarted"
  /\ p.pc \in {"temp", "ingest", "gate", "sync", "syncing"} => p.undo = "none"
  /\ p.pc \in {"drop", "dropping"} => p.undo = "all"
  /\ p.pc \in {"migrate", "open", "cleartemp", "finish"} => p.undo = "own"
UndoFits == \A w \in Workers : Fits(worker[w])

\* Between closing the gate and the last point where the run may open it.
Swaps(p) ==
  \/ p.pc \in SwapSteps \ {"recover"}
  \/ p.pc = "recover" /\ p.undo # "none"

\* Where a worker is after each kind of move; the others stay where they are.
OthersStay(w) == \A v \in Workers \ {w} : worker'[v] = worker[v]

\* A worker that goes on, ...
LEMMA GotoAfter ==
  ASSUME WorkerTypes, NEW w \in Workers, NEW pc, Goto(w, pc)
  PROVE  /\ worker'[w].pc = pc /\ worker'[w].undo = worker[w].undo
         /\ worker'[w].on = worker[w].on /\ OthersStay(w)
  BY DEF WorkerTypes, WorkerStates, Goto, OthersStay

\* ... notes how far the swap got on the way, ...
LEMMA GotoUndoAfter ==
  ASSUME WorkerTypes, NEW w \in Workers, NEW pc, NEW undo,
         worker' = [worker EXCEPT ![w].pc = pc, ![w].undo = undo]
  PROVE  /\ worker'[w].pc = pc /\ worker'[w].undo = undo
         /\ worker'[w].on = worker[w].on /\ OthersStay(w)
  BY DEF WorkerTypes, WorkerStates, OthersStay

\* ... or is done with its message.
LEMMA FreeAfter ==
  ASSUME WorkerTypes, NEW w \in Workers, Free(w)
  PROVE  /\ worker'[w].pc = "idle" /\ worker'[w].undo = "unstarted"
         /\ worker'[w].on = {} /\ OthersStay(w)
  BY DEF WorkerTypes, Free, Idle, OthersStay

\* The row a worker is on, before and after it moves.
LEMMA SameRow ==
  ASSUME NEW v \in Workers, worker'[v].on = worker[v].on
  PROVE  R(v)' = R(v)
  BY DEF R, On

\* The row of a run exists while the provider does.
LEMMA HeldExists ==
  ASSUME RunInv, NEW w \in Workers, worker[w].pc \in RunSteps
  PROVE  /\ R(w) \in Rows /\ Holds(w, R(w))
         /\ row[R(w)].state \notin {"creating", "SCHEDULED"}
         /\ provider # "gone" => Exists(R(w))
<1>1. worker[w].pc # "idle"
  BY DEF RunSteps, SwapSteps
<1>2. R(w) \in Rows /\ worker[w].on = {R(w)}
  BY <1>1, WorkerFacts DEF RunInv, TypeOK
<1>3. Holds(w, R(w))
  BY <1>2 DEF Holds
<1>4. row[R(w)].state \notin {"creating", "SCHEDULED"}
  BY <1>2, <1>3 DEF RunInv, Started
<1>5. row[R(w)].state = "none" => provider = "gone"
  BY <1>2, <1>3 DEF RunInv, NotAgain
<1> QED
  BY <1>2, <1>3, <1>4, <1>5 DEF Exists

\* A step of a worker, but for closing the gate and the steps of the swap
\* that read or write the graph.
CalmStep(w) ==
  \/ Begin(w) \/ CreateTemp(w) \/ Ingest(w) \/ ClearTemp(w) \/ Finish(w)
  \/ MarkFailed(w) \/ FailRow(w) \/ CheckData(w) \/ FaultStep(w)

\* A worker makes no headway in the swap.
CalmMove(w) ==
  /\ Fits(worker'[w])
  /\ Swaps(worker'[w]) => Swaps(worker[w]) /\ worker'[w].undo = worker[w].undo
  /\ worker'[w].pc \notin {"drop", "dropping", "syncing", "open"}

\* Each of these steps is such a move.
LEMMA CalmStepMoves ==
  ASSUME WorkerTypes, UndoFits, NEW w \in Workers, CalmStep(w)
  PROVE  CalmMove(w) /\ OthersStay(w)
<1> USE DEF CalmMove, Fits, Swaps, SwapSteps, At
<1>0. Fits(worker[w]) /\ worker[w].undo \in Undos
  BY DEF UndoFits, WorkerTypes, WorkerStates, Undos
<1>1. CASE Begin(w)
  <2>1. CASE worker' = [worker EXCEPT ![w].pc = "temp", ![w].undo = "none"]
    <3>1. worker'[w].pc = "temp" /\ worker'[w].undo = "none" /\ OthersStay(w)
      BY <2>1, GotoUndoAfter
    <3> QED
      BY <3>1
  <2>2. CASE Goto(w, "failtemp")
    BY <2>2, GotoAfter
  <2>3. CASE Free(w)
    BY <2>3, FreeAfter
  <2> QED
    BY <1>1, <2>1, <2>2, <2>3, BeginFacts
<1>2. CASE CreateTemp(w)
  BY <1>0, <1>2, GotoAfter DEF CreateTemp
<1>3. CASE Ingest(w)
  BY <1>0, <1>3, GotoAfter DEF Ingest
<1>4. CASE ClearTemp(w)
  BY <1>0, <1>4, GotoAfter, FreeAfter DEF ClearTemp
<1>5. CASE Finish(w)
  BY <1>0, <1>5, GotoAfter, FreeAfter DEF Finish, Saved
<1>6. CASE MarkFailed(w)
  BY <1>0, <1>6, GotoAfter DEF MarkFailed
<1>7. CASE FailRow(w)
  BY <1>0, <1>7, GotoAfter, FreeAfter DEF FailRow
<1>8. CASE CheckData(w)
  BY <1>0, <1>8, GotoAfter, FreeAfter DEF CheckData
<1>9. CASE Raise(w)
  <2>1. CASE At(w, "begin") /\ Goto(w, "failtemp")
    BY <2>1, GotoAfter
  <2>2. CASE /\ worker[w].pc \in RunSteps \ {"recover", "xtemp", "xfail"}
             /\ Goto(w, "recover")
    BY <1>0, <2>2, GotoAfter DEF RunSteps
  <2> QED
    BY <1>9, <2>1, <2>2 DEF Raise
<1>10. CASE RaiseInHandler(w)
  <2>1. CASE Free(w)
    BY <2>1, FreeAfter
  <2>2. CASE Goto(w, "xtemp") \/ Goto(w, "xfail") \/ Goto(w, "failtemp")
             \/ Goto(w, "failrow")
    BY <2>2, GotoAfter
  <2> QED
    BY <1>10, <2>1, <2>2 DEF RaiseInHandler
<1>11. CASE Crash(w) \/ Terminate(w)
  BY <1>11, FreeAfter DEF Crash, Terminate
<1> QED
  BY <1>1, <1>2, <1>3, <1>4, <1>5, <1>6, <1>7, <1>8, <1>9, <1>10, <1>11
  DEF CalmStep, FaultStep

\* The other steps of a run.
SwapStep(w) ==
  \/ Gate(w) \/ DropBegin(w) \/ DropEnd(w) \/ SyncBegin(w) \/ SyncEnd(w)
  \/ Migrate(w) \/ Open(w) \/ Recover(w) \/ ReopenFailed(w)

\* Only closing the gate brings a worker into the swap.
LEMMA SwapStepMoves ==
  ASSUME WorkerTypes, UndoFits, NEW w \in Workers, SwapStep(w)
  PROVE  /\ Fits(worker'[w]) /\ OthersStay(w)
         /\ Swaps(worker'[w]) => Swaps(worker[w]) \/ Gate(w)
<1> USE DEF Fits, Swaps, SwapSteps, At
<1>0. Fits(worker[w])
  BY DEF UndoFits
<1>1. CASE Gate(w)
  <2>1. CASE worker' = [worker EXCEPT ![w].pc = "drop", ![w].undo = "all"]
    <3>1. worker'[w].pc = "drop" /\ worker'[w].undo = "all" /\ OthersStay(w)
      BY <2>1, GotoUndoAfter
    <3> QED
      BY <1>1, <3>1
  <2>2. CASE Goto(w, "recover")
    BY <1>1, <2>2, GotoAfter
  <2> QED
    BY <1>1, <2>1, <2>2 DEF Gate
<1>2. CASE DropBegin(w)
  BY <1>0, <1>2, GotoAfter DEF DropBegin
<1>3. CASE DropEnd(w)
  <2> DEFINE pc == IF Exists(R(w)) THEN "sync" ELSE "recover"
  <2>1. worker' = [worker EXCEPT ![w].pc = pc, ![w].undo = "none"]
    BY <1>3 DEF DropEnd
  <2>2. worker'[w].pc = pc /\ worker'[w].undo = "none" /\ OthersStay(w)
    <3> HIDE DEF pc
    <3> QED
      BY <2>1, GotoUndoAfter
  <2> QED
    BY <1>3, <2>2 DEF DropEnd
<1>4. CASE SyncBegin(w)
  BY <1>0, <1>4, GotoAfter DEF SyncBegin
<1>5. CASE SyncEnd(w)
  <2>0. worker[w].pc = "syncing"
    BY <1>5 DEF SyncEnd
  <2>1. CASE worker' = [worker EXCEPT ![w].pc = "migrate", ![w].undo = "own"]
    <3>1. worker'[w].pc = "migrate" /\ worker'[w].undo = "own" /\ OthersStay(w)
      BY <2>1, GotoUndoAfter
    <3> QED
      BY <2>0, <3>1
  <2>2. CASE Goto(w, "recover")
    BY <1>0, <2>0, <2>2, GotoAfter
  <2> QED
    BY <1>5, <2>1, <2>2 DEF SyncEnd
<1>6. CASE Migrate(w) \/ Open(w)
  BY <1>0, <1>6, GotoAfter DEF Migrate, Open, Saved
<1>7. CASE Recover(w)
  BY <1>7, GotoAfter DEF Recover
<1>8. CASE ReopenFailed(w)
  BY <1>8, FreeAfter DEF ReopenFailed
<1> QED
  BY <1>1, <1>2, <1>3, <1>4, <1>5, <1>6, <1>7, <1>8 DEF SwapStep

\* A worker that takes a message is not in the swap.
LEMMA TakeMoves ==
  ASSUME WorkerTypes, NEW w \in Workers, NEW r \in Rows, Take(w, r)
  PROVE  OthersStay(w) /\ (worker'[w] = worker[w] \/ CalmMove(w))
<1>1. CASE worker' = worker
  BY <1>1 DEF OthersStay
<1>2. CASE worker' = [worker EXCEPT ![w] = [Idle EXCEPT !.pc = "begin", !.on = {r}]]
  <2>1. /\ worker'[w].pc = "begin" /\ worker'[w].undo = "unstarted"
        /\ OthersStay(w)
    BY <1>2 DEF WorkerTypes, Idle, OthersStay
  <2> QED
    BY <2>1 DEF CalmMove, Fits, Swaps, SwapSteps
<1> QED
  BY <1>1, <1>2 DEF Take

\* Steps of nobody, or of the cleanup, the deletion and the requests.
StillStep ==
  \/ \E r \in Rows : \/ CreateRead(r) \/ CreateInsert(r) \/ EndParent(r)
                     \/ Dispatch(r) \/ Judge(r) \/ JudgeScheduled(r)
  \/ \E w \in Workers : Redeliver(w)
  \/ CleanStep \/ CleanRaise \/ HideProvider \/ PurgeStep \/ UNCHANGED vars

\* They move no worker.
LEMMA StillWorkers ==
  ASSUME StillStep
  PROVE  worker' = worker
  BY DEF StillStep, CreateRead, CreateInsert, EndParent, Dispatch, Judge,
         JudgeScheduled, Redeliver, CleanStep, CleanTemp, Finalize, CleanCheck,
         CleanReopen, CleanRaise, HideProvider, PurgeStep, PurgeTemps, PurgeGraphs,
         PurgeRows, vars

\* Every step of the system, by what it does to the workers.
LEMMA NextKinds ==
  ASSUME [Next]_vars
  PROVE  \/ StillStep
         \/ \E w \in Workers, r \in Rows : Take(w, r)
         \/ \E w \in Workers : CalmStep(w) \/ SwapStep(w)
  BY DEF Next, RunStep, StillStep, CalmStep, SwapStep, FaultStep

\* Every step keeps what a handler would reopen in line with its run.
LEMMA NextUndoFits ==
  ASSUME WorkerTypes, UndoFits, [Next]_vars
  PROVE  UndoFits'
<1>1. CASE StillStep
  BY <1>1, StillWorkers DEF UndoFits, Fits
<1>2. ASSUME NEW w \in Workers, OthersStay(w),
             worker'[w] = worker[w] \/ Fits(worker'[w])
      PROVE  UndoFits'
  <2>1. ASSUME NEW v \in Workers PROVE Fits(worker'[v])
    <3>1. CASE v = w
      BY <1>2, <3>1 DEF UndoFits
    <3>2. CASE v # w
      BY <1>2, <3>2 DEF UndoFits, OthersStay
    <3> QED
      BY <3>1, <3>2
  <2> QED
    BY <2>1 DEF UndoFits, Fits
<1>3. ASSUME NEW w \in Workers, NEW r \in Rows, Take(w, r) PROVE UndoFits'
  BY <1>2, <1>3, TakeMoves DEF CalmMove
<1>4. ASSUME NEW w \in Workers, CalmStep(w) PROVE UndoFits'
  BY <1>2, <1>4, CalmStepMoves DEF CalmMove
<1>5. ASSUME NEW w \in Workers, SwapStep(w) PROVE UndoFits'
  BY <1>2, <1>5, SwapStepMoves
<1> QED
  BY <1>1, <1>3, <1>4, <1>5, NextKinds

-----------------------------------------------------------------------------
(* What queries see while nothing is excused *)

Clean == excuse \cap PastGate = {} /\ provider = "active"

OneSwap ==
  \A v, w \in Workers : Swaps(worker[v]) /\ Swaps(worker[w]) => v = w
GateShut ==
  \A w \in Workers, r \in Rows :
    worker[w].pc \in {"drop", "dropping"} /\ Exists(r) /\ row[r].sink = TargetSink
      => ~row[r].ready
FullWhenOwn ==
  \A w \in Workers :
    Swaps(worker[w]) /\ worker[w].undo = "own" => graph[TargetSink] = "full"
CopyIntact == \A w \in Workers : worker[w].pc = "syncing" => w \in intact
OpenOnTarget ==
  \A w \in Workers : worker[w].pc = "open" => row[R(w)].sink = TargetSink
AllWhole == \A r \in Rows : Whole(r)

\* One worker is in the swap; the gate is shut while it drops, its copy is not
\* dropped under it, and what it opens afterwards is complete.
Swap ==
  OneSwap /\ GateShut /\ FullWhenOwn /\ CopyIntact /\ OpenOnTarget /\ AllWhole
GraphInv == RunInv /\ UndoFits /\ (Clean => Swap)

\* The history only grows, and a provider that was deleted stays deleted.
LEMMA HistoryGrows ==
  ASSUME [Next]_vars
  PROVE  excuse \subseteq excuse' /\ (provider' = "active" => provider = "active")
<1>1. CASE StillStep
  BY <1>1 DEF StillStep, CreateRead, CreateInsert, EndParent, Dispatch, Judge,
              JudgeScheduled, Redeliver, CleanStep, CleanTemp, Finalize, CleanCheck,
              CleanReopen, CleanRaise, Reopen, HideProvider, PurgeStep, PurgeTemps,
              PurgeGraphs, PurgeRows, vars, Excuse
<1>2. CASE \E w \in Workers, r \in Rows : Take(w, r)
  BY <1>2 DEF Take
<1>3. CASE \E w \in Workers : CalmStep(w)
  BY <1>3 DEF CalmStep, Begin, CreateTemp, Ingest, ClearTemp, Finish, Saved,
              MarkFailed, FailRow, CheckData, FaultStep, Raise, RaiseInHandler,
              Crash, Terminate, Excuse
<1>4. CASE \E w \in Workers : SwapStep(w)
  BY <1>4 DEF SwapStep, Gate, DropBegin, DropEnd, SyncBegin, SyncEnd, Migrate, Open,
              Saved, Recover, ReopenFailed, Reopen, Excuse
<1> QED
  BY <1>1, <1>2, <1>3, <1>4, NextKinds

\* A state that is clean after a step was clean before, and no excuse was added.
LEMMA CleanBefore ==
  ASSUME [Next]_vars, Clean'
  PROVE  Clean /\ provider' = provider
  BY HistoryGrows DEF Clean

\* While nothing is excused the conditions of the excuses do not hold.
LEMMA NotExcused ==
  ASSUME NEW cond, NEW e \in PastGate, Excuse(cond, e), Clean'
  PROVE  ~cond
  BY DEF Excuse, Clean

\* A row that lets queries through names the sink of one that did before.
OpensLike ==
  \A r \in Rows :
    Exists(r)' /\ row'[r].ready =>
      \E q \in Rows : Exists(q) /\ row[q].ready /\ row[q].sink = row'[r].sink

\* A worker that stays where it is keeps its copy and its sink.
StaysPut(w) ==
  /\ worker'[w] = worker[w]
  /\ w \in intact => w \in intact'
  /\ worker[w].pc = "open" => row'[R(w)].sink = row[R(w)].sink

\* A step that does not advance the swap and opens no other sink.
LEMMA SwapKept ==
  ASSUME Swap, Clean, provider' = provider, graph' = graph, OpensLike,
         \A w \in Workers : CalmMove(w) \/ StaysPut(w)
  PROVE  Swap'
<1>1. \A w \in Workers :
        Swaps(worker'[w]) => Swaps(worker[w]) /\ worker'[w].undo = worker[w].undo
  BY DEF CalmMove, StaysPut
<1>2. \A w \in Workers :
        worker'[w].pc \in {"drop", "dropping", "syncing", "open"} => StaysPut(w)
  BY DEF CalmMove
<1>3. OneSwap'
  BY <1>1 DEF Swap, OneSwap, Swaps
<1>4. GateShut'
  <2>1. ASSUME NEW w \in Workers, NEW r \in Rows, Exists(r)', row'[r].ready,
               worker'[w].pc \in {"drop", "dropping"}, row'[r].sink = TargetSink
        PROVE  FALSE
    <3>1. worker[w].pc \in {"drop", "dropping"}
      BY <1>2, <2>1 DEF StaysPut
    <3>2. PICK q \in Rows : Exists(q) /\ row[q].ready /\ row[q].sink = TargetSink
      BY <2>1 DEF OpensLike
    <3> QED
      BY <3>1, <3>2 DEF Swap, GateShut
  <2> QED
    BY <2>1 DEF GateShut, Exists
<1>5. FullWhenOwn'
  BY <1>1 DEF Swap, FullWhenOwn, Swaps
<1>6. CopyIntact'
  BY <1>2 DEF Swap, CopyIntact, StaysPut
<1>7. OpenOnTarget'
  <2>1. ASSUME NEW w \in Workers, worker'[w].pc = "open"
        PROVE  row'[R(w)'].sink = TargetSink
    <3>1. StaysPut(w)
      BY <1>2, <2>1
    <3>2. R(w)' = R(w)
      BY <3>1, SameRow DEF StaysPut
    <3> QED
      BY <2>1, <3>1, <3>2 DEF Swap, OpenOnTarget, StaysPut
  <2> QED
    BY <2>1 DEF OpenOnTarget
<1>8. AllWhole'
  <2>1. ASSUME NEW r \in Rows, Exists(r)', row'[r].ready
        PROVE  graph'[row'[r].sink] = "full"
    <3>1. PICK q \in Rows : Exists(q) /\ row[q].ready /\ row[q].sink = row'[r].sink
      BY <2>1 DEF OpensLike
    <3> QED
      BY <3>1 DEF Swap, AllWhole, Whole, Visible, Clean
  <2> QED
    BY <2>1 DEF AllWhole, Whole, Visible, Exists
<1> QED
  BY <1>3, <1>4, <1>5, <1>6, <1>7, <1>8 DEF Swap

\* The best-effort recovery, where nobody replaces the graph and it is whole.
LEMMA ReopenSwap ==
  ASSUME Swap, Clean, Clean', row \in [Rows -> RowTypes], NEW r \in Rows, Reopen(r),
         provider' = provider, graph' = graph, intact' = intact,
         \A w \in Workers : CalmMove(w) \/ worker'[w] = worker[w]
  PROVE  Swap'
<1>1. CASE ~Visible(r)
  <2>1. row' = row
    BY <1>1 DEF Reopen
  <2> QED
    BY <2>1, SwapKept DEF OpensLike, StaysPut, Exists
<1>2. CASE Visible(r)
  <2>1. row' = SetReady(row[r].sink, TRUE)
    BY <1>2 DEF Reopen
  <2>2. ~(graph[row[r].sink] # "full" \/ Replacing # {})
    <3>1. Excuse(graph[row[r].sink] # "full" \/ Replacing # {}, "recovered")
      BY <1>2 DEF Reopen
    <3> QED
      BY <3>1, NotExcused DEF PastGate
  <2>3. \A w \in Workers : ~Swaps(worker[w]) /\ worker[w].pc \notin SwapSteps
    BY <2>2 DEF Replacing, Swaps, SwapSteps
  <2>4. \A w \in Workers :
          /\ ~Swaps(worker'[w])
          /\ worker'[w].pc \notin {"drop", "dropping", "syncing", "open"}
    BY <2>3 DEF CalmMove, SwapSteps
  <2>5. OneSwap' /\ GateShut' /\ FullWhenOwn' /\ CopyIntact' /\ OpenOnTarget'
    BY <2>4 DEF OneSwap, GateShut, FullWhenOwn, CopyIntact, OpenOnTarget, Swaps
  <2>6. ASSUME NEW q \in Rows, Exists(q)', row'[q].ready
        PROVE  graph'[row'[q].sink] = "full"
    <3>1. row'[q] = IF Exists(q) /\ row[q].sink = row[r].sink
                    THEN [row[q] EXCEPT !.ready = TRUE] ELSE row[q]
      BY <2>1 DEF SetReady
    <3>2. CASE Exists(q) /\ row[q].sink = row[r].sink
      BY <2>2, <3>1, <3>2 DEF RowTypes
    <3>3. CASE ~(Exists(q) /\ row[q].sink = row[r].sink)
      BY <2>6, <3>1, <3>3 DEF Swap, AllWhole, Whole, Visible, Clean, Exists
    <3> QED
      BY <3>2, <3>3
  <2>7. AllWhole'
    BY <2>6 DEF AllWhole, Whole, Visible, Exists
  <2> QED
    BY <2>5, <2>7 DEF Swap
<1> QED
  BY <1>1, <1>2

\* Writing the state of a row that exists leaves gates and sinks alone.
LEMMA StateOpensNone ==
  ASSUME row \in [Rows -> RowTypes], NEW r \in Rows, Exists(r),
         NEW state \in {"EXECUTING", "COMPLETED", "FAILED"},
         row' = [row EXCEPT ![r].state = state]
  PROVE  OpensLike /\ \A q \in Rows : row'[q].sink = row[q].sink
<1>1. \A q \in Rows : /\ row'[q].sink = row[q].sink /\ row'[q].ready = row[q].ready
                      /\ q # r => row'[q] = row[q]
  BY DEF RowTypes
<1>2. ASSUME NEW q \in Rows, Exists(q)', row'[q].ready
      PROVE  Exists(q) /\ row[q].ready /\ row[q].sink = row'[q].sink
  BY <1>1, <1>2 DEF Exists
<1> QED
  BY <1>1, <1>2 DEF OpensLike

\* Nor does leaving the rows alone.
LEMMA RowsSame ==
  ASSUME row' = row
  PROVE  OpensLike /\ \A q \in Rows : row'[q].sink = row[q].sink
  BY DEF OpensLike, Exists

\* Requests, the cleanup and the rest.
LEMMA StillSwap ==
  ASSUME GraphInv, Clean, Clean', provider' = provider, StillStep
  PROVE  Swap'
<1>0. Swap /\ RunInv /\ row \in [Rows -> RowTypes] /\ worker' = worker
  BY StillWorkers DEF GraphInv, RunInv, TypeOK, TableTypes
<1>1. ASSUME graph' = graph, intact' = intact, OpensLike,
             \A w \in Workers : worker[w].pc = "open" => row'[R(w)].sink = row[R(w)].sink
      PROVE  Swap'
  BY <1>0, <1>1, SwapKept DEF StaysPut
<1>2. \A w \in Workers : worker[w].pc = "open" =>
        R(w) \in Rows /\ row[R(w)].state \notin {"none", "creating"}
  BY <1>0, HeldExists DEF RunSteps, SwapSteps, Clean, Exists
<1>3. ASSUME NEW r \in Rows, CreateRead(r) PROVE Swap'
  <2>1. /\ row[r].state = "none" /\ row'[r].state = "creating"
        /\ \A q \in Rows : q # r => row'[q] = row[q]
    BY <1>0, <1>3 DEF CreateRead
  <2>2. OpensLike
    BY <2>1 DEF OpensLike, Exists
  <2> QED
    BY <1>1, <1>2, <1>3, <2>1, <2>2 DEF CreateRead, graphVars
<1>4. ASSUME NEW r \in Rows, CreateInsert(r) PROVE Swap'
  <2>1. row[r].state = "creating" /\ (\A q \in Rows : q # r => row'[q] = row[q])
    BY <1>0, <1>4 DEF CreateInsert
  <2>2. row'[r].ready = row[r].ready /\ row'[r].sink = row[r].sink
    BY <1>0, <1>4 DEF CreateInsert, RowTypes, Clean
  <2>3. row[r].ready => \E q \in Rows : /\ Exists(q) /\ row[q].ready
                                        /\ row[q].sink = row[r].sink
    <3> DEFINE late == row[r].ready /\ ~\E q \in Rows : /\ Exists(q) /\ row[q].ready
                                                       /\ row[q].sink = row[r].sink
    <3>1. Excuse(late, "lateInsert")
      BY <1>4 DEF CreateInsert
    <3>2. ~late
      <4> HIDE DEF late
      <4> QED
        BY <3>1, NotExcused DEF PastGate
    <3> QED
      BY <3>2
  <2>4. OpensLike
    <3>1. ASSUME NEW q \in Rows, Exists(q)', row'[q].ready
          PROVE  \E p \in Rows : Exists(p) /\ row[p].ready /\ row[p].sink = row'[q].sink
      <4>1. CASE q = r
        BY <2>2, <2>3, <3>1, <4>1
      <4>2. CASE q # r
        BY <2>1, <3>1, <4>2 DEF Exists
      <4> QED
        BY <4>1, <4>2
    <3> QED
      BY <3>1 DEF OpensLike
  <2> QED
    BY <1>1, <1>2, <1>4, <2>1, <2>4 DEF CreateInsert, graphVars
<1>5. CASE \/ \E r \in Rows : EndParent(r) \/ Dispatch(r) \/ Judge(r) \/ JudgeScheduled(r)
           \/ \E w \in Workers : Redeliver(w)
           \/ CleanTemp \/ CleanCheck \/ CleanRaise \/ UNCHANGED vars
  <2>1. row' = row /\ graph' = graph /\ intact' = intact
    BY <1>5 DEF EndParent, Dispatch, Judge, JudgeScheduled, Redeliver, CleanTemp,
                CleanCheck, CleanRaise, vars, graphVars
  <2> QED
    BY <1>1, <2>1, RowsSame
<1>6. CASE Finalize
  <2>1. graph' = graph /\ intact' = intact /\ On(cleaner) \in Rows
    BY <1>0, <1>6, CleanerFacts DEF Finalize, graphVars, RunInv, TypeOK
  <2>2. \/ row' = row
        \/ Exists(On(cleaner)) /\ row' = [row EXCEPT ![On(cleaner)].state = "FAILED"]
    BY <1>6 DEF Finalize, Visible
  <2>3. OpensLike /\ \A q \in Rows : row'[q].sink = row[q].sink
    BY <1>0, <2>1, <2>2, RowsSame, StateOpensNone
  <2> QED
    BY <1>1, <1>2, <2>1, <2>3
<1>7. CASE CleanReopen
  <2>1. On(cleaner) \in Rows /\ Reopen(On(cleaner))
    BY <1>0, <1>7, CleanerFacts DEF CleanReopen, RunInv, TypeOK
  <2> QED
    BY <1>0, <1>7, <2>1, ReopenSwap DEF CleanReopen, graphVars
<1>8. CASE HideProvider \/ PurgeStep
  BY <1>8 DEF Clean, HideProvider, PurgeStep, PurgeTemps, PurgeGraphs, PurgeRows
<1> QED
  BY <1>3, <1>4, <1>5, <1>6, <1>7, <1>8 DEF StillStep, CleanStep

\* A delivery.
LEMMA TakeSwap ==
  ASSUME GraphInv, Clean, provider' = provider,
         NEW w \in Workers, NEW r \in Rows, Take(w, r)
  PROVE  Swap'
<1>1. Swap /\ WorkerTypes
  BY DEF GraphInv, RunInv, TypeOK
<1>2. row' = row /\ graph' = graph /\ intact' = intact
  BY DEF Take, graphVars
<1>3. \A v \in Workers : CalmMove(v) \/ StaysPut(v)
  BY <1>1, <1>2, TakeMoves DEF OthersStay, StaysPut
<1> QED
  BY <1>1, <1>2, <1>3, RowsSame, SwapKept

\* The other steps of a run, and its faults.
LEMMA CalmSwap ==
  ASSUME GraphInv, Clean, provider' = provider, NEW w \in Workers, CalmStep(w)
  PROVE  Swap'
<1>1. Swap /\ WorkerTypes /\ UndoFits /\ row \in [Rows -> RowTypes]
  BY DEF GraphInv, RunInv, TypeOK, TableTypes
<1>2. CalmMove(w) /\ OthersStay(w)
  BY <1>1, CalmStepMoves
<1>3. graph' = graph /\ intact \ {w} \subseteq intact'
  BY DEF CalmStep, Begin, CreateTemp, Ingest, ClearTemp, Finish, Saved, MarkFailed,
         FailRow, CheckData, FaultStep, Raise, RaiseInHandler, Crash, Terminate,
         graphVars
<1>4. worker[w].pc # "idle"
  BY DEF CalmStep, Begin, CreateTemp, Ingest, ClearTemp, Finish, Saved, MarkFailed,
         FailRow, CheckData, FaultStep, Raise, RaiseInHandler, Crash, Terminate, At,
         RunSteps, SwapSteps, Reopening
<1>5. R(w) \in Rows
  BY <1>1, <1>4, WorkerFacts
<1>6. \/ row' = row
      \/ /\ Exists(R(w))
         /\ \E state \in {"EXECUTING", "COMPLETED", "FAILED"} :
              row' = [row EXCEPT ![R(w)].state = state]
  <2>1. CASE Begin(w) \/ MarkFailed(w) \/ FailRow(w)
    BY <2>1 DEF Begin, MarkFailed, FailRow, Visible
  <2>2. CASE Finish(w)
    BY <1>1, <1>5, <2>2 DEF Finish, Saved, RowTypes
  <2>3. CASE CreateTemp(w) \/ Ingest(w) \/ ClearTemp(w) \/ CheckData(w) \/ FaultStep(w)
    BY <2>3 DEF CreateTemp, Ingest, ClearTemp, CheckData, FaultStep, Raise,
                RaiseInHandler, Crash, Terminate
  <2> QED
    BY <2>1, <2>2, <2>3 DEF CalmStep
<1>7. OpensLike /\ \A q \in Rows : row'[q].sink = row[q].sink
  BY <1>1, <1>5, <1>6, RowsSame, StateOpensNone
<1>8. \A v \in Workers : CalmMove(v) \/ StaysPut(v)
  <2>1. ASSUME NEW v \in Workers, v # w PROVE StaysPut(v)
    <3>1. worker'[v] = worker[v] /\ (v \in intact => v \in intact')
      BY <1>2, <1>3, <2>1 DEF OthersStay
    <3>2. worker[v].pc = "open" => R(v) \in Rows
      BY <1>1, WorkerFacts
    <3> QED
      BY <1>7, <3>1, <3>2 DEF StaysPut
  <2> QED
    BY <1>2, <2>1
<1> QED
  BY <1>1, <1>3, <1>7, <1>8, SwapKept

\* A step of the only worker in the swap.
LEMMA AloneSwap ==
  ASSUME NEW w \in Workers, OthersStay(w),
         \A v \in Workers \ {w} : ~Swaps(worker[v]),
         worker'[w].pc \in {"drop", "dropping"} =>
           \A r \in Rows : Exists(r)' /\ row'[r].sink = TargetSink => ~row'[r].ready,
         worker'[w].undo = "own" => graph'[TargetSink] = "full",
         worker'[w].pc = "syncing" => w \in intact',
         worker'[w].pc = "open" => row'[R(w)'].sink = TargetSink,
         \A r \in Rows : Exists(r)' /\ row'[r].ready => graph'[row'[r].sink] = "full"
  PROVE  Swap'
<1>1. \A v \in Workers :
        \/ v = w
        \/ /\ ~Swaps(worker'[v])
           /\ worker'[v].pc \notin {"drop", "dropping", "syncing", "open"}
  BY DEF OthersStay, Swaps, SwapSteps
<1>2. OneSwap' /\ FullWhenOwn' /\ CopyIntact' /\ OpenOnTarget'
  BY <1>1 DEF OneSwap, FullWhenOwn, CopyIntact, OpenOnTarget, Swaps
<1>3. GateShut'
  BY <1>1 DEF GateShut, Exists
<1>4. AllWhole'
  BY DEF AllWhole, Whole, Visible, Exists
<1> QED
  BY <1>2, <1>3, <1>4 DEF Swap

\* Closing the gate, dropping and copying.
LEMMA GateSwap ==
  ASSUME GraphInv, Clean, Clean', provider' = provider, NEW w \in Workers, Gate(w)
  PROVE  Swap'
<1>1. Swap /\ WorkerTypes /\ RunInv /\ row \in [Rows -> RowTypes] /\ graph' = graph
  BY DEF GraphInv, RunInv, TypeOK, TableTypes, Gate, graphVars
<1>2. worker[w].pc = "gate" /\ Exists(R(w))
  BY <1>1, HeldExists DEF Gate, At, RunSteps, Clean
<1>3. /\ worker' = [worker EXCEPT ![w].pc = "drop", ![w].undo = "all"]
      /\ row' = SetReady(TargetSink, FALSE)
  BY <1>2 DEF Gate, Clean
<1>4. worker'[w].pc = "drop" /\ worker'[w].undo = "all" /\ OthersStay(w)
  BY <1>1, <1>3, GotoUndoAfter
<1>5. ~(Replacing # {})
  BY NotExcused DEF Gate, PastGate
<1>6. \A v \in Workers : ~Swaps(worker[v])
  BY <1>5 DEF Replacing, Swaps, SwapSteps
<1>7. ASSUME NEW r \in Rows, Exists(r)'
      PROVE  IF row'[r].sink = TargetSink THEN ~row'[r].ready
             ELSE Exists(r) /\ row'[r] = row[r]
  <2>1. row'[r] = IF Exists(r) /\ row[r].sink = TargetSink
                  THEN [row[r] EXCEPT !.ready = FALSE] ELSE row[r]
    BY <1>3 DEF SetReady
  <2>2. Exists(r)
    BY <1>1, <1>7, <2>1 DEF Exists, RowTypes
  <2> QED
    BY <1>1, <2>1, <2>2 DEF RowTypes
<1>8. \A r \in Rows : Exists(r)' /\ row'[r].ready => graph'[row'[r].sink] = "full"
  BY <1>1, <1>7 DEF Swap, AllWhole, Whole, Visible, Clean
<1> QED
  BY <1>4, <1>6, <1>7, <1>8, AloneSwap

\* Dropping the old graph, behind the shut gate.
LEMMA DropSwap ==
  ASSUME GraphInv, Clean, provider' = provider, NEW w \in Workers,
         DropBegin(w) \/ DropEnd(w)
  PROVE  Swap'
<1>1. Swap /\ WorkerTypes /\ row' = row /\ graph \in [Sinks -> {"empty", "partial", "full"}]
  BY DEF GraphInv, RunInv, TypeOK, GraphTypes, DropBegin, DropEnd
<1>2. worker[w].pc \in {"drop", "dropping"} /\ Fits(worker[w])
  BY DEF GraphInv, UndoFits, DropBegin, DropEnd, At
<1>3. \A v \in Workers \ {w} : ~Swaps(worker[v])
  BY <1>1, <1>2 DEF Swap, OneSwap, Swaps, SwapSteps
<1>4. \A r \in Rows : Exists(r) /\ row[r].sink = TargetSink => ~row[r].ready
  BY <1>1, <1>2 DEF Swap, GateShut
<1>5. \A s \in Sinks : s # TargetSink => graph'[s] = graph[s]
  BY <1>1 DEF DropBegin, DropEnd
<1>6. OthersStay(w) /\ worker'[w].pc \in {"dropping", "sync", "recover"}
      /\ worker'[w].undo # "own"
  <2>1. CASE DropBegin(w)
    BY <1>1, <1>2, <2>1, GotoAfter DEF DropBegin, Fits
  <2>2. CASE DropEnd(w)
    <3>1. PICK pc \in {"sync", "recover"} :
            worker' = [worker EXCEPT ![w].pc = pc, ![w].undo = "none"]
      BY <2>2 DEF DropEnd
    <3>2. worker'[w].pc = pc /\ worker'[w].undo = "none" /\ OthersStay(w)
      BY <1>1, <3>1, GotoUndoAfter
    <3> QED
      BY <3>2
  <2> QED
    BY <2>1, <2>2
<1>7. \A r \in Rows : Exists(r)' /\ row'[r].ready => graph'[row'[r].sink] = "full"
  <2>1. \A r \in Rows : row[r].sink \in Sinks
    BY DEF GraphInv, RunInv, TypeOK, TableTypes, RowTypes
  <2> QED
    BY <1>1, <1>4, <1>5, <2>1 DEF Swap, AllWhole, Whole, Visible, Clean, Exists
<1>8. \A r \in Rows : Exists(r)' /\ row'[r].sink = TargetSink => ~row'[r].ready
  BY <1>1, <1>4 DEF Exists
<1> QED
  BY <1>3, <1>6, <1>7, <1>8, AloneSwap

\* Copying the new one, which no drop hits.
LEMMA SyncSwap ==
  ASSUME GraphInv, Clean, provider' = provider, NEW w \in Workers,
         SyncBegin(w) \/ SyncEnd(w)
  PROVE  Swap'
<1>1. Swap /\ WorkerTypes /\ row' = row /\ graph \in [Sinks -> {"empty", "partial", "full"}]
  BY DEF GraphInv, RunInv, TypeOK, GraphTypes, SyncBegin, SyncEnd
<1>2. worker[w].pc \in {"sync", "syncing"} /\ worker[w].undo = "none"
  BY DEF GraphInv, UndoFits, Fits, SyncBegin, SyncEnd, At
<1>3. \A v \in Workers \ {w} : ~Swaps(worker[v])
  BY <1>1, <1>2 DEF Swap, OneSwap, Swaps, SwapSteps
<1>4. \A s \in Sinks : graph[s] = "full" => graph'[s] = "full"
  BY <1>1 DEF SyncBegin, SyncEnd
<1>5. \A r \in Rows : Exists(r)' /\ row'[r].ready => graph'[row'[r].sink] = "full"
  <2>1. \A r \in Rows : row[r].sink \in Sinks
    BY DEF GraphInv, RunInv, TypeOK, TableTypes, RowTypes
  <2> QED
    BY <1>1, <1>4, <2>1 DEF Swap, AllWhole, Whole, Visible, Clean, Exists
<1>6. CASE Goto(w, "recover")
  <2>1. worker'[w].pc = "recover" /\ worker'[w].undo = "none" /\ OthersStay(w)
    BY <1>1, <1>2, <1>6, GotoAfter
  <2> QED
    BY <1>3, <1>5, <2>1, AloneSwap
<1>7. CASE SyncBegin(w) /\ ~Goto(w, "recover")
  <2>1. worker'[w].pc = "syncing" /\ worker'[w].undo = "none" /\ OthersStay(w)
    BY <1>1, <1>2, <1>7, GotoAfter DEF SyncBegin
  <2>2. w \in intact'
    BY <1>7 DEF SyncBegin
  <2> QED
    BY <1>3, <1>5, <2>1, <2>2, AloneSwap
<1>8. CASE SyncEnd(w) /\ ~Goto(w, "recover")
  <2>1. /\ worker' = [worker EXCEPT ![w].pc = "migrate", ![w].undo = "own"]
        /\ graph' = [graph EXCEPT ![TargetSink] = IF w \in intact THEN "full" ELSE @]
    BY <1>8 DEF SyncEnd
  <2>2. worker'[w].pc = "migrate" /\ OthersStay(w)
    BY <1>1, <2>1, GotoUndoAfter
  <2>3. w \in intact
    BY <1>1, <1>8 DEF SyncEnd, At, Swap, CopyIntact
  <2>4. graph'[TargetSink] = "full"
    BY <1>1, <2>1, <2>3, SinkAssumption
  <2> QED
    BY <1>3, <1>5, <2>2, <2>4, AloneSwap
<1> QED
  BY <1>6, <1>7, <1>8

\* Naming the sink and opening the gate.
LEMMA OpenSwap ==
  ASSUME GraphInv, Clean, provider' = provider, NEW w \in Workers,
         Migrate(w) \/ Open(w)
  PROVE  Swap'
<1>1. /\ Swap /\ WorkerTypes /\ RunInv /\ row \in [Rows -> RowTypes]
      /\ graph' = graph
  BY DEF GraphInv, RunInv, TypeOK, TableTypes, Migrate, Open, Saved, graphVars
<1>2. worker[w].pc \in {"migrate", "open"} /\ worker[w].undo = "own"
  BY DEF GraphInv, UndoFits, Fits, Migrate, Open, Saved, At
<1>3. \A v \in Workers \ {w} : ~Swaps(worker[v])
  BY <1>1, <1>2 DEF Swap, OneSwap, Swaps, SwapSteps
<1>4. graph[TargetSink] = "full"
  BY <1>1, <1>2 DEF Swap, FullWhenOwn, Swaps, SwapSteps
<1>5. Exists(R(w)) /\ R(w) \in Rows
  BY <1>1, <1>2, HeldExists DEF RunSteps, SwapSteps, Clean
<1>6. /\ \A r \in Rows : r # R(w) => row'[r] = row[r]
      /\ row'[R(w)].sink = TargetSink
      /\ worker'[w].pc \in {"open", "cleartemp"} /\ OthersStay(w)
      /\ worker'[w].on = worker[w].on
  <2>1. CASE Migrate(w)
    <3>1. /\ row' = [row EXCEPT ![R(w)] = [row[R(w)] EXCEPT !.sink = TargetSink]]
          /\ Goto(w, "open")
      BY <1>5, <2>1 DEF Migrate, Saved
    <3>2. worker'[w].pc = "open" /\ OthersStay(w) /\ worker'[w].on = worker[w].on
      BY <1>1, <3>1, GotoAfter
    <3> QED
      BY <1>1, <1>5, <3>1, <3>2 DEF RowTypes
  <2>2. CASE Open(w)
    <3>1. /\ row' = [row EXCEPT ![R(w)] = [row[R(w)] EXCEPT !.ready = TRUE]]
          /\ Goto(w, "cleartemp") /\ worker[w].pc = "open"
      BY <1>5, <2>2 DEF Open, Saved, At
    <3>2. worker'[w].pc = "cleartemp" /\ OthersStay(w) /\ worker'[w].on = worker[w].on
      BY <1>1, <3>1, GotoAfter
    <3>3. row[R(w)].sink = TargetSink
      BY <1>1, <3>1 DEF Swap, OpenOnTarget
    <3> QED
      BY <1>1, <1>5, <3>1, <3>2, <3>3 DEF RowTypes
  <2> QED
    BY <2>1, <2>2
<1>7. \A r \in Rows : Exists(r)' /\ row'[r].ready => graph'[row'[r].sink] = "full"
  BY <1>1, <1>4, <1>6 DEF Swap, AllWhole, Whole, Visible, Clean, Exists
<1>8. R(w)' = R(w)
  BY <1>6, SameRow
<1> QED
  BY <1>1, <1>3, <1>4, <1>6, <1>7, <1>8, AloneSwap

\* The handler, and the recovery of a failed task.
LEMMA RecoverSwap ==
  ASSUME GraphInv, Clean, Clean', provider' = provider, NEW w \in Workers, Recover(w)
  PROVE  Swap'
<1>1. /\ Swap /\ WorkerTypes /\ row \in [Rows -> RowTypes]
      /\ graph' = graph /\ intact' = intact
  BY DEF GraphInv, RunInv, TypeOK, TableTypes, Recover, graphVars
<1>2. worker[w].pc = "recover" /\ worker'[w].pc = "xtemp" /\ OthersStay(w)
  BY <1>1, GotoAfter DEF Recover, At
<1>3. CalmMove(w)
  BY <1>2 DEF CalmMove, Fits, Swaps, SwapSteps
<1>4. CASE row' = row
  BY <1>1, <1>2, <1>3, <1>4, RowsSame, SwapKept DEF StaysPut, OthersStay
<1>5. CASE worker[w].undo \in {"own", "all"} /\ graph[TargetSink] = "full"
           /\ \A r \in Rows : row'[r] = row[r] \/ row'[r].sink = TargetSink
  <2>1. \A v \in Workers : ~Swaps(worker'[v]) /\ worker'[v].pc \notin SwapSteps \ {"recover"}
    <3>1. \A v \in Workers \ {w} : ~Swaps(worker[v])
      BY <1>1, <1>2, <1>5 DEF Swap, OneSwap, Swaps, SwapSteps
    <3> QED
      BY <1>2, <3>1 DEF OthersStay, Swaps, SwapSteps
  <2>2. OneSwap' /\ GateShut' /\ FullWhenOwn' /\ CopyIntact' /\ OpenOnTarget'
    BY <2>1 DEF OneSwap, GateShut, FullWhenOwn, CopyIntact, OpenOnTarget, SwapSteps
  <2>3. AllWhole'
    BY <1>1, <1>5 DEF Swap, AllWhole, Whole, Visible, Clean, Exists
  <2> QED
    BY <2>2, <2>3 DEF Swap
<1>6. CASE worker[w].undo = "own" /\ Exists(R(w)) /\ row' = SetOwnReady(R(w), TRUE)
           /\ Excuse(row[R(w)].sink # TargetSink, "stranded")
  <2>1. row[R(w)].sink = TargetSink
    BY <1>6, NotExcused DEF PastGate
  <2>2. R(w) \in Rows
    BY <1>1, <1>2, WorkerFacts
  <2>3. \A r \in Rows : row'[r] = row[r] \/ row'[r].sink = TargetSink
    BY <1>1, <1>6, <2>1, <2>2 DEF SetOwnReady, RowTypes
  <2>4. graph[TargetSink] = "full"
    BY <1>1, <1>2, <1>6 DEF Swap, FullWhenOwn, Swaps
  <2> QED
    BY <1>5, <1>6, <2>3, <2>4
<1>7. CASE worker[w].undo = "all" /\ row' = SetReady(TargetSink, TRUE)
           /\ Excuse(graph[TargetSink] # "full", "torn")
  <2>1. graph[TargetSink] = "full"
    BY <1>7, NotExcused DEF PastGate
  <2>2. \A r \in Rows : row'[r] = row[r] \/ row'[r].sink = TargetSink
    BY <1>1, <1>7 DEF SetReady, RowTypes
  <2> QED
    BY <1>5, <1>7, <2>1, <2>2
<1> QED
  BY <1>4, <1>6, <1>7 DEF Recover

\* The recovery of a task that failed.
LEMMA FailedSwap ==
  ASSUME GraphInv, Clean, Clean', provider' = provider, NEW w \in Workers,
         ReopenFailed(w)
  PROVE  Swap'
<1>1. /\ Swap /\ WorkerTypes /\ row \in [Rows -> RowTypes]
      /\ graph' = graph /\ intact' = intact /\ Reopen(R(w)) /\ Free(w)
  BY DEF GraphInv, RunInv, TypeOK, TableTypes, ReopenFailed, graphVars
<1>2. R(w) \in Rows
  BY <1>1, WorkerFacts DEF ReopenFailed, At
<1>3. \A v \in Workers : CalmMove(v) \/ worker'[v] = worker[v]
  BY <1>1, FreeAfter DEF OthersStay, CalmMove, Fits, Swaps, SwapSteps
<1> QED
  BY <1>1, <1>2, <1>3, ReopenSwap

\* Every step keeps the invariant.
LEMMA NextGraphInv ==
  ASSUME GraphInv, [Next]_vars
  PROVE  GraphInv'
<1>1. RunInv' /\ UndoFits'
  BY NextRunInv, NextUndoFits DEF GraphInv, RunInv, TypeOK
<1>2. ASSUME Clean' PROVE Swap'
  BY <1>2, CleanBefore, NextKinds, StillSwap, TakeSwap, CalmSwap, GateSwap, DropSwap,
     SyncSwap, OpenSwap, RecoverSwap, FailedSwap DEF SwapStep
<1> QED
  BY <1>1, <1>2 DEF GraphInv

\* Before anything happens nobody runs anything.
LEMMA InitRunInv == Init => RunInv /\ UndoFits
<1> SUFFICES ASSUME Init PROVE RunInv /\ UndoFits
  OBVIOUS
<1>1. \A w \in Workers, r \in Rows : ~Holds(w, r)
  BY IdleStates DEF Init, Holds, Idle, Busy
<1>2. UndoFits
  BY DEF Init, Idle, UndoFits, Fits
<1> QED
  BY <1>1, <1>2, InitTypes DEF RunInv, Started, NotAgain, OneRunPerRow

LEMMA InitGraphInv == Init => GraphInv
<1> SUFFICES ASSUME Init PROVE GraphInv
  OBVIOUS
<1>1. \A w \in Workers : worker[w].pc = "idle"
  BY DEF Init, Idle
<1>2. \A r \in Rows : ~Exists(r)
  BY DEF Init, NoRow, Exists
<1>3. Swap
  BY <1>1, <1>2 DEF Swap, OneSwap, GateShut, FullWhenOwn, CopyIntact, OpenOnTarget,
                    AllWhole, Whole, Visible, Swaps, SwapSteps
<1> QED
  BY <1>3, InitRunInv DEF GraphInv

\* "so queries never see a half-built graph": for any number of scans, workers
\* and faults, a row that lets queries through names a sink with a complete copy,
\* as long as none of the ways past the gate in PastGate was taken.
THEOREM QueriesSafe == Spec => []QueriesSeeWholeGraph
<1>1. Init => GraphInv
  BY InitGraphInv
<1>2. GraphInv /\ [Next]_vars => GraphInv'
  BY NextGraphInv
<1>3. GraphInv => QueriesSeeWholeGraph
  BY DEF GraphInv, QueriesSeeWholeGraph, Clean, Swap, AllWhole, Whole, Visible
<1> QED
  BY <1>1, <1>2, <1>3, PTL DEF Spec

-----------------------------------------------------------------------------
(* Who runs a row, and who ends it *)

\* A run begins on a SCHEDULED row only, which it starts.
BeganRun(r) == row[r].state = "SCHEDULED" /\ row'[r].state = "EXECUTING"

\* A worker comes to run a row only by beginning it.
LEMMA NextHolds ==
  ASSUME RunInv, [Next]_vars, NEW w \in Workers, NEW r \in Rows, Holds(w, r)'
  PROVE  Holds(w, r) \/ BeganRun(r)
<1>1. WorkerTypes /\ row \in [Rows -> RowTypes]
  BY DEF RunInv, TypeOK, TableTypes
<1>2. CASE AddsNoRun
  BY <1>2 DEF AddsNoRun
<1>3. CASE StillStep
  BY <1>2, <1>3, StillWorkers, WorkersSame
<1>4. CASE \E v \in Workers, q \in Rows : Take(v, q)
  BY <1>1, <1>2, <1>4, TakeAdds
<1>5. CASE \E v \in Workers : MoveStep(v) \/ WriteStep(v) \/ FaultStep(v)
  BY <1>1, <1>2, <1>5, MoveStepMoves, WriteStepMoves, FaultStepMoves, MovesOnAdds
<1>6. ASSUME NEW v \in Workers, Begin(v)
      PROVE  Holds(w, r) \/ BeganRun(r)
  <2>1. CASE Goto(v, "failtemp") \/ Free(v)
    <3>1. MovesOn(v)
      BY <1>6, <2>1, BeginFacts DEF MovesOn, Busy, RunSteps, SwapSteps, FailSteps,
                                    Reopening
    <3> QED
      BY <1>1, <1>2, <3>1, MovesOnAdds
  <2>2. CASE /\ MayStart(R(v))
             /\ worker' = [worker EXCEPT ![v].pc = "temp", ![v].undo = "none"]
             /\ row' = [row EXCEPT ![R(v)].state = "EXECUTING"]
    <3>1. worker'[v].on = worker[v].on /\ OthersStay(v)
      BY <1>1, <2>2, GotoUndoAfter
    <3>2. worker[v].on = {R(v)}
      BY <1>1, <1>6, BeginFacts, WorkerFacts
    <3>3. CASE v = w
      <4>1. R(v) = r
        BY <3>1, <3>2, <3>3 DEF Holds
      <4> QED
        BY <1>1, <2>2, <4>1 DEF MayStart, BeganRun, RowTypes
    <3>4. CASE v # w
      BY <3>1, <3>4 DEF Holds, OthersStay
    <3> QED
      BY <3>3, <3>4
  <2> QED
    BY <1>6, <2>1, <2>2, BeginFacts
<1> QED
  BY <1>3, <1>4, <1>5, <1>6, NextKinds
  DEF CalmStep, SwapStep, MoveStep, WriteStep

\* How the state of a row changes.
Inserted(r) ==
  \/ row[r].state = "none" /\ row'[r].state = "creating" /\ provider = "active"
  \/ row[r].state = "creating" /\ row'[r].state = "SCHEDULED"
  \/ row[r].state = "creating" /\ row'[r].state = "none" /\ provider' = "gone"
EndedByRun(w, r) ==
  /\ Holds(w, r) /\ worker[w].pc \in {"finish", "xfail"}
  /\ worker'[w].pc \notin RunSteps /\ row'[r].state \in Terminal
  /\ Exists(r)
EndedByFailure(w, r) ==
  /\ FailRow(w) /\ R(w) = r /\ Exists(r)
  /\ row[r].state \notin Terminal /\ row'[r].state = "FAILED"
EndedByCleanup(r) ==
  /\ Finalize /\ On(cleaner) = r /\ row'[r].state = "FAILED"
  /\ \/ cleaner.pc = "executing" /\ row[r].state = "EXECUTING"
     \/ cleaner.pc = "scheduled" /\ row[r].state = "SCHEDULED"
Purged(r) == row'[r].state = "none" /\ provider' = "gone"

\* Every step: rows are inserted, begun, ended and purged in these ways only.
LEMMA NextState ==
  ASSUME RunInv, [Next]_vars, NEW r \in Rows
  PROVE  \/ row'[r].state = row[r].state
         \/ Inserted(r) \/ BeganRun(r) \/ EndedByCleanup(r) \/ Purged(r)
         \/ \E w \in Workers : EndedByRun(w, r) \/ EndedByFailure(w, r)
<1>0. row \in [Rows -> RowTypes] /\ WorkerTypes
  BY DEF RunInv, TypeOK, TableTypes
<1>1. CASE row' = row
  BY <1>1
<1>2. CASE \E sink, value : row' = SetReady(sink, value) \/ \E q : row' = SetOwnReady(q, value)
  BY <1>0, <1>2, GatesKeepStates
<1>3. ASSUME NEW q \in Rows, CreateRead(q) \/ CreateInsert(q)
      PROVE  row'[r].state = row[r].state \/ Inserted(r)
  BY <1>0, <1>3 DEF CreateRead, CreateInsert, Inserted, NoRow, RowTypes
<1>4. CASE Finalize
  BY <1>0, <1>1, <1>4 DEF Finalize, EndedByCleanup, StillIn, RowTypes
<1>5. CASE CleanReopen
  BY <1>1, <1>2, <1>5 DEF CleanReopen, Reopen
<1>6. CASE PurgeRows
  BY <1>6 DEF PurgeRows, Purged, NoRow
<1>7. CASE StillStep
  <2>1. CASE \/ \E q \in Rows : \/ EndParent(q) \/ Dispatch(q) \/ Judge(q)
                                \/ JudgeScheduled(q)
             \/ \E w \in Workers : Redeliver(w)
             \/ CleanTemp \/ CleanCheck \/ CleanRaise \/ HideProvider
             \/ PurgeTemps \/ PurgeGraphs \/ UNCHANGED vars
    <3>1. row' = row
      BY <2>1 DEF EndParent, Dispatch, Judge, JudgeScheduled, Redeliver, CleanTemp,
                  CleanCheck, CleanRaise, HideProvider, PurgeTemps, PurgeGraphs, vars
    <3> QED
      BY <1>1, <3>1
  <2> QED
    BY <1>3, <1>4, <1>5, <1>6, <1>7, <2>1 DEF StillStep, CleanStep, PurgeStep
<1>8. ASSUME NEW w \in Workers, MoveStep(w) \/ FaultStep(w) \/ \E q \in Rows : Take(w, q)
      PROVE  row' = row
  BY <1>8 DEF MoveStep, CreateTemp, Ingest, DropBegin, DropEnd, SyncBegin, SyncEnd,
              ClearTemp, CheckData, FaultStep, Raise, RaiseInHandler, Crash, Terminate,
              Take
<1>9. ASSUME NEW w \in Workers, Begin(w)
      PROVE  row'[r].state = row[r].state \/ BeganRun(r)
  <2>1. R(w) \in Rows
    BY <1>0, <1>9, BeginFacts, WorkerFacts
  <2> QED
    BY <1>0, <1>9, <2>1, BeginFacts DEF BeganRun, MayStart, RowTypes
<1>10. ASSUME NEW w \in Workers, Gate(w) \/ Recover(w) \/ ReopenFailed(w)
       PROVE  row'[r].state = row[r].state
  BY <1>0, <1>10, GatesKeepStates DEF Gate, Recover, ReopenFailed, Reopen
<1>11. ASSUME NEW w \in Workers, Migrate(w) \/ Open(w)
       PROVE  row'[r].state = row[r].state
  BY <1>0, <1>11 DEF Migrate, Open, Saved, RowTypes
<1>12. ASSUME NEW w \in Workers, Finish(w) \/ MarkFailed(w)
       PROVE  row'[r].state = row[r].state \/ EndedByRun(w, r)
  <2>1. worker[w].pc \in {"finish", "xfail"} /\ worker[w].pc \in RunSteps
    BY <1>12 DEF Finish, Saved, MarkFailed, At, RunSteps, SwapSteps
  <2>2. R(w) \in Rows /\ Holds(w, R(w))
    BY <2>1, HeldExists
  <2>3. \/ row' = row
        \/ /\ \E state \in Terminal : row' = [row EXCEPT ![R(w)].state = state]
           /\ Exists(R(w)) /\ (Free(w) \/ Goto(w, "failtemp"))
    BY <1>0, <1>12, <2>2 DEF Finish, Saved, MarkFailed, Terminal, RowTypes
  <2>4. Free(w) \/ Goto(w, "failtemp") => worker'[w].pc \notin RunSteps
    BY <1>0, FreeAfter, GotoAfter DEF RunSteps, SwapSteps
  <2> QED
    BY <1>0, <2>1, <2>2, <2>3, <2>4 DEF EndedByRun, RowTypes
<1>13. ASSUME NEW w \in Workers, FailRow(w)
       PROVE  row'[r].state = row[r].state \/ EndedByFailure(w, r)
  <2>1. R(w) \in Rows
    BY <1>0, <1>13, WorkerFacts DEF FailRow, At
  <2> QED
    BY <1>0, <1>13, <2>1 DEF FailRow, EndedByFailure, Visible, RowTypes
<1>14. CASE \E w \in Workers : CalmStep(w) \/ SwapStep(w)
  BY <1>1, <1>8, <1>9, <1>10, <1>11, <1>12, <1>13, <1>14
  DEF CalmStep, SwapStep, MoveStep
<1> QED
  BY <1>1, <1>7, <1>8, <1>14, NextKinds

-----------------------------------------------------------------------------
(* A row that has ended, while no live worker is taken for a dead one *)

\* A row that nobody runs and nobody will.
Over(r) ==
  /\ \A w \in Workers : ~Holds(w, r)
  /\ row[r].state \notin {"creating", "SCHEDULED"}
  /\ row[r].state = "none" => provider = "gone"

\* The row of a run is EXECUTING; a failing task that ran its row, and the
\* cleanup that judged one, have it for themselves.
HeldExecuting ==
  \A w \in Workers, r \in Rows :
    Holds(w, r) => row[r].state \in {"EXECUTING", "none"}
FailedOver ==
  \A w \in Workers :
    worker[w].pc \in FailSteps /\ worker[w].undo # "unstarted" => Over(R(w))
JudgedOver == cleaner.pc \in {"temp", "executing"} => Over(On(cleaner))
KillMisjudged == \A r \in Rows : revoke[r] = "kill" => "misjudged" \in excuse

Judged == HeldExecuting /\ FailedOver /\ JudgedOver
FailInv ==
  /\ RunInv /\ UndoFits /\ KillMisjudged
  /\ "misjudged" \notin excuse => Judged

\* A step of a worker leaves the provider, the cleanup and revocations alone.
LEMMA RunLeaves ==
  ASSUME NEW w \in Workers, CalmStep(w) \/ SwapStep(w) \/ \E r \in Rows : Take(w, r)
  PROVE  provider' = provider /\ cleaner' = cleaner /\ revoke' = revoke
  BY DEF CalmStep, Begin, CreateTemp, Ingest, ClearTemp, Finish, Saved, MarkFailed,
         FailRow, CheckData, FaultStep, Raise, RaiseInHandler, Crash, Terminate,
         SwapStep, Gate, DropBegin, DropEnd, SyncBegin, SyncEnd, Migrate, Open,
         Recover, ReopenFailed, Take

\* A provider that is gone stays so.
LEMMA NextGone ==
  ASSUME [Next]_vars
  PROVE  GoneForGood
<1>1. CASE provider' = provider
  BY <1>1 DEF GoneForGood
<1>2. CASE StillStep
  BY <1>2 DEF GoneForGood, StillStep, CreateRead, CreateInsert, EndParent, Dispatch,
     Judge, JudgeScheduled, Redeliver, CleanStep, CleanTemp, Finalize, CleanCheck,
     CleanReopen, CleanRaise, HideProvider, PurgeStep, PurgeTemps, PurgeGraphs,
     PurgeRows, vars
<1>3. CASE \E w \in Workers : CalmStep(w) \/ SwapStep(w) \/ \E r \in Rows : Take(w, r)
  BY <1>1, <1>3, RunLeaves
<1> QED
  BY <1>2, <1>3, NextKinds

\* Over for good.
LEMMA OverStays ==
  ASSUME RunInv, [Next]_vars, NEW r \in Rows, Over(r)
  PROVE  Over(r)'
<1>0. RunInv'
  BY NextRunInv
<1>1. \A w \in Workers : ~Holds(w, r)'
  BY NextHolds DEF Over, BeganRun
<1>2. GoneForGood
  BY NextGone
<1>3. /\ row'[r].state \notin {"creating", "SCHEDULED"}
      /\ row'[r].state = "none" => provider' = "gone"
  BY <1>2, NextState
  DEF Over, Inserted, BeganRun, EndedByRun, EndedByFailure, EndedByCleanup, Purged,
      GoneForGood, Terminal
<1> QED
  BY <1>1, <1>3 DEF Over, Holds

\* A task that fails after it ran its row: nobody else runs it.
LEMMA FailsAlone ==
  ASSUME RunInv, [Next]_vars, NEW w \in Workers, worker[w].pc \in RunSteps,
         worker'[w].pc \notin RunSteps, worker'[w].on = worker[w].on
  PROVE  Over(R(w))'
<1>1. RunInv' /\ GoneForGood /\ R(w)' = R(w)
  BY NextRunInv, NextGone, SameRow
<1>2. PICK r \in Rows : r = R(w)
  BY HeldExists
<1>3. /\ Holds(w, r) /\ row[r].state \notin {"creating", "SCHEDULED"}
      /\ row[r].state = "none" => provider = "gone"
  BY <1>2, HeldExists DEF RunInv, NotAgain
<1>4. ASSUME NEW v \in Workers, Holds(v, r)' PROVE FALSE
  <2>1. Holds(v, r)
    BY <1>3, <1>4, NextHolds DEF BeganRun
  <2>2. v = w
    BY <1>3, <2>1 DEF RunInv, OneRunPerRow
  <2> QED
    BY <1>4, <2>2 DEF Holds
<1>5. /\ row'[r].state \notin {"creating", "SCHEDULED"}
      /\ row'[r].state = "none" => provider' = "gone"
  BY <1>1, <1>3, NextState
  DEF Inserted, BeganRun, EndedByRun, EndedByFailure, EndedByCleanup, Purged,
      GoneForGood, Terminal
<1>6. Over(r)'
  BY <1>4, <1>5 DEF Over, Holds
<1> QED
  BY <1>1, <1>2, <1>6 DEF Over, Holds

\* How a worker comes to fail its task.
LEMMA NextFails ==
  ASSUME RunInv, UndoFits, [Next]_vars, NEW w \in Workers,
         worker'[w].pc \in FailSteps, worker'[w].undo # "unstarted"
  PROVE  /\ worker'[w].on = worker[w].on
         /\ \/ worker[w].pc \in FailSteps /\ worker'[w].undo = worker[w].undo
            \/ worker[w].pc \in RunSteps
<1>0. WorkerTypes /\ Fits(worker[w])
  BY DEF RunInv, TypeOK, UndoFits
<1>1. CASE worker'[w] = worker[w]
  BY <1>1
<1>2. CASE \E pc : Goto(w, pc) /\ worker[w].pc # "begin" /\ worker[w].pc # "idle"
  <2>1. worker'[w].on = worker[w].on /\ worker'[w].undo = worker[w].undo
    BY <1>0, <1>2, GotoAfter
  <2>2. worker[w].pc \in RunSteps \cup FailSteps
    BY <1>0, <1>2 DEF WorkerTypes, WorkerStates
  <2> QED
    BY <2>1, <2>2
<1>3. CASE Free(w)
  BY <1>0, <1>3, FreeAfter DEF FailSteps, Reopening
<1>4. CASE Goto(w, "failtemp") /\ worker[w].pc = "begin"
  BY <1>0, <1>4, GotoAfter DEF Fits
<1>5. CASE \E pc \in RunSteps, undo \in {"none", "all", "own"} :
             worker' = [worker EXCEPT ![w].pc = pc, ![w].undo = undo]
  <2>1. PICK pc \in RunSteps, undo \in {"none", "all", "own"} :
          worker' = [worker EXCEPT ![w].pc = pc, ![w].undo = undo]
    BY <1>5
  <2>2. worker'[w].pc \in RunSteps
    BY <1>0, <2>1, GotoUndoAfter
  <2> QED
    BY <2>2 DEF RunSteps, SwapSteps, FailSteps, Reopening
<1>6. ASSUME NEW v \in Workers, CalmStep(v) \/ SwapStep(v), v # w
      PROVE  worker'[w] = worker[w]
  BY <1>0, <1>6, CalmStepMoves, SwapStepMoves DEF OthersStay
<1>7. ASSUME NEW v \in Workers, NEW r \in Rows, Take(v, r)
      PROVE  worker'[w] = worker[w]
  <2>1. worker'[v].pc = "begin" \/ worker' = worker
    BY <1>0, <1>7 DEF Take, WorkerTypes, Idle
  <2>2. v # w \/ worker' = worker
    BY <2>1 DEF FailSteps, Reopening
  <2> QED
    BY <1>0, <1>7, <2>2, TakeMoves DEF OthersStay
<1>8. CASE CalmStep(w)
  <2>1. CASE Begin(w)
    BY <1>3, <1>4, <1>5, <2>1, BeginFacts DEF RunSteps
  <2>2. CASE CreateTemp(w) \/ Ingest(w) \/ ClearTemp(w) \/ MarkFailed(w) \/ FailRow(w)
             \/ CheckData(w) \/ Finish(w)
    BY <1>2, <1>3, <2>2 DEF CreateTemp, Ingest, ClearTemp, MarkFailed, FailRow,
                            CheckData, Finish, Saved, At
  <2>3. CASE FaultStep(w)
    <3>1. worker[w].pc # "idle" /\ \/ Free(w)
                                   \/ Goto(w, "failtemp") /\ worker[w].pc = "begin"
                                   \/ \E pc : Goto(w, pc) /\ worker[w].pc # "begin"
      BY <2>3 DEF FaultStep, Raise, RaiseInHandler, Crash, Terminate, At, RunSteps,
                  SwapSteps, Reopening
    <3> QED
      BY <1>2, <1>3, <1>4, <3>1
  <2> QED
    BY <1>8, <2>1, <2>2, <2>3 DEF CalmStep
<1>9. CASE SwapStep(w)
  <2>1. CASE Gate(w) \/ DropEnd(w) \/ SyncEnd(w)
    <3>1. worker[w].pc \in {"gate", "dropping", "syncing"}
      BY <2>1 DEF Gate, DropEnd, SyncEnd, At
    <3>2. \/ Goto(w, "recover")
          \/ \E pc \in RunSteps, undo \in {"none", "all", "own"} :
               worker' = [worker EXCEPT ![w].pc = pc, ![w].undo = undo]
      BY <2>1 DEF Gate, DropEnd, SyncEnd, RunSteps, SwapSteps
    <3> QED
      BY <1>2, <1>5, <3>1, <3>2
  <2>2. CASE DropBegin(w) \/ SyncBegin(w) \/ Migrate(w) \/ Open(w) \/ Recover(w)
             \/ ReopenFailed(w)
    BY <1>2, <1>3, <2>2 DEF DropBegin, SyncBegin, Migrate, Open, Saved, Recover,
                            ReopenFailed, At
  <2> QED
    BY <1>9, <2>1, <2>2 DEF SwapStep
<1> QED
  BY <1>1, <1>6, <1>7, <1>8, <1>9, StillWorkers, NextKinds

\* How the cleanup comes to drop and fail a row.
LEMMA NextJudges ==
  ASSUME CleanerTypes, [Next]_vars, cleaner'.pc \in {"temp", "executing"}
  PROVE  \/ cleaner.pc \in {"temp", "executing"} /\ cleaner'.on = cleaner.on
         \/ \E r \in Rows : Judge(r) /\ cleaner'.on = {r}
<1>1. CASE cleaner' = cleaner
  BY <1>1
<1>2. CASE StillStep
  <2>1. ASSUME NEW r \in Rows, Judge(r) PROVE cleaner'.on = {r}
    BY <2>1 DEF Judge
  <2>2. ASSUME NEW r \in Rows, JudgeScheduled(r) PROVE FALSE
    <3>1. cleaner'.pc = "scheduled"
      BY <2>2 DEF JudgeScheduled
    <3> QED
      BY <3>1
  <2>3. CASE CleanStep \/ CleanRaise
    <3>1. \/ cleaner' = Sleeping
          \/ \E pc \in {"check", "reopen"} : cleaner' = [cleaner EXCEPT !.pc = pc]
          \/ cleaner.pc = "temp" /\ cleaner' = [cleaner EXCEPT !.pc = "executing"]
      BY <2>3 DEF CleanStep, CleanTemp, Finalize, CleanCheck, CleanReopen, CleanRaise
    <3>2. \A pc : /\ [cleaner EXCEPT !.pc = pc].pc = pc
                  /\ [cleaner EXCEPT !.pc = pc].on = cleaner.on
      BY DEF CleanerTypes, CleanerStates
    <3>3. Sleeping.pc = "idle"
      BY DEF Sleeping
    <3> QED
      BY <3>1, <3>2, <3>3
  <2>4. CASE \/ \E r \in Rows : \/ CreateRead(r) \/ CreateInsert(r) \/ EndParent(r)
                                \/ Dispatch(r)
             \/ \E w \in Workers : Redeliver(w)
             \/ HideProvider \/ PurgeStep \/ UNCHANGED vars
    BY <1>1, <2>4 DEF CreateRead, CreateInsert, EndParent, Dispatch, Redeliver,
                      HideProvider, PurgeStep, PurgeTemps, PurgeGraphs, PurgeRows, vars
  <2> QED
    BY <1>2, <2>1, <2>2, <2>3, <2>4 DEF StillStep
<1>3. CASE \E w \in Workers : CalmStep(w) \/ SwapStep(w) \/ \E r \in Rows : Take(w, r)
  BY <1>1, <1>3, RunLeaves
<1> QED
  BY <1>2, <1>3, NextKinds

\* Only a row judged stale under its worker has its task killed.
LEMMA NextKill ==
  ASSUME TypeOK, KillMisjudged, [Next]_vars
  PROVE  KillMisjudged'
<1>1. CASE revoke' = revoke
  BY <1>1, HistoryGrows DEF KillMisjudged
<1>2. ASSUME NEW r \in Rows, Judge(r) PROVE KillMisjudged'
  <2>1. CASE Held(r)
    <3>1. "misjudged" \in excuse'
      BY <1>2, <2>1 DEF Judge, Excuse
    <3> QED
      BY <3>1 DEF KillMisjudged
  <2>2. CASE ~Held(r)
    BY <1>1, <1>2, <2>2 DEF Judge
  <2> QED
    BY <2>1, <2>2
<1>3. ASSUME NEW r \in Rows, JudgeScheduled(r) PROVE KillMisjudged'
  <2>1. \A q \in Rows : revoke'[q] = "kill" => revoke[q] = "kill"
    BY <1>3 DEF JudgeScheduled, TypeOK, TaskTypes
  <2> QED
    BY <2>1, HistoryGrows DEF KillMisjudged
<1>4. CASE StillStep
  <2>1. CASE \/ \E r \in Rows : \/ CreateRead(r) \/ CreateInsert(r) \/ EndParent(r)
                                \/ Dispatch(r)
             \/ \E w \in Workers : Redeliver(w)
             \/ CleanStep \/ CleanRaise \/ HideProvider \/ PurgeStep \/ UNCHANGED vars
    BY <1>1, <2>1 DEF CreateRead, CreateInsert, EndParent, Dispatch, Redeliver,
                      CleanStep, CleanTemp, Finalize, CleanCheck, CleanReopen,
                      CleanRaise, HideProvider, PurgeStep, PurgeTemps, PurgeGraphs,
                      PurgeRows, vars
  <2> QED
    BY <1>2, <1>3, <1>4, <2>1 DEF StillStep
<1>5. CASE \E w \in Workers : CalmStep(w) \/ SwapStep(w) \/ \E r \in Rows : Take(w, r)
  BY <1>1, <1>5, RunLeaves
<1> QED
  BY <1>4, <1>5, NextKinds

\* on_failure ends a row that somebody runs only when that is an excuse.
LEMMA FailureAlone ==
  ASSUME FailedOver, "misjudged" \notin excuse', NEW w \in Workers, NEW v \in Workers,
         NEW r \in Rows, EndedByFailure(w, r), Holds(v, r),
         row[r].state = "EXECUTING"
  PROVE  FALSE
<1>1. worker[w].pc \in FailSteps /\ R(w) = r
  BY DEF EndedByFailure, FailRow, At, FailSteps
<1>2. worker[w].undo # "unstarted"
  BY DEF EndedByFailure, FailRow, Visible, Excuse
<1> QED
  BY <1>1, <1>2 DEF FailedOver, Over

\* The row of a run stays EXECUTING.
LEMMA NextHeldExecuting ==
  ASSUME FailInv, [Next]_vars, "misjudged" \notin excuse'
  PROVE  HeldExecuting'
<1>1. RunInv /\ Judged
  BY HistoryGrows DEF FailInv
<1>2. ASSUME NEW w \in Workers, NEW r \in Rows, Holds(w, r)', ~BeganRun(r)
      PROVE  row'[r].state \in {"EXECUTING", "none"}
  <2>1. Holds(w, r)
    BY <1>1, <1>2, NextHolds
  <2>2. row[r].state \in {"EXECUTING", "none"}
    BY <1>1, <2>1 DEF Judged, HeldExecuting
  <2>3. row[r].state = "none" => provider = "gone"
    BY <1>1, <2>1 DEF RunInv, NotAgain
  <2>4. \A v \in Workers : ~EndedByRun(v, r)
    BY <1>1, <1>2, <2>1 DEF EndedByRun, RunInv, OneRunPerRow, Holds
  <2>5. \A v \in Workers : ~EndedByFailure(v, r)
    <3>1. ASSUME NEW v \in Workers, EndedByFailure(v, r) PROVE FALSE
      <4>1. row[r].state = "EXECUTING"
        BY <2>2, <3>1 DEF EndedByFailure, Exists
      <4> QED
        BY <1>1, <2>1, <3>1, <4>1, FailureAlone DEF Judged
    <3> QED
      BY <3>1
  <2>6. ~EndedByCleanup(r)
    <3>1. ASSUME EndedByCleanup(r) PROVE FALSE
      <4>1. cleaner.pc = "executing" /\ On(cleaner) = r
        BY <2>2, <3>1 DEF EndedByCleanup
      <4> QED
        BY <1>1, <2>1, <4>1 DEF Judged, JudgedOver, Over
    <3> QED
      BY <3>1
  <2> QED
    BY <1>1, <1>2, <2>2, <2>3, <2>4, <2>5, <2>6, NextState DEF Inserted, Purged
<1> QED
  BY <1>2 DEF HeldExecuting, BeganRun, Holds

\* So does whose the row of a failing task, and of the cleanup, is.
LEMMA NextFailedOver ==
  ASSUME FailInv, [Next]_vars, "misjudged" \notin excuse'
  PROVE  FailedOver'
<1>1. RunInv /\ RunInv' /\ UndoFits /\ Judged
  BY HistoryGrows, NextRunInv DEF FailInv
<1>2. ASSUME NEW w \in Workers, worker'[w].pc \in FailSteps,
             worker'[w].undo # "unstarted"
      PROVE  Over(R(w))'
  <2>1. /\ worker'[w].on = worker[w].on /\ R(w)' = R(w)
        /\ \/ worker[w].pc \in FailSteps /\ worker'[w].undo = worker[w].undo
           \/ worker[w].pc \in RunSteps
    BY <1>1, <1>2, NextFails, SameRow
  <2>2. CASE worker[w].pc \in RunSteps
    <3>1. worker'[w].pc \notin RunSteps
      BY <1>2 DEF RunSteps, SwapSteps, FailSteps, Reopening
    <3> QED
      BY <1>1, <2>1, <2>2, <3>1, FailsAlone
  <2>3. CASE worker[w].pc \in FailSteps /\ worker'[w].undo = worker[w].undo
    <3>1. R(w) \in Rows
      BY <1>1, <2>3, WorkerFacts DEF RunInv, TypeOK, FailSteps, Reopening
    <3>2. PICK r \in Rows : r = R(w)
      BY <3>1
    <3>3. Over(r)
      BY <1>1, <1>2, <2>3, <3>2 DEF Judged, FailedOver
    <3>4. Over(r)'
      BY <1>1, <3>3, OverStays
    <3> QED
      BY <2>1, <3>2, <3>4 DEF Over, Holds
  <2> QED
    BY <2>1, <2>2, <2>3
<1> QED
  BY <1>2 DEF FailedOver

\* So is the row the cleanup judged.
LEMMA NextJudgedOver ==
  ASSUME FailInv, [Next]_vars, "misjudged" \notin excuse'
  PROVE  JudgedOver'
<1>1. RunInv /\ RunInv' /\ Judged /\ CleanerTypes
  BY HistoryGrows, NextRunInv DEF FailInv, RunInv, TypeOK
<1>2. ASSUME NEW r \in Rows, Over(r), cleaner'.on = {r}
      PROVE  Over(On(cleaner))'
  <2>1. Over(r)'
    BY <1>1, <1>2, OverStays
  <2>2. On(cleaner)' = r
    BY <1>2 DEF On
  <2> QED
    BY <2>1, <2>2 DEF Over, Holds
<1>3. ASSUME NEW r \in Rows, Judge(r) PROVE Over(r)
  <2>1. row[r].state = "EXECUTING" /\ ~Held(r)
    BY <1>3 DEF Judge, Excuse
  <2> QED
    BY <2>1 DEF Over, Held
<1>4. CASE cleaner.pc \in {"temp", "executing"} /\ cleaner'.on = cleaner.on
  BY <1>1, <1>2, <1>4, CleanerFacts DEF Judged, JudgedOver
<1> QED
  BY <1>1, <1>2, <1>3, <1>4, NextJudges DEF JudgedOver

\* Every step keeps the invariant.
LEMMA NextFailInv ==
  ASSUME FailInv, [Next]_vars
  PROVE  FailInv'
<1>1. RunInv' /\ UndoFits' /\ KillMisjudged'
  BY NextRunInv, NextUndoFits, NextKill DEF FailInv, RunInv, TypeOK
<1> QED
  BY <1>1, NextHeldExecuting, NextFailedOver, NextJudgedOver DEF FailInv, Judged

\* At the start nothing has failed.
LEMMA InitFailInv == Init => FailInv
<1> SUFFICES ASSUME Init PROVE FailInv
  OBVIOUS
<1>1. \A w \in Workers, r \in Rows : ~Holds(w, r)
  BY IdleStates DEF Init, Holds, Idle, Busy
<1>2. FailedOver
  BY DEF Init, Idle, FailedOver, FailSteps, Reopening
<1>3. JudgedOver /\ KillMisjudged
  BY DEF Init, Sleeping, JudgedOver, KillMisjudged
<1> QED
  BY <1>1, <1>2, <1>3, InitRunInv DEF FailInv, Judged, HeldExecuting

\* A finished row stays as it finished: neither a run, nor on_failure, nor the
\* cleanup, whatever they decided before, ends it again, unless a live worker was
\* taken for a dead one.
THEOREM EndsOnce == Spec => EndedStays
<1> DEFINE Stays == "misjudged" \notin excuse' =>
                      \A r \in Rows : row[r].state \in Terminal =>
                                        row'[r].state \in {row[r].state, "none"}
<1>1. FailInv /\ [Next]_vars => Stays
  <2> SUFFICES ASSUME FailInv, [Next]_vars, "misjudged" \notin excuse',
                      NEW r \in Rows, row[r].state \in Terminal
               PROVE  row'[r].state \in {row[r].state, "none"}
    OBVIOUS
  <2>1. RunInv /\ Judged
    BY HistoryGrows DEF FailInv
  <2>2. \A w \in Workers : ~EndedByRun(w, r)
    BY <2>1 DEF EndedByRun, Judged, HeldExecuting, Terminal
  <2> QED
    BY <2>1, <2>2, NextState
    DEF Inserted, BeganRun, EndedByFailure, EndedByCleanup, Purged, Terminal
<1>2. FailInv /\ [Next]_vars => FailInv'
  BY NextFailInv
<1>3. FailInv /\ [Next]_vars => [Stays]_vars
  BY <1>1
<1> QED
  <2>1. Init => FailInv
    BY InitFailInv
  <2>2. Spec => [][Stays]_vars
    <3> HIDE DEF Stays
    <3> QED
      BY <1>2, <1>3, <2>1, PTL DEF Spec
  <2> QED
    BY <2>2 DEF EndedStays

-----------------------------------------------------------------------------
(* Temporary databases *)

\* The temporary database belongs to a row that is EXECUTING, and whoever is
\* about to end the row has dropped it.
TempOwned == \A r \in tempdb : row[r].state = "EXECUTING"
TempCleared ==
  /\ \A w \in Workers :
       \/ worker[w].pc \in {"finish", "xfail"}
       \/ worker[w].pc = "failrow" /\ worker[w].undo # "unstarted"
       => R(w) \notin tempdb
  /\ cleaner.pc = "executing" => On(cleaner) \notin tempdb
NoTempKept ==
  excuse \cap {"tempKept", "misjudged"} = {} /\ provider = "active"
TempInv == FailInv /\ (NoTempKept => TempOwned /\ TempCleared)

\* Only a run creates it.
LEMMA NextTemp ==
  ASSUME [Next]_vars, NEW r \in tempdb'
  PROVE  r \in tempdb \/ \E w \in Workers : CreateTemp(w) /\ R(w) = r
<1>1. CASE StillStep
  BY <1>1 DEF StillStep, CreateRead, CreateInsert, EndParent, Dispatch, Judge,
              JudgeScheduled, Redeliver, CleanStep, CleanTemp, Finalize, CleanCheck,
              CleanReopen, CleanRaise, HideProvider, PurgeStep, PurgeTemps,
              PurgeGraphs, PurgeRows, vars, graphVars
<1>2. CASE \E w \in Workers, q \in Rows : Take(w, q)
  BY <1>2 DEF Take, graphVars
<1>3. CASE \E w \in Workers : CalmStep(w)
  BY <1>3 DEF CalmStep, Begin, CreateTemp, Ingest, ClearTemp, Finish, Saved,
              MarkFailed, FailRow, CheckData, FaultStep, Raise, RaiseInHandler,
              Crash, Terminate, graphVars
<1>4. CASE \E w \in Workers : SwapStep(w)
  BY <1>4 DEF SwapStep, Gate, DropBegin, DropEnd, SyncBegin, SyncEnd, Migrate, Open,
              Saved, Recover, ReopenFailed, graphVars
<1> QED
  BY <1>1, <1>2, <1>3, <1>4, NextKinds

\* Nobody comes to the end of a run without dropping it or an excuse.
LEMMA NextCleared ==
  ASSUME WorkerTypes, UndoFits, [Next]_vars, NEW w \in Workers,
         worker'[w].pc \in {"finish", "xfail", "failrow"},
         "tempKept" \notin excuse'
  PROVE  /\ worker'[w].on = worker[w].on /\ worker[w].pc # "idle"
         /\ worker'[w] = worker[w] \/ R(w) \notin tempdb'
<1> DEFINE Goal == /\ worker'[w].on = worker[w].on /\ worker[w].pc # "idle"
                   /\ worker'[w] = worker[w] \/ R(w) \notin tempdb'
<1>1. ASSUME worker'[w] = worker[w] PROVE Goal
  BY <1>1
<1>2. ASSUME \/ worker' = worker
             \/ \E v \in Workers : v # w /\ OthersStay(v)
      PROVE  Goal
  BY <1>1, <1>2 DEF OthersStay
<1>3. ASSUME \/ Free(w)
             \/ \E pc, undo : /\ pc \notin {"finish", "xfail", "failrow"}
                              /\ worker' = [worker EXCEPT ![w].pc = pc, ![w].undo = undo]
             \/ \E pc : pc \notin {"finish", "xfail", "failrow"} /\ Goto(w, pc)
      PROVE  FALSE
  <2>1. CASE Free(w)
    BY <2>1, FreeAfter
  <2>2. ASSUME NEW pc, NEW undo, pc \notin {"finish", "xfail", "failrow"},
               worker' = [worker EXCEPT ![w].pc = pc, ![w].undo = undo]
        PROVE  FALSE
    <3>1. worker'[w].pc = pc
      BY <2>2, GotoUndoAfter
    <3> QED
      BY <2>2, <3>1
  <2>3. ASSUME NEW pc, pc \notin {"finish", "xfail", "failrow"}, Goto(w, pc)
        PROVE  FALSE
    BY <2>3, GotoAfter
  <2> QED
    BY <1>3, <2>1, <2>2, <2>3
<1>4. CASE ClearTemp(w)
  <2>1. worker[w].pc # "idle" /\ \E pc : Goto(w, pc) \/ Free(w)
    BY <1>4 DEF ClearTemp, At
  <2>2. worker'[w].on = worker[w].on
    BY <1>3, <2>1, GotoAfter
  <2>3. ~Free(w)
    BY <1>3
  <2>4. tempdb' = tempdb \ {R(w)}
    BY <1>4, <2>3 DEF ClearTemp, At
  <2> QED
    BY <2>1, <2>2, <2>4
<1>5. CASE CalmStep(w) /\ ~ClearTemp(w)
  <2>1. CASE Begin(w)
    <3>1. \/ Free(w) \/ Goto(w, "failtemp")
          \/ worker' = [worker EXCEPT ![w].pc = "temp", ![w].undo = "none"]
      BY <2>1, BeginFacts
    <3> QED
      BY <1>3, <3>1
  <2>2. CASE CreateTemp(w) \/ Ingest(w) \/ Finish(w) \/ MarkFailed(w) \/ FailRow(w)
             \/ CheckData(w)
    BY <1>3, <2>2 DEF CreateTemp, Ingest, Finish, Saved, MarkFailed, FailRow, CheckData
  <2>3. CASE Raise(w) \/ RaiseInHandler(w) \/ Crash(w) \/ Terminate(w)
    BY <1>3, <2>3 DEF Raise, RaiseInHandler, Crash, Terminate, Excuse
  <2> QED
    BY <1>5, <2>1, <2>2, <2>3 DEF CalmStep, FaultStep
<1>6. CASE SwapStep(w)
  <2>1. CASE Open(w)
    BY <1>3, <2>1 DEF Open, Saved
  <2>2. CASE Gate(w) \/ DropEnd(w) \/ SyncEnd(w)
    <3>1. \/ Goto(w, "recover")
          \/ \E pc \in {"drop", "sync", "recover", "migrate"}, undo \in {"none", "all", "own"} :
               worker' = [worker EXCEPT ![w].pc = pc, ![w].undo = undo]
      BY <2>2 DEF Gate, DropEnd, SyncEnd
    <3> QED
      BY <1>3, <3>1
  <2>3. CASE DropBegin(w) \/ SyncBegin(w) \/ Migrate(w) \/ Recover(w) \/ ReopenFailed(w)
    BY <1>3, <2>3 DEF DropBegin, SyncBegin, Migrate, Saved, Recover, ReopenFailed
  <2> QED
    BY <1>6, <2>1, <2>2, <2>3 DEF SwapStep
<1>7. ASSUME NEW v \in Workers, v # w, CalmStep(v) \/ SwapStep(v)
      PROVE  Goal
  BY <1>2, <1>7, CalmStepMoves, SwapStepMoves
<1>8. ASSUME NEW v \in Workers, NEW r \in Rows, Take(v, r)
      PROVE  Goal
  <2>1. worker'[v].pc = "begin" \/ worker' = worker
    BY <1>8 DEF Take, WorkerTypes, Idle
  <2> QED
    BY <1>2, <1>8, <2>1, TakeMoves
<1>9. CASE StillStep
  BY <1>2, <1>9, StillWorkers
<1> QED
  BY <1>4, <1>5, <1>6, <1>7, <1>8, <1>9, NextKinds

\* Nor does the cleanup.
LEMMA NextCleaned ==
  ASSUME CleanerTypes, [Next]_vars, cleaner'.pc = "executing",
         "tempKept" \notin excuse'
  PROVE  /\ cleaner'.on = cleaner.on /\ cleaner.pc # "idle"
         /\ cleaner' = cleaner \/ On(cleaner) \notin tempdb'
<1>1. CASE CleanTemp
  <2>1. cleaner'.on = cleaner.on /\ cleaner.pc = "temp"
    BY <1>1 DEF CleanTemp, CleanerTypes, CleanerStates
  <2>2. tempdb' = tempdb \ {On(cleaner)}
    BY <1>1 DEF CleanTemp, Excuse
  <2> QED
    BY <2>1, <2>2
<1>2. CASE cleaner' = cleaner
  BY <1>2
<1>3. CASE StillStep /\ ~CleanTemp
  <2>1. CASE \E r \in Rows : Judge(r) \/ JudgeScheduled(r)
    <3>1. cleaner'.pc \in {"temp", "scheduled"}
      BY <2>1 DEF Judge, JudgeScheduled
    <3> QED
      BY <3>1
  <2>2. CASE Finalize \/ CleanCheck \/ CleanReopen \/ CleanRaise
    <3>1. \/ cleaner' = Sleeping
          \/ \E pc \in {"check", "reopen"} : cleaner' = [cleaner EXCEPT !.pc = pc]
      BY <2>2 DEF Finalize, CleanCheck, CleanReopen, CleanRaise
    <3>2. \A pc : [cleaner EXCEPT !.pc = pc].pc = pc
      BY DEF CleanerTypes, CleanerStates
    <3>3. Sleeping.pc = "idle"
      BY DEF Sleeping
    <3> QED
      BY <3>1, <3>2, <3>3
  <2>3. CASE \/ \E r \in Rows : \/ CreateRead(r) \/ CreateInsert(r) \/ EndParent(r)
                                \/ Dispatch(r)
             \/ \E w \in Workers : Redeliver(w)
             \/ HideProvider \/ PurgeStep \/ UNCHANGED vars
    BY <1>2, <2>3 DEF CreateRead, CreateInsert, EndParent, Dispatch, Redeliver,
                      HideProvider, PurgeStep, PurgeTemps, PurgeGraphs, PurgeRows, vars
  <2> QED
    BY <1>3, <2>1, <2>2, <2>3 DEF StillStep, CleanStep
<1>4. CASE \E w \in Workers : CalmStep(w) \/ SwapStep(w) \/ \E r \in Rows : Take(w, r)
  BY <1>2, <1>4, RunLeaves
<1> QED
  BY <1>1, <1>3, <1>4, NextKinds

\* Every step keeps the invariant.
LEMMA NextTempInv ==
  ASSUME TempInv, [Next]_vars
  PROVE  TempInv'
<1>1. FailInv'
  BY NextFailInv DEF TempInv
<1>2. ASSUME NoTempKept' PROVE TempOwned' /\ TempCleared'
  <2>1. /\ RunInv /\ UndoFits /\ Judged /\ TempOwned /\ TempCleared
        /\ "misjudged" \notin excuse' /\ "tempKept" \notin excuse'
        /\ provider = "active" /\ provider' = "active"
    BY <1>2, HistoryGrows DEF TempInv, FailInv, NoTempKept
  <2>2. WorkerTypes /\ CleanerTypes /\ tempdb \subseteq Rows
    BY <2>1 DEF RunInv, TypeOK, GraphTypes
  <2>3. ASSUME NEW w \in Workers, CreateTemp(w)
        PROVE  Holds(w, R(w)) /\ R(w) \in Rows /\ worker[w].pc = "temp"
               /\ row' = row /\ row[R(w)].state = "EXECUTING"
    <3>1. worker[w].pc = "temp" /\ row' = row
      BY <2>3 DEF CreateTemp, At
    <3>2. Holds(w, R(w)) /\ R(w) \in Rows /\ Exists(R(w))
      BY <2>1, <3>1, HeldExists DEF RunSteps
    <3> QED
      BY <2>1, <3>1, <3>2 DEF Judged, HeldExecuting, Exists
  <2>4. ASSUME NEW r \in tempdb' PROVE row'[r].state = "EXECUTING"
    <3>1. CASE \E w \in Workers : CreateTemp(w) /\ R(w) = r
      BY <2>3, <3>1
    <3>2. CASE r \in tempdb
      <4>1. r \in Rows /\ row[r].state = "EXECUTING"
        BY <2>1, <2>2, <3>2 DEF TempOwned
      <4>2. \A w \in Workers : ~EndedByRun(w, r)
        <5>1. ASSUME NEW w \in Workers, EndedByRun(w, r) PROVE FALSE
          <6>1. worker[w].on = {r} /\ R(w) \notin tempdb
            BY <2>1, <5>1 DEF EndedByRun, Holds, TempCleared
          <6>2. R(w) = r
            BY <4>1, <6>1 DEF R, On
          <6> QED
            BY <3>2, <6>1, <6>2
        <5> QED
          BY <5>1
      <4>3. \A w \in Workers : ~EndedByFailure(w, r)
        <5>1. ASSUME NEW w \in Workers, EndedByFailure(w, r) PROVE FALSE
          <6>1. R(w) = r /\ worker[w].pc = "failrow"
            BY <5>1 DEF EndedByFailure, FailRow, At
          <6>2. worker[w].undo # "unstarted"
            BY <2>1, <4>1, <5>1 DEF EndedByFailure, FailRow, Visible, Excuse
          <6> QED
            BY <2>1, <3>2, <6>1, <6>2 DEF TempCleared
        <5> QED
          BY <5>1
      <4>4. ~EndedByCleanup(r)
        BY <2>1, <3>2, <4>1 DEF EndedByCleanup, TempCleared
      <4> QED
        BY <2>1, <4>1, <4>2, <4>3, <4>4, NextState
        DEF Inserted, BeganRun, Purged
    <3> QED
      BY <3>1, <3>2, NextTemp
  <2>5. ASSUME NEW w \in Workers, worker'[w].pc \in {"finish", "xfail", "failrow"},
               worker'[w].pc = "failrow" => worker'[w].undo # "unstarted"
        PROVE  R(w)' \notin tempdb'
    <3>1. /\ worker'[w].on = worker[w].on /\ worker[w].pc # "idle"
          /\ worker'[w] = worker[w] \/ R(w) \notin tempdb'
      BY <2>1, <2>2, <2>5, NextCleared
    <3>2. R(w)' = R(w)
      BY <3>1, SameRow
    <3>3. CASE worker'[w] = worker[w]
      <4>1. R(w) \notin tempdb
        BY <2>1, <2>5, <3>3 DEF TempCleared
      <4>2. ASSUME NEW v \in Workers, CreateTemp(v), R(v) = R(w) PROVE FALSE
        <5>1. Holds(v, R(w)) /\ R(w) \in Rows /\ worker[v].pc = "temp"
          BY <2>3, <4>2
        <5>2. CASE worker[w].pc = "failrow"
          BY <2>1, <2>5, <3>3, <5>1, <5>2
          DEF Judged, FailedOver, Over, FailSteps
        <5>3. CASE worker[w].pc \in {"finish", "xfail"}
          <6>1. Holds(w, R(w))
            BY <2>1, <5>3, HeldExists DEF RunSteps, SwapSteps
          <6> QED
            BY <2>1, <5>1, <5>3, <6>1 DEF RunInv, OneRunPerRow
        <5> QED
          BY <2>5, <3>3, <5>2, <5>3
      <4> QED
        BY <3>2, <4>1, <4>2, NextTemp
    <3> QED
      BY <3>1, <3>2, <3>3
  <2>6. ASSUME cleaner'.pc = "executing" PROVE On(cleaner)' \notin tempdb'
    <3>1. /\ cleaner'.on = cleaner.on /\ cleaner.pc # "idle"
          /\ cleaner' = cleaner \/ On(cleaner) \notin tempdb'
      BY <2>1, <2>2, <2>6, NextCleaned
    <3>2. On(cleaner)' = On(cleaner)
      BY <3>1 DEF On
    <3>3. CASE cleaner' = cleaner
      <4>1. On(cleaner) \notin tempdb /\ Over(On(cleaner))
        BY <2>1, <2>6, <3>3 DEF TempCleared, Judged, JudgedOver
      <4>2. ASSUME NEW v \in Workers, CreateTemp(v), R(v) = On(cleaner) PROVE FALSE
        BY <2>3, <4>1, <4>2 DEF Over
      <4> QED
        BY <3>2, <4>1, <4>2, NextTemp
    <3> QED
      BY <3>1, <3>2, <3>3
  <2> QED
    BY <2>4, <2>5, <2>6 DEF TempOwned, TempCleared
<1> QED
  BY <1>1, <1>2 DEF TempInv

\* No temporary database outlives its run: it is gone before the row ends,
\* whoever ends it, the run, on_failure or the cleanup, unless a drop failed or a
\* live worker was taken for a dead one.
THEOREM TempsDropped == Spec => []NoTempLeft
<1>1. Init => TempInv
  BY InitFailInv DEF Init, Idle, Sleeping, TempInv, TempOwned, TempCleared
<1>2. TempInv /\ [Next]_vars => TempInv'
  BY NextTempInv
<1>3. TempInv => NoTempLeft
  BY DEF TempInv, NoTempLeft, NoTempKept, TempOwned, Terminal
<1> QED
  BY <1>1, <1>2, <1>3, PTL DEF Spec

-----------------------------------------------------------------------------
(* A complete graph is opened again *)

\* With Neo4j as the target no row has ever named another sink.
OneSink == \A r \in Rows : row[r].sink = "neo4j"

\* recover_graph_data_ready is about a row that exists.
ReopensRow ==
  /\ \A w \in Workers :
       worker[w].pc \in Reopening => Exists(R(w)) \/ provider = "gone"
  /\ cleaner.pc \in Reopening => Exists(On(cleaner)) \/ provider = "gone"

\* A row lets queries through, ...
Ready == \E r \in Rows : Exists(r) /\ row[r].ready

\* ... or somebody is about to see to it: a run between the graph's drop or its
\* copy and the gate, a handler, a row that will fail and be recovered.
WillOpen(p) ==
  \/ p.pc \in {"drop", "migrate", "open"} \cup Reopening
  \/ p.pc = "recover" /\ p.undo \in {"all", "own"}
Abandoned(r) == row[r].state = "EXECUTING" /\ \A w \in Workers : ~Holds(w, r)
Due ==
  \/ \E w \in Workers : WillOpen(worker[w])
  \/ \E r \in Rows : Abandoned(r)
  \/ cleaner.pc \in Reopening

FullAndClean ==
  /\ excuse \cap {"misjudged", "gaveUp"} = {}
  /\ provider = "active" /\ graph["neo4j"] = "full"
ReopenInv ==
  FailInv /\ OneSink /\ ReopensRow /\ (FullAndClean => Ready \/ Due)

\* A row that exists does so until the provider is gone.
LEMMA NextExists ==
  ASSUME RunInv, [Next]_vars, NEW r \in Rows, Exists(r)
  PROVE  Exists(r)' \/ provider' = "gone"
<1>1. row[r].state \notin {"none", "creating"}
  BY DEF Exists
<1>2. row'[r].state \notin {"none", "creating"} \/ provider' = "gone"
  BY <1>1, NextState
  DEF Inserted, BeganRun, EndedByRun, EndedByFailure, EndedByCleanup, Purged, Terminal
<1> QED
  BY <1>2 DEF Exists

\* The steps that write a sink: a new row takes it from another, a run names the
\* target.
LEMMA NextOneSink ==
  ASSUME TypeOK, OneSink, TargetSink = "neo4j", [Next]_vars
  PROVE  OneSink'
<1>0. row \in [Rows -> RowTypes] /\ WorkerTypes
  BY DEF TypeOK, TableTypes
<1>1. CASE row' = row
  BY <1>1 DEF OneSink
<1>2. ASSUME NEW r \in Rows, CreateRead(r) PROVE OneSink'
  <2> DEFINE ready == {q \in Rows : Visible(q) /\ row[q].ready}
             sinks == {row[q].sink : q \in ready}
             sink == IF ready = {} THEN "neo4j"
                     ELSE IF TargetSink \in sinks THEN TargetSink
                     ELSE CHOOSE s \in sinks : TRUE
             new == [state |-> "creating", ready |-> ready # {}, sink |-> sink]
  <2>1. ready # {} => TargetSink \in sinks
    BY DEF OneSink
  <2>2. sink = "neo4j"
    <3> HIDE DEF ready, sinks
    <3> QED
      BY <2>1
  <2>3. new.sink = "neo4j"
    <3> HIDE DEF sink, ready
    <3> QED
      BY <2>2
  <2>4. row' = [row EXCEPT ![r] = new]
    BY <1>2 DEF CreateRead
  <2> QED
    <3> HIDE DEF new
    <3> QED
      BY <1>0, <2>3, <2>4 DEF OneSink
<1>3. ASSUME NEW r \in Rows, CreateInsert(r) PROVE OneSink'
  BY <1>0, <1>3 DEF CreateInsert, OneSink, NoRow, RowTypes
<1>4. ASSUME \/ \E sink, value : row' = SetReady(sink, value)
             \/ \E r, value : row' = SetOwnReady(r, value)
      PROVE  OneSink'
  BY <1>0, <1>4 DEF SetReady, SetOwnReady, OneSink, RowTypes
<1>5. ASSUME NEW r \in Rows, NEW state, row' = [row EXCEPT ![r].state = state]
      PROVE  OneSink'
  BY <1>0, <1>5 DEF OneSink, RowTypes
<1>6. CASE StillStep
  <2>1. CASE Finalize
    BY <1>0, <1>1, <2>1 DEF Finalize, OneSink, RowTypes
  <2>2. CASE CleanReopen
    BY <1>1, <1>4, <2>2 DEF CleanReopen, Reopen
  <2>3. CASE PurgeRows
    BY <2>3 DEF PurgeRows, OneSink, NoRow
  <2>4. CASE \/ \E r \in Rows : \/ EndParent(r) \/ Dispatch(r) \/ Judge(r)
                                \/ JudgeScheduled(r)
             \/ \E w \in Workers : Redeliver(w)
             \/ CleanTemp \/ CleanCheck \/ CleanRaise \/ HideProvider
             \/ PurgeTemps \/ PurgeGraphs \/ UNCHANGED vars
    BY <1>1, <2>4 DEF EndParent, Dispatch, Judge, JudgeScheduled, Redeliver, CleanTemp,
                      CleanCheck, CleanRaise, HideProvider, PurgeTemps, PurgeGraphs, vars
  <2> QED
    BY <1>2, <1>3, <1>6, <2>1, <2>2, <2>3, <2>4 DEF StillStep, CleanStep, PurgeStep
<1>7. ASSUME NEW w \in Workers, CalmStep(w) PROVE OneSink'
  <2>1. CASE Begin(w) \/ Finish(w) \/ MarkFailed(w) \/ FailRow(w)
    <3>1. R(w) \in Rows
      BY <1>0, <2>1, WorkerFacts DEF Begin, Finish, Saved, MarkFailed, FailRow, At
    <3>2. row' = row \/ \E state : row' = [row EXCEPT ![R(w)].state = state]
      BY <1>0, <2>1, <3>1 DEF Begin, Finish, Saved, MarkFailed, FailRow, RowTypes
    <3> QED
      BY <1>1, <1>5, <3>1, <3>2
  <2>2. CASE CreateTemp(w) \/ Ingest(w) \/ ClearTemp(w) \/ CheckData(w) \/ FaultStep(w)
    BY <1>1, <2>2 DEF CreateTemp, Ingest, ClearTemp, CheckData, FaultStep, Raise,
                      RaiseInHandler, Crash, Terminate
  <2> QED
    BY <1>7, <2>1, <2>2 DEF CalmStep
<1>8. ASSUME NEW w \in Workers, SwapStep(w) PROVE OneSink'
  <2>1. CASE Migrate(w) \/ Open(w)
    <3>1. R(w) \in Rows
      BY <1>0, <2>1, WorkerFacts DEF Migrate, Open, Saved, At
    <3> QED
      BY <1>0, <2>1, <3>1 DEF Migrate, Open, Saved, OneSink, RowTypes
  <2>2. CASE Gate(w) \/ Recover(w) \/ ReopenFailed(w)
    BY <1>1, <1>4, <2>2 DEF Gate, Recover, ReopenFailed, Reopen
  <2>3. CASE DropBegin(w) \/ DropEnd(w) \/ SyncBegin(w) \/ SyncEnd(w)
    BY <1>1, <2>3 DEF DropBegin, DropEnd, SyncBegin, SyncEnd
  <2> QED
    BY <1>8, <2>1, <2>2, <2>3 DEF SwapStep
<1>9. CASE \E w \in Workers, r \in Rows : Take(w, r)
  BY <1>1, <1>9 DEF Take
<1> QED
  BY <1>6, <1>7, <1>8, <1>9, NextKinds

\* How a worker comes to recover_graph_data_ready.
LEMMA NextReopening ==
  ASSUME RunInv, UndoFits, [Next]_vars, NEW w \in Workers,
         worker'[w].pc \in Reopening
  PROVE  /\ worker'[w].on = worker[w].on
         /\ worker[w].pc \in Reopening \/ (FailRow(w) /\ Exists(R(w)))
<1> DEFINE Goal == /\ worker'[w].on = worker[w].on
                   /\ worker[w].pc \in Reopening \/ (FailRow(w) /\ Exists(R(w)))
<1>0. WorkerTypes
  BY DEF RunInv, TypeOK
<1>1. ASSUME \/ worker' = worker
             \/ \E v \in Workers : v # w /\ OthersStay(v)
      PROVE  Goal
  BY <1>1 DEF OthersStay
<1>2. ASSUME \/ Free(w)
             \/ \E pc, undo : /\ pc \notin Reopening
                              /\ worker' = [worker EXCEPT ![w].pc = pc, ![w].undo = undo]
             \/ \E pc : pc \notin Reopening /\ Goto(w, pc)
      PROVE  FALSE
  <2>1. CASE Free(w)
    BY <1>0, <2>1, FreeAfter DEF Reopening
  <2>2. ASSUME NEW pc, NEW undo, pc \notin Reopening,
               worker' = [worker EXCEPT ![w].pc = pc, ![w].undo = undo]
        PROVE  FALSE
    <3>1. worker'[w].pc = pc
      BY <1>0, <2>2, GotoUndoAfter
    <3> QED
      BY <2>2, <3>1
  <2>3. ASSUME NEW pc, pc \notin Reopening, Goto(w, pc)
        PROVE  FALSE
    BY <1>0, <2>3, GotoAfter
  <2> QED
    BY <1>2, <2>1, <2>2, <2>3
<1>3. CASE FailRow(w)
  <2>1. Goto(w, "check") /\ Exists(R(w))
    BY <1>2, <1>3 DEF FailRow, Visible
  <2> QED
    BY <1>0, <1>3, <2>1, GotoAfter
<1>4. CASE CheckData(w)
  <2>1. Goto(w, "reopen") /\ worker[w].pc \in Reopening
    BY <1>2, <1>4 DEF CheckData, At, Reopening
  <2> QED
    BY <1>0, <2>1, GotoAfter
<1>5. CASE CalmStep(w) /\ ~FailRow(w) /\ ~CheckData(w)
  <2>1. CASE Begin(w)
    BY <1>2, <2>1, BeginFacts DEF Reopening
  <2>2. CASE CreateTemp(w) \/ Ingest(w) \/ ClearTemp(w) \/ Finish(w) \/ MarkFailed(w)
    BY <1>2, <2>2 DEF CreateTemp, Ingest, ClearTemp, Finish, Saved, MarkFailed, Reopening
  <2>3. CASE FaultStep(w)
    BY <1>2, <2>3 DEF FaultStep, Raise, RaiseInHandler, Crash, Terminate, Reopening
  <2> QED
    BY <1>5, <2>1, <2>2, <2>3 DEF CalmStep
<1>6. CASE SwapStep(w)
  <2>1. CASE Gate(w) \/ DropEnd(w) \/ SyncEnd(w)
    <3>1. \/ Goto(w, "recover")
          \/ \E pc \in {"drop", "sync", "recover", "migrate"}, undo \in {"none", "all", "own"} :
               worker' = [worker EXCEPT ![w].pc = pc, ![w].undo = undo]
      BY <2>1 DEF Gate, DropEnd, SyncEnd
    <3> QED
      BY <1>2, <3>1 DEF Reopening
  <2>2. CASE DropBegin(w) \/ SyncBegin(w) \/ Migrate(w) \/ Open(w) \/ Recover(w)
             \/ ReopenFailed(w)
    BY <1>2, <2>2 DEF DropBegin, SyncBegin, Migrate, Open, Saved, Recover,
                      ReopenFailed, Reopening
  <2> QED
    BY <1>6, <2>1, <2>2 DEF SwapStep
<1>7. ASSUME NEW v \in Workers, v # w, CalmStep(v) \/ SwapStep(v)
      PROVE  Goal
  BY <1>0, <1>1, <1>7, CalmStepMoves, SwapStepMoves
<1>8. ASSUME NEW v \in Workers, NEW r \in Rows, Take(v, r)
      PROVE  Goal
  <2>1. worker'[v].pc = "begin" \/ worker' = worker
    BY <1>0, <1>8 DEF Take, WorkerTypes, Idle
  <2>2. v # w \/ worker' = worker
    BY <2>1 DEF Reopening
  <2> QED
    BY <1>0, <1>1, <1>8, <2>2, TakeMoves
<1>9. CASE StillStep
  BY <1>1, <1>9, StillWorkers
<1> QED
  BY <1>3, <1>4, <1>5, <1>6, <1>7, <1>8, <1>9, NextKinds

\* How the cleanup does.
LEMMA NextCleanReopening ==
  ASSUME CleanerTypes, [Next]_vars, cleaner'.pc \in Reopening
  PROVE  /\ cleaner'.on = cleaner.on
         /\ cleaner.pc \in Reopening \/ (Finalize /\ Exists(On(cleaner)))
<1>1. CASE cleaner' = cleaner
  BY <1>1
<1>2. CASE StillStep
  <2>1. CASE \E r \in Rows : Judge(r) \/ JudgeScheduled(r)
    <3>1. cleaner'.pc \in {"temp", "scheduled"}
      BY <2>1 DEF Judge, JudgeScheduled
    <3> QED
      BY <3>1 DEF Reopening
  <2>2. \A pc : /\ [cleaner EXCEPT !.pc = pc].pc = pc
                /\ [cleaner EXCEPT !.pc = pc].on = cleaner.on
    BY DEF CleanerTypes, CleanerStates
  <2>3. cleaner' # Sleeping
    BY DEF Sleeping, Reopening
  <2>4. CASE Finalize
    <3>1. cleaner' = [cleaner EXCEPT !.pc = "check"] /\ Exists(On(cleaner))
      BY <2>3, <2>4 DEF Finalize, Visible
    <3> QED
      BY <2>2, <2>4, <3>1
  <2>5. CASE CleanTemp \/ CleanReopen \/ CleanRaise
    <3>1. cleaner' = [cleaner EXCEPT !.pc = "executing"]
      BY <2>3, <2>5 DEF CleanTemp, CleanReopen, CleanRaise
    <3>2. cleaner'.pc = "executing"
      BY <2>2, <3>1
    <3> QED
      BY <3>2 DEF Reopening
  <2>6. CASE CleanCheck
    <3>1. cleaner' = [cleaner EXCEPT !.pc = "reopen"] /\ cleaner.pc \in Reopening
      BY <2>3, <2>6 DEF CleanCheck, Reopening
    <3> QED
      BY <2>2, <3>1
  <2>7. CASE \/ \E r \in Rows : \/ CreateRead(r) \/ CreateInsert(r) \/ EndParent(r)
                                \/ Dispatch(r)
             \/ \E w \in Workers : Redeliver(w)
             \/ HideProvider \/ PurgeStep \/ UNCHANGED vars
    BY <1>1, <2>7 DEF CreateRead, CreateInsert, EndParent, Dispatch, Redeliver,
                      HideProvider, PurgeStep, PurgeTemps, PurgeGraphs, PurgeRows, vars
  <2> QED
    BY <1>2, <2>1, <2>4, <2>5, <2>6, <2>7 DEF StillStep, CleanStep
<1>3. CASE \E w \in Workers : CalmStep(w) \/ SwapStep(w) \/ \E r \in Rows : Take(w, r)
  BY <1>1, <1>3, RunLeaves
<1> QED
  BY <1>2, <1>3, NextKinds

\* Their rows exist.
LEMMA NextReopensRow ==
  ASSUME RunInv, UndoFits, ReopensRow, [Next]_vars
  PROVE  ReopensRow'
<1>0. GoneForGood /\ WorkerTypes /\ CleanerTypes
  BY NextGone DEF RunInv, TypeOK
<1>1. ASSUME NEW r \in Rows, Exists(r) \/ provider = "gone"
      PROVE  Exists(r)' \/ provider' = "gone"
  BY <1>0, <1>1, NextExists DEF GoneForGood
<1>2. ASSUME NEW w \in Workers, worker'[w].pc \in Reopening
      PROVE  Exists(R(w))' \/ provider' = "gone"
  <2>1. /\ worker'[w].on = worker[w].on /\ R(w)' = R(w)
        /\ worker[w].pc \in Reopening \/ (FailRow(w) /\ Exists(R(w)))
    BY <1>2, NextReopening, SameRow
  <2>2. worker[w].pc # "idle"
    BY <2>1 DEF Reopening, FailRow, At
  <2>3. PICK r \in Rows : r = R(w)
    BY <1>0, <2>2, WorkerFacts
  <2>4. Exists(r) \/ provider = "gone"
    BY <2>1, <2>3 DEF ReopensRow
  <2>5. Exists(r)' \/ provider' = "gone"
    BY <1>1, <2>4
  <2> QED
    BY <2>1, <2>3, <2>5 DEF Exists
<1>3. ASSUME cleaner'.pc \in Reopening
      PROVE  Exists(On(cleaner))' \/ provider' = "gone"
  <2>1. /\ cleaner'.on = cleaner.on
        /\ cleaner.pc \in Reopening \/ (Finalize /\ Exists(On(cleaner)))
    BY <1>0, <1>3, NextCleanReopening
  <2>2. cleaner.pc # "idle" /\ On(cleaner)' = On(cleaner)
    BY <2>1 DEF Reopening, Finalize, On
  <2>3. PICK r \in Rows : r = On(cleaner)
    BY <1>0, <2>2, CleanerFacts
  <2>4. Exists(r) \/ provider = "gone"
    BY <2>1, <2>3 DEF ReopensRow
  <2>5. Exists(r)' \/ provider' = "gone"
    BY <1>1, <2>4
  <2> QED
    BY <2>2, <2>3, <2>5 DEF Exists
<1> QED
  BY <1>2, <1>3 DEF ReopensRow

\* Only a copy that ends makes the graph complete.
LEMMA NextFull ==
  ASSUME TypeOK, [Next]_vars, TargetSink = "neo4j", graph'["neo4j"] = "full"
  PROVE  \/ graph["neo4j"] = "full"
         \/ \E w \in Workers : worker'[w].pc = "migrate"
<1>0. WorkerTypes /\ graph \in [Sinks -> {"empty", "partial", "full"}] /\ "neo4j" \in Sinks
  BY DEF TypeOK, GraphTypes, Sinks
<1>1. CASE graph' = graph
  BY <1>1
<1>2. ASSUME NEW w \in Workers, SyncEnd(w)
      PROVE  graph["neo4j"] = "full" \/ worker'[w].pc = "migrate"
  <2>1. \/ worker' = [worker EXCEPT ![w].pc = "migrate", ![w].undo = "own"]
        \/ graph' = graph
    BY <1>2 DEF SyncEnd
  <2>2. CASE worker' = [worker EXCEPT ![w].pc = "migrate", ![w].undo = "own"]
    <3>1. worker'[w].pc = "migrate"
      BY <1>0, <2>2, GotoUndoAfter
    <3> QED
      BY <3>1
  <2> QED
    BY <1>1, <2>1, <2>2
<1>3. ASSUME NEW w \in Workers, DropBegin(w) \/ DropEnd(w) \/ SyncBegin(w)
      PROVE  graph["neo4j"] = "full"
  BY <1>0, <1>3 DEF DropBegin, DropEnd, SyncBegin
<1>4. CASE PurgeGraphs
  BY <1>0, <1>4 DEF PurgeGraphs
<1>5. CASE StillStep
  BY <1>1, <1>4, <1>5 DEF StillStep, CreateRead, CreateInsert, EndParent, Dispatch,
     Judge, JudgeScheduled, Redeliver, CleanStep, CleanTemp, Finalize, CleanCheck,
     CleanReopen, CleanRaise, HideProvider, PurgeStep, PurgeTemps, PurgeRows, vars,
     graphVars
<1>6. CASE \E w \in Workers : CalmStep(w)
  BY <1>1, <1>6 DEF CalmStep, Begin, CreateTemp, Ingest, ClearTemp, Finish, Saved,
     MarkFailed, FailRow, CheckData, FaultStep, Raise, RaiseInHandler, Crash,
     Terminate, graphVars
<1>7. CASE \E w \in Workers : SwapStep(w)
  BY <1>1, <1>2, <1>3, <1>7 DEF SwapStep, Gate, Migrate, Open, Saved, Recover,
     ReopenFailed, graphVars
<1>8. CASE \E w \in Workers, r \in Rows : Take(w, r)
  BY <1>1, <1>8 DEF Take, graphVars
<1> QED
  BY <1>5, <1>6, <1>7, <1>8, NextKinds

\* Only closing the gate closes it.
LEMMA NextReady ==
  ASSUME RunInv, [Next]_vars, NEW r \in Rows, Exists(r), row[r].ready,
         provider' = "active"
  PROVE  \/ Exists(r)' /\ row'[r].ready
         \/ \E w \in Workers : worker'[w].pc = "drop"
<1>0. WorkerTypes /\ row \in [Rows -> RowTypes] /\ Exists(r)'
  BY NextExists DEF RunInv, TypeOK, TableTypes
<1>1. CASE row' = row
  BY <1>0, <1>1
<1>2. ASSUME \E sink : row' = SetReady(sink, TRUE)
      PROVE  row'[r].ready
  BY <1>0, <1>2 DEF SetReady, RowTypes
<1>3. ASSUME NEW q \in Rows, row' = SetOwnReady(q, TRUE)
      PROVE  row'[r].ready
  <2>1. CASE q = r
    BY <1>0, <1>3, <2>1 DEF SetOwnReady, RowTypes
  <2>2. CASE q # r
    BY <1>0, <1>3, <2>2 DEF SetOwnReady
  <2> QED
    BY <2>1, <2>2
<1>4. ASSUME NEW q \in Rows, NEW state, row' = [row EXCEPT ![q].state = state]
      PROVE  row'[r].ready
  BY <1>0, <1>4 DEF RowTypes
<1>5. CASE StillStep
  <2>1. ASSUME NEW q \in Rows, CreateRead(q) \/ CreateInsert(q) PROVE row'[r] = row[r]
    <3>1. q # r
      BY <2>1 DEF CreateRead, CreateInsert, Exists
    <3> QED
      BY <1>0, <2>1, <3>1 DEF CreateRead, CreateInsert
  <2>2. CASE Finalize
    <3>1. On(cleaner) \in Rows
      BY <2>2, CleanerFacts DEF Finalize, RunInv, TypeOK
    <3> QED
      BY <1>0, <1>1, <1>4, <2>2, <3>1 DEF Finalize
  <2>3. CASE CleanReopen
    BY <1>0, <1>1, <1>2, <2>3 DEF CleanReopen, Reopen
  <2>4. CASE \/ \E q \in Rows : \/ EndParent(q) \/ Dispatch(q) \/ Judge(q)
                                \/ JudgeScheduled(q)
             \/ \E w \in Workers : Redeliver(w)
             \/ CleanTemp \/ CleanCheck \/ CleanRaise \/ HideProvider
             \/ PurgeTemps \/ PurgeGraphs \/ UNCHANGED vars
    BY <1>1, <2>4 DEF EndParent, Dispatch, Judge, JudgeScheduled, Redeliver, CleanTemp,
                      CleanCheck, CleanRaise, HideProvider, PurgeTemps, PurgeGraphs, vars
  <2>5. ~PurgeRows
    BY DEF PurgeRows
  <2> QED
    BY <1>0, <1>5, <2>1, <2>2, <2>3, <2>4, <2>5 DEF StillStep, CleanStep, PurgeStep
<1>6. ASSUME NEW w \in Workers, CalmStep(w) PROVE row'[r].ready
  <2>1. CASE Begin(w) \/ Finish(w) \/ MarkFailed(w) \/ FailRow(w)
    <3>1. R(w) \in Rows
      BY <1>0, <2>1, WorkerFacts DEF Begin, Finish, Saved, MarkFailed, FailRow, At
    <3>2. row' = row \/ \E state : row' = [row EXCEPT ![R(w)].state = state]
      BY <1>0, <2>1, <3>1 DEF Begin, Finish, Saved, MarkFailed, FailRow, RowTypes
    <3> QED
      BY <1>1, <1>4, <3>1, <3>2
  <2>2. CASE CreateTemp(w) \/ Ingest(w) \/ ClearTemp(w) \/ CheckData(w) \/ FaultStep(w)
    BY <1>1, <2>2 DEF CreateTemp, Ingest, ClearTemp, CheckData, FaultStep, Raise,
                      RaiseInHandler, Crash, Terminate
  <2> QED
    BY <1>6, <2>1, <2>2 DEF CalmStep
<1>7. ASSUME NEW w \in Workers, SwapStep(w)
      PROVE  row'[r].ready \/ worker'[w].pc = "drop"
  <2>1. CASE Gate(w)
    <3>1. \/ worker' = [worker EXCEPT ![w].pc = "drop", ![w].undo = "all"]
          \/ row' = row
      BY <2>1 DEF Gate
    <3> QED
      BY <1>0, <1>1, <3>1, GotoUndoAfter
  <2>2. CASE Migrate(w) \/ Open(w)
    <3>1. R(w) \in Rows
      BY <1>0, <2>2, WorkerFacts DEF Migrate, Open, Saved, At
    <3> QED
      BY <1>0, <2>2, <3>1 DEF Migrate, Open, Saved, RowTypes
  <2>3. CASE Recover(w)
    <3>1. R(w) \in Rows
      BY <1>0, <2>3, WorkerFacts DEF Recover, At
    <3> QED
      BY <1>1, <1>2, <1>3, <2>3, <3>1 DEF Recover
  <2>4. CASE ReopenFailed(w)
    BY <1>1, <1>2, <2>4 DEF ReopenFailed, Reopen
  <2>5. CASE DropBegin(w) \/ DropEnd(w) \/ SyncBegin(w) \/ SyncEnd(w)
    BY <1>1, <2>5 DEF DropBegin, DropEnd, SyncBegin, SyncEnd
  <2> QED
    BY <1>7, <2>1, <2>2, <2>3, <2>4, <2>5 DEF SwapStep
<1>8. CASE \E w \in Workers, q \in Rows : Take(w, q)
  BY <1>1, <1>8 DEF Take
<1> QED
  BY <1>0, <1>5, <1>6, <1>7, <1>8, NextKinds

\* A row that nobody runs is failed by whoever finds it, and recovered.
LEMMA AbandonedDue ==
  ASSUME RunInv, [Next]_vars, NEW r \in Rows, Abandoned(r), provider' = "active"
  PROVE  Due'
<1>0. WorkerTypes /\ CleanerTypes
  BY DEF RunInv, TypeOK
<1>1. CASE row'[r].state = row[r].state
  <2>1. \A w \in Workers : ~Holds(w, r)'
    BY NextHolds DEF Abandoned, BeganRun
  <2>2. Abandoned(r)'
    BY <1>1, <2>1 DEF Abandoned, Holds
  <2> QED
    BY <2>2 DEF Due
<1>2. ASSUME NEW w \in Workers, EndedByFailure(w, r) PROVE Due'
  <2>1. Goto(w, "check") \/ row' = row
    BY <1>2 DEF EndedByFailure, FailRow
  <2>2. row' # row
    BY <1>2 DEF EndedByFailure, Terminal
  <2>3. worker'[w].pc = "check"
    BY <1>0, <2>1, <2>2, GotoAfter
  <2> QED
    BY <2>3 DEF Due, WillOpen, Reopening
<1>3. CASE EndedByCleanup(r)
  <2>1. cleaner.pc = "executing"
    BY <1>3 DEF EndedByCleanup, Abandoned
  <2>2. cleaner' = [cleaner EXCEPT !.pc = "check"] \/ row' = row
    BY <1>3, <2>1 DEF EndedByCleanup, Finalize
  <2>3. row' # row
    BY <1>3 DEF EndedByCleanup, Abandoned
  <2>4. cleaner'.pc = "check"
    BY <1>0, <2>2, <2>3 DEF CleanerTypes, CleanerStates
  <2> QED
    BY <2>4 DEF Due, Reopening
<1> QED
  BY <1>1, <1>2, <1>3, NextState
  DEF Abandoned, Inserted, BeganRun, EndedByRun, Purged

\* The recovery of a row opens it.
LEMMA ReopenReady ==
  ASSUME RunInv, OneSink, NEW r \in Rows, Exists(r), provider = "active",
         Reopen(r), [Next]_vars, provider' = "active"
  PROVE  Ready'
<1>1. row' = SetReady(row[r].sink, TRUE) /\ row \in [Rows -> RowTypes]
  BY DEF Reopen, Visible, RunInv, TypeOK, TableTypes
<1>2. row'[r].ready /\ Exists(r)'
  BY <1>1, NextExists DEF SetReady, RowTypes
<1> QED
  BY <1>2 DEF Ready, Exists

\* The cleanup gets to it, or it is an excuse.
LEMMA CleanerDue ==
  ASSUME RunInv, OneSink, ReopensRow, [Next]_vars, provider = "active",
         cleaner.pc \in Reopening, graph["neo4j"] = "full", FullAndClean'
  PROVE  Ready' \/ Due'
<1>0. /\ CleanerTypes /\ On(cleaner) \in Rows /\ Exists(On(cleaner))
      /\ provider' = "active"
  BY CleanerFacts DEF RunInv, TypeOK, Reopening, ReopensRow, FullAndClean
<1>1. CASE cleaner' = cleaner
  BY <1>1 DEF Due
<1>2. CASE CleanCheck
  <2>1. HasData(On(cleaner))
    BY <1>0 DEF HasData, OneSink
  <2>2. cleaner' = [cleaner EXCEPT !.pc = "reopen"]
    BY <1>2, <2>1 DEF CleanCheck
  <2>3. cleaner'.pc \in Reopening
    BY <1>0, <2>2 DEF CleanerTypes, CleanerStates, Reopening
  <2> QED
    BY <2>3 DEF Due
<1>3. CASE CleanReopen
  BY <1>0, <1>3, ReopenReady DEF CleanReopen
<1>4. CASE CleanRaise
  <2>1. Excuse(TRUE, "gaveUp")
    BY <1>4 DEF CleanRaise, Excuse
  <2> QED
    BY <2>1 DEF FullAndClean, Excuse
<1>5. CASE StillStep
  <2>1. ~CleanTemp /\ ~Finalize /\ \A r \in Rows : ~Judge(r) /\ ~JudgeScheduled(r)
    BY DEF CleanTemp, Finalize, Judge, JudgeScheduled, Reopening
  <2>2. CASE \/ \E r \in Rows : \/ CreateRead(r) \/ CreateInsert(r) \/ EndParent(r)
                                \/ Dispatch(r)
             \/ \E w \in Workers : Redeliver(w)
             \/ HideProvider \/ PurgeStep \/ UNCHANGED vars
    BY <1>1, <2>2 DEF CreateRead, CreateInsert, EndParent, Dispatch, Redeliver,
                      HideProvider, PurgeStep, PurgeTemps, PurgeGraphs, PurgeRows, vars
  <2> QED
    BY <1>2, <1>3, <1>4, <1>5, <2>1, <2>2 DEF StillStep, CleanStep
<1>6. CASE \E w \in Workers : CalmStep(w) \/ SwapStep(w) \/ \E r \in Rows : Take(w, r)
  BY <1>1, <1>6, RunLeaves
<1> QED
  BY <1>5, <1>6, NextKinds

\* The handler of a run that had closed or opened the gate opens it.
LEMMA RecoverReady ==
  ASSUME RunInv, OneSink, TargetSink = "neo4j", NEW w \in Workers, Recover(w),
         worker[w].undo \in {"all", "own"}, provider = "active"
  PROVE  Ready'
<1>0. worker[w].pc \in RunSteps /\ row \in [Rows -> RowTypes]
  BY DEF Recover, At, RunSteps, SwapSteps, RunInv, TypeOK, TableTypes
<1>1. PICK r \in Rows : r = R(w) /\ Exists(r)
  BY <1>0, HeldExists
<1>2. row' = SetReady("neo4j", TRUE) \/ row' = SetOwnReady(r, TRUE)
  BY <1>1 DEF Recover, Visible
<1>3. row'[r].ready /\ row'[r].state = row[r].state
  <2>1. row[r].sink = "neo4j"
    BY DEF OneSink
  <2>2. CASE row' = SetReady("neo4j", TRUE)
    BY <1>0, <1>1, <2>1, <2>2 DEF SetReady, RowTypes
  <2>3. CASE row' = SetOwnReady(r, TRUE)
    BY <1>0, <2>3 DEF SetOwnReady, RowTypes
  <2> QED
    BY <1>2, <2>2, <2>3
<1> QED
  BY <1>1, <1>3 DEF Ready, Exists

\* A run that opens the gate.
LEMMA OpenReady ==
  ASSUME RunInv, NEW w \in Workers, Open(w), provider = "active"
  PROVE  Ready'
<1>0. worker[w].pc \in RunSteps /\ row \in [Rows -> RowTypes]
  BY DEF Open, Saved, At, RunSteps, SwapSteps, RunInv, TypeOK, TableTypes
<1>1. PICK r \in Rows : r = R(w) /\ Exists(r)
  BY <1>0, HeldExists
<1>2. row' = [row EXCEPT ![r] = [row[r] EXCEPT !.ready = TRUE]]
  BY <1>1 DEF Open, Saved
<1>3. row'[r].ready /\ row'[r].state = row[r].state
  BY <1>0, <1>2 DEF RowTypes
<1> QED
  BY <1>1, <1>3 DEF Ready, Exists

\* A worker that dies in a run leaves its row EXECUTING.
LEMMA DiesAbandoned ==
  ASSUME FailInv, NEW w \in Workers, worker[w].pc \in RunSteps, Free(w), row' = row,
         [Next]_vars, "misjudged" \notin excuse, provider = "active"
  PROVE  Due'
<1>0. RunInv /\ Judged /\ WorkerTypes
  BY DEF FailInv, RunInv, TypeOK
<1>1. PICK r \in Rows : r = R(w) /\ Holds(w, r) /\ Exists(r)
  BY <1>0, HeldExists
<1>2. row[r].state = "EXECUTING"
  BY <1>0, <1>1 DEF Judged, HeldExecuting, Exists
<1>3. ASSUME NEW v \in Workers, Holds(v, r)' PROVE FALSE
  <2>1. v = w
    BY <1>0, <1>1, <1>2, <1>3, NextHolds DEF RunInv, OneRunPerRow, BeganRun
  <2> QED
    BY <1>0, <1>3, <2>1, FreeAfter DEF Holds, RunSteps, SwapSteps
<1>4. Abandoned(r)'
  BY <1>2, <1>3 DEF Abandoned, Holds
<1> QED
  BY <1>4 DEF Due

\* A worker gets to it, or leaves its row to the cleanup, or it is an excuse.
LEMMA WorkerDue ==
  ASSUME FailInv, OneSink, ReopensRow, TargetSink = "neo4j", [Next]_vars,
         provider = "active", NEW w \in Workers, WillOpen(worker[w]),
         graph["neo4j"] = "full", FullAndClean'
  PROVE  Ready' \/ Due'
<1> DEFINE Goal == Ready' \/ Due'
<1>0. /\ RunInv /\ WorkerTypes /\ KillMisjudged /\ Judged /\ Fits(worker[w])
      /\ excuse' \cap {"misjudged", "gaveUp"} = {} /\ "misjudged" \notin excuse
      /\ provider' = "active" /\ graph'["neo4j"] = "full"
  BY HistoryGrows DEF FailInv, RunInv, TypeOK, UndoFits, FullAndClean
<1>1. ASSUME NEW e \in {"misjudged", "gaveUp"}, NEW cond, Excuse(cond, e)
      PROVE  ~cond
  BY <1>0, <1>1 DEF Excuse
<1>2. /\ worker[w].pc # "idle" /\ R(w) \in Rows /\ row[R(w)].sink = "neo4j"
      /\ worker[w].pc \in {"drop", "migrate", "open", "recover"} \cup Reopening
  BY <1>0, WorkerFacts DEF WillOpen, Reopening, OneSink
<1>3. ASSUME WillOpen(worker'[w]) PROVE Goal
  BY <1>3 DEF Due
<1>4. ASSUME \/ worker' = worker
             \/ \E v \in Workers : v # w /\ OthersStay(v)
      PROVE  Goal
  BY <1>3, <1>4 DEF OthersStay
<1>5. CASE CalmStep(w)
  <2>1. CASE CheckData(w)
    <3>1. Goto(w, "reopen")
      BY <1>0, <1>2, <2>1 DEF CheckData, HasData
    <3>2. worker'[w].pc = "reopen"
      BY <1>0, <3>1, GotoAfter
    <3> QED
      BY <1>3, <3>2 DEF WillOpen, Reopening
  <2>2. CASE Raise(w)
    <3>1. worker[w].pc \in {"drop", "migrate", "open"} /\ Goto(w, "recover")
      BY <1>2, <2>2 DEF Raise, At, RunSteps, SwapSteps, Reopening
    <3>2. worker[w].undo \in {"all", "own"}
      BY <1>0, <3>1 DEF Fits
    <3>3. worker'[w].pc = "recover" /\ worker'[w].undo = worker[w].undo
      BY <1>0, <3>1, GotoAfter
    <3> QED
      BY <1>3, <3>2, <3>3 DEF WillOpen
  <2>3. CASE RaiseInHandler(w)
    <3>1. \/ At(w, "recover") /\ Excuse(worker[w].undo # "none", "gaveUp")
          \/ worker[w].pc \in Reopening /\ Excuse(TRUE, "gaveUp")
      BY <1>2, <2>3 DEF RaiseInHandler, At, Reopening
    <3> QED
      BY <1>1, <3>1 DEF WillOpen, At, Reopening
  <2>4. CASE Crash(w) \/ Terminate(w)
    <3>1. Free(w) /\ row' = row
      BY <2>4 DEF Crash, Terminate
    <3>2. CASE worker[w].pc \in RunSteps
      BY <1>0, <3>1, <3>2, DiesAbandoned
    <3>3. CASE worker[w].pc \in Reopening
      <4>1. Excuse(TRUE, "gaveUp") \/ "misjudged" \in excuse
        BY <1>0, <1>2, <2>4, <3>3 DEF Crash, Terminate, KillMisjudged, Excuse
      <4> QED
        BY <1>0, <1>1, <4>1
    <3> QED
      BY <1>2, <3>2, <3>3 DEF RunSteps, SwapSteps
  <2>5. ~(\/ Begin(w) \/ CreateTemp(w) \/ Ingest(w) \/ ClearTemp(w) \/ Finish(w)
          \/ MarkFailed(w) \/ FailRow(w))
    BY <1>2 DEF Begin, CreateTemp, Ingest, ClearTemp, Finish, Saved, MarkFailed,
                FailRow, At, Reopening
  <2> QED
    BY <1>5, <2>1, <2>2, <2>3, <2>4, <2>5 DEF CalmStep, FaultStep
<1>6. CASE SwapStep(w)
  <2>1. ~(Gate(w) \/ DropEnd(w) \/ SyncBegin(w) \/ SyncEnd(w))
    BY <1>2 DEF Gate, DropEnd, SyncBegin, SyncEnd, At, Reopening
  <2>2. CASE DropBegin(w)
    <3>1. graph'["neo4j"] # "full"
      BY <1>0, <2>2 DEF DropBegin, RunInv, TypeOK, GraphTypes, Sinks
    <3> QED
      BY <1>0, <3>1
  <2>3. CASE Migrate(w)
    <3>1. worker[w].pc \in RunSteps
      BY <2>3 DEF Migrate, Saved, At, RunSteps, SwapSteps
    <3>2. Exists(R(w))
      BY <1>0, <3>1, HeldExists
    <3>3. Goto(w, "open")
      BY <2>3, <3>2 DEF Migrate, Saved
    <3>4. worker'[w].pc = "open"
      BY <1>0, <3>3, GotoAfter
    <3> QED
      BY <1>3, <3>4 DEF WillOpen
  <2>4. CASE Open(w)
    BY <1>0, <2>4, OpenReady
  <2>5. CASE Recover(w)
    <3>1. worker[w].undo \in {"all", "own"}
      BY <2>5 DEF Recover, At, WillOpen, Reopening
    <3> QED
      BY <1>0, <2>5, <3>1, RecoverReady
  <2>6. CASE ReopenFailed(w)
    <3>1. worker[w].pc \in Reopening /\ Reopen(R(w))
      BY <2>6 DEF ReopenFailed, At, Reopening
    <3>2. Exists(R(w))
      BY <3>1 DEF ReopensRow
    <3> QED
      BY <1>0, <1>2, <3>1, <3>2, ReopenReady
  <2> QED
    BY <1>6, <2>1, <2>2, <2>3, <2>4, <2>5, <2>6 DEF SwapStep
<1>7. ASSUME NEW v \in Workers, v # w, CalmStep(v) \/ SwapStep(v)
      PROVE  Goal
  BY <1>0, <1>4, <1>7, CalmStepMoves, SwapStepMoves DEF FailInv
<1>8. ASSUME NEW v \in Workers, NEW r \in Rows, Take(v, r)
      PROVE  Goal
  <2>1. v # w
    BY <1>2, <1>8 DEF Take, At
  <2> QED
    BY <1>0, <1>4, <1>8, <2>1, TakeMoves
<1>9. CASE StillStep
  BY <1>4, <1>9, StillWorkers
<1> QED
  BY <1>5, <1>6, <1>7, <1>8, <1>9, NextKinds

\* Every step keeps the invariant.
LEMMA NextReopenInv ==
  ASSUME ReopenInv, [Next]_vars, TargetSink = "neo4j"
  PROVE  ReopenInv'
<1>0. FailInv /\ RunInv /\ UndoFits /\ TypeOK /\ OneSink /\ ReopensRow
  BY DEF ReopenInv, FailInv, RunInv
<1>1. FailInv' /\ OneSink' /\ ReopensRow'
  BY <1>0, NextFailInv, NextOneSink, NextReopensRow
<1>2. ASSUME FullAndClean' PROVE Ready' \/ Due'
  <2>0. provider = "active" /\ provider' = "active"
    BY <1>2, HistoryGrows DEF FullAndClean
  <2>1. CASE \E w \in Workers : worker'[w].pc \in {"migrate", "drop"}
    BY <2>1 DEF Due, WillOpen
  <2>2. CASE /\ graph["neo4j"] = "full"
             /\ \A w \in Workers : worker'[w].pc # "drop"
    <3>1. Ready \/ Due
      BY <1>2, <2>0, <2>2, HistoryGrows DEF ReopenInv, FullAndClean
    <3>2. CASE Ready
      BY <1>0, <2>0, <2>2, <3>2, NextReady DEF Ready, Exists
    <3>3. CASE Due
      BY <1>0, <1>2, <2>0, <2>2, <3>3, WorkerDue, AbandonedDue, CleanerDue DEF Due
    <3> QED
      BY <3>1, <3>2, <3>3
  <2>3. graph'["neo4j"] = "full"
    BY <1>2 DEF FullAndClean
  <2> QED
    BY <1>0, <2>1, <2>2, <2>3, NextFull
<1> QED
  BY <1>1, <1>2 DEF ReopenInv

\* With Neo4j as the target a complete graph that a finished scan names is open to
\* queries once everything is quiet: a run that closed the gate opens it, its
\* handler does, or on_failure, or the cleanup, unless the recovery itself failed.
THEOREM GraphReopens ==
  ASSUME TargetSink = "neo4j"
  PROVE  Spec => []FullGraphReopens
<1>1. Init => ReopenInv
  BY InitFailInv DEF Init, NoRow, Idle, Sleeping, ReopenInv, OneSink, ReopensRow,
                     Reopening, FullAndClean, Sinks
<1>2. ReopenInv /\ [Next]_vars => ReopenInv'
  BY NextReopenInv
<1>3. ReopenInv => FullGraphReopens
  <2> SUFFICES ASSUME ReopenInv, Quiet, graph["neo4j"] = "full",
                      excuse \cap {"misjudged", "gaveUp"} = {}
               PROVE  \E r \in {q \in Rows : Exists(q) /\ row[q].sink = TargetSink} :
                        row[r].ready
    BY DEF FullGraphReopens
  <2>1. ~Due
    BY DEF Quiet, At, Sleeping, Due, WillOpen, Abandoned, Reopening
  <2>2. Ready
    BY <2>1 DEF ReopenInv, FullAndClean, Quiet
  <2> QED
    BY <2>2 DEF Ready, ReopenInv, OneSink
<1> QED
  BY <1>1, <1>2, <1>3, PTL DEF Spec


-----------------------------------------------------------------------------
(* A run that completes leaves an open, complete graph *)

\* After opening, the run's own row names the target sink and is open.
IsOpen(r) == row[r].sink = TargetSink /\ row[r].ready
OpenedOnTarget ==
  \A w \in Workers : worker[w].pc \in {"cleartemp", "finish"} => IsOpen(R(w))
OpenedInv == GraphInv /\ (Clean => OpenedOnTarget)

\* Only closing the gate shuts an open row of the target sink.
LEMMA NextStaysOpen ==
  ASSUME TypeOK, [Next]_vars, Clean', NEW r \in Rows, Exists(r), IsOpen(r),
         \A w \in Workers : ~Gate(w)
  PROVE  IsOpen(r)'
<1>0. /\ row \in [Rows -> RowTypes] /\ provider = "active" /\ TargetSink \in Sinks
  BY CleanBefore, SinkAssumption DEF TypeOK, TableTypes, Clean
<1>1. ASSUME row'[r] = row[r] \/ row'[r] = [row[r] EXCEPT !.ready = TRUE]
             \/ (\E state : row'[r] = [row[r] EXCEPT !.state = state])
             \/ row'[r] = [row[r] EXCEPT !.sink = TargetSink]
      PROVE  IsOpen(r)'
  BY <1>0, <1>1 DEF IsOpen, RowTypes
<1>2. ASSUME \/ \E sink : row' = SetReady(sink, TRUE)
             \/ \E q \in Rows : row' = SetOwnReady(q, TRUE)
             \/ \E q \in Rows : \E state : row' = [row EXCEPT ![q].state = state]
             \/ row' = row
      PROVE  IsOpen(r)'
  <2>1. row'[r] = row[r] \/ row'[r] = [row[r] EXCEPT !.ready = TRUE]
        \/ (\E state : row'[r] = [row[r] EXCEPT !.state = state])
    BY <1>0, <1>2 DEF SetReady, SetOwnReady
  <2> QED
    BY <1>1, <2>1
<1>3. CASE StillStep
  <2>1. CASE \E q \in Rows : CreateRead(q) \/ CreateInsert(q)
    BY <1>0, <1>1, <2>1 DEF CreateRead, CreateInsert, Exists
  <2>2. CASE Finalize
    BY <1>0, <1>2, <2>2, CleanerFacts DEF Finalize, TypeOK
  <2>3. CASE CleanReopen
    BY <1>2, <2>3 DEF CleanReopen, Reopen
  <2>4. ~PurgeRows
    BY <1>0 DEF PurgeRows
  <2>5. CASE \/ \E q \in Rows : \/ EndParent(q) \/ Dispatch(q) \/ Judge(q)
                                \/ JudgeScheduled(q)
             \/ \E w \in Workers : Redeliver(w)
             \/ CleanTemp \/ CleanCheck \/ CleanRaise \/ HideProvider
             \/ PurgeTemps \/ PurgeGraphs \/ UNCHANGED vars
    <3>1. row' = row
      BY <2>5 DEF EndParent, Dispatch, Judge, JudgeScheduled, Redeliver, CleanTemp,
                  CleanCheck, CleanRaise, HideProvider, PurgeTemps, PurgeGraphs, vars
    <3> QED
      BY <1>2, <3>1
  <2> QED
    BY <1>3, <2>1, <2>2, <2>3, <2>4, <2>5 DEF StillStep, CleanStep, PurgeStep
<1>4. ASSUME NEW w \in Workers, \E q \in Rows : Take(w, q)
      PROVE  IsOpen(r)'
  BY <1>2, <1>4 DEF Take
<1>5. ASSUME NEW w \in Workers, CalmStep(w)
      PROVE  IsOpen(r)'
  <2>1. worker[w].pc # "idle"
    BY <1>5 DEF CalmStep, Begin, CreateTemp, Ingest, ClearTemp, Finish, Saved, MarkFailed,
           FailRow, CheckData, FaultStep, Raise, RaiseInHandler, Crash, Terminate, At,
           RunSteps, SwapSteps, Reopening
  <2>2. R(w) \in Rows
    BY <2>1, WorkerFacts DEF TypeOK
  <2>3. CASE Finish(w)
    <3>1. row' = row \/ row' = [row EXCEPT ![R(w)] = [row[R(w)] EXCEPT !.state = "COMPLETED"]]
      BY <2>3 DEF Finish, Saved
    <3>2. row'[r] = row[r] \/ row'[r] = [row[r] EXCEPT !.state = "COMPLETED"]
      BY <1>0, <2>2, <3>1
    <3> QED
      BY <1>1, <3>2
  <2>4. CASE Begin(w) \/ MarkFailed(w) \/ FailRow(w)
    BY <1>2, <2>2, <2>4 DEF Begin, MarkFailed, FailRow
  <2>5. CASE CreateTemp(w) \/ Ingest(w) \/ ClearTemp(w) \/ CheckData(w) \/ FaultStep(w)
    <3>1. row' = row
      BY <2>5 DEF CreateTemp, Ingest, ClearTemp, CheckData, FaultStep, Raise,
                  RaiseInHandler, Crash, Terminate
    <3> QED
      BY <1>2, <3>1
  <2> QED
    BY <1>5, <2>3, <2>4, <2>5 DEF CalmStep
<1>6. ASSUME NEW w \in Workers, SwapStep(w)
      PROVE  IsOpen(r)'
  <2>1. worker[w].pc # "idle"
    BY <1>6 DEF SwapStep, Gate, DropBegin, DropEnd, SyncBegin, SyncEnd, Migrate, Open,
           Saved, Recover, ReopenFailed, At
  <2>2. R(w) \in Rows
    BY <2>1, WorkerFacts DEF TypeOK
  <2>3. CASE Migrate(w) \/ Open(w)
    <3>1. \/ row' = row
          \/ row' = [row EXCEPT ![R(w)] = [row[R(w)] EXCEPT !.sink = TargetSink]]
          \/ row' = [row EXCEPT ![R(w)] = [row[R(w)] EXCEPT !.ready = TRUE]]
      BY <2>3 DEF Migrate, Open, Saved
    <3>2. \/ row'[r] = row[r] \/ row'[r] = [row[r] EXCEPT !.sink = TargetSink]
          \/ row'[r] = [row[r] EXCEPT !.ready = TRUE]
      BY <1>0, <2>2, <3>1
    <3> QED
      BY <1>1, <3>2
  <2>4. CASE Recover(w) \/ ReopenFailed(w)
    BY <1>2, <2>2, <2>4 DEF Recover, ReopenFailed, Reopen
  <2>5. CASE DropBegin(w) \/ DropEnd(w) \/ SyncBegin(w) \/ SyncEnd(w)
    BY <1>2, <2>5 DEF DropBegin, DropEnd, SyncBegin, SyncEnd
  <2> QED
    BY <1>6, <2>3, <2>4, <2>5 DEF SwapStep
<1> QED
  BY <1>3, <1>4, <1>5, <1>6, NextKinds

\* A worker comes to the last steps of a run only by opening its row.
LEMMA NextOpens ==
  ASSUME TypeOK, UndoFits, [Next]_vars, NEW w \in Workers,
         worker'[w].pc \in {"cleartemp", "finish"}
  PROVE  /\ R(w)' = R(w)
         /\ \/ Open(w) /\ Exists(R(w))
            \/ worker[w].pc \in {"cleartemp", "finish"}
<1>1. WorkerTypes
  BY DEF TypeOK
<1>2. CASE worker'[w] = worker[w]
  BY <1>2, SameRow
<1>3. ASSUME NEW v \in Workers, OthersStay(v), worker'[w] # worker[w] PROVE v = w
  BY <1>3 DEF OthersStay
<1>4. CASE StillStep
  BY <1>2, <1>4, StillWorkers
<1>5. ASSUME NEW v \in Workers, NEW r \in Rows, Take(v, r) PROVE worker'[w] = worker[w]
  <2>1. worker'[v].pc \in {"begin"} \/ worker'[v] = worker[v]
    BY <1>1, <1>5 DEF Take, WorkerTypes, Idle
  <2> QED
    BY <1>1, <1>3, <1>5, <2>1, TakeMoves
<1>6. ASSUME CalmStep(w)
      PROVE  R(w)' = R(w) /\ worker[w].pc \in {"cleartemp", "finish"}
  <2>1. CASE ClearTemp(w)
    <3>1. CASE At(w, "cleartemp") /\ Goto(w, "finish")
      BY <1>1, <3>1, GotoAfter, SameRow DEF At
    <3>2. CASE Goto(w, "xfail") \/ Goto(w, "failrow") \/ Free(w)
      BY <1>1, <3>2, GotoAfter, FreeAfter
    <3> QED
      BY <2>1, <3>1, <3>2 DEF ClearTemp
  <2>2. CASE \/ Goto(w, "failtemp") \/ Free(w) \/ Goto(w, "ingest") \/ Goto(w, "gate")
             \/ Goto(w, "recover") \/ Goto(w, "xtemp") \/ Goto(w, "xfail")
             \/ Goto(w, "failrow") \/ Goto(w, "check") \/ Goto(w, "reopen")
    BY <1>1, <2>2, GotoAfter, FreeAfter
  <2>3. CASE worker' = [worker EXCEPT ![w].pc = "temp", ![w].undo = "none"]
    BY <1>1, <2>3, GotoUndoAfter
  <2>4. CASE Begin(w)
    BY <2>2, <2>3, <2>4, BeginFacts
  <2>5. CASE CreateTemp(w) \/ Ingest(w) \/ Finish(w) \/ MarkFailed(w) \/ FailRow(w)
             \/ CheckData(w) \/ FaultStep(w)
    BY <2>2, <2>5 DEF CreateTemp, Ingest, Finish, Saved, MarkFailed, FailRow, CheckData,
           FaultStep, Raise, RaiseInHandler, Crash, Terminate
  <2> QED
    BY <1>6, <2>1, <2>4, <2>5 DEF CalmStep
<1>7. ASSUME SwapStep(w)
      PROVE  R(w)' = R(w) /\ Open(w) /\ Exists(R(w))
  <2>1. CASE Open(w) /\ Exists(R(w))
    BY <1>1, <2>1, GotoAfter, SameRow DEF Open, Saved
  <2>2. CASE \/ Free(w) \/ Goto(w, "recover") \/ Goto(w, "dropping")
             \/ Goto(w, "syncing") \/ Goto(w, "open") \/ Goto(w, "xtemp")
    BY <1>1, <2>2, GotoAfter, FreeAfter
  <2>3. CASE \E pc \in {"drop", "sync", "recover", "migrate"} : \E undo :
               worker' = [worker EXCEPT ![w].pc = pc, ![w].undo = undo]
    BY <1>1, <2>3, GotoUndoAfter
  <2>4. CASE \/ Gate(w) \/ DropBegin(w) \/ SyncBegin(w) \/ SyncEnd(w) \/ Migrate(w)
             \/ Open(w) \/ Recover(w) \/ ReopenFailed(w)
    BY <2>1, <2>2, <2>3, <2>4 DEF Gate, DropBegin, SyncBegin, SyncEnd, Migrate, Open, Saved,
           Recover, ReopenFailed
  <2>5. CASE DropEnd(w)
    BY <2>3, <2>5 DEF DropEnd
  <2> QED
    BY <1>7, <2>4, <2>5 DEF SwapStep
<1>8. ASSUME NEW v \in Workers, CalmStep(v) \/ SwapStep(v) PROVE v = w \/ worker'[w] = worker[w]
  BY <1>1, <1>3, <1>8, CalmStepMoves, SwapStepMoves
<1> QED
  BY <1>2, <1>4, <1>5, <1>6, <1>7, <1>8, NextKinds

LEMMA NextOpenedInv ==
  ASSUME OpenedInv, [Next]_vars
  PROVE  OpenedInv'
<1>1. GraphInv'
  BY NextGraphInv DEF OpenedInv
<1>2. ASSUME Clean', NEW w \in Workers, worker'[w].pc \in {"cleartemp", "finish"}
      PROVE  IsOpen(R(w))'
  <2>1. Clean /\ Swap /\ RunInv /\ TypeOK /\ UndoFits /\ OpenedOnTarget
    BY <1>2, CleanBefore DEF OpenedInv, GraphInv, RunInv
  <2>2. /\ R(w)' = R(w)
        /\ \/ Open(w) /\ Exists(R(w))
           \/ worker[w].pc \in {"cleartemp", "finish"}
    BY <1>2, <2>1, NextOpens
  <2>3. R(w) \in Rows /\ Exists(R(w)) /\ worker[w].pc \in SwapSteps
    <3>1. worker[w].pc \in {"open", "cleartemp", "finish"}
      BY <2>2 DEF Open, Saved, At
    <3> QED
      BY <2>1, <3>1, HeldExists DEF RunSteps, SwapSteps, Clean
  <2>4. CASE Open(w)
    <3>1. worker[w].pc = "open" /\ row' = [row EXCEPT ![R(w)] = [row[R(w)] EXCEPT !.ready = TRUE]]
      BY <2>3, <2>4 DEF Open, Saved, At
    <3>2. row'[R(w)].ready /\ row'[R(w)].sink = row[R(w)].sink
      BY <2>1, <2>3, <3>1 DEF TypeOK, TableTypes, RowTypes
    <3>3. row[R(w)].sink = TargetSink
      BY <2>1, <3>1 DEF Swap, OpenOnTarget
    <3> QED
      BY <2>2, <3>2, <3>3 DEF IsOpen
  <2>5. CASE worker[w].pc \in {"cleartemp", "finish"}
    <3>1. \A v \in Workers : ~Gate(v)
      <4> SUFFICES ASSUME NEW v \in Workers, Gate(v) PROVE FALSE
        OBVIOUS
      <4>1. ~(Replacing # {})
        BY <1>2, NotExcused DEF Gate, PastGate
      <4> QED
        BY <2>3, <4>1 DEF Replacing
    <3>2. PICK r \in Rows : r = R(w)
      BY <2>3
    <3>3. Exists(r) /\ IsOpen(r)
      BY <2>1, <2>3, <2>5, <3>2 DEF OpenedOnTarget
    <3>4. IsOpen(r)'
      BY <1>2, <2>1, <3>1, <3>3, NextStaysOpen
    <3> QED
      BY <2>2, <3>2, <3>4 DEF IsOpen
  <2> QED
    BY <2>2, <2>4, <2>5
<1> QED
  BY <1>1, <1>2 DEF OpenedInv, OpenedOnTarget

\* Only the last step of a run completes a row, its own.
LEMMA NextCompletes ==
  ASSUME RunInv, [Next]_vars, NEW r \in Rows,
         row[r].state # "COMPLETED", row'[r].state = "COMPLETED"
  PROVE  \E w \in Workers : Finish(w) /\ R(w) = r /\ Exists(r)
<1>0. row \in [Rows -> RowTypes] /\ WorkerTypes
  BY DEF RunInv, TypeOK, TableTypes
<1>1. row' # row
  OBVIOUS
<1>2. ~\E sink, value : row' = SetReady(sink, value) \/ \E q : row' = SetOwnReady(q, value)
  BY <1>0, GatesKeepStates
<1>3. ASSUME NEW q \in Rows, NEW state \in {"EXECUTING", "FAILED"},
             row' = [row EXCEPT ![q].state = state]
      PROVE  FALSE
  BY <1>0, <1>3 DEF RowTypes
<1>4. ~StillStep
  <2>1. \A q \in Rows : ~CreateRead(q)
    BY <1>0 DEF CreateRead
  <2>2. \A q \in Rows : ~CreateInsert(q)
    BY <1>0 DEF CreateInsert, NoRow, RowTypes
  <2>3. ~Finalize
    BY <1>1, <1>3, CleanerFacts DEF Finalize, RunInv, TypeOK
  <2>4. ~CleanReopen
    BY <1>1, <1>2 DEF CleanReopen, Reopen
  <2>5. ~PurgeRows
    BY DEF PurgeRows, NoRow
  <2> QED
    BY <1>1, <2>1, <2>2, <2>3, <2>4, <2>5
    DEF StillStep, EndParent, Dispatch, Judge, JudgeScheduled, Redeliver, CleanStep, CleanTemp,
        CleanCheck, CleanRaise, HideProvider, PurgeStep, PurgeTemps, PurgeGraphs, vars
<1>5. \A w \in Workers : ~MoveStep(w) /\ ~FaultStep(w) /\ \A q \in Rows : ~Take(w, q)
  BY <1>1 DEF MoveStep, CreateTemp, Ingest, DropBegin, DropEnd, SyncBegin, SyncEnd,
              ClearTemp, CheckData, FaultStep, Raise, RaiseInHandler, Crash, Terminate,
              Take
<1>6. \A w \in Workers : ~Begin(w) /\ ~MarkFailed(w) /\ ~FailRow(w)
  <2> SUFFICES ASSUME NEW w \in Workers, Begin(w) \/ MarkFailed(w) \/ FailRow(w)
               PROVE  FALSE
    OBVIOUS
  <2>1. R(w) \in Rows
    BY <1>0, WorkerFacts DEF Begin, MarkFailed, FailRow, At
  <2> QED
    BY <1>1, <1>3, <2>1 DEF Begin, MarkFailed, FailRow
<1>7. \A w \in Workers : ~Gate(w) /\ ~Recover(w) /\ ~ReopenFailed(w)
  BY <1>1, <1>2 DEF Gate, Recover, ReopenFailed, Reopen
<1>8. \A w \in Workers : ~Migrate(w) /\ ~Open(w)
  BY <1>0 DEF Migrate, Open, Saved, RowTypes
<1>9. PICK w \in Workers : Finish(w)
  BY <1>4, <1>5, <1>6, <1>7, <1>8, NextKinds DEF CalmStep, SwapStep, MoveStep
<1>10. Exists(R(w)) /\ row' = [row EXCEPT ![R(w)] = [row[R(w)] EXCEPT !.state = "COMPLETED"]]
  BY <1>1, <1>9 DEF Finish, Saved
<1>11. R(w) = r
  BY <1>10
<1> QED
  BY <1>9, <1>10, <1>11

\* A completed run leaves its row open on the target sink, over a complete copy.
CompletesOpen ==
  \A r \in Rows :
    Clean' /\ row[r].state # "COMPLETED" /\ row'[r].state = "COMPLETED"
      => row'[r].ready /\ row'[r].sink = TargetSink /\ graph'[TargetSink] = "full"

\* While no way past the gate was taken and the provider exists, a row becomes
\* COMPLETED only when queries pass its gate and find the whole graph: nobody
\* shuts the gate or drops the graph between set_graph_data_ready and the end of
\* the run, however many runs, recoveries and cleanups go on beside it.
THEOREM CompletedRunIsOpen == Spec => [][CompletesOpen]_vars
<1>1. Init => OpenedInv
  <2> SUFFICES ASSUME Init PROVE GraphInv /\ OpenedOnTarget
    BY DEF OpenedInv
  <2>1. \A w \in Workers : worker[w].pc = "idle"
    BY DEF Init, Idle
  <2> QED
    BY <2>1, InitGraphInv DEF OpenedOnTarget
<1>2. OpenedInv /\ [Next]_vars => OpenedInv'
  BY NextOpenedInv
<1>3. OpenedInv /\ [Next]_vars => CompletesOpen
  <2> SUFFICES ASSUME OpenedInv, [Next]_vars, Clean', NEW r \in Rows,
                      row[r].state # "COMPLETED", row'[r].state = "COMPLETED"
               PROVE  row'[r].ready /\ row'[r].sink = TargetSink /\ graph'[TargetSink] = "full"
    BY DEF CompletesOpen
  <2>1. Clean /\ Swap /\ RunInv /\ TypeOK /\ UndoFits /\ OpenedOnTarget
    BY CleanBefore DEF OpenedInv, GraphInv, RunInv
  <2>2. PICK w \in Workers : Finish(w) /\ R(w) = r /\ Exists(r)
    BY <2>1, NextCompletes
  <2>3. worker[w].pc = "finish" /\ graph' = graph
    BY <2>2 DEF Finish, Saved, At, graphVars
  <2>4. IsOpen(r)
    BY <2>1, <2>2, <2>3 DEF OpenedOnTarget
  <2>5. \A v \in Workers : ~Gate(v)
    <3> SUFFICES ASSUME NEW v \in Workers, Gate(v) PROVE FALSE
      OBVIOUS
    <3>1. row' = row \/ row' = SetReady(TargetSink, FALSE)
      BY DEF Gate
    <3> QED
      BY <2>1, <3>1, GatesKeepStates DEF TypeOK, TableTypes
  <2>6. IsOpen(r)'
    BY <2>1, <2>2, <2>4, <2>5, NextStaysOpen
  <2>7. graph[TargetSink] = "full"
    BY <2>1, <2>3 DEF UndoFits, Fits, Swap, FullWhenOwn, Swaps, SwapSteps
  <2> QED
    BY <2>3, <2>6, <2>7 DEF IsOpen
<1> QED
  BY <1>1, <1>2, <1>3, PTL DEF Spec


-----------------------------------------------------------------------------
(* The life of a row *)

\* What follows on what; the last two only after a live run was misjudged
\* (EndsOnce).
Later == {<<"creating", "SCHEDULED">>,
          <<"SCHEDULED", "EXECUTING">>, <<"SCHEDULED", "FAILED">>,
          <<"EXECUTING", "COMPLETED">>, <<"EXECUTING", "FAILED">>,
          <<"COMPLETED", "FAILED">>, <<"FAILED", "COMPLETED">>}
RowsMoveForward ==
  /\ provider = "gone" => provider' = "gone"
  /\ \A r \in Rows :
       row'[r].state # row[r].state =>
         \/ row[r].state = "none" /\ row'[r].state = "creating" /\ provider = "active"
         \/ <<row[r].state, row'[r].state>> \in Later
         \/ row'[r].state = "none" /\ provider' = "gone"

\* A row is inserted, scheduled and run at most once each, and then has ended:
\* whatever is redelivered, revoked, cleaned up or raised, it is never scheduled or
\* started again, and never inserted again after the provider's deletion took it.
\* This is the measure along which RowEnds makes progress.
THEOREM RowsLiveOnce == Spec => [][RowsMoveForward]_vars
<1>1. Init => RunInv
  BY InitRunInv
<1>2. RunInv /\ [Next]_vars => RunInv'
  BY NextRunInv
<1>3. RunInv /\ [Next]_vars => RowsMoveForward
  <2> SUFFICES ASSUME RunInv, [Next]_vars, NEW r \in Rows, row'[r].state # row[r].state
               PROVE  \/ Inserted(r)
                      \/ <<row[r].state, row'[r].state>> \in Later
                      \/ row'[r].state = "none" /\ provider' = "gone"
    BY NextGone DEF RowsMoveForward, Inserted, Later, GoneForGood
  <2>0. row[r] \in RowTypes
    BY DEF RunInv, TypeOK, TableTypes
  <2>1. CASE Inserted(r) \/ BeganRun(r) \/ EndedByCleanup(r) \/ Purged(r)
    BY <2>1 DEF BeganRun, EndedByCleanup, Purged, Later
  <2>2. ASSUME NEW w \in Workers, EndedByRun(w, r)
        PROVE  <<row[r].state, row'[r].state>> \in Later
    <3>1. row[r].state \notin {"none", "creating", "SCHEDULED"}
      BY <2>2 DEF EndedByRun, RunInv, Started, Exists
    <3> QED
      BY <2>0, <2>2, <3>1 DEF EndedByRun, Terminal, RowTypes, Later
  <2>3. ASSUME NEW w \in Workers, EndedByFailure(w, r)
        PROVE  <<row[r].state, row'[r].state>> \in Later
    BY <2>0, <2>3 DEF EndedByFailure, Exists, Terminal, RowTypes, Later
  <2> QED
    BY <2>1, <2>2, <2>3, NextState
<1> QED
  BY <1>1, <1>2, <1>3, PTL DEF Spec
=============================================================================
