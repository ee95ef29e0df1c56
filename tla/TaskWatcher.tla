----------------------------- MODULE TaskWatcher -----------------------------
(***************************************************************************)
(* The browser side of a background task (the cross-provider PDF report).  *)
(* A click starts the task on the server and records it as pending; a poll *)
(* loop at module scope follows it and calls the completion handler, which *)
(* shows a toast.  Every tab keeps the records in memory, zustand's        *)
(* persist writes the whole map to localStorage at each change, and a tab  *)
(* reads it back only when it loads and when it is granted a task's lock.  *)
(*                                                                         *)
(* JavaScript runs to completion: what the code does between two awaits is *)
(* one action here, and tabs interleave at the awaits.                     *)
(***************************************************************************)
EXTENDS Naturals

CONSTANTS
  Tabs,            \* browser tabs of one user, sharing localStorage
  Tasks,           \* task ids the server can hand out
  MaxPollRounds,   \* poll rounds before a task is given up
  LocksSupported,  \* navigator.locks exists (pages served securely)
  MaxLoads         \* bound: page loads in a behaviour

ASSUME WatcherAssumption ==
  /\ MaxPollRounds \in Nat \ {0}
  /\ LocksSupported \in BOOLEAN
  /\ MaxLoads \in Nat

VARIABLES
  server,      \* Tasks -> the state of the task on the server
  page,        \* Tabs -> "closed", "hydrated" (scripts loaded) or "mounted"
  tasks,       \* Tabs -> the zustand map in that tab's memory
  stored,      \* the map in localStorage
  posting,     \* Tabs -> tasks whose generate request has not returned yet
  poll,        \* Tabs -> Tasks -> "idle", "queued" (in activePolls, lock asked) or "polling"
  round,       \* Tabs -> Tasks -> poll rounds the loop has done
  loads,       \* page loads so far
  tracked,     \* history: tasks recorded by trackAndPollTask
  expired,     \* tasks pending for longer than STALE_TASK_MS
  announced,   \* history: Tasks -> completion handlers called (2 stands for more)
  overwritten  \* history: tasks whose stored record a tab replaced by a stale one

watcherVars == <<server, page, tasks, stored, posting, poll, round, loads, tracked,
                 expired, announced, overwritten>>

Absent == "absent"
Pending == "pending"
Ready == "ready"
Record == {Absent, Pending, Ready}
NoTasks == [t \in Tasks |-> Absent]
NoPolls == [t \in Tasks |-> "idle"]

WatcherTypeOK ==
  /\ server \in [Tasks -> {"none", "executing", "completed", "failed"}]
  /\ page \in [Tabs -> {"closed", "hydrated", "mounted"}]
  /\ tasks \in [Tabs -> [Tasks -> Record]]
  /\ stored \in [Tasks -> Record]
  /\ posting \in [Tabs -> SUBSET Tasks]
  /\ poll \in [Tabs -> [Tasks -> {"idle", "queued", "polling"}]]
  /\ round \in [Tabs -> [Tasks -> 0 .. MaxPollRounds - 1]]
  /\ loads \in 0 .. MaxLoads
  /\ tracked \in SUBSET Tasks
  /\ expired \in SUBSET Tasks
  /\ announced \in [Tasks -> 0 .. 2]
  /\ overwritten \in SUBSET Tasks

WatcherInit ==
  /\ server = [t \in Tasks |-> "none"]
  /\ page = [b \in Tabs |-> "closed"]
  /\ tasks = [b \in Tabs |-> NoTasks]
  /\ stored = NoTasks
  /\ posting = [b \in Tabs |-> {}]
  /\ poll = [b \in Tabs |-> NoPolls]
  /\ round = [b \in Tabs |-> [t \in Tasks |-> 0]]
  /\ loads = 0
  /\ tracked = {} /\ expired = {} /\ overwritten = {}
  /\ announced = [t \in Tasks |-> 0]

-----------------------------------------------------------------------------
(* Persistence.  A write of the store saves the whole map of the tab that  *)
(* writes; `own` are the records the write means to change.                *)

Clobbers(old, new, t) == old[t] # new[t] /\ Pending \in {old[t], new[t]}

Save(b, map, own) ==
  /\ tasks' = [tasks EXCEPT ![b] = map]
  /\ stored' = map
  /\ overwritten' = overwritten \cup {t \in Tasks \ own : Clobbers(stored, map, t)}

\* The completion handler of the task's kind, onReady or onError: one toast.
Announce(ts) ==
  announced' = [t \in Tasks |-> IF t \in ts /\ announced[t] < 2 THEN announced[t] + 1
                                ELSE announced[t]]

\* What the map holds once the pending tasks `ts` are settled: a ready task
\* stays for the page to offer its file, a failed one is dismissed.
Settled(map, ts, status) ==
  [t \in Tasks |-> IF t \in ts THEN (IF status = Ready THEN Ready ELSE Absent) ELSE map[t]]

SettleTask(b, t, status) ==
  IF tasks[b][t] = Pending
  THEN Save(b, Settled(tasks[b], {t}, status), {t}) /\ Announce({t})
  ELSE UNCHANGED <<tasks, stored, overwritten, announced>>

-----------------------------------------------------------------------------
(* The server and its answers.                                             *)

ServerSettles(t) ==
  /\ server[t] = "executing"
  /\ server' = [server EXCEPT ![t] = "completed"] \/ server' = [server EXCEPT ![t] = "failed"]
  /\ UNCHANGED <<page, tasks, stored, posting, poll, round, loads, tracked, expired,
                 announced, overwritten>>

\* getTask: the task's state, an error object, or a rejection (a 5xx answer is
\* thrown after the try block returned its promise, and the call may drop).
GetTask(t) == {server[t], "error", "rejects"}

\* pollTaskUntilSettled: ten attempts; the first that shows a settled state or an
\* error ends the round, and a task seen executing until the last one times out.
PollTaskUntilSettled(t) == (GetTask(t) \ {"executing"}) \cup {"timeout"}

-----------------------------------------------------------------------------
(* Poll loops.                                                             *)

\* pollUntilDone up to its first await: one loop per task and tab.
Enqueue(b, ts) ==
  poll' = [poll EXCEPT ![b] = [t \in Tasks |-> IF t \in ts /\ @[t] = "idle" THEN "queued"
                                               ELSE @[t]]]

LockFree(t) == LocksSupported => \A c \in Tabs : poll[c][t] # "polling"

RunWithoutRehydrate(b, t) ==
  /\ poll[b][t] = "queued"
  /\ LockFree(t)
  /\ poll' = [poll EXCEPT ![b][t] = IF tasks[b][t] = Pending THEN "polling" ELSE "idle"]
  /\ UNCHANGED <<server, page, tasks, stored, posting, round, loads, tracked, expired, announced,
                 overwritten>>

\* runIfPending: with the task's lock, read the stored map back and poll only if
\* the task is still pending there.
RunIfPending(b, t) ==
  /\ poll[b][t] = "queued"
  /\ LockFree(t)
  /\ tasks' = [tasks EXCEPT ![b] = stored]
  /\ poll' = [poll EXCEPT ![b][t] = IF stored[t] = Pending THEN "polling" ELSE "idle"]
  /\ UNCHANGED <<server, page, stored, posting, round, loads, tracked, expired, announced,
                 overwritten>>

RoundsUnbounded(b, t, result) ==
  IF result = "timeout"
  THEN /\ round' = [round EXCEPT ![b][t] = (@ + 1) % MaxPollRounds]
       /\ UNCHANGED <<tasks, stored, overwritten, announced, poll>>
  ELSE /\ SettleTask(b, t, IF result = "completed" THEN Ready ELSE "error")
       /\ poll' = [poll EXCEPT ![b][t] = "idle"]
       /\ round' = [round EXCEPT ![b][t] = 0]

OneRoundTooMany(b, t, result) ==
  IF result = "timeout" /\ round[b][t] < MaxPollRounds
  THEN /\ round' = [round EXCEPT ![b][t] = @ + 1]
       /\ UNCHANGED <<tasks, stored, overwritten, announced, poll>>
  ELSE /\ SettleTask(b, t, IF result = "completed" THEN Ready ELSE "error")
       /\ poll' = [poll EXCEPT ![b][t] = "idle"]
       /\ round' = [round EXCEPT ![b][t] = 0]

\* What a round's result does: another round after a timeout, until the rounds are
\* used up; anything else settles the task (the catch block settles a rejection).
AfterRound(b, t, result) ==
  IF result = "timeout" /\ round[b][t] + 1 < MaxPollRounds
  THEN /\ round' = [round EXCEPT ![b][t] = @ + 1]
       /\ UNCHANGED <<tasks, stored, overwritten, announced, poll>>
  ELSE /\ SettleTask(b, t, IF result = "completed" THEN Ready ELSE "error")
       /\ poll' = [poll EXCEPT ![b][t] = "idle"]
       /\ round' = [round EXCEPT ![b][t] = 0]

\* One iteration of runPollLoop, and pollUntilDone's catch and finally after it.
PollRound(b, t) ==
  /\ poll[b][t] = "polling"
  /\ \E result \in PollTaskUntilSettled(t) : AfterRound(b, t, result)
  /\ UNCHANGED <<server, page, posting, loads, tracked, expired>>

-----------------------------------------------------------------------------
(* What the user does.                                                     *)

\* "Generate" posts the request; the server starts the task.
GeneratePdf(b, t) ==
  /\ page[b] = "mounted"
  /\ server[t] = "none"
  /\ server' = [server EXCEPT ![t] = "executing"]
  /\ posting' = [posting EXCEPT ![b] = @ \cup {t}]
  /\ UNCHANGED <<page, tasks, stored, poll, round, loads, tracked, expired, announced,
                 overwritten>>

TrackDismissingAll(b, t) ==
  /\ t \in posting[b]
  /\ posting' = [posting EXCEPT ![b] = @ \ {t}]
  /\ Save(b, [NoTasks EXCEPT ![t] = Pending], Tasks)
  /\ Enqueue(b, {t})
  /\ tracked' = tracked \cup {t}
  /\ UNCHANGED <<server, page, round, loads, expired, announced>>

\* trackAndPollTask: settled records of the kind make way for the new one.
TrackAndPollTask(b, t) ==
  LET dismissed == {u \in Tasks : tasks[b][u] = Ready}
  IN  /\ t \in posting[b]
      /\ posting' = [posting EXCEPT ![b] = @ \ {t}]
      /\ Save(b, [u \in Tasks |-> IF u = t THEN Pending
                                  ELSE IF u \in dismissed THEN Absent ELSE tasks[b][u]],
              dismissed \cup {t})
      /\ Enqueue(b, {t})
      /\ tracked' = tracked \cup {t}
      /\ UNCHANGED <<server, page, round, loads, expired, announced>>

\* A tab loads, or reloads: its store starts from localStorage.
LoadPage(b) ==
  /\ page[b] = "closed" /\ loads < MaxLoads
  /\ page' = [page EXCEPT ![b] = "hydrated"]
  /\ tasks' = [tasks EXCEPT ![b] = stored]
  /\ loads' = loads + 1
  /\ UNCHANGED <<server, stored, posting, poll, round, tracked, expired, announced, overwritten>>

\* The watcher's mount effect, resumePendingTasks: settled records are dismissed,
\* tasks pending for too long settle as errors unasked, the others are polled.
ResumePendingTasks(b) ==
  LET pending == {t \in Tasks : tasks[b][t] = Pending}
      kept == [t \in Tasks |-> IF t \in pending \ expired THEN Pending ELSE Absent]
  IN  /\ page[b] = "hydrated"
      /\ page' = [page EXCEPT ![b] = "mounted"]
      /\ IF kept = tasks[b]
         THEN UNCHANGED <<tasks, stored, overwritten>>
         ELSE Save(b, kept, {t \in Tasks : kept[t] # tasks[b][t]})
      /\ Announce(pending \cap expired)
      /\ Enqueue(b, pending \ expired)
      /\ UNCHANGED <<server, posting, round, loads, tracked, expired>>

\* The tab closes (a reload is this and LoadPage): its memory, its poll loops and the
\* locks they hold or wait for are gone.
ClosePage(b) ==
  /\ page[b] # "closed"
  /\ page' = [page EXCEPT ![b] = "closed"]
  /\ tasks' = [tasks EXCEPT ![b] = NoTasks]
  /\ posting' = [posting EXCEPT ![b] = {}]
  /\ poll' = [poll EXCEPT ![b] = NoPolls]
  /\ round' = [round EXCEPT ![b] = [t \in Tasks |-> 0]]
  /\ UNCHANGED <<server, stored, loads, tracked, expired, announced, overwritten>>

\* Half an hour passes since the task was recorded.
Expire(t) ==
  /\ t \in tracked \ expired
  /\ expired' = expired \cup {t}
  /\ UNCHANGED <<server, page, tasks, stored, posting, poll, round, loads, tracked, announced,
                 overwritten>>

TabStep(b) ==
  \/ LoadPage(b) \/ ResumePendingTasks(b) \/ ClosePage(b)
  \/ \E t \in Tasks : \/ GeneratePdf(b, t) \/ TrackAndPollTask(b, t)
                      \/ RunIfPending(b, t) \/ PollRound(b, t)

WatcherNext ==
  \/ \E b \in Tabs : TabStep(b)
  \/ \E t \in Tasks : ServerSettles(t) \/ Expire(t)

\* A poll round always returns (its attempts are counted and a failing call rejects),
\* and Web Locks grants the requests for a lock in the order they were made.
WatcherFairness ==
  \A b \in Tabs, t \in Tasks :
    /\ WF_watcherVars(PollRound(b, t))
    /\ SF_watcherVars(RunIfPending(b, t))

WatcherSpec == WatcherInit /\ [][WatcherNext]_watcherVars /\ WatcherFairness
-----------------------------------------------------------------------------
(* Properties.                                                             *)

\* While a task's record is not overwritten by another tab's stale copy and the task
\* is not given up for its age, its completion is announced at most once, whatever
\* tabs are opened, closed or waiting for its lock: the rehydration under the lock and
\* settleTask's test of the record keep the second loop silent.
AnnouncedOnce ==
  LocksSupported => \A t \in Tasks \ (overwritten \cup expired) : announced[t] <= 1

\* A task the watcher has taken on and not announced is still pending in localStorage,
\* so that the next page load resumes it, unless another tab's write replaced its record.
UnannouncedTaskIsStored ==
  \A t \in tracked \ overwritten : announced[t] = 0 => stored[t] = Pending

\* Every poll loop comes to its end, the ones that wait for a lock included: no task
\* stays in activePolls, where it would keep later requests from polling it.
EveryPollEnds ==
  \A b \in Tabs, t \in Tasks : (poll[b][t] # "idle") ~> (poll[b][t] = "idle")
=============================================================================
