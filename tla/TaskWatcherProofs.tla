--------------------------- MODULE TaskWatcherProofs ---------------------------
(***************************************************************************)
(* Proofs about TaskWatcher, for any sets of tabs and tasks and any number *)
(* of poll rounds and loads: its types, that a task not announced yet is   *)
(* resumed by the next load, that it is announced once, and that a poll    *)
(* loop is in an open tab and moves on (the safety part of EveryPollEnds). *)
(***************************************************************************)
EXTENDS TaskWatcher, TLAPS

Maps == [Tasks -> Record]
PollStates == {"idle", "queued", "polling"}

-----------------------------------------------------------------------------
(* Types *)

LEMMA InitWatcherTypes == WatcherInit => WatcherTypeOK
<1> SUFFICES ASSUME WatcherInit PROVE WatcherTypeOK
  OBVIOUS
<1>1. loads \in 0 .. MaxLoads
  BY WatcherAssumption DEF WatcherInit
<1>2. 0 \in 0 .. MaxPollRounds - 1
  BY WatcherAssumption
<1>3. NoTasks \in Maps
  BY DEF NoTasks, Maps, Record
<1> QED
  BY <1>1, <1>2, <1>3
  DEF WatcherInit, WatcherTypeOK, NoPolls, Maps

\* What a save and an announcement leave.
LEMMA SaveTypes ==
  ASSUME WatcherTypeOK, NEW b \in Tabs, NEW map \in Maps, NEW own, Save(b, map, own)
  PROVE  /\ tasks' \in [Tabs -> [Tasks -> Record]] /\ stored' \in [Tasks -> Record]
         /\ overwritten' \in SUBSET Tasks
         /\ tasks'[b] = map /\ stored' = map
         /\ \A c \in Tabs \ {b} : tasks'[c] = tasks[c]
  BY DEF WatcherTypeOK, Save, Maps

LEMMA AnnounceTypes ==
  ASSUME WatcherTypeOK, NEW ts, Announce(ts)
  PROVE  /\ announced' \in [Tasks -> 0 .. 2]
         /\ \A t \in Tasks : announced'[t] = IF t \in ts /\ announced[t] < 2 THEN announced[t] + 1
                                             ELSE announced[t]
  BY DEF WatcherTypeOK, Announce

LEMMA EnqueueTypes ==
  ASSUME WatcherTypeOK, NEW b \in Tabs, NEW ts, Enqueue(b, ts)
  PROVE  /\ poll' \in [Tabs -> [Tasks -> PollStates]]
         /\ \A c \in Tabs, t \in Tasks : poll'[c][t] = "polling" <=> poll[c][t] = "polling"
<1>1. poll \in [Tabs -> [Tasks -> PollStates]]
  BY DEF WatcherTypeOK, PollStates
<1>2. [t \in Tasks |-> IF t \in ts /\ poll[b][t] = "idle" THEN "queued" ELSE poll[b][t]]
        \in [Tasks -> PollStates]
  BY <1>1 DEF PollStates
<1>3. poll' = [poll EXCEPT ![b] = [t \in Tasks |-> IF t \in ts /\ poll[b][t] = "idle"
                                                   THEN "queued" ELSE poll[b][t]]]
  BY <1>1 DEF Enqueue
<1> QED
  BY <1>1, <1>2, <1>3

\* A settled map.
LEMMA SettledTypes ==
  ASSUME WatcherTypeOK, NEW b \in Tabs, NEW t \in Tasks, NEW status
  PROVE  /\ Settled(tasks[b], {t}, status) \in Maps
         /\ Settled(tasks[b], {t}, status)[t] # Pending
         /\ \A u \in Tasks \ {t} : Settled(tasks[b], {t}, status)[u] = tasks[b][u]
  BY DEF WatcherTypeOK, Settled, Maps, Record, Pending, Ready, Absent

\* One poll round: what it may do to the records of its task.
LEMMA PollRoundEffect ==
  ASSUME WatcherTypeOK, NEW b \in Tabs, NEW t \in Tasks, PollRound(b, t)
  PROVE  /\ poll[b][t] = "polling"
         /\ poll' \in [Tabs -> [Tasks -> PollStates]]
         /\ \A c \in Tabs, u \in Tasks : poll'[c][u] = "polling" => poll[c][u] = "polling"
         /\ round' \in [Tabs -> [Tasks -> 0 .. MaxPollRounds - 1]]
         /\ UNCHANGED <<server, page, posting, loads, tracked, expired>>
         /\ \/ UNCHANGED <<tasks, stored, overwritten, announced>>
            \/ /\ tasks[b][t] = Pending /\ Announce({t})
               /\ \E status : Save(b, Settled(tasks[b], {t}, status), {t})
<1>1. PICK result \in PollTaskUntilSettled(t) : AfterRound(b, t, result)
  BY DEF PollRound
<1>2. poll[b][t] = "polling" /\ UNCHANGED <<server, page, posting, loads, tracked, expired>>
  BY DEF PollRound
<1>3. poll \in [Tabs -> [Tasks -> PollStates]] /\ round \in [Tabs -> [Tasks -> 0 .. MaxPollRounds - 1]]
  BY DEF WatcherTypeOK, PollStates
<1>4. CASE result = "timeout" /\ round[b][t] + 1 < MaxPollRounds
  <2>1. round' = [round EXCEPT ![b][t] = @ + 1]
        /\ UNCHANGED <<tasks, stored, overwritten, announced, poll>>
    BY <1>1, <1>4 DEF AfterRound
  <2>2. round[b][t] + 1 \in 0 .. MaxPollRounds - 1
    BY <1>3, <1>4, WatcherAssumption
  <2>3. round' \in [Tabs -> [Tasks -> 0 .. MaxPollRounds - 1]]
    BY <1>3, <2>1, <2>2
  <2> QED
    BY <1>2, <1>3, <2>1, <2>3
<1>5. CASE ~(result = "timeout" /\ round[b][t] + 1 < MaxPollRounds)
  <2> DEFINE status == IF result = "completed" THEN Ready ELSE "error"
  <2>1. SettleTask(b, t, status) /\ poll' = [poll EXCEPT ![b][t] = "idle"]
        /\ round' = [round EXCEPT ![b][t] = 0]
    BY <1>1, <1>5 DEF AfterRound
  <2>2. 0 \in 0 .. MaxPollRounds - 1
    BY WatcherAssumption
  <2>3. round' \in [Tabs -> [Tasks -> 0 .. MaxPollRounds - 1]]
    BY <1>3, <2>1, <2>2
  <2>4. poll' \in [Tabs -> [Tasks -> PollStates]]
        /\ \A c \in Tabs, u \in Tasks : poll'[c][u] = "polling" => poll[c][u] = "polling"
    BY <1>3, <2>1 DEF PollStates
  <2> HIDE DEF status
  <2>5. \/ UNCHANGED <<tasks, stored, overwritten, announced>>
        \/ /\ tasks[b][t] = Pending /\ Announce({t})
           /\ \E s : Save(b, Settled(tasks[b], {t}, s), {t})
    BY <2>1 DEF SettleTask
  <2> QED
    BY <1>2, <2>3, <2>4, <2>5
<1> QED
  BY <1>4, <1>5

\* What tracking a task and resuming the pending ones keep of a tab's map.
TrackedMap(b, t) ==
  [u \in Tasks |-> IF u = t THEN Pending ELSE IF tasks[b][u] = Ready THEN Absent ELSE tasks[b][u]]

KeptMap(b) ==
  [t \in Tasks |-> IF tasks[b][t] = Pending /\ t \notin expired THEN Pending ELSE Absent]

LEMMA MapTypes ==
  ASSUME WatcherTypeOK, NEW b \in Tabs, NEW t \in Tasks
  PROVE  TrackedMap(b, t) \in Maps /\ KeptMap(b) \in Maps
  BY DEF WatcherTypeOK, TrackedMap, KeptMap, Maps, Record

LEMMA TrackEffect ==
  ASSUME WatcherTypeOK, NEW b \in Tabs, NEW t \in Tasks, TrackAndPollTask(b, t)
  PROVE  /\ t \in posting[b] /\ posting' = [posting EXCEPT ![b] = @ \ {t}]
         /\ Save(b, TrackedMap(b, t), {u \in Tasks : tasks[b][u] = Ready} \cup {t})
         /\ Enqueue(b, {t})
         /\ tracked' = tracked \cup {t}
         /\ UNCHANGED <<server, page, round, loads, expired, announced>>
<1>1. TrackedMap(b, t) = [u \in Tasks |-> IF u = t THEN Pending
                          ELSE IF u \in {v \in Tasks : tasks[b][v] = Ready} THEN Absent
                          ELSE tasks[b][u]]
  BY DEF TrackedMap
<1> QED
  BY <1>1 DEF TrackAndPollTask

LEMMA ResumeEffect ==
  ASSUME WatcherTypeOK, NEW b \in Tabs, ResumePendingTasks(b)
  PROVE  /\ page[b] = "hydrated" /\ page' = [page EXCEPT ![b] = "mounted"]
         /\ \/ KeptMap(b) = tasks[b] /\ UNCHANGED <<tasks, stored, overwritten>>
            \/ Save(b, KeptMap(b), {t \in Tasks : KeptMap(b)[t] # tasks[b][t]})
         /\ Announce({t \in Tasks : tasks[b][t] = Pending} \cap expired)
         /\ \E ts : Enqueue(b, ts)
         /\ UNCHANGED <<server, posting, round, loads, tracked, expired>>
<1> DEFINE pending == {t \in Tasks : tasks[b][t] = Pending}
           kept == [t \in Tasks |-> IF t \in pending \ expired THEN Pending ELSE Absent]
<1>1. kept = KeptMap(b)
  BY DEF KeptMap
<1>2. /\ page[b] = "hydrated" /\ page' = [page EXCEPT ![b] = "mounted"]
      /\ IF kept = tasks[b]
         THEN UNCHANGED <<tasks, stored, overwritten>>
         ELSE Save(b, kept, {t \in Tasks : kept[t] # tasks[b][t]})
      /\ Announce(pending \cap expired)
      /\ Enqueue(b, pending \ expired)
      /\ UNCHANGED <<server, posting, round, loads, tracked, expired>>
  BY DEF ResumePendingTasks
<1> HIDE DEF kept
<1> QED
  BY <1>1, <1>2

LEMMA StepWatcherTypes == WatcherTypeOK /\ [WatcherNext]_watcherVars => WatcherTypeOK'
<1> SUFFICES ASSUME WatcherTypeOK, [WatcherNext]_watcherVars PROVE WatcherTypeOK'
  OBVIOUS
<1>1. CASE UNCHANGED watcherVars
  BY <1>1 DEF WatcherTypeOK, watcherVars
<1>2. ASSUME NEW b \in Tabs, LoadPage(b) PROVE WatcherTypeOK'
  <2>1. loads' \in 0 .. MaxLoads
    BY <1>2, WatcherAssumption DEF WatcherTypeOK, LoadPage
  <2> QED
    BY <1>2, <2>1 DEF WatcherTypeOK, LoadPage
<1>3. ASSUME NEW b \in Tabs, ClosePage(b) PROVE WatcherTypeOK'
  <2>1. 0 \in 0 .. MaxPollRounds - 1
    BY WatcherAssumption
  <2>2. NoTasks \in [Tasks -> Record] /\ NoPolls \in [Tasks -> {"idle", "queued", "polling"}]
        /\ [t \in Tasks |-> 0] \in [Tasks -> 0 .. MaxPollRounds - 1]
    BY <2>1 DEF NoTasks, NoPolls, Record
  <2>3. round' \in [Tabs -> [Tasks -> 0 .. MaxPollRounds - 1]]
    BY <1>3, <2>2 DEF WatcherTypeOK, ClosePage
  <2> QED
    BY <1>3, <2>2, <2>3 DEF WatcherTypeOK, ClosePage
<1>4. ASSUME NEW b \in Tabs, ResumePendingTasks(b) PROVE WatcherTypeOK'
  <2>1. tasks' \in [Tabs -> [Tasks -> Record]] /\ stored' \in [Tasks -> Record]
        /\ overwritten' \in SUBSET Tasks
    <3>1. KeptMap(b) \in Maps
      BY DEF WatcherTypeOK, KeptMap, Maps, Record
    <3> QED
      BY <1>4, <3>1, ResumeEffect, SaveTypes DEF WatcherTypeOK
  <2>2. announced' \in [Tasks -> 0 .. 2]
    BY <1>4, ResumeEffect, AnnounceTypes
  <2>3. poll' \in [Tabs -> [Tasks -> PollStates]]
    BY <1>4, ResumeEffect, EnqueueTypes
  <2> QED
    BY <1>4, <2>1, <2>2, <2>3, ResumeEffect DEF WatcherTypeOK, PollStates
<1>5. ASSUME NEW b \in Tabs, NEW t \in Tasks, GeneratePdf(b, t) PROVE WatcherTypeOK'
  BY <1>5 DEF WatcherTypeOK, GeneratePdf
<1>6. ASSUME NEW b \in Tabs, NEW t \in Tasks, TrackAndPollTask(b, t) PROVE WatcherTypeOK'
  <2>1. tasks' \in [Tabs -> [Tasks -> Record]] /\ stored' \in [Tasks -> Record]
        /\ overwritten' \in SUBSET Tasks
    BY <1>6, TrackEffect, MapTypes, SaveTypes
  <2>2. poll' \in [Tabs -> [Tasks -> PollStates]]
    BY <1>6, TrackEffect, EnqueueTypes
  <2>3. posting' = [posting EXCEPT ![b] = @ \ {t}] /\ tracked' = tracked \cup {t}
        /\ UNCHANGED <<server, page, round, loads, expired, announced>>
    BY <1>6, TrackEffect
  <2> QED
    BY <2>1, <2>2, <2>3 DEF WatcherTypeOK, PollStates
<1>7. ASSUME NEW b \in Tabs, NEW t \in Tasks, RunIfPending(b, t) PROVE WatcherTypeOK'
  BY <1>7 DEF WatcherTypeOK, RunIfPending
<1>8. ASSUME NEW b \in Tabs, NEW t \in Tasks, PollRound(b, t) PROVE WatcherTypeOK'
  <2>1. tasks' \in [Tabs -> [Tasks -> Record]] /\ stored' \in [Tasks -> Record]
        /\ overwritten' \in SUBSET Tasks
    <3>1. CASE UNCHANGED <<tasks, stored, overwritten, announced>>
      BY <3>1 DEF WatcherTypeOK
    <3>2. ASSUME NEW status, Save(b, Settled(tasks[b], {t}, status), {t})
          PROVE  tasks' \in [Tabs -> [Tasks -> Record]] /\ stored' \in [Tasks -> Record]
                 /\ overwritten' \in SUBSET Tasks
      <4>1. Settled(tasks[b], {t}, status) \in Maps
        BY SettledTypes
      <4> QED
        BY <3>2, <4>1, SaveTypes
    <3> QED
      BY <1>8, <3>1, <3>2, PollRoundEffect
  <2>2. announced' \in [Tasks -> 0 .. 2]
    BY <1>8, PollRoundEffect, AnnounceTypes DEF WatcherTypeOK
  <2> QED
    BY <1>8, <2>1, <2>2, PollRoundEffect DEF WatcherTypeOK, PollStates
<1>9. ASSUME NEW t \in Tasks, ServerSettles(t) \/ Expire(t) PROVE WatcherTypeOK'
  BY <1>9 DEF WatcherTypeOK, ServerSettles, Expire
<1> QED
  BY <1>1, <1>2, <1>3, <1>4, <1>5, <1>6, <1>7, <1>8, <1>9 DEF WatcherNext, TabStep

\* The variables keep their types.
THEOREM WatcherTypeCorrect == WatcherSpec => []WatcherTypeOK
  BY InitWatcherTypes, StepWatcherTypes, PTL DEF WatcherSpec

-----------------------------------------------------------------------------
(* Tasks not announced yet are resumed.  A record is ready only once its    *)
(* handler was called.                                                      *)

ReadyAnnounced ==
  \A t \in Tasks :
    (stored[t] = Ready \/ \E b \in Tabs : tasks[b][t] = Ready) => announced[t] > 0

StoredInv == WatcherTypeOK /\ ReadyAnnounced /\ UnannouncedTaskIsStored

LEMMA RecordsDiffer == Absent # Pending /\ Ready # Pending /\ Absent # Ready
  BY DEF Absent, Pending, Ready

LEMMA InitStoredInv == WatcherInit => StoredInv
<1> SUFFICES ASSUME WatcherInit PROVE StoredInv
  OBVIOUS
<1>1. ReadyAnnounced
  BY RecordsDiffer DEF WatcherInit, ReadyAnnounced, NoTasks
<1>2. UnannouncedTaskIsStored
  BY DEF WatcherInit, UnannouncedTaskIsStored
<1> QED
  BY <1>1, <1>2, InitWatcherTypes DEF StoredInv

\* A save that takes no pending record away but those it announces, and whose map is
\* ready only where an announcement was made.
LEMMA SaveKeepsStored ==
  ASSUME StoredInv, WatcherTypeOK', NEW b \in Tabs, NEW map \in Maps, NEW own,
         Save(b, map, own),
         \A t \in Tasks : announced'[t] >= announced[t],
         \A t \in Tasks \cap own : map[t] = Pending \/ announced'[t] > 0,
         \A t \in Tasks : map[t] = Ready => announced'[t] > 0,
         \A t \in tracked' \ tracked : map[t] = Pending
  PROVE  ReadyAnnounced' /\ UnannouncedTaskIsStored'
<1>0. announced \in [Tasks -> 0 .. 2] /\ announced' \in [Tasks -> 0 .. 2]
      /\ tracked' \subseteq Tasks
  BY DEF StoredInv, WatcherTypeOK
<1>1. /\ tasks'[b] = map /\ stored' = map
      /\ \A c \in Tabs \ {b} : tasks'[c] = tasks[c]
  BY SaveTypes DEF StoredInv
<1>2. ASSUME NEW t \in Tasks, stored'[t] = Ready \/ \E c \in Tabs : tasks'[c][t] = Ready
      PROVE  announced'[t] > 0
  <2>1. CASE map[t] = Ready
    BY <2>1
  <2>2. CASE map[t] # Ready
    <3>1. PICK c \in Tabs \ {b} : tasks[c][t] = Ready
      BY <1>1, <1>2, <2>2
    <3>2. announced[t] > 0
      BY <3>1 DEF StoredInv, ReadyAnnounced
    <3> QED
      BY <1>0, <3>2
  <2> QED
    BY <2>1, <2>2
<1>3. ASSUME NEW t \in tracked' \ overwritten', announced'[t] = 0
      PROVE  stored'[t] = Pending
  <2>1. t \in Tasks /\ announced[t] = 0
    BY <1>0, <1>3
  <2>2. CASE t \notin tracked \/ t \in own
    BY <1>0, <1>1, <1>3, <2>1, <2>2
  <2>3. CASE t \in tracked /\ t \notin own
    <3>1. t \notin overwritten /\ ~Clobbers(stored, map, t)
      BY <1>3, <2>1, <2>3 DEF Save
    <3>2. stored[t] = Pending
      BY <2>1, <2>3, <3>1 DEF StoredInv, UnannouncedTaskIsStored
    <3> QED
      BY <1>1, <3>1, <3>2 DEF Clobbers
  <2> QED
    BY <2>2, <2>3
<1> QED
  BY <1>2, <1>3 DEF ReadyAnnounced, UnannouncedTaskIsStored

\* A step that leaves the stored map and copies it at most.
LEMMA CopyKeepsStored ==
  ASSUME StoredInv, WatcherTypeOK', UNCHANGED <<stored, announced, overwritten, tracked>>,
         \A c \in Tabs : tasks'[c] \in {tasks[c], stored, NoTasks}
  PROVE  ReadyAnnounced' /\ UnannouncedTaskIsStored'
<1>1. UnannouncedTaskIsStored'
  BY DEF StoredInv, UnannouncedTaskIsStored
<1>2. ASSUME NEW t \in Tasks, NEW c \in Tabs, tasks'[c][t] = Ready PROVE announced'[t] > 0
  <2>1. NoTasks[t] # Ready
    BY RecordsDiffer DEF NoTasks
  <2> QED
    BY <1>2, <2>1 DEF StoredInv, ReadyAnnounced
<1>3. \A t \in Tasks : stored'[t] = Ready => announced'[t] > 0
  BY DEF StoredInv, ReadyAnnounced
<1> QED
  BY <1>1, <1>2, <1>3 DEF ReadyAnnounced

LEMMA AnnounceGrows ==
  ASSUME WatcherTypeOK, NEW ts, Announce(ts)
  PROVE  /\ \A t \in Tasks : announced'[t] >= announced[t]
         /\ \A t \in Tasks \cap ts : announced'[t] > 0
<1>1. announced \in [Tasks -> 0 .. 2]
  BY DEF WatcherTypeOK
<1> QED
  BY <1>1, AnnounceTypes

LEMMA PollKeepsStored ==
  ASSUME StoredInv, WatcherTypeOK', NEW b \in Tabs, NEW t \in Tasks, PollRound(b, t)
  PROVE  ReadyAnnounced' /\ UnannouncedTaskIsStored'
<1>1. WatcherTypeOK /\ tracked' = tracked
  BY PollRoundEffect DEF StoredInv
<1>2. CASE UNCHANGED <<tasks, stored, overwritten, announced>>
  BY <1>1, <1>2, CopyKeepsStored
<1>3. ASSUME Announce({t}), NEW status, Save(b, Settled(tasks[b], {t}, status), {t})
      PROVE  ReadyAnnounced' /\ UnannouncedTaskIsStored'
  <2> DEFINE map == Settled(tasks[b], {t}, status)
  <2>1. map \in Maps /\ \A u \in Tasks \ {t} : map[u] = tasks[b][u]
    BY <1>1, SettledTypes
  <2>2. \A u \in Tasks : announced'[u] >= announced[u]
    BY <1>1, <1>3, AnnounceGrows
  <2>3. announced'[t] > 0
    BY <1>1, <1>3, AnnounceGrows
  <2> HIDE DEF map
  <2>4. ASSUME NEW u \in Tasks, map[u] = Ready PROVE announced'[u] > 0
    <3>1. CASE u = t
      BY <2>3, <3>1
    <3>2. CASE u # t
      <4>1. announced[u] > 0
        BY <2>1, <2>4, <3>2 DEF StoredInv, ReadyAnnounced
      <4>2. announced[u] \in 0 .. 2 /\ announced'[u] \in 0 .. 2
        BY <1>1 DEF WatcherTypeOK
      <4> QED
        BY <2>2, <4>1, <4>2
    <3> QED
      BY <3>1, <3>2
  <2>5. Save(b, map, {t})
    BY <1>3 DEF map
  <2> QED
    BY <1>1, <2>1, <2>2, <2>3, <2>4, <2>5, SaveKeepsStored
<1> QED
  BY <1>1, <1>2, <1>3, PollRoundEffect

LEMMA TrackKeepsStored ==
  ASSUME StoredInv, WatcherTypeOK', NEW b \in Tabs, NEW t \in Tasks, TrackAndPollTask(b, t)
  PROVE  ReadyAnnounced' /\ UnannouncedTaskIsStored'
<1> DEFINE own == {u \in Tasks : tasks[b][u] = Ready} \cup {t}
<1>1. WatcherTypeOK /\ announced \in [Tasks -> 0 .. 2]
  BY DEF StoredInv, WatcherTypeOK
<1>2. /\ Save(b, TrackedMap(b, t), own) /\ TrackedMap(b, t) \in Maps
      /\ announced' = announced /\ tracked' = tracked \cup {t}
  BY <1>1, TrackEffect, MapTypes
<1>3. TrackedMap(b, t)[t] = Pending /\ \A u \in Tasks : TrackedMap(b, t)[u] # Ready
  BY RecordsDiffer DEF TrackedMap
<1>4. \A u \in Tasks \cap own : TrackedMap(b, t)[u] = Pending \/ announced'[u] > 0
  BY <1>2, <1>3 DEF StoredInv, ReadyAnnounced
<1>5. \A u \in Tasks : announced'[u] >= announced[u]
  BY <1>1, <1>2
<1> HIDE DEF own
<1> QED
  BY <1>2, <1>3, <1>4, <1>5, SaveKeepsStored

LEMMA ResumeKeepsStored ==
  ASSUME StoredInv, WatcherTypeOK', NEW b \in Tabs, ResumePendingTasks(b)
  PROVE  ReadyAnnounced' /\ UnannouncedTaskIsStored'
<1> DEFINE own == {t \in Tasks : KeptMap(b)[t] # tasks[b][t]}
<1>1. WatcherTypeOK /\ announced \in [Tasks -> 0 .. 2] /\ announced' \in [Tasks -> 0 .. 2]
  BY DEF StoredInv, WatcherTypeOK
<1>2. tracked' = tracked /\ KeptMap(b) \in Maps
  BY <1>1, ResumeEffect DEF WatcherTypeOK, KeptMap, Maps, Record
<1>3. /\ \A t \in Tasks : announced'[t] >= announced[t]
      /\ \A t \in Tasks : tasks[b][t] = Pending /\ t \in expired => announced'[t] > 0
  <2>1. Announce({t \in Tasks : tasks[b][t] = Pending} \cap expired)
    BY <1>1, ResumeEffect
  <2>2. /\ \A t \in Tasks : announced'[t] >= announced[t]
        /\ \A t \in Tasks \cap ({u \in Tasks : tasks[b][u] = Pending} \cap expired) :
             announced'[t] > 0
    BY <1>1, <2>1, AnnounceGrows
  <2> QED
    BY <2>2
<1>4. CASE UNCHANGED <<tasks, stored, overwritten>>
  <2>1. ASSUME NEW t \in Tasks, stored[t] = Ready \/ \E c \in Tabs : tasks[c][t] = Ready
        PROVE  announced'[t] > 0
    <3>1. announced[t] > 0
      BY <2>1 DEF StoredInv, ReadyAnnounced
    <3> QED
      BY <1>1, <1>3, <3>1
  <2>2. ASSUME NEW t \in tracked \ overwritten, announced'[t] = 0 PROVE stored[t] = Pending
    <3>1. t \in Tasks
      BY <1>1 DEF WatcherTypeOK
    <3>2. announced[t] = 0
      BY <1>1, <1>3, <2>2, <3>1
    <3> QED
      BY <2>2, <3>2 DEF StoredInv, UnannouncedTaskIsStored
  <2> QED
    BY <1>2, <1>4, <2>1, <2>2 DEF ReadyAnnounced, UnannouncedTaskIsStored
<1>5. CASE Save(b, KeptMap(b), own)
  <2>1. \A t \in Tasks : KeptMap(b)[t] # Ready
    BY RecordsDiffer DEF KeptMap
  <2>2. ASSUME NEW t \in Tasks \cap own PROVE announced'[t] > 0
    <3>1. CASE tasks[b][t] = Ready
      <4>1. announced[t] > 0
        BY <3>1 DEF StoredInv, ReadyAnnounced
      <4> QED
        BY <1>1, <1>3, <4>1
    <3>2. CASE tasks[b][t] # Ready
      <4>1. tasks[b][t] \in Record
        BY <1>1 DEF WatcherTypeOK
      <4>2. tasks[b][t] = Pending /\ t \in expired
        BY <2>2, <3>2, <4>1 DEF KeptMap, Record
      <4> QED
        BY <1>3, <4>2
    <3> QED
      BY <3>1, <3>2
  <2> HIDE DEF own
  <2> QED
    BY <1>2, <1>3, <1>5, <2>1, <2>2, SaveKeepsStored
<1> QED
  BY <1>1, <1>4, <1>5, ResumeEffect

LEMMA StepStoredInv == StoredInv /\ [WatcherNext]_watcherVars => StoredInv'
<1> SUFFICES ASSUME StoredInv, [WatcherNext]_watcherVars PROVE StoredInv'
  OBVIOUS
<1>1. WatcherTypeOK'
  BY StepWatcherTypes DEF StoredInv
<1>2. ReadyAnnounced' /\ UnannouncedTaskIsStored'
  <2>1. CASE UNCHANGED watcherVars
    BY <1>1, <2>1, CopyKeepsStored DEF watcherVars
  <2>2. ASSUME NEW b \in Tabs,
               \/ LoadPage(b) \/ ClosePage(b)
               \/ \E t \in Tasks : GeneratePdf(b, t) \/ RunIfPending(b, t)
        PROVE  ReadyAnnounced' /\ UnannouncedTaskIsStored'
    <3>1. UNCHANGED <<stored, announced, overwritten, tracked>>
      BY <2>2 DEF LoadPage, ClosePage, GeneratePdf, RunIfPending
    <3>2. \A c \in Tabs : tasks'[c] \in {tasks[c], stored, NoTasks}
      BY <2>2 DEF StoredInv, WatcherTypeOK, LoadPage, ClosePage, GeneratePdf, RunIfPending
    <3> QED
      BY <1>1, <3>1, <3>2, CopyKeepsStored
  <2>3. ASSUME NEW t \in Tasks, ServerSettles(t) \/ Expire(t)
        PROVE  ReadyAnnounced' /\ UnannouncedTaskIsStored'
    BY <1>1, <2>3, CopyKeepsStored DEF ServerSettles, Expire
  <2> QED
    BY <1>1, <2>1, <2>2, <2>3, PollKeepsStored, TrackKeepsStored, ResumeKeepsStored
    DEF WatcherNext, TabStep
<1> QED
  BY <1>1, <1>2 DEF StoredInv

\* Whatever tabs load, close, poll and save, a task that was taken on and not announced
\* is pending in localStorage, if no stale copy was saved over it.
THEOREM UnannouncedResumes == WatcherSpec => []UnannouncedTaskIsStored
<1>1. StoredInv => UnannouncedTaskIsStored
  BY DEF StoredInv
<1> QED
  BY <1>1, InitStoredInv, StepStoredInv, PTL DEF WatcherSpec

-----------------------------------------------------------------------------
(* One announcement.  A task is posted by one tab and recorded once; until  *)
(* then nothing knows it.                                                   *)

PostedOnce ==
  /\ \A b \in Tabs : \A t \in posting[b] : /\ t \notin tracked /\ server[t] # "none"
                                         /\ \A c \in Tabs : t \in posting[c] => c = b
  /\ \A t \in tracked : server[t] # "none"

UnknownBefore ==
  \A t \in Tasks \ tracked :
    /\ announced[t] = 0 /\ stored[t] # Pending
    /\ \A b \in Tabs : tasks[b][t] # Pending

KnownInv == WatcherTypeOK /\ PostedOnce /\ UnknownBefore

LEMMA InitKnownInv == WatcherInit => KnownInv
<1> SUFFICES ASSUME WatcherInit PROVE KnownInv
  OBVIOUS
<1>1. PostedOnce
  BY DEF WatcherInit, PostedOnce
<1>2. UnknownBefore
  BY RecordsDiffer DEF WatcherInit, UnknownBefore, NoTasks
<1> QED
  BY <1>1, <1>2, InitWatcherTypes DEF KnownInv

LEMMA PostedOnceKept == KnownInv /\ [WatcherNext]_watcherVars => PostedOnce'
<1> SUFFICES ASSUME KnownInv, [WatcherNext]_watcherVars PROVE PostedOnce'
  OBVIOUS
<1>1. WatcherTypeOK /\ PostedOnce
  BY DEF KnownInv
<1>2. ASSUME NEW b \in Tabs, NEW t \in Tasks, GeneratePdf(b, t) PROVE PostedOnce'
  <2>1. t \notin tracked /\ \A c \in Tabs : t \notin posting[c]
    BY <1>1, <1>2 DEF GeneratePdf, PostedOnce
  <2> QED
    BY <1>1, <1>2, <2>1 DEF GeneratePdf, PostedOnce, WatcherTypeOK
<1>3. ASSUME NEW b \in Tabs, NEW t \in Tasks, TrackAndPollTask(b, t) PROVE PostedOnce'
  <2>1. /\ t \in posting[b] /\ posting' = [posting EXCEPT ![b] = @ \ {t}]
        /\ tracked' = tracked \cup {t} /\ server' = server
    BY <1>1, <1>3, TrackEffect
  <2>2. \A c \in Tabs : posting'[c] \subseteq posting[c] \ {t}
    <3>1. \A c \in Tabs : t \in posting[c] => c = b
      BY <1>1, <2>1 DEF PostedOnce
    <3> QED
      BY <1>1, <2>1, <3>1 DEF WatcherTypeOK
  <2>3. server[t] # "none"
    BY <1>1, <2>1 DEF PostedOnce
  <2> QED
    BY <1>1, <2>1, <2>2, <2>3 DEF PostedOnce
<1>4. ASSUME NEW b \in Tabs, ClosePage(b) PROVE PostedOnce'
  BY <1>1, <1>4 DEF ClosePage, PostedOnce, WatcherTypeOK
<1>5. ASSUME NEW t \in Tasks, ServerSettles(t) PROVE PostedOnce'
  <2>1. \A u \in Tasks : server[u] # "none" => server'[u] # "none"
    BY <1>1, <1>5 DEF ServerSettles, WatcherTypeOK
  <2>2. UNCHANGED <<posting, tracked>>
    BY <1>5 DEF ServerSettles
  <2> QED
    BY <1>1, <2>1, <2>2 DEF PostedOnce, WatcherTypeOK
<1>6. CASE UNCHANGED <<posting, tracked, server>>
  BY <1>1, <1>6 DEF PostedOnce
<1>7. ASSUME NEW b \in Tabs, NEW t \in Tasks, PollRound(b, t) PROVE PostedOnce'
  BY <1>6, <1>7 DEF PollRound
<1>8. CASE \/ UNCHANGED watcherVars \/ \E t \in Tasks : Expire(t)
           \/ \E b \in Tabs : \/ LoadPage(b) \/ ResumePendingTasks(b)
                             \/ \E t \in Tasks : RunIfPending(b, t)
  BY <1>6, <1>8 DEF watcherVars, Expire, LoadPage, ResumePendingTasks, RunIfPending
<1> QED
  BY <1>2, <1>3, <1>4, <1>5, <1>7, <1>8 DEF WatcherNext, TabStep

\* A save of a map in which nothing unknown is pending.
LEMMA SaveKeepsUnknown ==
  ASSUME KnownInv, NEW b \in Tabs, NEW map \in Maps, NEW own, Save(b, map, own),
         \A t \in Tasks \ tracked' : map[t] # Pending /\ announced'[t] = 0,
         tracked \subseteq tracked'
  PROVE  UnknownBefore'
  BY SaveTypes DEF KnownInv, UnknownBefore

LEMMA UnknownKept == KnownInv /\ [WatcherNext]_watcherVars => UnknownBefore'
<1> SUFFICES ASSUME KnownInv, [WatcherNext]_watcherVars PROVE UnknownBefore'
  OBVIOUS
<1>1. WatcherTypeOK /\ UnknownBefore
  BY DEF KnownInv
<1>2. ASSUME NEW b \in Tabs, NEW t \in Tasks, TrackAndPollTask(b, t) PROVE UnknownBefore'
  <2>1. /\ Save(b, TrackedMap(b, t), {u \in Tasks : tasks[b][u] = Ready} \cup {t})
        /\ TrackedMap(b, t) \in Maps
        /\ announced' = announced /\ tracked' = tracked \cup {t}
    BY <1>1, <1>2, TrackEffect, MapTypes
  <2>2. \A u \in Tasks \ tracked' : TrackedMap(b, t)[u] # Pending /\ announced'[u] = 0
    BY <1>1, <2>1, RecordsDiffer DEF TrackedMap, UnknownBefore
  <2> QED
    BY <2>1, <2>2, SaveKeepsUnknown
<1>3. ASSUME NEW b \in Tabs, NEW t \in Tasks, PollRound(b, t) PROVE UnknownBefore'
  <2>1. tracked' = tracked
    BY <1>1, <1>3, PollRoundEffect
  <2>2. CASE UNCHANGED <<tasks, stored, overwritten, announced>>
    BY <1>1, <2>1, <2>2 DEF UnknownBefore
  <2>3. ASSUME tasks[b][t] = Pending, Announce({t}), NEW status,
               Save(b, Settled(tasks[b], {t}, status), {t})
        PROVE  UnknownBefore'
    <3> DEFINE map == Settled(tasks[b], {t}, status)
    <3>1. /\ map \in Maps /\ map[t] # Pending
          /\ \A u \in Tasks \ {t} : map[u] = tasks[b][u]
      BY <1>1, SettledTypes
    <3>2. t \in tracked
      BY <1>1, <2>3 DEF UnknownBefore
    <3>3. \A u \in Tasks \ {t} : announced'[u] = announced[u]
      BY <1>1, <2>3, AnnounceTypes
    <3>4. Save(b, map, {t})
      BY <2>3
    <3> HIDE DEF map
    <3>5. \A u \in Tasks \ tracked' : map[u] # Pending /\ announced'[u] = 0
      BY <1>1, <2>1, <3>1, <3>2, <3>3 DEF UnknownBefore
    <3> QED
      BY <2>1, <3>1, <3>4, <3>5, SaveKeepsUnknown
  <2> QED
    BY <1>1, <1>3, <2>2, <2>3, PollRoundEffect
<1>4. ASSUME NEW b \in Tabs, ResumePendingTasks(b) PROVE UnknownBefore'
  <2>1. /\ tracked' = tracked
        /\ Announce({t \in Tasks : tasks[b][t] = Pending} \cap expired)
        /\ \/ UNCHANGED <<tasks, stored, overwritten>>
           \/ Save(b, KeptMap(b), {t \in Tasks : KeptMap(b)[t] # tasks[b][t]})
    BY <1>1, <1>4, ResumeEffect
  <2>2. \A u \in Tasks \ tracked : announced'[u] = 0
    BY <1>1, <2>1, AnnounceTypes DEF UnknownBefore
  <2>3. \A u \in Tasks \ tracked : KeptMap(b)[u] # Pending
    BY <1>1, RecordsDiffer DEF KeptMap, UnknownBefore
  <2>4. KeptMap(b) \in Maps
    BY <1>1 DEF WatcherTypeOK, KeptMap, Maps, Record
  <2>5. CASE UNCHANGED <<tasks, stored, overwritten>>
    BY <1>1, <2>1, <2>2, <2>5 DEF UnknownBefore
  <2> QED
    BY <2>1, <2>2, <2>3, <2>4, <2>5, SaveKeepsUnknown
<1>5. ASSUME UNCHANGED <<tracked, announced, stored>>,
             \A c \in Tabs : tasks'[c] \in {tasks[c], stored, NoTasks}
      PROVE  UnknownBefore'
  BY <1>1, <1>5, RecordsDiffer DEF UnknownBefore, NoTasks
<1>6. ASSUME NEW b \in Tabs,
             \/ LoadPage(b) \/ ClosePage(b)
             \/ \E t \in Tasks : GeneratePdf(b, t) \/ RunIfPending(b, t)
      PROVE  UnknownBefore'
  <2>1. UNCHANGED <<tracked, announced, stored>>
    BY <1>6 DEF LoadPage, ClosePage, GeneratePdf, RunIfPending
  <2>2. \A c \in Tabs : tasks'[c] \in {tasks[c], stored, NoTasks}
    BY <1>1, <1>6 DEF WatcherTypeOK, LoadPage, ClosePage, GeneratePdf, RunIfPending
  <2> QED
    BY <1>5, <2>1, <2>2
<1>7. CASE UNCHANGED watcherVars \/ \E t \in Tasks : ServerSettles(t) \/ Expire(t)
  BY <1>5, <1>7 DEF watcherVars, ServerSettles, Expire
<1> QED
  BY <1>2, <1>3, <1>4, <1>6, <1>7 DEF WatcherNext, TabStep

LEMMA StepKnownInv == KnownInv /\ [WatcherNext]_watcherVars => KnownInv'
  BY PostedOnceKept, UnknownKept, StepWatcherTypes DEF KnownInv

\* With locks: one tab polls a task, and once the task is announced no tab polls it with
\* a pending record, nor would one that reads the stored map back.

Counted == Tasks \ (overwritten \cup expired)

OnePoller ==
  \A t \in Tasks, b, c \in Tabs :
    poll[b][t] = "polling" /\ poll[c][t] = "polling" => b = c

AnnouncedDone ==
  \A t \in Counted :
    announced[t] > 0 => /\ stored[t] # Pending
                        /\ \A b \in Tabs : poll[b][t] = "polling" => tasks[b][t] # Pending

OnceInv ==
  /\ KnownInv
  /\ LocksSupported => OnePoller /\ AnnouncedDone /\ AnnouncedOnce

LEMMA InitOnceInv == WatcherInit => OnceInv
<1> SUFFICES ASSUME WatcherInit PROVE OnceInv
  OBVIOUS
<1>1. OnePoller
  BY DEF WatcherInit, OnePoller, NoPolls
<1>2. AnnouncedDone /\ AnnouncedOnce
  BY DEF WatcherInit, AnnouncedDone, AnnouncedOnce, Counted
<1> QED
  BY <1>1, <1>2, InitKnownInv DEF OnceInv

LEMMA OnePollerKept ==
  ASSUME LocksSupported, KnownInv, OnePoller, [WatcherNext]_watcherVars
  PROVE  OnePoller'
<1>1. WatcherTypeOK
  BY DEF KnownInv
<1>2. CASE \A c \in Tabs, u \in Tasks : poll'[c][u] = "polling" => poll[c][u] = "polling"
  BY <1>2 DEF OnePoller
<1>3. ASSUME NEW b \in Tabs, NEW t \in Tasks, RunIfPending(b, t) PROVE OnePoller'
  <2>1. \A c \in Tabs : poll[c][t] # "polling"
    BY <1>3 DEF RunIfPending, LockFree
  <2>2. \A c \in Tabs, u \in Tasks :
          poll'[c][u] = "polling" => (c = b /\ u = t) \/ poll[c][u] = "polling"
    BY <1>1, <1>3 DEF RunIfPending, WatcherTypeOK
  <2> QED
    BY <2>1, <2>2 DEF OnePoller
<1>4. ASSUME NEW b \in Tabs, ClosePage(b) PROVE OnePoller'
  <2>1. \A c \in Tabs, u \in Tasks : poll'[c][u] = "polling" => poll[c][u] = "polling"
    BY <1>1, <1>4 DEF ClosePage, NoPolls, WatcherTypeOK
  <2> QED
    BY <1>2, <2>1
<1>5. ASSUME NEW b \in Tabs, NEW t \in Tasks, PollRound(b, t) PROVE OnePoller'
  BY <1>1, <1>2, <1>5, PollRoundEffect
<1>6. ASSUME NEW b \in Tabs, NEW t \in Tasks, TrackAndPollTask(b, t) PROVE OnePoller'
  BY <1>1, <1>2, <1>6, TrackEffect, EnqueueTypes
<1>7. ASSUME NEW b \in Tabs, ResumePendingTasks(b) PROVE OnePoller'
  BY <1>1, <1>2, <1>7, ResumeEffect, EnqueueTypes
<1>8. CASE \/ UNCHANGED watcherVars \/ \E t \in Tasks : ServerSettles(t) \/ Expire(t)
           \/ \E b \in Tabs : LoadPage(b) \/ \E t \in Tasks : GeneratePdf(b, t)
  <2>1. poll' = poll
    BY <1>8 DEF watcherVars, ServerSettles, Expire, LoadPage, GeneratePdf
  <2> QED
    BY <1>2, <2>1
<1> QED
  BY <1>3, <1>4, <1>5, <1>6, <1>7, <1>8 DEF WatcherNext, TabStep

\* A step that announces nothing that counts: it may save a map that is pending only
\* where the old one was or where nothing was announced.
LEMMA QuietStep ==
  ASSUME LocksSupported, WatcherTypeOK, WatcherTypeOK', AnnouncedDone, AnnouncedOnce,
         overwritten \subseteq overwritten', expired \subseteq expired',
         \A t \in Counted' : announced'[t] = announced[t],
         \A t \in Counted' : announced[t] > 0 /\ stored'[t] = Pending => stored[t] = Pending,
         \A t \in Counted', b \in Tabs :
           announced[t] > 0 /\ poll'[b][t] = "polling" /\ tasks'[b][t] = Pending =>
             (poll[b][t] = "polling" /\ tasks[b][t] = Pending) \/ stored[t] = Pending
  PROVE  AnnouncedDone' /\ AnnouncedOnce'
<1>1. Counted' \subseteq Counted
  BY DEF Counted
<1>2. AnnouncedDone'
  BY <1>1 DEF AnnouncedDone
<1>3. AnnouncedOnce'
  BY <1>1 DEF AnnouncedOnce, Counted
<1> QED
  BY <1>2, <1>3

\* A save pends nothing that counts unless it means to.
LEMMA SavePends ==
  ASSUME WatcherTypeOK, NEW b \in Tabs, NEW map \in Maps, NEW own, Save(b, map, own),
         NEW t \in Counted', t \notin own, map[t] = Pending
  PROVE  stored[t] = Pending
  BY DEF Save, Clobbers, Counted

LEMMA PollAnnouncesOnce ==
  ASSUME LocksSupported, OnceInv, WatcherTypeOK', NEW b \in Tabs, NEW t \in Tasks, PollRound(b, t)
  PROVE  AnnouncedDone' /\ AnnouncedOnce'
<1>1. WatcherTypeOK /\ OnePoller /\ AnnouncedDone /\ AnnouncedOnce
  BY DEF OnceInv, KnownInv
<1>2. /\ poll[b][t] = "polling" /\ expired' = expired
      /\ \A c \in Tabs, u \in Tasks : poll'[c][u] = "polling" => poll[c][u] = "polling"
  BY <1>1, PollRoundEffect
<1>3. CASE UNCHANGED <<tasks, stored, overwritten, announced>>
  <2>1. Counted' \subseteq Tasks
    BY DEF Counted
  <2> QED
    BY <1>1, <1>2, <1>3, <2>1, QuietStep
<1>4. ASSUME tasks[b][t] = Pending, Announce({t}), NEW status,
             Save(b, Settled(tasks[b], {t}, status), {t})
      PROVE  AnnouncedDone' /\ AnnouncedOnce'
  <2> DEFINE map == Settled(tasks[b], {t}, status)
  <2>1. map \in Maps /\ map[t] # Pending /\ \A u \in Tasks \ {t} : map[u] = tasks[b][u]
    BY <1>1, SettledTypes
  <2>2. Save(b, map, {t})
    BY <1>4
  <2> HIDE DEF map
  <2>3. /\ tasks'[b] = map /\ stored' = map /\ \A c \in Tabs \ {b} : tasks'[c] = tasks[c]
        /\ overwritten \subseteq overwritten'
    BY <1>1, <2>1, <2>2, SaveTypes DEF Save
  <2>4. Counted' \subseteq Counted /\ Counted' \subseteq Tasks
    BY <1>2, <2>3 DEF Counted
  <2>5. \A u \in Tasks \ {t} : announced'[u] = announced[u]
    BY <1>1, <1>4, AnnounceTypes
  <2>6. t \in Counted => announced[t] = 0
    <3>1. announced[t] \in 0 .. 2
      BY <1>1 DEF WatcherTypeOK
    <3>2. t \in Counted => ~(announced[t] > 0)
      BY <1>1, <1>2, <1>4 DEF AnnouncedDone
    <3> QED
      BY <3>1, <3>2
  <2>7. ASSUME NEW u \in Counted', announced'[u] > 0
        PROVE  /\ stored'[u] # Pending
               /\ \A c \in Tabs : poll'[c][u] = "polling" => tasks'[c][u] # Pending
    <3>1. CASE u = t
      BY <1>1, <1>2, <2>1, <2>3, <3>1 DEF OnePoller
    <3>2. CASE u # t
      <4>1. announced[u] > 0 /\ u \in Counted /\ u \in Tasks
        BY <2>4, <2>5, <2>7, <3>2
      <4>2. stored[u] # Pending
            /\ \A c \in Tabs : poll[c][u] = "polling" => tasks[c][u] # Pending
        BY <1>1, <4>1 DEF AnnouncedDone
      <4>3. map[u] # Pending
        BY <1>1, <2>1, <2>2, <3>2, <4>2, SavePends
      <4> QED
        BY <1>2, <2>3, <4>1, <4>2, <4>3
    <3> QED
      BY <3>1, <3>2
  <2>8. ASSUME NEW u \in Counted' PROVE announced'[u] <= 1
    <3>1. CASE u = t
      <4>1. announced[t] = 0
        BY <2>4, <2>6, <3>1
      <4> QED
        BY <1>1, <1>4, <3>1, <4>1, AnnounceTypes
    <3>2. CASE u # t
      BY <1>1, <2>4, <2>5, <3>2 DEF AnnouncedOnce, Counted
    <3> QED
      BY <3>1, <3>2
  <2> QED
    BY <2>7, <2>8 DEF AnnouncedDone, AnnouncedOnce, Counted
<1> QED
  BY <1>1, <1>3, <1>4, PollRoundEffect

LEMMA OtherStepsAnnounceOnce ==
  ASSUME LocksSupported, OnceInv, WatcherTypeOK', [WatcherNext]_watcherVars,
         ~ \E b \in Tabs, t \in Tasks : PollRound(b, t)
  PROVE  AnnouncedDone' /\ AnnouncedOnce'
<1>1. WatcherTypeOK /\ OnePoller /\ AnnouncedDone /\ AnnouncedOnce /\ PostedOnce /\ UnknownBefore
  BY DEF OnceInv, KnownInv
<1>2. Counted' \subseteq Tasks
  BY DEF Counted
<1>3. ASSUME UNCHANGED <<stored, announced, overwritten>>, expired \subseteq expired',
             \A c \in Tabs, u \in Tasks :
               poll'[c][u] = "polling" /\ tasks'[c][u] = Pending =>
                 (poll[c][u] = "polling" /\ tasks[c][u] = Pending) \/ stored[u] = Pending
      PROVE  AnnouncedDone' /\ AnnouncedOnce'
  BY <1>1, <1>2, <1>3, QuietStep
<1>4. ASSUME NEW b \in Tabs, NEW t \in Tasks, RunIfPending(b, t)
      PROVE  AnnouncedDone' /\ AnnouncedOnce'
  <2>1. UNCHANGED <<stored, announced, overwritten, expired>>
    BY <1>4 DEF RunIfPending
  <2>2. \A c \in Tabs, u \in Tasks :
          poll'[c][u] = "polling" /\ tasks'[c][u] = Pending =>
            (poll[c][u] = "polling" /\ tasks[c][u] = Pending) \/ stored[u] = Pending
    BY <1>1, <1>4 DEF RunIfPending, WatcherTypeOK
  <2> QED
    BY <1>3, <2>1, <2>2
<1>5. ASSUME NEW b \in Tabs, LoadPage(b) \/ ClosePage(b)
      PROVE  AnnouncedDone' /\ AnnouncedOnce'
  <2>1. UNCHANGED <<stored, announced, overwritten, expired>>
    BY <1>5 DEF LoadPage, ClosePage
  <2>2. \A c \in Tabs, u \in Tasks :
          poll'[c][u] = "polling" /\ tasks'[c][u] = Pending =>
            (poll[c][u] = "polling" /\ tasks[c][u] = Pending) \/ stored[u] = Pending
    BY <1>1, <1>5, RecordsDiffer DEF LoadPage, ClosePage, WatcherTypeOK, NoTasks, NoPolls
  <2> QED
    BY <1>3, <2>1, <2>2
<1>6. CASE \/ UNCHANGED watcherVars \/ \E t \in Tasks : ServerSettles(t) \/ Expire(t)
           \/ \E b \in Tabs, t \in Tasks : GeneratePdf(b, t)
  <2>1. UNCHANGED <<stored, announced, overwritten, tasks, poll>> /\ expired \subseteq expired'
    BY <1>6 DEF watcherVars, ServerSettles, Expire, GeneratePdf
  <2> QED
    BY <1>3, <2>1
<1>7. ASSUME NEW b \in Tabs, NEW t \in Tasks, TrackAndPollTask(b, t)
      PROVE  AnnouncedDone' /\ AnnouncedOnce'
  <2> DEFINE own == {u \in Tasks : tasks[b][u] = Ready} \cup {t}
  <2>1. /\ t \in posting[b] /\ Save(b, TrackedMap(b, t), own) /\ TrackedMap(b, t) \in Maps
        /\ announced' = announced /\ expired' = expired /\ Enqueue(b, {t})
    BY <1>1, <1>7, TrackEffect, MapTypes
  <2>2. announced[t] = 0
    BY <1>1, <2>1 DEF PostedOnce, UnknownBefore
  <2>3. /\ tasks'[b] = TrackedMap(b, t) /\ stored' = TrackedMap(b, t)
        /\ \A c \in Tabs \ {b} : tasks'[c] = tasks[c]
        /\ overwritten \subseteq overwritten'
        /\ \A c \in Tabs, u \in Tasks : poll'[c][u] = "polling" <=> poll[c][u] = "polling"
    BY <1>1, <2>1, SaveTypes, EnqueueTypes DEF Save
  <2>4. \A u \in Tasks \ {t} : TrackedMap(b, t)[u] = Pending => tasks[b][u] = Pending /\ u \notin own
    BY RecordsDiffer DEF TrackedMap
  <2> HIDE DEF own
  <2>5. \A u \in Counted' : announced[u] > 0 /\ stored'[u] = Pending => stored[u] = Pending
    BY <1>1, <1>2, <2>1, <2>2, <2>3, <2>4, SavePends
  <2>6. \A u \in Counted', c \in Tabs :
          announced[u] > 0 /\ poll'[c][u] = "polling" /\ tasks'[c][u] = Pending =>
            (poll[c][u] = "polling" /\ tasks[c][u] = Pending) \/ stored[u] = Pending
    BY <1>2, <2>2, <2>3, <2>4
  <2> QED
    BY <1>1, <2>1, <2>3, <2>5, <2>6, QuietStep
<1>8. ASSUME NEW b \in Tabs, ResumePendingTasks(b)
      PROVE  AnnouncedDone' /\ AnnouncedOnce'
  <2> DEFINE own == {t \in Tasks : KeptMap(b)[t] # tasks[b][t]}
  <2>1. /\ Announce({t \in Tasks : tasks[b][t] = Pending} \cap expired) /\ expired' = expired
        /\ \/ UNCHANGED <<tasks, stored, overwritten>>
           \/ Save(b, KeptMap(b), own)
        /\ \E ts : Enqueue(b, ts)
    BY <1>1, <1>8, ResumeEffect
  <2>2. KeptMap(b) \in Maps
    BY <1>1 DEF WatcherTypeOK, KeptMap, Maps, Record
  <2>3. \A c \in Tabs, u \in Tasks : poll'[c][u] = "polling" <=> poll[c][u] = "polling"
    BY <1>1, <2>1, EnqueueTypes
  <2>4. \A u \in Tasks : KeptMap(b)[u] = Pending => tasks[b][u] = Pending /\ u \notin own
    BY RecordsDiffer DEF KeptMap
  <2>5. \A u \in Counted' : announced'[u] = announced[u]
    BY <1>1, <2>1, AnnounceTypes DEF Counted
  <2> HIDE DEF own
  <2>6. CASE UNCHANGED <<tasks, stored, overwritten>>
    BY <1>1, <1>2, <2>1, <2>3, <2>5, <2>6, QuietStep
  <2>7. CASE Save(b, KeptMap(b), own)
    <3>1. /\ tasks'[b] = KeptMap(b) /\ stored' = KeptMap(b)
          /\ \A c \in Tabs \ {b} : tasks'[c] = tasks[c]
          /\ overwritten \subseteq overwritten'
      BY <1>1, <2>2, <2>7, SaveTypes DEF Save
    <3>2. \A u \in Counted' : announced[u] > 0 /\ stored'[u] = Pending => stored[u] = Pending
      BY <1>1, <1>2, <2>2, <2>4, <2>7, <3>1, SavePends
    <3>3. \A u \in Counted', c \in Tabs :
            announced[u] > 0 /\ poll'[c][u] = "polling" /\ tasks'[c][u] = Pending =>
              (poll[c][u] = "polling" /\ tasks[c][u] = Pending) \/ stored[u] = Pending
      BY <1>2, <2>3, <2>4, <3>1
    <3> QED
      BY <1>1, <2>1, <2>5, <3>1, <3>2, <3>3, QuietStep
  <2> QED
    BY <2>1, <2>6, <2>7
<1> QED
  BY <1>4, <1>5, <1>6, <1>7, <1>8 DEF WatcherNext, TabStep

LEMMA StepOnceInv == OnceInv /\ [WatcherNext]_watcherVars => OnceInv'
<1> SUFFICES ASSUME OnceInv, [WatcherNext]_watcherVars PROVE OnceInv'
  OBVIOUS
<1>1. KnownInv' /\ WatcherTypeOK'
  BY StepKnownInv DEF OnceInv, KnownInv
<1>2. ASSUME LocksSupported PROVE OnePoller' /\ AnnouncedDone' /\ AnnouncedOnce'
  <2>1. OnePoller'
    BY <1>2, OnePollerKept DEF OnceInv
  <2>2. CASE \E b \in Tabs, t \in Tasks : PollRound(b, t)
    BY <1>1, <1>2, <2>1, <2>2, PollAnnouncesOnce
  <2>3. CASE ~ \E b \in Tabs, t \in Tasks : PollRound(b, t)
    BY <1>1, <1>2, <2>1, <2>3, OtherStepsAnnounceOnce
  <2> QED
    BY <2>2, <2>3, <2>1
<1> QED
  BY <1>1, <1>2 DEF OnceInv

\* Where the browser has locks, no task is announced twice, whatever tabs are opened,
\* closed or waiting, but for the tasks a stale copy or their age brought back.
THEOREM TasksAnnouncedOnce == WatcherSpec => []AnnouncedOnce
<1>1. OnceInv => AnnouncedOnce
  BY DEF OnceInv, AnnouncedOnce
<1> QED
  BY <1>1, InitOnceInv, StepOnceInv, PTL DEF WatcherSpec

-----------------------------------------------------------------------------
(* No loop is left behind and none goes on for ever: what EveryPollEnds     *)
(* rests on.                                                                *)

\* Loops live in the memory of a tab whose watcher is on screen, a loop that waits for
\* its lock has done no round yet, and where there are locks one tab polls a task.
LoopsAttended ==
  /\ \A b \in Tabs, t \in Tasks :
       /\ poll[b][t] # "idle" => page[b] = "mounted"
       /\ round[b][t] # 0 => poll[b][t] = "polling"
  /\ LocksSupported => \A b, c \in Tabs, t \in Tasks :
       poll[b][t] = "polling" /\ poll[c][t] = "polling" => b = c

\* A request to generate belongs to such a tab too.
PostsAttended == \A b \in Tabs : posting[b] # {} => page[b] = "mounted"

AttendedInv == WatcherTypeOK /\ PostsAttended /\ LoopsAttended

\* A round that is not the last leaves one round fewer.
LoopAdvances ==
  \A b \in Tabs, t \in Tasks :
    PollRound(b, t) =>
      \/ poll'[b][t] = "idle" /\ round'[b][t] = 0
      \/ /\ poll'[b][t] = "polling"
         /\ round'[b][t] = round[b][t] + 1 /\ round'[b][t] < MaxPollRounds

LEMMA RoundAdvances ==
  ASSUME WatcherTypeOK, NEW b \in Tabs, NEW t \in Tasks, PollRound(b, t)
  PROVE  /\ \/ poll'[b][t] = "idle" /\ round'[b][t] = 0
            \/ /\ poll'[b][t] = "polling"
               /\ round'[b][t] = round[b][t] + 1 /\ round'[b][t] < MaxPollRounds
         /\ \A c \in Tabs, u \in Tasks :
              <<c, u>> # <<b, t>> => /\ poll'[c][u] = poll[c][u]
                                     /\ round'[c][u] = round[c][u]
<1>1. PICK result \in PollTaskUntilSettled(t) : AfterRound(b, t, result)
  BY DEF PollRound
<1>2. poll \in [Tabs -> [Tasks -> PollStates]] /\ round \in [Tabs -> [Tasks -> 0 .. MaxPollRounds - 1]]
      /\ poll[b][t] = "polling"
  BY DEF WatcherTypeOK, PollStates, PollRound
<1>3. CASE result = "timeout" /\ round[b][t] + 1 < MaxPollRounds
  <2>1. round' = [round EXCEPT ![b][t] = @ + 1] /\ poll' = poll
    BY <1>1, <1>3 DEF AfterRound
  <2>2. round'[b][t] = round[b][t] + 1
    BY <1>2, <2>1
  <2> QED
    BY <1>2, <1>3, <2>1, <2>2
<1>4. CASE ~(result = "timeout" /\ round[b][t] + 1 < MaxPollRounds)
  <2>1. round' = [round EXCEPT ![b][t] = 0] /\ poll' = [poll EXCEPT ![b][t] = "idle"]
    BY <1>1, <1>4 DEF AfterRound
  <2> QED
    BY <1>2, <2>1
<1> QED
  BY <1>3, <1>4

\* A step that ends loops at most, on a tab that stays or loses all of them.
LEMMA AttendedKept ==
  ASSUME LoopsAttended, PostsAttended,
         \A b \in Tabs, t \in Tasks :
           /\ poll'[b][t] # "idle" =>
                poll[b][t] # "idle" \/ posting[b] # {} \/ page'[b] = "mounted"
           /\ poll'[b][t] = "polling" => poll[b][t] = "polling"
           /\ round'[b][t] # 0 => poll'[b][t] = "polling",
         \A b \in Tabs : page'[b] = page[b] \/ page'[b] = "mounted"
                         \/ \A t \in Tasks : poll'[b][t] = "idle"
  PROVE  LoopsAttended'
<1>1. ASSUME NEW b \in Tabs, NEW t \in Tasks, poll'[b][t] # "idle" PROVE page'[b] = "mounted"
  BY <1>1 DEF LoopsAttended, PostsAttended
<1> QED
  BY <1>1 DEF LoopsAttended

LEMMA StepAttended == AttendedInv /\ [WatcherNext]_watcherVars => AttendedInv'
<1> SUFFICES ASSUME AttendedInv, [WatcherNext]_watcherVars PROVE PostsAttended' /\ LoopsAttended'
  BY StepWatcherTypes DEF AttendedInv
<1>0. /\ WatcherTypeOK /\ PostsAttended /\ LoopsAttended
      /\ poll \in [Tabs -> [Tasks -> PollStates]] /\ page \in [Tabs -> {"closed", "hydrated", "mounted"}]
      /\ posting \in [Tabs -> SUBSET Tasks]
  BY DEF AttendedInv, WatcherTypeOK, PollStates
<1>1. CASE \/ \E t \in Tasks : ServerSettles(t) \/ Expire(t)
           \/ UNCHANGED watcherVars
  BY <1>0, <1>1 DEF PostsAttended, LoopsAttended, ServerSettles, Expire, watcherVars
<1>2. ASSUME NEW b \in Tabs, LoadPage(b) PROVE PostsAttended' /\ LoopsAttended'
  <2>1. /\ page[b] = "closed" /\ UNCHANGED <<poll, posting, round>>
        /\ \A c \in Tabs \ {b} : page'[c] = page[c]
    BY <1>0, <1>2 DEF LoadPage
  <2>2. \A c \in Tabs, t \in Tasks : poll[c][t] # "idle" \/ posting[c] # {} => c # b
    BY <1>0, <2>1 DEF LoopsAttended, PostsAttended
  <2> QED
    BY <1>0, <2>1, <2>2 DEF LoopsAttended, PostsAttended
<1>3. ASSUME NEW b \in Tabs, ResumePendingTasks(b) PROVE PostsAttended' /\ LoopsAttended'
  <2>1. /\ page' = [page EXCEPT ![b] = "mounted"] /\ UNCHANGED <<posting, round>>
        /\ \E ts : Enqueue(b, ts)
    BY <1>0, <1>3, ResumeEffect
  <2>2. \A c \in Tabs, t \in Tasks :
          /\ poll'[c][t] = "polling" <=> poll[c][t] = "polling"
          /\ c # b => poll'[c][t] = poll[c][t]
    BY <1>0, <2>1, EnqueueTypes DEF Enqueue
  <2>3. PostsAttended'
    BY <1>0, <2>1 DEF PostsAttended
  <2> QED
    BY <1>0, <2>1, <2>2, <2>3, AttendedKept DEF LoopsAttended
<1>4. ASSUME NEW b \in Tabs, ClosePage(b) PROVE PostsAttended' /\ LoopsAttended'
  <2>1. /\ posting'[b] = {} /\ \A t \in Tasks : poll'[b][t] = "idle" /\ round'[b][t] = 0
        /\ \A c \in Tabs \ {b} : /\ page'[c] = page[c] /\ posting'[c] = posting[c]
                                 /\ poll'[c] = poll[c] /\ round'[c] = round[c]
    BY <1>0, <1>4 DEF ClosePage, NoPolls, WatcherTypeOK
  <2>2. PostsAttended'
    BY <1>0, <2>1 DEF PostsAttended
  <2> QED
    BY <1>0, <2>1, <2>2, AttendedKept DEF LoopsAttended
<1>5. ASSUME NEW b \in Tabs, NEW t \in Tasks, GeneratePdf(b, t)
      PROVE  PostsAttended' /\ LoopsAttended'
  BY <1>0, <1>5 DEF GeneratePdf, PostsAttended, LoopsAttended
<1>6. ASSUME NEW b \in Tabs, NEW t \in Tasks, TrackAndPollTask(b, t)
      PROVE  PostsAttended' /\ LoopsAttended'
  <2>1. /\ posting[b] # {} /\ Enqueue(b, {t}) /\ UNCHANGED <<page, round>>
        /\ \A c \in Tabs : posting'[c] \subseteq posting[c]
    <3>1. /\ t \in posting[b] /\ posting' = [posting EXCEPT ![b] = @ \ {t}]
          /\ Enqueue(b, {t}) /\ UNCHANGED <<page, round>>
      BY <1>0, <1>6, TrackEffect
    <3> QED
      BY <1>0, <3>1
  <2>2. \A c \in Tabs, u \in Tasks :
          /\ poll'[c][u] = "polling" <=> poll[c][u] = "polling"
          /\ c # b => poll'[c][u] = poll[c][u]
    BY <1>0, <2>1, EnqueueTypes DEF Enqueue
  <2>3. PostsAttended'
    BY <1>0, <2>1 DEF PostsAttended
  <2> QED
    BY <1>0, <2>1, <2>2, <2>3, AttendedKept DEF LoopsAttended
<1>7. ASSUME NEW b \in Tabs, NEW t \in Tasks, RunIfPending(b, t)
      PROVE  PostsAttended' /\ LoopsAttended'
  <2>1. /\ poll[b][t] = "queued" /\ UNCHANGED <<page, posting, round>>
        /\ poll'[b][t] \in {"polling", "idle"}
        /\ \A c \in Tabs, u \in Tasks : <<c, u>> # <<b, t>> => poll'[c][u] = poll[c][u]
        /\ LocksSupported => \A c \in Tabs : poll[c][t] # "polling"
    BY <1>0, <1>7 DEF RunIfPending, LockFree
  <2>2. PostsAttended'
    BY <1>0, <2>1 DEF PostsAttended
  <2>3. \A c \in Tabs, u \in Tasks :
          /\ poll'[c][u] # "idle" => page'[c] = "mounted"
          /\ round'[c][u] # 0 => poll'[c][u] = "polling"
    BY <1>0, <2>1 DEF LoopsAttended
  <2>4. LocksSupported => \A c, d \in Tabs, u \in Tasks :
          poll'[c][u] = "polling" /\ poll'[d][u] = "polling" => c = d
    BY <1>0, <2>1 DEF LoopsAttended
  <2> QED
    BY <2>2, <2>3, <2>4 DEF LoopsAttended
<1>8. ASSUME NEW b \in Tabs, NEW t \in Tasks, PollRound(b, t)
      PROVE  PostsAttended' /\ LoopsAttended'
  <2>1. poll[b][t] = "polling" /\ UNCHANGED <<page, posting>>
    BY <1>8 DEF PollRound
  <2>2. PostsAttended'
    BY <1>0, <2>1 DEF PostsAttended
  <2>3. \A c \in Tabs, u \in Tasks :
          /\ poll'[c][u] # "idle" => poll[c][u] # "idle"
          /\ poll'[c][u] = "polling" => poll[c][u] = "polling"
          /\ round'[c][u] # 0 => poll'[c][u] = "polling"
    BY <1>0, <1>8, <2>1, RoundAdvances DEF LoopsAttended
  <2> QED
    BY <1>0, <2>1, <2>2, <2>3, AttendedKept
<1> QED
  BY <1>1, <1>2, <1>3, <1>4, <1>5, <1>6, <1>7, <1>8 DEF WatcherNext, TabStep

\* The safety part of EveryPollEnds: in every state whatever runs or waits is in a tab
\* that is open and on the watcher's page, at most one tab holds a task's lock, and a
\* round ends its loop or uses up one of the rounds: a loop is never left in
\* activePolls by a tab that is gone, and the lock it waits for is never orphaned.
THEOREM LoopsEndOrAdvance == WatcherSpec => []LoopsAttended /\ [][LoopAdvances]_watcherVars
<1>1. WatcherInit => AttendedInv
  <2> SUFFICES ASSUME WatcherInit PROVE PostsAttended /\ LoopsAttended
    BY InitWatcherTypes DEF AttendedInv
  <2> QED
    BY DEF WatcherInit, NoPolls, PostsAttended, LoopsAttended
<1>2. AttendedInv => LoopsAttended
  BY DEF AttendedInv
<1>3. AttendedInv => LoopAdvances
  BY RoundAdvances DEF AttendedInv, LoopAdvances
<1>4. AttendedInv => [LoopAdvances]_watcherVars
  BY <1>3
<1> HIDE DEF LoopAdvances
<1> QED
  BY <1>1, <1>2, <1>4, StepAttended, PTL DEF WatcherSpec
=============================================================================
