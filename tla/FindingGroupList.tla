--------------------------- MODULE FindingGroupList ---------------------------
(***************************************************************************)
(* The rows of an expanded finding group: pages appended as the user       *)
(* scrolls, a refresh that aborts what is being loaded and starts over,    *)
(* triage changes shown before the server has them, and the rows ticked    *)
(* for muting.  The API lists the findings that are not muted, in a fixed  *)
(* order.  A group that is collapsed again loses all this; the model       *)
(* follows one expansion.                                                  *)
(***************************************************************************)
EXTENDS Naturals, Sequences, SequencesExt, Ranking

CONSTANTS
  FindingOrder,  \* the group's findings as the API sorts them
  PageSize,
  NumUpdates,    \* bound: triage changes, here and elsewhere, and uses of "mute selected"
  MaxTicked      \* bound: rows ticked at a time

ASSUME ListAssumption ==
  /\ FindingOrder \in Seq(ToSet(FindingOrder)) /\ IsInjective(FindingOrder)
  /\ PageSize \in Nat \ {0} /\ NumUpdates \in Nat /\ MaxTicked \in Nat

Findings == ToSet(FindingOrder)
Updates == 1 .. NumUpdates
NoUpdate == 0
Risk == "risk_accepted"  \* a mutelist shortcut: this status also mutes
TriageStatus == {"open", "under_review", Risk}
NoFinding == "none"

VARIABLES
  triage,       \* server: Findings -> triage status
  muted,        \* server: muted findings
  baseRows,     \* baseResourcesRef: the rows as they were loaded
  pageRef, hasMore, isLoadingRef,
  controller,   \* number of the current AbortController; the older ones are aborted
  calls,        \* page requests: their controller, page and what the server read
  spinner,      \* isLoading
  input,        \* the finding and status of each update
  progress,     \* where each update stands
  optimistic,   \* Findings -> the update whose status the row shows
  settled,      \* findings whose optimistic entry the server has confirmed
  rowSelection, \* indexes of the ticked rows
  others,       \* changes so far that are no triage updates from this page
  loaded,       \* history: the pages the rows are made of
  ticked,       \* history: the findings the user ticked
  shifted,      \* history: a reload of the rows was under way while some were ticked
  rejected,     \* history: the last load of the first page was rejected
  contested     \* history: findings changed by somebody else, or by two updates that
                \* reached the server in the other order

listVars == <<triage, muted, baseRows, pageRef, hasMore, isLoadingRef, controller, calls, spinner,
              input, progress, optimistic, settled, rowSelection, others, loaded, ticked, shifted,
              rejected, contested>>
serverVars == <<triage, muted, contested>>
loadVars == <<baseRows, pageRef, hasMore, isLoadingRef, controller, calls, spinner, loaded,
              rejected>>
triageVars == <<input, progress, optimistic, settled>>
tickVars == <<rowSelection, ticked, shifted, others>>

Row == [id : Findings, status : TriageStatus]
Call == [ctl : Nat, page : Nat \ {0}, read : BOOLEAN, rows : Seq(Row), more : BOOLEAN]

ServerTypes ==
  /\ triage \in [Findings -> TriageStatus]
  /\ muted \in SUBSET Findings /\ contested \in SUBSET Findings
PagingTypes ==
  /\ baseRows \in Seq(Row) /\ pageRef \in Nat \ {0}
  /\ hasMore \in BOOLEAN /\ isLoadingRef \in BOOLEAN /\ spinner \in BOOLEAN
  /\ controller \in Nat /\ \A c \in calls : c \in Call
  /\ loaded \in Seq(Nat) /\ rejected \in BOOLEAN
TriageTypes ==
  /\ input \in [Updates -> [id : Findings \cup {NoFinding}, status : TriageStatus]]
  /\ progress \in [Updates -> {"new", "sent", "written", "done"}]
  /\ optimistic \in [Findings -> {NoUpdate} \cup Updates] /\ settled \in SUBSET Findings
TickTypes ==
  /\ rowSelection \in SUBSET (1 .. Len(FindingOrder)) /\ others \in 0 .. NumUpdates
  /\ ticked \in SUBSET Findings /\ shifted \in BOOLEAN

ListTypeOK == ServerTypes /\ PagingTypes /\ TriageTypes /\ TickTypes

Asked(ctl, p) == [ctl |-> ctl, page |-> p, read |-> FALSE, rows |-> <<>>, more |-> FALSE]

\* The group is collapsed: its list has no controller yet.
ListInit ==
  /\ triage = [f \in Findings |-> "open"] /\ muted = {}
  /\ baseRows = <<>> /\ pageRef = 1 /\ hasMore = TRUE
  /\ isLoadingRef = FALSE /\ spinner = FALSE
  /\ controller = 0 /\ calls = {}
  /\ input = [u \in Updates |-> [id |-> NoFinding, status |-> "open"]]
  /\ progress = [u \in Updates |-> "new"]
  /\ optimistic = [f \in Findings |-> NoUpdate] /\ settled = {}
  /\ rowSelection = {} /\ others = 0
  /\ loaded = <<>> /\ ticked = {}
  /\ shifted = FALSE /\ rejected = FALSE /\ contested = {}

-----------------------------------------------------------------------------
(* What the rows show.                                                     *)

\* mergeOptimisticTriage.
ShownStatus(row) ==
  IF optimistic[row.id] = NoUpdate THEN row.status ELSE input[optimistic[row.id]].status

\* selectedFindingIds: the ticked indexes, looked up in the rows of the moment.
SelectedFindingIds == {baseRows[i].id : i \in rowSelection \cap DOMAIN baseRows}

Changes == others + Cardinality({u \in Updates : progress[u] # "new"})
InFlight(u) == progress[u] \in {"sent", "written"}

-----------------------------------------------------------------------------
(* Loading pages.                                                          *)

\* The places of the findings that are listed.
Unmuted == {i \in DOMAIN FindingOrder : FindingOrder[i] \notin muted}

PageOf(p) ==
  LET before == (p - 1) * PageSize
      more == p * PageSize < Cardinality(Unmuted)
      ids == [k \in 1 .. (IF more THEN PageSize ELSE Cardinality(Unmuted) - before)
                |-> FindingOrder[Ranked(Unmuted, before + k)]]
  IN  [rows |-> [k \in DOMAIN ids |-> [id |-> ids[k], status |-> triage[ids[k]]]],
       more |-> more]

\* What an aborted request reads makes no difference and is left out.
ServerReads(c) ==
  /\ ~c.read /\ c.ctl = controller
  /\ calls' = (calls \ {c}) \cup {[c EXCEPT !.read = TRUE, !.rows = PageOf(c.page).rows,
                                            !.more = PageOf(c.page).more]}
  /\ UNCHANGED <<serverVars, triageVars, tickVars, baseRows, pageRef, hasMore, isLoadingRef,
                 controller, spinner, loaded, rejected>>

\* fetchPage up to its await, for the controller `ctl`, when nothing is being loaded.
\* Of the requests that are aborted the model keeps the latest.
FetchPage(p, ctl) ==
  /\ isLoadingRef' = TRUE /\ spinner' = TRUE
  /\ calls' = {c \in calls : c.ctl = controller} \cup {Asked(ctl, p)}

\* The group is expanded: the mount effect asks for the first page.
ExpandGroup ==
  /\ controller = 0 /\ controller' = 1
  /\ FetchPage(1, 1)
  /\ UNCHANGED <<serverVars, triageVars, tickVars, baseRows, pageRef, hasMore, loaded, rejected>>

\* The sentinel below the rows comes into view, or the drawer asks for more.
LoadNextPage ==
  /\ controller > 0 /\ hasMore /\ ~isLoadingRef
  /\ FetchPage(pageRef + 1, controller)
  /\ UNCHANGED <<serverVars, triageVars, tickVars, baseRows, pageRef, hasMore, controller, loaded,
                 rejected>>

\* The settled entries that the loaded rows bear out are dropped.
ClearSettledOptimisticUpdates(rows) ==
  LET borneOut == {f \in settled : \E i \in DOMAIN rows :
                     rows[i].id = f /\ rows[i].status = input[optimistic[f]].status}
  IN  /\ settled' = settled \ borneOut
      /\ optimistic' = [f \in Findings |-> IF f \in borneOut THEN NoUpdate ELSE optimistic[f]]

\* handleSetResources for the first page, handleAppendResources for the others.
ShowPage(c, rows, more) ==
  /\ ClearSettledOptimisticUpdates(rows)
  /\ IF c.page = 1 THEN baseRows' = rows /\ loaded' = <<1>> /\ rejected' = FALSE
     ELSE baseRows' = baseRows \o rows /\ loaded' = Append(loaded, c.page)
          /\ UNCHANGED rejected
  /\ pageRef' = c.page /\ hasMore' = more
  /\ isLoadingRef' = FALSE /\ spinner' = FALSE

\* Unsuccessful answers below 500 and failures to connect come back as a value, and
\* show as an empty last page.
Answers(c) ==
  {<< <<>>, FALSE >>} \cup IF c.read THEN {<<c.rows, c.more>>} ELSE {}

PageArrivesUnchecked(c) ==
  /\ calls' = calls \ {c}
  /\ \E a \in Answers(c) : ShowPage(c, a[1], a[2])
  /\ UNCHANGED <<serverVars, tickVars, input, progress, controller>>

\* The answer of an aborted load is dropped.
PageArrives(c) ==
  /\ calls' = calls \ {c}
  /\ \/ /\ c.ctl = controller
        /\ \E a \in Answers(c) : ShowPage(c, a[1], a[2])
     \/ /\ c.ctl # controller
        /\ UNCHANGED <<baseRows, pageRef, hasMore, isLoadingRef, spinner, loaded, rejected,
                       optimistic, settled>>
  /\ UNCHANGED <<serverVars, tickVars, input, progress, controller>>

\* An answer of 500 and above is thrown: the rows stay as they are.
PageRejected(c) ==
  /\ calls' = calls \ {c}
  /\ \/ /\ c.ctl = controller
        /\ isLoadingRef' = FALSE /\ spinner' = FALSE
        /\ rejected' = (rejected \/ c.page = 1)
     \/ /\ c.ctl # controller
        /\ UNCHANGED <<isLoadingRef, spinner, rejected>>
  /\ UNCHANGED <<serverVars, triageVars, tickVars, baseRows, pageRef, hasMore, controller, loaded>>

RefreshWhileLoading ==
  /\ controller' = controller + 1
  /\ pageRef' = 1 /\ hasMore' = TRUE
  /\ IF isLoadingRef THEN UNCHANGED <<isLoadingRef, spinner, calls>>
     ELSE FetchPage(1, controller + 1)
  /\ UNCHANGED <<baseRows, loaded, rejected>>

\* refresh: abort, forget where the paging stands and load the first page.
Refresh ==
  /\ controller' = controller + 1
  /\ pageRef' = 1 /\ hasMore' = TRUE
  /\ FetchPage(1, controller + 1)
  /\ UNCHANGED <<baseRows, loaded, rejected>>

-----------------------------------------------------------------------------
(* Triage.                                                                 *)

\* applyOptimisticTriageUpdate: the newest change of a row takes its entry over.
UpdateTriage(u, f, status) ==
  /\ Changes < NumUpdates
  /\ progress[u] = "new" /\ \A v \in 1 .. u - 1 : progress[v] # "new"
  /\ \E i \in DOMAIN baseRows : baseRows[i].id = f /\ ShownStatus(baseRows[i]) # status
  /\ input' = [input EXCEPT ![u] = [id |-> f, status |-> status]]
  /\ progress' = [progress EXCEPT ![u] = "sent"]
  /\ optimistic' = [optimistic EXCEPT ![f] = u]
  /\ settled' = settled \ {f}
  /\ UNCHANGED <<serverVars, loadVars, tickVars>>

ServerWrites(u) ==
  LET f == input[u].id
  IN  /\ progress[u] = "sent"
      /\ progress' = [progress EXCEPT ![u] = "written"]
      /\ triage' = [triage EXCEPT ![f] = input[u].status]
      /\ muted' = IF input[u].status = Risk THEN muted \cup {f} ELSE muted
      /\ contested' = IF \E v \in Updates : /\ v > u /\ input[v].id = f
                                            /\ progress[v] \in {"written", "done"}
                      THEN contested \cup {f} ELSE contested
      /\ UNCHANGED <<loadVars, tickVars, input, optimistic, settled>>

\* The call returns: the entry waits for rows that bear it out, and the list reloads.
UpdateSucceeds(u) ==
  LET f == input[u].id
  IN  /\ progress[u] = "written"
      /\ progress' = [progress EXCEPT ![u] = "done"]
      /\ settled' = IF optimistic[f] = u THEN settled \cup {f} ELSE settled
      /\ Refresh
      /\ shifted' = (shifted \/ rowSelection # {})
      /\ UNCHANGED <<serverVars, input, optimistic, rowSelection, ticked, others>>

UpdateFailsForAll(u) ==
  LET f == input[u].id
  IN  /\ InFlight(u)
      /\ progress' = [progress EXCEPT ![u] = "done"]
      /\ optimistic' = [optimistic EXCEPT ![f] = NoUpdate]
      /\ settled' = settled \ {f}
      /\ Refresh
      /\ shifted' = (shifted \/ rowSelection # {})
      /\ UNCHANGED <<serverVars, input, rowSelection, ticked, others>>

\* The call rejects, before or after the server has made the change: the entry goes,
\* unless a newer change of the row has taken it over, and the list reloads.
UpdateFails(u) ==
  LET f == input[u].id
  IN  /\ InFlight(u)
      /\ progress' = [progress EXCEPT ![u] = "done"]
      /\ \/ /\ optimistic[f] = u
            /\ optimistic' = [optimistic EXCEPT ![f] = NoUpdate]
            /\ settled' = settled \ {f}
         \/ /\ optimistic[f] # u
            /\ UNCHANGED <<optimistic, settled>>
      /\ Refresh
      /\ shifted' = (shifted \/ rowSelection # {})
      /\ UNCHANGED <<serverVars, input, rowSelection, ticked, others>>

\* Somebody else changes a finding.
ChangedElsewhere(f, status) ==
  /\ Changes < NumUpdates /\ others' = others + 1
  /\ triage[f] # status
  /\ triage' = [triage EXCEPT ![f] = status]
  /\ muted' = IF status = Risk THEN muted \cup {f} ELSE muted
  /\ contested' = contested \cup {f}
  /\ UNCHANGED <<loadVars, triageVars, rowSelection, ticked, shifted>>

-----------------------------------------------------------------------------
(* Ticking rows and muting them.                                           *)

\* A row can be ticked while it shows as failing and not muted.
ToggleRow(i) ==
  /\ i \in DOMAIN baseRows /\ ShownStatus(baseRows[i]) # Risk
  /\ \/ /\ i \in rowSelection
        /\ rowSelection' = rowSelection \ {i}
        /\ ticked' = ticked \ {baseRows[i].id}
     \/ /\ i \notin rowSelection /\ Cardinality(rowSelection) < MaxTicked
        /\ rowSelection' = rowSelection \cup {i}
        /\ ticked' = ticked \cup {baseRows[i].id}
  /\ shifted' = (shifted \/ (isLoadingRef /\ \E c \in calls : c.page = 1 /\ c.ctl = controller))
  /\ UNCHANGED <<serverVars, loadVars, triageVars, others>>

MuteWithoutClearing ==
  /\ Changes < NumUpdates /\ SelectedFindingIds # {}
  /\ others' = others + 1
  /\ muted' = muted \cup SelectedFindingIds
  /\ UNCHANGED <<rowSelection, ticked, shifted>>
  /\ Refresh
  /\ UNCHANGED <<triage, contested, triageVars>>

\* The dialog has muted the selected findings: handleMuteComplete drops the ticks
\* before it reloads the rows.
MuteSelected ==
  /\ Changes < NumUpdates /\ SelectedFindingIds # {}
  /\ others' = others + 1
  /\ muted' = muted \cup SelectedFindingIds
  /\ rowSelection' = {} /\ ticked' = {} /\ shifted' = FALSE
  /\ Refresh
  /\ UNCHANGED <<triage, contested, triageVars>>

ListNext ==
  \/ \E c \in calls : ServerReads(c) \/ PageArrives(c) \/ PageRejected(c)
  \/ ExpandGroup \/ LoadNextPage \/ MuteSelected
  \/ \E u \in Updates : \/ ServerWrites(u) \/ UpdateSucceeds(u) \/ UpdateFails(u)
                        \/ \E f \in Findings, s \in TriageStatus : UpdateTriage(u, f, s)
  \/ \E f \in Findings, s \in TriageStatus : ChangedElsewhere(f, s)
  \/ \E i \in 1 .. Len(FindingOrder) : ToggleRow(i)

\* Every request comes back, with an answer or an error.
ListFairness == WF_listVars(\E c \in calls : PageArrives(c) \/ PageRejected(c))

ListSpec == ListInit /\ [][ListNext]_listVars /\ ListFairness

-----------------------------------------------------------------------------
(* Properties.                                                             *)

\* The rows are pages 1, 2, ... each loaded once, and the paging goes on after the last
\* of them, whatever refreshes and answers cross: the aborted check keeps late answers
\* out.  After a refresh that was rejected the old rows stay with the paging reset.
PagesInOrder ==
  ~rejected => /\ \A i \in DOMAIN loaded : loaded[i] = i
               /\ controller > 0 /\ ~isLoadingRef => pageRef = Len(loaded)

\* While the newest change of a finding is under way its row shows it, whatever older
\* changes of the same row fail or reloads bring: the entry carries its own token.
NewestChangeShown ==
  \A u \in Updates, i \in DOMAIN baseRows :
    /\ InFlight(u) /\ baseRows[i].id = input[u].id
    /\ \A v \in Updates : v > u => input[v].id # input[u].id
    => ShownStatus(baseRows[i]) = input[u].status

\* When nothing is under way the rows show what the server holds, but for findings
\* that somebody else changed and for rows the last refresh failed to reload.
RowsMatchServer ==
  (~isLoadingRef /\ ~rejected /\ \A u \in Updates : ~InFlight(u))
    => \A i \in DOMAIN baseRows :
         baseRows[i].id \in contested \/ ShownStatus(baseRows[i]) = triage[baseRows[i].id]

\* The findings that "mute selected" would take are those the user ticked, unless the
\* rows were being reloaded under the ticks, which are kept by index.
SelectionIsWhatWasTicked == shifted \/ rejected \/ SelectedFindingIds = ticked

\* Loading ends: a refresh that aborts a load takes over the duty to end the spinner.
ListLoads == spinner ~> ~spinner
=============================================================================
