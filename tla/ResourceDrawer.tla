---------------------------- MODULE ResourceDrawer ----------------------------
(***************************************************************************)
(* The drawer over a list of findings, one per resource: opened on a row,  *)
(* moved to the rows beside it, loading the finding and the other findings *)
(* of its resource in parallel and keeping both in caches; muting or       *)
(* triaging the finding it shows.  The list belongs to the page below,     *)
(* which appends and reloads rows while the drawer is open.                *)
(*                                                                         *)
(* Of a finding the model keeps whether it is muted and whether it is      *)
(* triaged; of the other findings of a resource, whose they are.           *)
(***************************************************************************)
EXTENDS Naturals, Sequences, FiniteSets, Ranking

CONSTANTS
  NumItems,    \* findings of the list: item k is the finding of the k-th resource
  FirstLoaded, \* rows the list starts with
  MaxFetches,  \* bound: loads in a behaviour
  MaxChanged   \* bound: findings muted or triaged

ASSUME DrawerAssumption ==
  /\ NumItems \in Nat \ {0} /\ FirstLoaded \in 1 .. NumItems
  /\ MaxFetches \in Nat \ {0} /\ MaxChanged \in Nat

Items == 1 .. NumItems
NoItem == 0
Copies == SUBSET {"muted", "triaged"} \* what a copy of a finding says of it
NotCached == {"not cached"}
Missing == {"missing"}                \* null: the answer held no finding

VARIABLES
  truth,          \* server: Items -> Copies
  rows,           \* resources: the items listed
  isOpen, currentIndex,
  currentFinding, \* the finding shown: its item, NoItem for null, and its copy
  otherOf,        \* the item whose resource's other findings are shown
  findingCache, otherCache,
  fetches,        \* loads whose requests have not all come back
  fetchNo,        \* number of the current AbortController; the older ones are aborted
  isLoading, isNavigating,
  navStarted,     \* navigationStartedAtRef is set
  navTimer,       \* navigationTimeoutRef is set
  change,         \* the mute or triage request under way, with the row its handler closed over
  astray,         \* history: since the last navigation the rows moved under the index, or a
                  \* request's handler loaded the row the drawer was on when it was sent
  stale           \* history: items of which an older copy was on its way, or lay in the cache
                  \* unreachable for the handler, when a change of them was confirmed or lost

drawerVars == <<truth, rows, isOpen, currentIndex, currentFinding, otherOf, findingCache, otherCache,
                fetches, fetchNo, isLoading, isNavigating, navStarted, navTimer, change, astray,
                stale>>
listState == <<truth, rows, change, astray, stale>>
placeState == <<isOpen, currentIndex>>
shownState == <<currentFinding, otherOf>>
navState == <<isLoading, isNavigating, navStarted, navTimer>>

NoShown == [item |-> NoItem, copy |-> {}]
NoChange == [item |-> NoItem, row |-> NoItem, kind |-> "triage", done |-> FALSE]
Listed(n) == [k \in 1 .. n |-> k]

Load == [n : 1 .. MaxFetches, item : Items, finding : {"asked", "read", "done", "failed"},
         copy : Copies \cup {Missing}, other : {"asked", "done", "failed"}, over : BOOLEAN]

UnderTypes ==
  /\ truth \in [Items -> Copies] /\ rows \in Seq(Items)
  /\ change \in [item : Items \cup {NoItem}, row : Items \cup {NoItem},
                 kind : {"mute", "triage"}, done : BOOLEAN]
  /\ astray \in BOOLEAN /\ stale \in SUBSET Items
ShownTypes ==
  /\ currentFinding \in [item : Items \cup {NoItem}, copy : Copies]
  /\ otherOf \in Items \cup {NoItem} /\ currentIndex \in Items
FlagTypes ==
  /\ isOpen \in BOOLEAN /\ isLoading \in BOOLEAN /\ isNavigating \in BOOLEAN
  /\ navStarted \in BOOLEAN /\ navTimer \in BOOLEAN
LoadTypes ==
  /\ findingCache \in [Items -> Copies \cup {NotCached, Missing}]
  /\ otherCache \in [Items -> BOOLEAN]
  /\ \A x \in fetches : x \in Load
  /\ fetchNo \in 0 .. MaxFetches

DrawerTypeOK == UnderTypes /\ ShownTypes /\ FlagTypes /\ LoadTypes

NewLoad(n, k, copy, other) ==
  [n |-> n, item |-> k, finding |-> IF copy = NotCached THEN "asked" ELSE "done",
   copy |-> IF copy = NotCached THEN {} ELSE copy,
   other |-> IF other THEN "done" ELSE "asked", over |-> FALSE]

\* The drawer is closed, or its page opens it on the first row, which it loads at once.
DrawerInit ==
  /\ truth = [k \in Items |-> {}] /\ rows = Listed(FirstLoaded)
  /\ currentIndex = 1 /\ currentFinding = NoShown /\ otherOf = NoItem
  /\ findingCache = [k \in Items |-> NotCached] /\ otherCache = [k \in Items |-> FALSE]
  /\ isNavigating = FALSE /\ navStarted = FALSE /\ navTimer = FALSE
  /\ change = NoChange /\ astray = FALSE /\ stale = {}
  /\ \/ isOpen = FALSE /\ fetches = {} /\ fetchNo = 0 /\ isLoading = FALSE
     \/ /\ isOpen = TRUE /\ fetchNo = 1 /\ isLoading = TRUE
        /\ fetches = {NewLoad(1, 1, NotCached, FALSE)}

-----------------------------------------------------------------------------
(* Loading an item.                                                        *)

ShowNull(k, copy) == currentFinding' = [item |-> k, copy |-> copy] /\ otherOf' = k

Show(k, copy) ==
  /\ currentFinding' = IF copy = Missing THEN NoShown ELSE [item |-> k, copy |-> copy]
  /\ otherOf' = k

\* startNavigation, resetCurrentResourceState and fetchFindings up to its await.  What
\* both caches hold is shown before anything else runs, under the skeleton's timer.
Fetch(k, cached) ==
  /\ fetchNo < MaxFetches /\ fetchNo' = fetchNo + 1
  /\ isNavigating' = TRUE /\ navStarted' = TRUE
  /\ \/ /\ cached[k] # NotCached /\ otherCache'[k]
        /\ Show(k, cached[k])
        /\ isLoading' = FALSE /\ navTimer' = TRUE
        /\ UNCHANGED fetches
     \/ /\ cached[k] = NotCached \/ ~otherCache'[k]
        /\ currentFinding' = NoShown /\ otherOf' = NoItem
        /\ isLoading' = TRUE /\ navTimer' = FALSE
        /\ fetches' = fetches \cup {NewLoad(fetchNo + 1, k, cached[k], otherCache'[k])}

\* The skeleton stays for 300 ms from the start of a navigation.
FinishNavigation ==
  /\ isLoading' = FALSE
  /\ \/ navStarted /\ navTimer' = TRUE /\ UNCHANGED <<isNavigating, navStarted>>
     \/ navTimer' = FALSE /\ isNavigating' = FALSE /\ navStarted' = FALSE

Current(x) == x.n = fetchNo /\ ~x.over

SettleAborted(x, y) ==
  /\ fetches' = fetches \ {x}
  /\ Show(y.item, y.copy) /\ FinishNavigation

\* Both requests of load x are back, as y: shown, unless a newer load was started.
SettleLoad(x, y) ==
  /\ fetches' = fetches \ {x}
  /\ IF Current(x) THEN Show(y.item, y.copy) /\ FinishNavigation
     ELSE UNCHANGED <<shownState, navState>>

Waits(y) == (fetches' = (fetches \ {y[1]}) \cup {y[2]}) /\ UNCHANGED <<shownState, navState>>

FindingReads(x) ==
  /\ x.finding = "asked"
  /\ fetches' = (fetches \ {x}) \cup {[x EXCEPT !.finding = "read", !.copy = truth[x.item]]}
  /\ UNCHANGED <<listState, placeState, shownState, navState, findingCache, otherCache, fetchNo>>

\* The finding comes back, or an answer without one: either is cached, aborted or not.
FindingReturns(x) ==
  \E copy \in {Missing} \cup (IF x.finding = "read" THEN {x.copy} ELSE {}) :
    LET y == [x EXCEPT !.finding = "done", !.copy = copy]
    IN  /\ x.finding \in {"asked", "read"}
        /\ findingCache' = [findingCache EXCEPT ![x.item] = copy]
        /\ IF x.other # "asked" THEN SettleLoad(x, y) ELSE Waits(<<x, y>>)
        /\ UNCHANGED <<listState, placeState, otherCache, fetchNo>>

OtherReturns(x) ==
  LET y == [x EXCEPT !.other = "done"]
  IN  /\ x.other = "asked"
      /\ otherCache' = [otherCache EXCEPT ![x.item] = TRUE]
      /\ IF x.finding \notin {"asked", "read"} THEN SettleLoad(x, y) ELSE Waits(<<x, y>>)
      /\ UNCHANGED <<listState, placeState, findingCache, fetchNo>>

FailureKeepsSkeleton(x, y) ==
  /\ IF Current(x) THEN currentFinding' = NoShown /\ otherOf' = NoItem
     ELSE UNCHANGED shownState
  /\ UNCHANGED navState
  /\ fetches' = (fetches \ {x}) \cup (IF "asked" \in {y.finding, y.other} \/ y.finding = "read"
                                      THEN {[y EXCEPT !.over = TRUE]} ELSE {})

\* One request rejects: the load ends with nothing shown; the other still fills its cache.
FailLoad(x, y) ==
  /\ IF Current(x) THEN currentFinding' = NoShown /\ otherOf' = NoItem /\ FinishNavigation
     ELSE UNCHANGED <<shownState, navState>>
  /\ fetches' = (fetches \ {x}) \cup (IF "asked" \in {y.finding, y.other} \/ y.finding = "read"
                                      THEN {[y EXCEPT !.over = TRUE]} ELSE {})

RequestRejects(x) ==
  /\ \/ x.finding \in {"asked", "read"} /\ FailLoad(x, [x EXCEPT !.finding = "failed"])
     \/ x.other = "asked" /\ FailLoad(x, [x EXCEPT !.other = "failed"])
  /\ UNCHANGED <<listState, placeState, findingCache, otherCache, fetchNo>>

NavigationTimeout ==
  /\ navTimer
  /\ navTimer' = FALSE /\ isNavigating' = FALSE /\ navStarted' = FALSE
  /\ UNCHANGED <<listState, placeState, shownState, findingCache, otherCache, fetches, fetchNo,
                 isLoading>>

-----------------------------------------------------------------------------
(* Moving the drawer.                                                      *)

NavigateTo(k) ==
  /\ k \in DOMAIN rows
  /\ currentIndex' = k /\ astray' = FALSE
  /\ UNCHANGED <<truth, rows, change, stale, findingCache, otherCache>>
  /\ Fetch(rows[k], findingCache)

OpenDrawer(k) == ~isOpen /\ isOpen' = TRUE /\ NavigateTo(k)

CloseDrawer ==
  /\ isOpen /\ isOpen' = FALSE
  /\ UNCHANGED <<listState, currentIndex, shownState, navState, findingCache, otherCache, fetches,
                 fetchNo>>

NavigatePrev == isOpen /\ currentIndex > 1 /\ UNCHANGED isOpen /\ NavigateTo(currentIndex - 1)

NavigateNext ==
  isOpen /\ currentIndex < NumItems /\ UNCHANGED isOpen /\ NavigateTo(currentIndex + 1)

-----------------------------------------------------------------------------
(* The list below.                                                         *)

\* A page of rows is appended.
AppendRows ==
  /\ \E k \in Items : /\ "muted" \notin truth[k] /\ \A i \in DOMAIN rows : rows[i] < k
                      /\ rows' = Append(rows, k)
  /\ UNCHANGED <<truth, change, astray, stale, placeState, shownState, navState, findingCache,
                 otherCache, fetches, fetchNo>>

\* The list is reloaded after a mute, without the findings muted meanwhile.
ReloadRows ==
  /\ LET unmuted == {k \in Items : "muted" \notin truth[k]}
         size == IF Cardinality(unmuted) < FirstLoaded THEN Cardinality(unmuted) ELSE FirstLoaded
     IN  rows' = [i \in 1 .. size |-> Ranked(unmuted, i)]
  /\ \E k \in Items : "muted" \in truth[k]
  /\ rows' # rows
  /\ astray' = (astray \/ currentIndex \notin DOMAIN rows' \/ currentIndex \notin DOMAIN rows
                \/ rows'[currentIndex] # rows[currentIndex])
  /\ UNCHANGED <<truth, change, stale, placeState, shownState, navState, findingCache, otherCache,
                 fetches, fetchNo>>

-----------------------------------------------------------------------------
(* Changing the finding shown.                                             *)

RowNow == IF currentIndex \in DOMAIN rows THEN rows[currentIndex] ELSE NoItem

\* The user mutes or triages the finding; the handler keeps the row of this moment.
BeginChange(kind) ==
  /\ change = NoChange /\ Cardinality({k \in Items : truth[k] # {}}) < MaxChanged
  /\ isOpen /\ ~isNavigating /\ currentFinding.item # NoItem
  /\ {"muted", "triaged"} \cap currentFinding.copy = {}
  /\ change' = [item |-> currentFinding.item, row |-> RowNow, kind |-> kind, done |-> FALSE]
  /\ UNCHANGED <<truth, rows, astray, stale, placeState, shownState, navState, findingCache,
                 otherCache, fetches, fetchNo>>

ServerChanges ==
  /\ change # NoChange /\ ~change.done
  /\ change' = [change EXCEPT !.done = TRUE]
  /\ truth' = [truth EXCEPT ![change.item] =
                 @ \cup {IF change.kind = "mute" THEN "muted" ELSE "triaged"}]
  /\ UNCHANGED <<rows, astray, stale, placeState, shownState, navState, findingCache, otherCache,
                 fetches, fetchNo>>

\* An answer of before the change is still to come, in one of the states given.
Late(states) ==
  \E x \in fetches : x.item = change.item /\ x.finding \in states /\ x.copy # truth[x.item]

RefetchKeepsCache(k) ==
  /\ UNCHANGED findingCache
  /\ otherCache' = [otherCache EXCEPT ![k] = FALSE]
  /\ Fetch(k, findingCache)

\* refetchCurrent, for the row the handler closed over: both caches forget it first.
Refetch(k) ==
  /\ findingCache' = [findingCache EXCEPT ![k] = NotCached]
  /\ otherCache' = [otherCache EXCEPT ![k] = FALSE]
  /\ Fetch(k, [findingCache EXCEPT ![k] = NotCached])

\* A mute is confirmed: onMuteComplete.  (The list reloads as well: ReloadRows.)
MuteReturns ==
  /\ change.kind = "mute" /\ change.done
  /\ change' = NoChange
  /\ stale' = IF change.row # change.item \/ Late({"read"}) THEN stale \cup {change.item} ELSE stale
  /\ astray' = (astray \/ change.row # RowNow)
  /\ \/ change.row # NoItem /\ Refetch(change.row)
     \/ /\ change.row = NoItem
        /\ UNCHANGED <<findingCache, otherCache, shownState, navState, fetches, fetchNo>>
  /\ UNCHANGED <<truth, rows, placeState>>

Patched(k, copy) == IF k = change.item THEN copy \cup {"triaged"} ELSE copy

\* patchTriageUpdate: the copy shown and the ones in the cache.
PatchTriageUpdate ==
  /\ currentFinding' = [currentFinding EXCEPT !.copy = Patched(currentFinding.item, @)]
  /\ findingCache' = [k \in Items |-> IF findingCache[k] \in {NotCached, Missing}
                                      THEN findingCache[k] ELSE Patched(k, findingCache[k])]

TriageReturns ==
  /\ change.kind = "triage" /\ change.done
  /\ change' = NoChange
  /\ stale' = IF Late({"read", "done"}) THEN stale \cup {change.item} ELSE stale
  /\ PatchTriageUpdate
  /\ UNCHANGED <<truth, rows, astray, placeState, otherOf, navState, otherCache, fetches, fetchNo>>

\* The request fails, before or after the server made the change.
ChangeFails ==
  /\ change # NoChange
  /\ change' = NoChange
  /\ stale' = IF change.done THEN stale \cup {change.item} ELSE stale
  /\ UNCHANGED <<truth, rows, astray, placeState, shownState, navState, findingCache, otherCache,
                 fetches, fetchNo>>

LoadStep(x) == FindingReturns(x) \/ OtherReturns(x) \/ RequestRejects(x)

DrawerNext ==
  \/ \E x \in fetches : FindingReads(x) \/ LoadStep(x)
  \/ NavigationTimeout
  \/ \E k \in Items : OpenDrawer(k)
  \/ CloseDrawer \/ NavigatePrev \/ NavigateNext
  \/ AppendRows \/ ReloadRows
  \/ \E kind \in {"mute", "triage"} : BeginChange(kind)
  \/ ServerChanges \/ MuteReturns \/ TriageReturns \/ ChangeFails

\* Every request comes back, with an answer or an error, and the timer fires.
DrawerFairness ==
  /\ WF_drawerVars(\E x \in fetches : LoadStep(x))
  /\ WF_drawerVars(NavigationTimeout)

DrawerSpec == DrawerInit /\ [][DrawerNext]_drawerVars /\ DrawerFairness

-----------------------------------------------------------------------------
(* Properties.                                                             *)

\* The finding and the other findings shown are those of the row the drawer is on,
\* however fast the user moves: the aborted check drops the loads of the rows passed.
\* A reload of the list under the index, and a mute confirmed after the user moved on,
\* break this until the next move.
DrawerShowsCurrentRow ==
  ~astray => {currentFinding.item, otherOf} \subseteq {NoItem, RowNow}

\* Once a mute or triage is confirmed, the drawer never shows that finding as it was
\* before, now or on coming back to its row, unless an answer of before the change was
\* still on its way: the refetch empties the cache first and the patch reaches it.
ConfirmedChangeShown ==
  \A k \in Items :
    change.item # k /\ k \notin stale =>
      /\ currentFinding.item = k => currentFinding.copy = truth[k]
      /\ findingCache[k] \in {NotCached, Missing, truth[k]}

\* The skeleton shown while moving always gives way, whatever fails or is aborted.
SkeletonEnds == isNavigating ~> ~isNavigating
=============================================================================
