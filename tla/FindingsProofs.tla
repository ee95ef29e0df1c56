----------------------------- MODULE FindingsProofs -----------------------------
(***************************************************************************)
(* Proofs about the rows of a finding group and the drawer over them.      *)
(*                                                                         *)
(* The properties of FindingGroupList are kept only together with facts    *)
(* about what is under way: ListInv adds that at most one page request is  *)
(* not aborted and which page it asks for, which update owns a row's       *)
(* optimistic entry and what the server holds once that update is written, *)
(* that loaded rows and rows an answer carries agree with the server, and  *)
(* that no finding is shown twice.  The last needs the list only to        *)
(* shrink: muting moves findings forward, so a later page never brings one *)
(* that is shown.                                                          *)
(*                                                                         *)
(* ResourceDrawer's need the loads: DrawerInv adds that the loads are      *)
(* numbered and the one not aborted is of the row the drawer is on, and    *)
(* how each copy, shown, cached or on its way, may differ from the server: *)
(* by the one change that is made there and not confirmed yet.             *)
(*                                                                         *)
(* The last sections prove the safety parts of ListLoads and SkeletonEnds, *)
(* and that the composition of the list, the drawer and the chat page that *)
(* is model-checked implements each of them.                               *)
(***************************************************************************)
EXTENDS MCFindingsAndChat, LighthouseChatProofs, FiniteSetTheorems, SequenceTheorems, TLAPS

-----------------------------------------------------------------------------
(* What the list keeps *)

\* The requests that are not aborted; a first page among them replaces the rows.
Live == {c \in calls : c.ctl = controller}
Reloading == \E c \in Live : c.page = 1
Used(u) == progress[u] # "new"

\* One request is not aborted, and a load is under way while there is one.
CallsOrdered ==
  /\ \A c \in calls : c.ctl <= controller
  /\ \A c, d \in Live : c = d
  /\ Live # {} => isLoadingRef

\* Before the group is expanded nothing is loaded.
Collapsed == controller = 0 => calls = {} /\ baseRows = << >> /\ rowSelection = {}

\* PagesInOrder, and the page under way is the next one.
PagesFollow ==
  ~rejected =>
    /\ \A i \in DOMAIN loaded : loaded[i] = i
    /\ controller > 0 /\ ~isLoadingRef => pageRef = Len(loaded)
    /\ \A c \in Live : c.page # 1 => pageRef = Len(loaded) /\ c.page = pageRef + 1

\* No newer update is of the same finding.
Newest(u) == \A v \in Updates : v > u /\ Used(v) => input[v].id # input[u].id

\* Updates are used in order.
UpdatesOrdered ==
  \A u \in Updates : Used(u) =>
    /\ input[u].id \in Findings
    /\ \A v \in Updates : v < u => Used(v)

\* A row's entry is its newest update's, as long as that is under way.
Entries ==
  /\ \A f \in Findings, u \in Updates : optimistic[f] = u =>
       Used(u) /\ input[u].id = f /\ Newest(u)
  /\ \A u \in Updates : InFlight(u) /\ Newest(u) => optimistic[input[u].id] = u
  /\ \A f \in settled, u \in Updates : optimistic[f] = u => progress[u] = "done"

\* What the server has once the update of an entry is written.
EntriesWritten ==
  \A f \in Findings \ contested, u \in Updates :
    optimistic[f] = u /\ progress[u] \in {"written", "done"} => triage[f] = input[u].status

\* A row is what the server holds, or an update of it has yet to return and reload.
Agrees(r) ==
  \/ r.id \in contested \/ r.status = triage[r.id]
  \/ \E u \in Updates : progress[u] = "written" /\ input[u].id = r.id

\* So are the loaded rows that are not being replaced, and the rows of an answer.
RowsAgree ==
  /\ ~rejected /\ ~Reloading => \A i \in DOMAIN baseRows : Agrees(baseRows[i])
  /\ \A c \in Live : c.read => \A i \in DOMAIN c.rows : Agrees(c.rows[i])

\* No finding twice, and none beyond the first p pages.
Apart(list) == \A i, j \in DOMAIN list : list[i].id = list[j].id => i = j
Within(list, p) ==
  \A k \in DOMAIN list, i \in Unmuted :
    FindingOrder[i] = list[k].id => Rank(Unmuted, i) <= p * PageSize

\* The rows are the first pages; an answer adds findings they do not have.
RowsApart ==
  /\ ~rejected /\ ~Reloading => Apart(baseRows) /\ Within(baseRows, pageRef)
  /\ \A c \in Live : c.read =>
       /\ Apart(c.rows) /\ Within(c.rows, c.page)
       /\ ~rejected /\ c.page # 1 =>
            \A i \in DOMAIN baseRows, k \in DOMAIN c.rows : baseRows[i].id # c.rows[k].id

\* SelectionIsWhatWasTicked, and no tick outside the rows or under a reload.
TicksKept ==
  ~shifted =>
    /\ Reloading => rowSelection = {}
    /\ rowSelection \subseteq DOMAIN baseRows
    /\ ticked \subseteq SelectedFindingIds
    /\ ~rejected => SelectedFindingIds \subseteq ticked

\* The inductive invariant.
ListInv ==
  /\ ListTypeOK /\ CallsOrdered /\ Collapsed /\ PagesFollow /\ UpdatesOrdered /\ Entries
  /\ EntriesWritten /\ RowsAgree /\ RowsApart /\ TicksKept
-----------------------------------------------------------------------------
(* Ranks and pages *)

LEMMA OrderFacts ==
  /\ Len(FindingOrder) \in Nat /\ DOMAIN FindingOrder = 1 .. Len(FindingOrder)
  /\ \A i \in DOMAIN FindingOrder : FindingOrder[i] \in Findings
  /\ \A i, j \in DOMAIN FindingOrder : FindingOrder[i] = FindingOrder[j] => i = j
  /\ PageSize \in Nat /\ PageSize >= 1
<1>1. \A i \in DOMAIN FindingOrder : FindingOrder[i] \in Findings
  BY DEF Findings, ToSet
<1>2. \A i, j \in DOMAIN FindingOrder : FindingOrder[i] = FindingOrder[j] => i = j
  BY ListAssumption DEF IsInjective
<1> QED
  BY <1>1, <1>2, ListAssumption, LenProperties

LEMMA UnmutedFinite ==
  /\ Unmuted \subseteq DOMAIN FindingOrder
  /\ Unmuted \in SUBSET Nat /\ IsFiniteSet(Unmuted) /\ Cardinality(Unmuted) \in Nat
<1>1. Unmuted \subseteq DOMAIN FindingOrder
  BY DEF Unmuted
<1>2. IsFiniteSet(DOMAIN FindingOrder) /\ DOMAIN FindingOrder \subseteq Nat
  BY OrderFacts, FS_Interval
<1> QED
  BY <1>1, <1>2, FS_Subset, FS_CardinalityType

LEMMA RankBounds ==
  ASSUME NEW S \in SUBSET Nat, IsFiniteSet(S), NEW i \in S
  PROVE  Rank(S, i) \in 1 .. Cardinality(S)
<1> DEFINE upto == {j \in S : j <= i}
<1>1. upto \subseteq S /\ i \in upto
  OBVIOUS
<1>2. /\ IsFiniteSet(upto) /\ Cardinality(upto) <= Cardinality(S)
      /\ Cardinality(upto) \in Nat /\ Cardinality(S) \in Nat
  BY <1>1, FS_Subset, FS_CardinalityType
<1>3. Cardinality(upto) # 0
  BY <1>1, <1>2, FS_EmptySet
<1> QED
  BY <1>2, <1>3 DEF Rank

LEMMA RanksDiffer ==
  ASSUME NEW S \in SUBSET Nat, IsFiniteSet(S), NEW i \in S, NEW j \in S, Rank(S, i) = Rank(S, j)
  PROVE  i = j
<1>1. ASSUME NEW a \in S, NEW b \in S, a < b PROVE Rank(S, a) # Rank(S, b)
  <2> DEFINE upA == {k \in S : k <= a}
             upB == {k \in S : k <= b}
  <2>0. \A k \in S : k \in Nat
    OBVIOUS
  <2>1. upA \subseteq upB /\ b \in upB /\ b \notin upA
    <3>1. a \in Nat /\ b \in Nat /\ a < b
      BY <1>1, <2>0
    <3>2. \A k \in Nat : k <= a => k <= b
      BY <3>1
    <3>3. b <= b /\ ~(b <= a)
      BY <3>1
    <3> QED
      BY <2>0, <3>2, <3>3
  <2>2. IsFiniteSet(upB)
    BY FS_Subset
  <2>3. Cardinality(upA) # Cardinality(upB)
    BY <2>1, <2>2, FS_Subset
  <2> QED
    BY <2>3 DEF Rank
<1> QED
  BY <1>1

\* Every rank up to the size of the set is taken.
LEMMA RankTaken ==
  ASSUME NEW S \in SUBSET Nat, IsFiniteSet(S), NEW n \in 1 .. Cardinality(S)
  PROVE  Ranked(S, n) \in S /\ Rank(S, Ranked(S, n)) = n
<1> DEFINE ranks == 1 .. Cardinality(S)
           r == [i \in S |-> Rank(S, i)]
<1>0. Cardinality(S) \in Nat
  BY FS_CardinalityType
<1>1. r \in Injection(S, ranks)
  BY RankBounds, RanksDiffer DEF Injection, IsInjective
<1>2. IsFiniteSet(ranks) /\ Cardinality(ranks) = Cardinality(S)
  BY <1>0, FS_Interval
<1>3. r \in Surjection(S, ranks)
  <2> HIDE DEF r, ranks
  <2> QED
    BY <1>1, <1>2, FS_Injection
<1>4. \E i \in S : Rank(S, i) = n
  BY <1>3 DEF Surjection
<1> QED
  BY <1>4 DEF Ranked

\* With fewer numbers in the set none comes later.
LEMMA RanksFall ==
  ASSUME NEW S \in SUBSET Nat, IsFiniteSet(S), NEW T \in SUBSET S, NEW i \in T
  PROVE  Rank(T, i) \in Nat /\ Rank(T, i) <= Rank(S, i)
<1> DEFINE now == {j \in S : j <= i}
           then == {j \in T : j <= i}
<1>1. then \subseteq now
  OBVIOUS
<1>2. IsFiniteSet(now) /\ IsFiniteSet(then)
  BY <1>1, FS_Subset
<1> QED
  BY <1>1, <1>2, FS_Subset, FS_CardinalityType DEF Rank

\* What a page holds.
PageFits(list, p) ==
  /\ list \in Seq(Row)
  /\ \A k \in DOMAIN list : list[k].status = triage[list[k].id]
  /\ Apart(list)
  /\ \A k \in DOMAIN list : \E i \in Unmuted :
       /\ FindingOrder[i] = list[k].id
       /\ (p - 1) * PageSize < Rank(Unmuted, i) /\ Rank(Unmuted, i) <= p * PageSize

LEMMA PageFacts ==
  ASSUME ListTypeOK, NEW p \in Nat \ {0}
  PROVE  PageFits(PageOf(p).rows, p) /\ PageOf(p).more \in BOOLEAN
<1> DEFINE before == (p - 1) * PageSize
           more == p * PageSize < Cardinality(Unmuted)
           size == IF more THEN PageSize ELSE Cardinality(Unmuted) - before
           ids == [k \in 1 .. size |-> FindingOrder[Ranked(Unmuted, before + k)]]
           list == [k \in DOMAIN ids |-> [id |-> ids[k], status |-> triage[ids[k]]]]
<1>1. /\ before \in Nat /\ p * PageSize = before + PageSize
      /\ Cardinality(Unmuted) \in Nat
  BY OrderFacts, UnmutedFinite
<1>2. \A k \in 1 .. size : /\ before + k \in 1 .. Cardinality(Unmuted)
                           /\ before + k <= p * PageSize
  <2> HIDE DEF before
  <2> QED
    BY <1>1, OrderFacts
<1>3. \A k \in 1 .. size : \E i \in Unmuted :
        Rank(Unmuted, i) = before + k /\ ids[k] = FindingOrder[i]
  <2> HIDE DEF before, size
  <2> QED
    BY <1>2, RankTaken, UnmutedFinite
<1>4. \A k \in 1 .. size : ids[k] \in Findings
  <2> HIDE DEF ids, size
  <2> QED
    BY <1>3, OrderFacts, UnmutedFinite
<1>5. DOMAIN list = 1 .. size
      /\ \A k \in 1 .. size : list[k].id = ids[k] /\ list[k].status = triage[ids[k]]
  <2> HIDE DEF size, before
  <2> QED
    OBVIOUS
<1>6. list \in Seq(Row)
  <2>1. \A k \in 1 .. size : list[k] \in Row
    <3> HIDE DEF size, before
    <3> QED
      BY <1>4 DEF ListTypeOK, ServerTypes, Row
  <2>2. CASE size \in Nat
    <3> HIDE DEF size, before
    <3>1. list \in [1 .. size -> Row]
      BY <2>1
    <3> QED
      BY <2>2, <3>1, SeqDef
  <2>3. CASE size \notin Nat
    <3>1. 1 .. size = {}
      <4> HIDE DEF before
      <4> QED
        BY <1>1, <2>3, OrderFacts
    <3>2. list = << >>
      <4> HIDE DEF size, before
      <4> QED
        BY <3>1
    <3> QED
      BY <3>2, EmptySeq
  <2> QED
    BY <2>2, <2>3
<1>7. Apart(list)
  <2> SUFFICES ASSUME NEW k \in 1 .. size, NEW l \in 1 .. size, ids[k] = ids[l]
               PROVE  k = l
    <3> HIDE DEF list, size, ids
    <3> QED
      BY <1>5 DEF Apart
  <2>1. PICK i \in Unmuted : Rank(Unmuted, i) = before + k /\ ids[k] = FindingOrder[i]
    BY <1>3
  <2>2. PICK j \in Unmuted : Rank(Unmuted, j) = before + l /\ ids[l] = FindingOrder[j]
    BY <1>3
  <2>3. i = j
    <3> HIDE DEF ids
    <3> QED
      BY <2>1, <2>2, OrderFacts, UnmutedFinite
  <2> HIDE DEF before, size
  <2> QED
    BY <1>1, <2>1, <2>2, <2>3
<1>8. \A k \in 1 .. size : \E i \in Unmuted :
        /\ FindingOrder[i] = list[k].id
        /\ (p - 1) * PageSize < Rank(Unmuted, i) /\ Rank(Unmuted, i) <= p * PageSize
  <2> SUFFICES ASSUME NEW k \in 1 .. size
               PROVE  \E i \in Unmuted :
                        /\ FindingOrder[i] = list[k].id
                        /\ before < Rank(Unmuted, i) /\ Rank(Unmuted, i) <= p * PageSize
    OBVIOUS
  <2>1. PICK i \in Unmuted : Rank(Unmuted, i) = before + k /\ ids[k] = FindingOrder[i]
    BY <1>3
  <2>2. FindingOrder[i] = list[k].id
    BY <1>5, <2>1
  <2>3. before < before + k /\ before + k <= p * PageSize
    <3> HIDE DEF before, size
    <3> QED
      BY <1>1, <1>2
  <2> HIDE DEF before, list
  <2> QED
    BY <2>1, <2>2, <2>3
<1>9. PageOf(p).rows = list /\ PageOf(p).more = more
  BY DEF PageOf
<1> HIDE DEF list, size, ids
<1>10. PageFits(list, p)
  BY <1>5, <1>6, <1>7, <1>8 DEF PageFits
<1> QED
  BY <1>9, <1>10

-----------------------------------------------------------------------------
(* Types *)

LEMMA InitTypes == ListInit => ListTypeOK
<1> SUFFICES ASSUME ListInit PROVE ListTypeOK
  OBVIOUS
<1>1. ServerTypes
  BY DEF ListInit, ServerTypes, TriageStatus
<1>2. PagingTypes
  <2>1. << >> \in Seq(Row) /\ << >> \in Seq(Nat)
    BY EmptySeq
  <2>2. hasMore \in BOOLEAN /\ isLoadingRef \in BOOLEAN /\ spinner \in BOOLEAN
        /\ rejected \in BOOLEAN
    BY DEF ListInit
  <2> QED
    BY <2>1, <2>2 DEF ListInit, PagingTypes
<1>3. TriageTypes
  BY DEF ListInit, TriageTypes, TriageStatus, NoUpdate
<1>4. TickTypes
  <2>1. shifted \in BOOLEAN
    BY DEF ListInit
  <2> QED
    BY <2>1, ListAssumption DEF ListInit, TickTypes
<1> QED
  BY <1>1, <1>2, <1>3, <1>4 DEF ListTypeOK

LEMMA AskedType ==
  ASSUME NEW ctl \in Nat, NEW p \in Nat \ {0}
  PROVE  Asked(ctl, p) \in Call
BY EmptySeq DEF Asked, Call

LEMMA RefreshTypes == PagingTypes /\ Refresh => PagingTypes'
<1> SUFFICES ASSUME PagingTypes, Refresh PROVE PagingTypes'
  OBVIOUS
<1>1. controller + 1 \in Nat
  BY DEF PagingTypes
<1>2. \A c \in calls' : c \in Call
  BY <1>1, AskedType DEF PagingTypes, Refresh, FetchPage
<1> QED
  BY <1>1, <1>2 DEF PagingTypes, Refresh, FetchPage

\* What a load may bring.
LEMMA AnswerTypes ==
  ASSUME PagingTypes, NEW c \in calls, NEW a \in Answers(c)
  PROVE  /\ a[1] \in Seq(Row) /\ a[2] \in BOOLEAN
         /\ a[1] = << >> \/ (c.read /\ a[1] = c.rows)
<1>1. << >> \in Seq(Row)
  BY EmptySeq
<1>2. c.rows \in Seq(Row) /\ c.more \in BOOLEAN
  BY DEF PagingTypes, Call
<1>3. a = << << >>, FALSE >> \/ (c.read /\ a = <<c.rows, c.more>>)
  <2>1. CASE c.read
    BY <2>1 DEF Answers
  <2>2. CASE ~c.read
    BY <2>2 DEF Answers
  <2> QED
    BY <2>1, <2>2
<1>4. CASE a = << << >>, FALSE >>
  BY <1>1, <1>4
<1>5. CASE c.read /\ a = <<c.rows, c.more>>
  BY <1>2, <1>5
<1> QED
  BY <1>3, <1>4, <1>5

LEMMA ShowPageTypes ==
  ASSUME PagingTypes, TriageTypes, NEW c \in calls,
         NEW list \in Seq(Row), NEW more \in BOOLEAN,
         calls' = calls \ {c}, controller' = controller,
         UNCHANGED <<input, progress>>, ShowPage(c, list, more)
  PROVE  PagingTypes' /\ TriageTypes'
<1>1. c.page \in Nat \ {0} /\ c.page \in Nat
  BY DEF PagingTypes, Call
<1>2. baseRows' \in Seq(Row) /\ loaded' \in Seq(Nat) /\ rejected' \in BOOLEAN
  <2>1. baseRows \o list \in Seq(Row)
    BY ConcatProperties DEF PagingTypes
  <2>2. Append(loaded, c.page) \in Seq(Nat) /\ <<1>> \in Seq(Nat)
    BY <1>1 DEF PagingTypes
  <2> QED
    BY <2>1, <2>2 DEF PagingTypes, ShowPage
<1>3. PagingTypes'
  BY <1>1, <1>2 DEF PagingTypes, ShowPage
<1>4. TriageTypes'
  BY DEF TriageTypes, ShowPage, ClearSettledOptimisticUpdates, NoUpdate
<1> QED
  BY <1>3, <1>4

LEMMA LoadStepTypes ==
  ASSUME ListTypeOK, NEW c \in calls, ServerReads(c) \/ PageArrives(c) \/ PageRejected(c)
  PROVE  ListTypeOK'
<1> USE DEF ListTypeOK
<1>0. c \in Call
  BY DEF PagingTypes
<1>1. CASE ServerReads(c)
  <2>1. /\ PageOf(c.page).rows \in Seq(Row) /\ PageOf(c.page).more \in BOOLEAN
    BY <1>0, PageFacts DEF Call, PageFits
  <2>2. [c EXCEPT !.read = TRUE, !.rows = PageOf(c.page).rows,
                  !.more = PageOf(c.page).more] \in Call
    BY <1>0, <2>1 DEF Call
  <2>3. PagingTypes'
    BY <1>1, <2>2 DEF PagingTypes, ServerReads
  <2> QED
    BY <1>1, <2>3 DEF ServerReads, ServerTypes, TriageTypes, TickTypes,
                      serverVars, triageVars, tickVars
<1>2. CASE PageArrives(c)
  <2>1. CASE c.ctl # controller /\ UNCHANGED <<baseRows, pageRef, hasMore, isLoadingRef, spinner,
                                               loaded, rejected, optimistic, settled>>
    <3>1. PagingTypes' /\ TriageTypes'
      BY <1>2, <2>1 DEF PageArrives, PagingTypes, TriageTypes
    <3> QED
      BY <1>2, <3>1 DEF PageArrives, ServerTypes, TickTypes, serverVars, tickVars
  <2>2. CASE \E a \in Answers(c) : ShowPage(c, a[1], a[2])
    <3>1. PICK a \in Answers(c) : ShowPage(c, a[1], a[2])
      BY <2>2
    <3>2. PagingTypes' /\ TriageTypes'
      BY <1>2, <3>1, AnswerTypes, ShowPageTypes DEF PageArrives
    <3> QED
      BY <1>2, <3>2 DEF PageArrives, ServerTypes, TickTypes, serverVars, tickVars
  <2> QED
    BY <1>2, <2>1, <2>2 DEF PageArrives
<1>3. CASE PageRejected(c)
  <2>1. rejected' \in BOOLEAN
    BY <1>3 DEF PageRejected, PagingTypes
  <2>2. isLoadingRef' \in BOOLEAN /\ spinner' \in BOOLEAN
    BY <1>3 DEF PageRejected, PagingTypes
  <2>3. PagingTypes'
    BY <1>3, <2>1, <2>2 DEF PageRejected, PagingTypes
  <2> QED
    BY <1>3, <2>3 DEF PageRejected, ServerTypes, TriageTypes, TickTypes,
                      serverVars, triageVars, tickVars
<1> QED
  BY <1>1, <1>2, <1>3

LEMMA AskTypes ==
  ASSUME ListTypeOK, ExpandGroup \/ LoadNextPage
  PROVE  ListTypeOK'
<1> USE DEF ListTypeOK
<1>1. pageRef + 1 \in Nat \ {0}
  BY DEF PagingTypes
<1>2. Asked(1, 1) \in Call /\ Asked(controller, pageRef + 1) \in Call
  BY <1>1, AskedType DEF PagingTypes
<1>3. PagingTypes'
  <2>1. \A c \in calls' : c \in Call
    BY <1>2 DEF PagingTypes, ExpandGroup, LoadNextPage, FetchPage
  <2>2. controller' \in Nat /\ isLoadingRef' = TRUE /\ spinner' = TRUE
        /\ UNCHANGED <<baseRows, pageRef, hasMore, loaded, rejected>>
    BY DEF PagingTypes, ExpandGroup, LoadNextPage, FetchPage
  <2> QED
    BY <2>1, <2>2 DEF PagingTypes
<1> QED
  BY <1>3 DEF ExpandGroup, LoadNextPage, ServerTypes, TriageTypes, TickTypes,
              serverVars, triageVars, tickVars

LEMMA ChangesLeft ==
  ASSUME TickTypes, Changes < NumUpdates
  PROVE  others + 1 \in 0 .. NumUpdates
<1> DEFINE used == {u \in Updates : progress[u] # "new"}
<1>1. IsFiniteSet(Updates)
  BY ListAssumption, FS_Interval DEF Updates
<1>2. Cardinality(used) \in Nat
  BY <1>1, FS_Subset, FS_CardinalityType
<1>3. others + Cardinality(used) < NumUpdates
  BY DEF Changes
<1> HIDE DEF used
<1> QED
  BY <1>2, <1>3, ListAssumption DEF TickTypes

LEMMA TriageStepTypes ==
  ASSUME ListTypeOK, UpdatesOrdered, NEW u \in Updates,
         \/ ServerWrites(u) \/ UpdateSucceeds(u) \/ UpdateFails(u)
         \/ \E f \in Findings, s \in TriageStatus : UpdateTriage(u, f, s)
  PROVE  ListTypeOK'
<1> USE DEF ListTypeOK
<1>0. ServerWrites(u) \/ UpdateSucceeds(u) \/ UpdateFails(u) => input[u].id \in Findings
  BY DEF UpdatesOrdered, Used, ServerWrites, UpdateSucceeds, UpdateFails, InFlight
<1>1. CASE ServerWrites(u)
  <2>1. input[u].status \in TriageStatus
    BY DEF TriageTypes
  <2>2. progress' \in [Updates -> {"new", "sent", "written", "done"}]
    BY <1>1 DEF ServerWrites, TriageTypes
  <2>3. TriageTypes'
    BY <1>1, <2>2 DEF ServerWrites, TriageTypes
  <2>4. input[u].id \in Findings => ServerTypes'
    BY <1>1, <2>1 DEF ServerWrites, ServerTypes
  <2> QED
    BY <1>0, <1>1, <2>3, <2>4 DEF ServerWrites, PagingTypes, TickTypes, loadVars, tickVars
<1>2. CASE UpdateSucceeds(u)
  <2>1. PagingTypes'
    BY <1>2, RefreshTypes DEF UpdateSucceeds
  <2>2. TriageTypes'
    BY <1>0, <1>2 DEF UpdateSucceeds, TriageTypes
  <2>3. shifted' \in BOOLEAN
    BY <1>2 DEF UpdateSucceeds, TickTypes
  <2>4. TickTypes'
    BY <1>2, <2>3 DEF UpdateSucceeds, TickTypes
  <2> QED
    BY <1>2, <2>1, <2>2, <2>4 DEF UpdateSucceeds, ServerTypes, serverVars
<1>3. CASE UpdateFails(u)
  <2>1. PagingTypes'
    BY <1>3, RefreshTypes DEF UpdateFails
  <2>2. TriageTypes'
    BY <1>0, <1>3 DEF UpdateFails, TriageTypes, NoUpdate
  <2>3. shifted' \in BOOLEAN
    BY <1>3 DEF UpdateFails, TickTypes
  <2>4. TickTypes'
    BY <1>3, <2>3 DEF UpdateFails, TickTypes
  <2> QED
    BY <1>3, <2>1, <2>2, <2>4 DEF UpdateFails, ServerTypes, serverVars
<1>4. CASE \E f \in Findings, s \in TriageStatus : UpdateTriage(u, f, s)
  <2>1. PICK f \in Findings, s \in TriageStatus : UpdateTriage(u, f, s)
    BY <1>4
  <2>2. TriageTypes'
    BY <2>1 DEF UpdateTriage, TriageTypes
  <2> QED
    BY <2>1, <2>2 DEF UpdateTriage, ServerTypes, PagingTypes, TickTypes,
                      serverVars, loadVars, tickVars
<1> QED
  BY <1>1, <1>2, <1>3, <1>4

\* Rows are those of findings.
LEMMA RowFacts ==
  ASSUME NEW list \in Seq(Row)
  PROVE  /\ DOMAIN list = 1 .. Len(list) /\ Len(list) \in Nat
         /\ \A i \in DOMAIN list : list[i].id \in Findings
<1>1. DOMAIN list = 1 .. Len(list) /\ Len(list) \in Nat
  BY LenProperties
<1>2. \A i \in DOMAIN list : list[i] \in Row
  BY <1>1, ElementOfSeq
<1> QED
  BY <1>1, <1>2 DEF Row

LEMMA OtherStepTypes ==
  ASSUME ListTypeOK,
         \/ MuteSelected
         \/ \E f \in Findings, s \in TriageStatus : ChangedElsewhere(f, s)
         \/ \E i \in 1 .. Len(FindingOrder) : ToggleRow(i)
         \/ UNCHANGED listVars
  PROVE  ListTypeOK'
<1> USE DEF ListTypeOK
<1>1. CASE MuteSelected
  <2>1. SelectedFindingIds \subseteq Findings
    BY RowFacts DEF SelectedFindingIds, PagingTypes
  <2>2. PagingTypes'
    BY <1>1, RefreshTypes DEF MuteSelected
  <2>3. TickTypes'
    BY <1>1, ChangesLeft DEF MuteSelected, TickTypes
  <2> QED
    BY <1>1, <2>1, <2>2, <2>3 DEF MuteSelected, ServerTypes, TriageTypes, triageVars
<1>2. CASE \E f \in Findings, s \in TriageStatus : ChangedElsewhere(f, s)
  <2>1. PICK f \in Findings, s \in TriageStatus : ChangedElsewhere(f, s)
    BY <1>2
  <2>2. ServerTypes'
    BY <2>1 DEF ChangedElsewhere, ServerTypes
  <2>3. TickTypes'
    BY <2>1, ChangesLeft DEF ChangedElsewhere, TickTypes
  <2> QED
    BY <2>1, <2>2, <2>3 DEF ChangedElsewhere, PagingTypes, TriageTypes, loadVars, triageVars
<1>3. CASE \E i \in 1 .. Len(FindingOrder) : ToggleRow(i)
  <2>1. PICK i \in 1 .. Len(FindingOrder) : ToggleRow(i)
    BY <1>3
  <2>2. i \in DOMAIN baseRows /\ baseRows[i].id \in Findings
    BY <2>1, RowFacts DEF ToggleRow, PagingTypes
  <2>3. shifted' \in BOOLEAN
    BY <2>1 DEF ToggleRow, TickTypes
  <2>4. TickTypes'
    BY <2>1, <2>2, <2>3 DEF ToggleRow, TickTypes
  <2> QED
    BY <2>1, <2>4 DEF ToggleRow, ServerTypes, PagingTypes, TriageTypes,
                      serverVars, loadVars, triageVars
<1>4. CASE UNCHANGED listVars
  BY <1>4 DEF ServerTypes, PagingTypes, TriageTypes, TickTypes, listVars
<1> QED
  BY <1>1, <1>2, <1>3, <1>4

LEMMA TypeStep == ListTypeOK /\ UpdatesOrdered /\ [ListNext]_listVars => ListTypeOK'
BY LoadStepTypes, AskTypes, TriageStepTypes, OtherStepTypes DEF ListNext

-----------------------------------------------------------------------------
(* Requests and pages *)

\* Asking again leaves one request, for the first page.
LEMMA RefreshFacts ==
  ASSUME PagingTypes, CallsOrdered, PagesFollow, Refresh
  PROVE  /\ Live' = {Asked(controller + 1, 1)} /\ Reloading'
         /\ \A c \in Live' : ~c.read
         /\ CallsOrdered' /\ PagesFollow'
<1>1. /\ controller \in Nat /\ controller' = controller + 1
      /\ calls' = {c \in calls : c.ctl = controller} \cup {Asked(controller + 1, 1)}
      /\ Asked(controller + 1, 1).ctl = controller + 1
      /\ Asked(controller + 1, 1).page = 1 /\ ~Asked(controller + 1, 1).read
  BY DEF PagingTypes, Refresh, FetchPage, Asked
<1>2. Live' = {Asked(controller + 1, 1)}
  BY <1>1 DEF Live
<1>3. Reloading' /\ \A c \in Live' : c.page = 1 /\ ~c.read
  BY <1>1, <1>2 DEF Reloading
<1>4. CallsOrdered'
  <2>1. \A c \in calls' : c.ctl <= controller'
    BY <1>1
  <2> QED
    BY <1>2, <2>1 DEF CallsOrdered, Refresh, FetchPage
<1>5. PagesFollow'
  BY <1>3 DEF PagesFollow, Refresh, FetchPage
<1> QED
  BY <1>2, <1>3, <1>4, <1>5

\* The request that is not aborted comes back ...
LEMMA ReturnFacts ==
  ASSUME CallsOrdered, NEW c \in Live, calls' = calls \ {c}, controller' = controller
  PROVE  Live = {c} /\ Live' = {} /\ ~Reloading' /\ CallsOrdered'
<1>1. Live = {c}
  BY DEF CallsOrdered
<1>2. Live' = {}
  BY <1>1 DEF Live
<1> QED
  BY <1>1, <1>2 DEF CallsOrdered, Reloading

\* ... or one that is.
LEMMA StaleFacts ==
  ASSUME CallsOrdered, NEW c \in calls, c.ctl # controller, calls' = calls \ {c},
         controller' = controller, isLoadingRef' = isLoadingRef
  PROVE  Live' = Live /\ (Reloading' <=> Reloading) /\ CallsOrdered'
<1>1. Live' = Live
  BY DEF Live
<1> QED
  BY <1>1 DEF CallsOrdered, Reloading

LEMMA PageArrivesFollows ==
  ASSUME PagingTypes, CallsOrdered, PagesFollow, NEW c \in calls, PageArrives(c)
  PROVE  CallsOrdered' /\ PagesFollow'
<1>0. calls' = calls \ {c} /\ controller' = controller
  BY DEF PageArrives
<1>1. CASE c.ctl # controller /\ UNCHANGED <<pageRef, isLoadingRef, loaded, rejected>>
  BY <1>0, <1>1, StaleFacts DEF PagesFollow
<1>2. CASE c \in Live /\ \E a \in Answers(c) : ShowPage(c, a[1], a[2])
  <2>1. Live = {c} /\ Live' = {} /\ CallsOrdered'
    BY <1>0, <1>2, ReturnFacts
  <2>2. PICK a \in Answers(c) : ShowPage(c, a[1], a[2])
    BY <1>2
  <2>3. CASE c.page = 1
    <3>1. loaded' = <<1>> /\ pageRef' = 1
      BY <2>2, <2>3 DEF ShowPage
    <3> QED
      BY <2>1, <3>1 DEF PagesFollow
  <2>4. CASE c.page # 1
    <3>1. /\ loaded' = Append(loaded, c.page) /\ pageRef' = c.page /\ rejected' = rejected
          /\ loaded \in Seq(Nat) /\ c.page \in Nat
      BY <2>2, <2>4 DEF ShowPage, PagingTypes, Call
    <3>2. ASSUME ~rejected
          PROVE  (\A i \in DOMAIN loaded' : loaded'[i] = i) /\ pageRef' = Len(loaded')
      <4>1. /\ \A i \in DOMAIN loaded : loaded[i] = i
            /\ c.page = Len(loaded) + 1
        BY <2>1, <2>4, <3>2 DEF PagesFollow
      <4>2. Len(loaded') = Len(loaded) + 1 /\ DOMAIN loaded' = 1 .. Len(loaded) + 1
            /\ DOMAIN loaded = 1 .. Len(loaded) /\ Len(loaded) \in Nat
            /\ \A i \in 1 .. Len(loaded) : loaded'[i] = loaded[i]
            /\ loaded'[Len(loaded) + 1] = c.page
        BY <3>1
      <4> QED
        BY <3>1, <4>1, <4>2
    <3> QED
      BY <2>1, <3>1, <3>2 DEF PagesFollow
  <2> QED
    BY <2>1, <2>3, <2>4
<1> QED
  BY <1>1, <1>2 DEF PageArrives, Live

LEMMA PageRejectedFollows ==
  ASSUME PagingTypes, CallsOrdered, PagesFollow, NEW c \in calls, PageRejected(c)
  PROVE  CallsOrdered' /\ PagesFollow'
<1>0. calls' = calls \ {c} /\ UNCHANGED <<controller, pageRef, loaded>>
  BY DEF PageRejected
<1>1. CASE c.ctl # controller /\ UNCHANGED <<isLoadingRef, rejected>>
  BY <1>0, <1>1, StaleFacts DEF PagesFollow
<1>2. CASE c \in Live /\ rejected' = (rejected \/ c.page = 1)
  <2>1. Live = {c} /\ Live' = {} /\ CallsOrdered'
    BY <1>0, <1>2, ReturnFacts
  <2> QED
    BY <1>0, <1>2, <2>1 DEF PagesFollow
<1> QED
  BY <1>1, <1>2 DEF PageRejected, Live

\* A request that reads stays what it is.
LEMMA ServerReadsFacts ==
  ASSUME PagingTypes, CallsOrdered, PagesFollow, NEW c \in calls, ServerReads(c)
  PROVE  /\ \E d : /\ Live' = {d} /\ d.ctl = controller /\ d.page = c.page /\ d.read
                  /\ d.rows = PageOf(c.page).rows /\ Live = {c}
         /\ (Reloading' <=> Reloading)
         /\ CallsOrdered' /\ PagesFollow'
<1> DEFINE d == [c EXCEPT !.read = TRUE, !.rows = PageOf(c.page).rows,
                          !.more = PageOf(c.page).more]
<1>1. /\ d.ctl = controller /\ d.page = c.page /\ d.read
      /\ d.rows = PageOf(c.page).rows
  BY DEF ServerReads, PagingTypes, Call
<1>2. /\ calls' = (calls \ {c}) \cup {d} /\ c \in Live
      /\ UNCHANGED <<controller, isLoadingRef, pageRef, loaded, rejected>>
  BY DEF ServerReads, Live
<1> HIDE DEF d
<1>3. Live = {c} /\ Live' = {d}
  BY <1>1, <1>2 DEF CallsOrdered, Live
<1>4. CallsOrdered'
  BY <1>1, <1>2, <1>3 DEF CallsOrdered, Live
<1>5. (Reloading' <=> Reloading) /\ PagesFollow'
  BY <1>1, <1>2, <1>3 DEF Reloading, PagesFollow
<1> QED
  BY <1>1, <1>3, <1>4, <1>5

\* The next page is asked for, or the first one.
LEMMA AskFacts ==
  ASSUME PagingTypes, CallsOrdered, PagesFollow, ExpandGroup \/ LoadNextPage
  PROVE  /\ Live = {} \/ ExpandGroup
         /\ \A c \in Live' : ~c.read /\ (LoadNextPage => c.page # 1)
         /\ (ExpandGroup => Reloading')
         /\ CallsOrdered' /\ PagesFollow'
<1>1. CASE ExpandGroup
  <2>1. /\ controller = 0 /\ controller' = 1 /\ Asked(1, 1).ctl = 1 /\ ~Asked(1, 1).read
        /\ Asked(1, 1).page = 1 /\ isLoadingRef'
        /\ calls' = {c \in calls : c.ctl = controller} \cup {Asked(1, 1)}
        /\ UNCHANGED <<pageRef, loaded, rejected>>
    BY <1>1 DEF ExpandGroup, FetchPage, Asked
  <2>2. Live' = {Asked(1, 1)}
    BY <2>1 DEF Live
  <2>3. CallsOrdered' /\ PagesFollow' /\ Reloading'
    BY <2>1, <2>2 DEF CallsOrdered, PagesFollow, Reloading
  <2> QED
    BY <1>1, <2>1, <2>2, <2>3 DEF ExpandGroup, LoadNextPage
<1>2. CASE LoadNextPage
  <2> DEFINE new == Asked(controller, pageRef + 1)
  <2>1. /\ controller > 0 /\ ~isLoadingRef /\ new.ctl = controller /\ ~new.read
        /\ new.page = pageRef + 1 /\ isLoadingRef' /\ controller' = controller
        /\ calls' = {c \in calls : c.ctl = controller} \cup {new}
        /\ UNCHANGED <<pageRef, loaded, rejected>> /\ controller \in Nat
        /\ pageRef \in Nat /\ pageRef # 0
    BY <1>2 DEF LoadNextPage, FetchPage, Asked, PagingTypes
  <2> HIDE DEF new
  <2>2. Live = {} /\ Live' = {new}
    BY <2>1 DEF Live, CallsOrdered
  <2>3. CallsOrdered' /\ PagesFollow'
    BY <2>1, <2>2 DEF CallsOrdered, PagesFollow
  <2>4. pageRef + 1 # 1 /\ ~ExpandGroup
    BY <2>1 DEF ExpandGroup
  <2> QED
    BY <1>2, <2>1, <2>2, <2>3, <2>4
<1> QED
  BY <1>1, <1>2

\* Steps that touch no page.
LEMMA SameLoads ==
  ASSUME CallsOrdered, PagesFollow, UNCHANGED loadVars
  PROVE  /\ Live' = Live /\ (Reloading' <=> Reloading)
         /\ CallsOrdered' /\ PagesFollow'
BY DEF loadVars, Live, Reloading, CallsOrdered, PagesFollow

LEMMA PagingStep ==
  ASSUME ListTypeOK, CallsOrdered, PagesFollow, [ListNext]_listVars
  PROVE  CallsOrdered' /\ PagesFollow'
<1> USE DEF ListTypeOK
<1>1. CASE \E c \in calls : ServerReads(c) \/ PageArrives(c) \/ PageRejected(c)
  BY <1>1, ServerReadsFacts, PageArrivesFollows, PageRejectedFollows
<1>2. CASE ExpandGroup \/ LoadNextPage
  BY <1>2, AskFacts
<1>3. CASE MuteSelected
  BY <1>3, RefreshFacts DEF MuteSelected
<1>4. CASE \E u \in Updates : UpdateSucceeds(u) \/ UpdateFails(u)
  BY <1>4, RefreshFacts DEF UpdateSucceeds, UpdateFails
<1>5. CASE \/ \E u \in Updates : \/ ServerWrites(u)
                                \/ \E f \in Findings, s \in TriageStatus : UpdateTriage(u, f, s)
           \/ \E f \in Findings, s \in TriageStatus : ChangedElsewhere(f, s)
           \/ \E i \in 1 .. Len(FindingOrder) : ToggleRow(i)
           \/ UNCHANGED listVars
  <2>1. UNCHANGED loadVars
    BY <1>5 DEF ServerWrites, UpdateTriage, ChangedElsewhere, ToggleRow, listVars, loadVars
  <2> QED
    BY <2>1, SameLoads
<1> QED
  BY <1>1, <1>2, <1>3, <1>4, <1>5 DEF ListNext

-----------------------------------------------------------------------------
(* Updates and their entries *)

\* The parts of the invariant about updates.
EntriesKept == UpdatesOrdered /\ Entries /\ EntriesWritten

LEMMA UpdateFacts == NoUpdate \notin Updates /\ Updates \subseteq Nat
BY DEF NoUpdate, Updates

\* The entries that rows bear out go.
LEMMA ClearEntries ==
  ASSUME TriageTypes, EntriesKept, NEW list, ClearSettledOptimisticUpdates(list),
         UNCHANGED <<input, progress, triage, contested>>
  PROVE  EntriesKept'
<1> PICK gone \in SUBSET settled :
      /\ settled' = settled \ gone
      /\ optimistic' = [f \in Findings |-> IF f \in gone THEN NoUpdate ELSE optimistic[f]]
  BY DEF ClearSettledOptimisticUpdates
<1>1. UpdatesOrdered'
  BY DEF EntriesKept, UpdatesOrdered, Used
<1>2. \A u \in Updates : (Newest(u)' <=> Newest(u)) /\ (Used(u)' <=> Used(u))
                        /\ (InFlight(u)' <=> InFlight(u))
  BY DEF Newest, Used, InFlight
<1>3. \A f \in Findings, u \in Updates :
        optimistic'[f] = u <=> optimistic[f] = u /\ f \notin gone
  BY UpdateFacts
<1>4. Entries'
  <2>1. ASSUME NEW u \in Updates, InFlight(u), Newest(u)
        PROVE  optimistic'[input[u].id] = u
    <3>1. optimistic[input[u].id] = u /\ input[u].id \in Findings
      BY <2>1 DEF EntriesKept, Entries, UpdatesOrdered, Used, InFlight
    <3>2. input[u].id \notin settled
      BY <2>1, <3>1 DEF EntriesKept, Entries, InFlight
    <3> QED
      BY <1>3, <3>1, <3>2
  <2>2. \A f \in settled', u \in Updates : optimistic'[f] = u => progress[u] = "done"
    BY <1>3 DEF EntriesKept, Entries, TriageTypes
  <2> QED
    BY <1>2, <1>3, <2>1, <2>2 DEF EntriesKept, Entries
<1>5. EntriesWritten'
  BY <1>3 DEF EntriesKept, EntriesWritten
<1> QED
  BY <1>1, <1>4, <1>5 DEF EntriesKept

\* Somebody else's change contests the finding.
LEMMA EntriesElsewhere ==
  ASSUME TriageTypes, ServerTypes, EntriesKept, UNCHANGED triageVars,
         \/ UNCHANGED <<triage, contested>>
         \/ \E f \in Findings, s \in TriageStatus : ChangedElsewhere(f, s)
  PROVE  EntriesKept'
<1>1. UpdatesOrdered' /\ Entries'
  BY DEF EntriesKept, UpdatesOrdered, Entries, Used, Newest, InFlight, triageVars
<1>2. EntriesWritten'
  BY DEF EntriesKept, EntriesWritten, ChangedElsewhere, triageVars, ServerTypes
<1> QED
  BY <1>1, <1>2 DEF EntriesKept

LEMMA EntriesNew ==
  ASSUME TriageTypes, EntriesKept, NEW u \in Updates, NEW f \in Findings, NEW s \in TriageStatus,
         UpdateTriage(u, f, s)
  PROVE  EntriesKept'
<1>1. /\ ~Used(u) /\ \A v \in Updates : v < u => Used(v)
      /\ \A v \in Updates : v > u => ~Used(v)
  BY UpdateFacts DEF EntriesKept, UpdateTriage, UpdatesOrdered, Used, Updates
<1>2. /\ input'[u] = [id |-> f, status |-> s] /\ progress'[u] = "sent" /\ optimistic'[f] = u
      /\ \A v \in Updates : v # u => input'[v] = input[v] /\ progress'[v] = progress[v]
      /\ \A g \in Findings : g # f => optimistic'[g] = optimistic[g]
      /\ settled' = settled \ {f} /\ triage' = triage /\ contested' = contested
  BY DEF UpdateTriage, TriageTypes, serverVars
<1>3. /\ Used(u)' /\ InFlight(u)'
      /\ \A v \in Updates : v # u => (Used(v)' <=> Used(v)) /\ (InFlight(v)' <=> InFlight(v))
  BY <1>2 DEF Used, InFlight
<1>4. UpdatesOrdered'
  BY <1>1, <1>2, <1>3 DEF EntriesKept, UpdatesOrdered
<1>5. Newest(u)' /\ \A v \in Updates : v # u /\ Used(v) =>
                      (Newest(v)' <=> Newest(v) /\ input[v].id # f)
  <2>1. Newest(u)'
    BY <1>1, <1>2, <1>3, UpdateFacts DEF Newest
  <2>2. ASSUME NEW v \in Updates, v # u, Used(v)
        PROVE  Newest(v)' <=> Newest(v) /\ input[v].id # f
    <3>1. u > v
      BY <1>1, <2>2, UpdateFacts
    <3>2. \A x \in Updates : x > v /\ Used(x)' /\ x # u => Used(x) /\ input'[x] = input[x]
      BY <1>2, <1>3
    <3>3. \A x \in Updates : x > v /\ Used(x) => Used(x)' /\ x # u /\ input'[x] = input[x]
      BY <1>1, <1>2, <1>3
    <3> QED
      BY <1>2, <1>3, <2>2, <3>1, <3>2, <3>3 DEF Newest
  <2> QED
    BY <2>1, <2>2
<1>6. Entries'
  <2>1. ASSUME NEW g \in Findings, NEW v \in Updates, optimistic'[g] = v
        PROVE  Used(v)' /\ input'[v].id = g /\ Newest(v)'
    <3>1. CASE g = f
      BY <1>2, <1>3, <1>5, <2>1, <3>1
    <3>2. CASE g # f
      <4>1. Used(v) /\ input[v].id = g /\ Newest(v)
        BY <1>2, <2>1, <3>2 DEF EntriesKept, Entries
      <4>2. v # u
        BY <1>1, <4>1
      <4> QED
        BY <1>2, <1>3, <1>5, <3>2, <4>1, <4>2
    <3> QED
      BY <3>1, <3>2
  <2>2. ASSUME NEW v \in Updates, InFlight(v)', Newest(v)'
        PROVE  optimistic'[input'[v].id] = v
    <3>1. CASE v = u
      BY <1>2, <3>1
    <3>2. CASE v # u
      <4>1. InFlight(v) /\ Used(v) /\ Newest(v) /\ input[v].id # f
        BY <1>3, <1>5, <2>2, <3>2 DEF InFlight, Used
      <4> QED
        BY <1>2, <3>2, <4>1 DEF EntriesKept, Entries, UpdatesOrdered
    <3> QED
      BY <3>1, <3>2
  <2>3. ASSUME NEW g \in settled', NEW v \in Updates, optimistic'[g] = v
        PROVE  progress'[v] = "done"
    <3>1. g \in settled /\ optimistic[g] = v
      BY <1>2, <2>3 DEF TriageTypes
    <3>2. progress[v] = "done"
      BY <3>1 DEF EntriesKept, Entries
    <3> QED
      BY <1>1, <1>2, <3>2 DEF Used
  <2> QED
    BY <2>1, <2>2, <2>3 DEF Entries
<1>7. EntriesWritten'
  <2> SUFFICES ASSUME NEW g \in Findings, g \notin contested, NEW v \in Updates,
                      optimistic'[g] = v, progress'[v] \in {"written", "done"}
               PROVE  triage[g] = input'[v].status
    BY <1>2 DEF EntriesWritten
  <2>1. v # u /\ g # f
    BY <1>2
  <2> QED
    BY <1>2, <2>1 DEF EntriesKept, EntriesWritten
<1> QED
  BY <1>4, <1>6, <1>7 DEF EntriesKept

\* An update moves on: which are used and newest stays.
LEMMA ProgressMoves ==
  ASSUME TriageTypes, EntriesKept, NEW u \in Updates, InFlight(u), NEW p,
         p \in {"written", "done"}, progress' = [progress EXCEPT ![u] = p], input' = input
  PROVE  /\ progress'[u] = p /\ \A v \in Updates : v # u => progress'[v] = progress[v]
         /\ \A v \in Updates : (Used(v)' <=> Used(v)) /\ (Newest(v)' <=> Newest(v))
         /\ \A v \in Updates : InFlight(v)' => InFlight(v)
         /\ UpdatesOrdered'
<1>1. progress'[u] = p /\ \A v \in Updates : v # u => progress'[v] = progress[v]
  BY DEF TriageTypes
<1>2. \A v \in Updates : (Used(v)' <=> Used(v)) /\ (InFlight(v)' => InFlight(v))
  BY <1>1 DEF Used, InFlight
<1>3. \A v \in Updates : Newest(v)' <=> Newest(v)
  BY <1>2 DEF Newest
<1>4. UpdatesOrdered'
  BY <1>2 DEF EntriesKept, UpdatesOrdered
<1> QED
  BY <1>1, <1>2, <1>3, <1>4

LEMMA EntriesWrite ==
  ASSUME TriageTypes, ServerTypes, EntriesKept, NEW u \in Updates, ServerWrites(u)
  PROVE  EntriesKept'
<1>0. InFlight(u) /\ input[u].id \in Findings
  BY DEF ServerWrites, InFlight, EntriesKept, UpdatesOrdered, Used
<1>1. /\ progress'[u] = "written" /\ \A v \in Updates : v # u => progress'[v] = progress[v]
      /\ \A v \in Updates : (Used(v)' <=> Used(v)) /\ (Newest(v)' <=> Newest(v))
      /\ \A v \in Updates : InFlight(v)' => InFlight(v)
      /\ UpdatesOrdered'
  BY <1>0, ProgressMoves DEF ServerWrites
<1>2. UNCHANGED <<input, optimistic, settled>>
  BY DEF ServerWrites
<1>3. Entries'
  <2>1. \A f \in settled, v \in Updates : optimistic[f] = v => progress'[v] = "done"
    BY <1>0, <1>1 DEF EntriesKept, Entries, InFlight
  <2> QED
    BY <1>1, <1>2, <2>1 DEF EntriesKept, Entries
<1>4. EntriesWritten'
  <2> SUFFICES ASSUME NEW g \in Findings, g \notin contested', NEW w \in Updates,
                      optimistic[g] = w, progress'[w] \in {"written", "done"}
               PROVE  triage'[g] = input[w].status
    BY <1>2 DEF EntriesWritten
  <2>1. Used(w) /\ input[w].id = g /\ Newest(w) /\ g \notin contested
    BY DEF EntriesKept, Entries, ServerWrites
  <2>2. CASE w = u
    BY <2>1, <2>2 DEF ServerWrites, ServerTypes
  <2>3. CASE w # u /\ input[u].id = g
    <3>1. ~(u > w)
      BY <1>0, <2>1, <2>3 DEF Newest, InFlight, Used
    <3>2. w > u
      BY <2>3, <3>1, ListAssumption DEF Updates
    <3>3. progress[w] \in {"written", "done"}
      BY <1>1, <2>3
    <3>4. g \in contested'
      BY <2>1, <2>3, <3>2, <3>3 DEF ServerWrites
    <3> QED
      BY <3>4
  <2>4. CASE w # u /\ input[u].id # g
    <3>1. triage'[g] = triage[g] /\ progress[w] \in {"written", "done"}
      BY <1>0, <1>1, <2>4 DEF ServerWrites, ServerTypes
    <3> QED
      BY <2>1, <3>1 DEF EntriesKept, EntriesWritten
  <2> QED
    BY <2>2, <2>3, <2>4
<1> QED
  BY <1>1, <1>3, <1>4 DEF EntriesKept

LEMMA EntriesReturn ==
  ASSUME TriageTypes, EntriesKept, NEW u \in Updates, UpdateSucceeds(u) \/ UpdateFails(u)
  PROVE  EntriesKept'
<1> DEFINE f == input[u].id
<1>0. InFlight(u) /\ f \in Findings
  BY DEF UpdateSucceeds, UpdateFails, InFlight, EntriesKept, UpdatesOrdered, Used
<1>1. /\ progress'[u] = "done" /\ \A v \in Updates : v # u => progress'[v] = progress[v]
      /\ \A v \in Updates : (Used(v)' <=> Used(v)) /\ (Newest(v)' <=> Newest(v))
      /\ \A v \in Updates : InFlight(v)' => InFlight(v)
      /\ UpdatesOrdered'
  BY <1>0, ProgressMoves DEF UpdateSucceeds, UpdateFails
<1>2. UNCHANGED <<input, triage, contested>>
  BY DEF UpdateSucceeds, UpdateFails, serverVars
<1>3. \A g \in Findings, v \in Updates :
        optimistic'[g] = v <=> optimistic[g] = v /\ ~(UpdateFails(u) /\ v = u /\ g = f)
  <2>1. CASE UpdateSucceeds(u)
    <3>1. optimistic' = optimistic /\ (UpdateFails(u) => optimistic[f] # u)
      BY <1>0, <2>1, UpdateFacts DEF UpdateSucceeds, UpdateFails, TriageTypes
    <3> QED
      BY <3>1
  <2>2. CASE UpdateFails(u)
    <3>1. CASE optimistic[f] = u /\ optimistic' = [optimistic EXCEPT ![f] = NoUpdate]
      BY <1>0, <2>2, <3>1, UpdateFacts DEF TriageTypes
    <3>2. CASE optimistic[f] # u /\ optimistic' = optimistic
      BY <3>2
    <3> QED
      BY <2>2, <3>1, <3>2 DEF UpdateFails
  <2> QED
    BY <2>1, <2>2
<1>4. \A g \in settled' : g \in settled \/ optimistic[g] = u
  BY DEF UpdateSucceeds, UpdateFails
<1>5. \A g \in settled' : g \in Findings
  BY <1>0 DEF UpdateSucceeds, UpdateFails, TriageTypes
<1>6. Entries'
  <2>1. \A g \in Findings, v \in Updates : optimistic'[g] = v =>
          Used(v)' /\ input'[v].id = g /\ Newest(v)'
    BY <1>1, <1>2, <1>3 DEF EntriesKept, Entries
  <2>2. ASSUME NEW v \in Updates, InFlight(v)', Newest(v)'
        PROVE  optimistic'[input'[v].id] = v
    <3>1. v # u
      BY <1>1, <2>2 DEF InFlight
    <3>2. optimistic[input[v].id] = v /\ input[v].id \in Findings
      BY <1>1, <2>2 DEF EntriesKept, Entries, UpdatesOrdered, Used, InFlight
    <3> QED
      BY <1>2, <1>3, <3>1, <3>2
  <2>3. ASSUME NEW g \in settled', NEW v \in Updates, optimistic'[g] = v
        PROVE  progress'[v] = "done"
    <3>1. optimistic[g] = v
      BY <1>3, <1>5, <2>3
    <3>2. CASE g \in settled
      BY <1>1, <3>1, <3>2 DEF EntriesKept, Entries
    <3>3. CASE v = u
      BY <1>1, <3>3
    <3> QED
      BY <1>4, <2>3, <3>1, <3>2, <3>3
  <2> QED
    BY <2>1, <2>2, <2>3 DEF Entries
<1>7. EntriesWritten'
  <2> SUFFICES ASSUME NEW g \in Findings, g \notin contested, NEW v \in Updates,
                      optimistic'[g] = v, progress'[v] \in {"written", "done"}
               PROVE  triage[g] = input[v].status
    BY <1>2 DEF EntriesWritten
  <2>1. optimistic[g] = v /\ (v = u => g = f)
    BY <1>3 DEF EntriesKept, Entries
  <2>2. progress[v] \in {"written", "done"}
    <3>1. CASE v # u
      BY <1>1, <3>1
    <3>2. CASE v = u
      <4>1. ~UpdateFails(u)
        BY <1>3, <2>1, <3>2
      <4> QED
        BY <3>2, <4>1 DEF UpdateSucceeds
    <3> QED
      BY <3>1, <3>2
  <2> QED
    BY <2>1, <2>2 DEF EntriesKept, EntriesWritten
<1> QED
  BY <1>1, <1>6, <1>7 DEF EntriesKept

LEMMA EntriesStep ==
  ASSUME ListTypeOK, EntriesKept, [ListNext]_listVars
  PROVE  EntriesKept'
<1> USE DEF ListTypeOK
<1>1. CASE \E c \in calls : PageArrives(c)
  <2>1. PICK c \in calls : PageArrives(c)
    BY <1>1
  <2>2. UNCHANGED <<input, progress, triage, contested>>
    BY <2>1 DEF PageArrives, serverVars
  <2>3. CASE \E a \in Answers(c) : ShowPage(c, a[1], a[2])
    BY <2>2, <2>3, ClearEntries DEF ShowPage
  <2>4. CASE UNCHANGED <<optimistic, settled>>
    BY <2>2, <2>4, EntriesElsewhere DEF triageVars
  <2> QED
    BY <2>1, <2>3, <2>4 DEF PageArrives
<1>2. CASE \/ \E c \in calls : ServerReads(c) \/ PageRejected(c)
           \/ ExpandGroup \/ LoadNextPage \/ MuteSelected \/ UNCHANGED listVars
           \/ \E i \in 1 .. Len(FindingOrder) : ToggleRow(i)
  <2>1. UNCHANGED triageVars /\ UNCHANGED <<triage, contested>>
    BY <1>2 DEF ServerReads, PageRejected, ExpandGroup, LoadNextPage, MuteSelected, ToggleRow,
                listVars, triageVars, serverVars
  <2> QED
    BY <2>1, EntriesElsewhere
<1>3. CASE \E f \in Findings, s \in TriageStatus : ChangedElsewhere(f, s)
  BY <1>3, EntriesElsewhere DEF ChangedElsewhere
<1>4. CASE \E u \in Updates : \/ ServerWrites(u) \/ UpdateSucceeds(u) \/ UpdateFails(u)
                            \/ \E f \in Findings, s \in TriageStatus : UpdateTriage(u, f, s)
  BY <1>4, EntriesWrite, EntriesReturn, EntriesNew
<1> QED
  BY <1>1, <1>2, <1>3, <1>4 DEF ListNext

-----------------------------------------------------------------------------
(* Rows and the server *)

LEMMA CollapsedStep ==
  ASSUME ListTypeOK, Collapsed, [ListNext]_listVars
  PROVE  Collapsed'
<1>0. controller \in Nat
  BY DEF ListTypeOK, PagingTypes
<1>1. CASE \E c \in calls : ServerReads(c) \/ PageArrives(c) \/ PageRejected(c)
  <2>1. controller' = controller /\ calls # {}
    BY <1>1 DEF ServerReads, PageArrives, PageRejected
  <2> QED
    BY <2>1 DEF Collapsed
<1>2. CASE \/ ExpandGroup \/ LoadNextPage \/ MuteSelected
           \/ \E u \in Updates : UpdateSucceeds(u) \/ UpdateFails(u)
  <2>1. controller' # 0
    BY <1>0, <1>2 DEF ExpandGroup, LoadNextPage, MuteSelected, UpdateSucceeds, UpdateFails, Refresh
  <2> QED
    BY <2>1 DEF Collapsed
<1>3. CASE \E i \in 1 .. Len(FindingOrder) : ToggleRow(i)
  <2>1. UNCHANGED loadVars /\ DOMAIN baseRows # {}
    BY <1>3 DEF ToggleRow
  <2>2. controller' = controller /\ baseRows # << >>
    BY <2>1 DEF loadVars
  <2> QED
    BY <2>2 DEF Collapsed
<1>4. CASE \/ \E u \in Updates : \/ ServerWrites(u)
                                \/ \E f \in Findings, s \in TriageStatus : UpdateTriage(u, f, s)
           \/ \E f \in Findings, s \in TriageStatus : ChangedElsewhere(f, s)
           \/ UNCHANGED listVars
  <2>1. UNCHANGED loadVars /\ rowSelection' = rowSelection
    BY <1>4 DEF ServerWrites, UpdateTriage, ChangedElsewhere, listVars, loadVars, tickVars
  <2> QED
    BY <2>1 DEF Collapsed, loadVars
<1> QED
  BY <1>1, <1>2, <1>3, <1>4 DEF ListNext

\* A row that agrees with the server goes on doing so until an update returns.
LEMMA AgreesKept ==
  ASSUME ListTypeOK, EntriesKept, [ListNext]_listVars,
         \A u \in Updates : ~UpdateSucceeds(u) /\ ~UpdateFails(u),
         NEW r, r.id \in Findings, Agrees(r)
  PROVE  Agrees(r)'
<1> USE DEF ListTypeOK
<1>1. CASE UNCHANGED <<triage, contested, input, progress>>
  BY <1>1 DEF Agrees
<1>2. CASE \E u \in Updates : ServerWrites(u)
  <2>1. PICK u \in Updates : ServerWrites(u)
    BY <1>2
  <2>2. /\ progress[u] = "sent" /\ progress'[u] = "written" /\ input' = input
        /\ \A v \in Updates : v # u => progress'[v] = progress[v]
        /\ contested \subseteq contested'
    BY <2>1 DEF ServerWrites, TriageTypes
  <2>3. CASE input[u].id = r.id
    BY <2>2, <2>3 DEF Agrees
  <2>4. CASE input[u].id # r.id
    <3>1. triage'[r.id] = triage[r.id]
      BY <2>1, <2>4 DEF ServerWrites, ServerTypes
    <3> QED
      BY <2>2, <3>1 DEF Agrees
  <2> QED
    BY <2>3, <2>4
<1>3. CASE \E u \in Updates, f \in Findings, s \in TriageStatus : UpdateTriage(u, f, s)
  <2>1. PICK u \in Updates, f \in Findings, s \in TriageStatus : UpdateTriage(u, f, s)
    BY <1>3
  <2>2. /\ progress[u] = "new" /\ triage' = triage /\ contested' = contested
        /\ \A v \in Updates : v # u => progress'[v] = progress[v] /\ input'[v] = input[v]
    BY <2>1 DEF UpdateTriage, TriageTypes, serverVars
  <2> QED
    BY <2>2 DEF Agrees
<1>4. CASE \E f \in Findings, s \in TriageStatus : ChangedElsewhere(f, s)
  <2>1. PICK f \in Findings, s \in TriageStatus : ChangedElsewhere(f, s)
    BY <1>4
  <2>2. /\ contested' = contested \cup {f} /\ UNCHANGED <<input, progress>>
        /\ triage' = [triage EXCEPT ![f] = s]
    BY <2>1 DEF ChangedElsewhere, triageVars
  <2>3. r.id # f => triage'[r.id] = triage[r.id]
    BY <2>2 DEF ServerTypes
  <2> QED
    BY <2>2, <2>3 DEF Agrees
<1>5. CASE \/ \E c \in calls : ServerReads(c) \/ PageArrives(c) \/ PageRejected(c)
           \/ ExpandGroup \/ LoadNextPage \/ MuteSelected \/ UNCHANGED listVars
           \/ \E i \in 1 .. Len(FindingOrder) : ToggleRow(i)
  <2>1. UNCHANGED <<triage, contested, input, progress>>
    BY <1>5 DEF ServerReads, PageArrives, PageRejected, ExpandGroup, LoadNextPage, MuteSelected,
                ToggleRow, listVars, triageVars, serverVars
  <2> QED
    BY <1>1, <2>1
<1> QED
  BY <1>2, <1>3, <1>4, <1>5 DEF ListNext

\* Steps after which the rows are being reloaded, from nothing read so far.
LEMMA Reloads ==
  ASSUME PagingTypes, CallsOrdered, PagesFollow,
         \/ ExpandGroup \/ MuteSelected
         \/ \E u \in Updates : UpdateSucceeds(u) \/ UpdateFails(u)
  PROVE  Reloading' /\ \A c \in Live' : ~c.read
<1>1. CASE ExpandGroup
  BY <1>1, AskFacts
<1>2. CASE Refresh
  BY <1>2, RefreshFacts
<1> QED
  BY <1>1, <1>2 DEF MuteSelected, UpdateSucceeds, UpdateFails

\* Steps that leave the pages alone.
LEMMA PagesAlone ==
  ASSUME \/ \E u \in Updates : \/ ServerWrites(u)
                               \/ \E f \in Findings, s \in TriageStatus : UpdateTriage(u, f, s)
         \/ \E f \in Findings, s \in TriageStatus : ChangedElsewhere(f, s)
         \/ \E i \in 1 .. Len(FindingOrder) : ToggleRow(i)
         \/ UNCHANGED listVars
  PROVE  UNCHANGED loadVars /\ muted \subseteq muted'
<1>1. UNCHANGED loadVars
  BY DEF ServerWrites, UpdateTriage, ChangedElsewhere, ToggleRow, listVars, loadVars
<1>2. muted \subseteq muted'
  BY DEF ServerWrites, UpdateTriage, ChangedElsewhere, ToggleRow, listVars, serverVars
<1> QED
  BY <1>1, <1>2

\* Rows put together of two parts.
LEMMA JoinedRows ==
  ASSUME NEW a \in Seq(Row), NEW b \in Seq(Row)
  PROVE  /\ DOMAIN (a \o b) = 1 .. Len(a) + Len(b)
         /\ \A i \in DOMAIN (a \o b) :
              \/ i \in DOMAIN a /\ (a \o b)[i] = a[i]
              \/ i - Len(a) \in DOMAIN b /\ i > Len(a) /\ (a \o b)[i] = b[i - Len(a)]
         /\ \A i \in DOMAIN a : i \in DOMAIN (a \o b) /\ (a \o b)[i] = a[i]
<1>1. /\ a \o b \in Seq(Row) /\ Len(a \o b) = Len(a) + Len(b)
      /\ \A i \in 1 .. Len(a) + Len(b) :
           (a \o b)[i] = IF i <= Len(a) THEN a[i] ELSE b[i - Len(a)]
  BY ConcatProperties
<1>2. /\ DOMAIN (a \o b) = 1 .. Len(a) + Len(b) /\ DOMAIN a = 1 .. Len(a)
      /\ DOMAIN b = 1 .. Len(b) /\ Len(a) \in Nat /\ Len(b) \in Nat
  BY <1>1, LenProperties
<1> QED
  BY <1>1, <1>2

\* The first page replaces the rows, a later one goes on where they end.
LEMMA PageShown ==
  ASSUME PagingTypes, CallsOrdered, NEW c \in Live, PageArrives(c)
  PROVE  /\ Live = {c} /\ Live' = {} /\ ~Reloading' /\ (Reloading <=> c.page = 1)
         /\ pageRef' = c.page /\ c.page \in Nat
         /\ \E list \in Seq(Row) :
              /\ list = << >> \/ (c.read /\ list = c.rows)
              /\ \/ c.page = 1 /\ baseRows' = list /\ ~rejected'
                 \/ c.page # 1 /\ baseRows' = baseRows \o list /\ rejected' = rejected
<1>0. calls' = calls \ {c} /\ controller' = controller /\ c \in calls /\ c.ctl = controller
  BY DEF PageArrives, Live
<1>1. Live = {c} /\ Live' = {} /\ ~Reloading' /\ (Reloading <=> c.page = 1)
  BY <1>0, ReturnFacts DEF Reloading
<1>2. PICK a \in Answers(c) : ShowPage(c, a[1], a[2])
  BY <1>0 DEF PageArrives
<1>3. a[1] \in Seq(Row) /\ (a[1] = << >> \/ (c.read /\ a[1] = c.rows))
  BY <1>0, <1>2, AnswerTypes
<1>4. c.page \in Nat
  BY <1>0 DEF PagingTypes, Call
<1> QED
  BY <1>1, <1>2, <1>3, <1>4 DEF ShowPage

LEMMA RowsAgreeStep ==
  ASSUME ListTypeOK, CallsOrdered, PagesFollow, EntriesKept, RowsAgree, [ListNext]_listVars
  PROVE  RowsAgree'
<1>0. /\ PagingTypes /\ \A i \in DOMAIN baseRows : baseRows[i].id \in Findings
      /\ \A c \in calls : \A i \in DOMAIN c.rows : c.rows[i].id \in Findings
  BY RowFacts DEF ListTypeOK, PagingTypes, Call
<1>1. ASSUME NEW c \in calls, ServerReads(c)
      PROVE  RowsAgree'
  <2>1. PICK d : /\ Live' = {d} /\ d.page = c.page /\ d.rows = PageOf(c.page).rows
                 /\ Live = {c} /\ (Reloading' <=> Reloading)
    BY <1>0, <1>1, ServerReadsFacts
  <2>2. UNCHANGED <<baseRows, rejected, triage, contested, input, progress>>
    BY <1>1 DEF ServerReads, serverVars, triageVars
  <2>3. c.page \in Nat \ {0}
    BY <1>0 DEF PagingTypes, Call
  <2>4. \A i \in DOMAIN d.rows : d.rows[i].status = triage[d.rows[i].id]
    BY <2>1, <2>3, PageFacts DEF PageFits
  <2> QED
    BY <2>1, <2>2, <2>4 DEF RowsAgree, Agrees
<1>2. ASSUME NEW c \in calls, PageArrives(c) \/ PageRejected(c), c \notin Live
      PROVE  RowsAgree'
  <2>1. /\ calls' = calls \ {c} /\ c.ctl # controller
        /\ UNCHANGED <<controller, isLoadingRef, baseRows, rejected, triage, contested, input,
                       progress>>
    BY <1>2 DEF PageArrives, PageRejected, Live, serverVars, triageVars
  <2>2. Live' = Live /\ (Reloading' <=> Reloading)
    BY <2>1, StaleFacts
  <2> QED
    BY <2>1, <2>2 DEF RowsAgree, Agrees
<1>3. ASSUME NEW c \in Live, PageArrives(c)
      PROVE  RowsAgree'
  <2>1. UNCHANGED <<triage, contested, input, progress>>
    BY <1>3 DEF PageArrives, serverVars
  <2>2. /\ Live = {c} /\ Live' = {} /\ (Reloading <=> c.page = 1)
    BY <1>0, <1>3, PageShown
  <2>3. PICK list \in Seq(Row) :
          /\ list = << >> \/ (c.read /\ list = c.rows)
          /\ \/ c.page = 1 /\ baseRows' = list
             \/ c.page # 1 /\ baseRows' = baseRows \o list /\ rejected' = rejected
    BY <1>0, <1>3, PageShown
  <2>4. \A i \in DOMAIN list : Agrees(list[i])
    BY <2>3 DEF RowsAgree
  <2>5. ~rejected' => \A i \in DOMAIN baseRows' : Agrees(baseRows'[i])
    <3>1. CASE c.page = 1
      BY <2>3, <2>4, <3>1
    <3>2. CASE c.page # 1
      <4>1. ~rejected => \A i \in DOMAIN baseRows : Agrees(baseRows[i])
        BY <2>2, <3>2 DEF RowsAgree
      <4>2. baseRows' = baseRows \o list /\ rejected' = rejected /\ baseRows \in Seq(Row)
        BY <1>0, <2>3, <3>2 DEF PagingTypes
      <4>3. \A i \in DOMAIN baseRows' :
              \/ i \in DOMAIN baseRows /\ baseRows'[i] = baseRows[i]
              \/ i - Len(baseRows) \in DOMAIN list /\ baseRows'[i] = list[i - Len(baseRows)]
        BY <4>2, JoinedRows
      <4> QED
        BY <2>4, <4>1, <4>2, <4>3
    <3> QED
      BY <3>1, <3>2
  <2> QED
    BY <2>1, <2>2, <2>5 DEF RowsAgree, Agrees
<1>4. ASSUME NEW c \in Live, PageRejected(c)
      PROVE  RowsAgree'
  <2>1. /\ UNCHANGED <<triage, contested, input, progress, baseRows>>
        /\ rejected' = (rejected \/ c.page = 1)
        /\ calls' = calls \ {c} /\ controller' = controller
    BY <1>4 DEF PageRejected, serverVars, triageVars, Live
  <2>2. Live = {c} /\ Live' = {}
    BY <2>1, ReturnFacts
  <2> QED
    BY <2>1, <2>2 DEF RowsAgree, Reloading, Agrees
<1>5. CASE \/ ExpandGroup \/ MuteSelected
           \/ \E u \in Updates : UpdateSucceeds(u) \/ UpdateFails(u)
  BY <1>0, <1>5, Reloads DEF RowsAgree
<1>6. CASE LoadNextPage
  <2>1. /\ Live = {} /\ \A c \in Live' : ~c.read
        /\ UNCHANGED <<triage, contested, input, progress, baseRows, rejected>>
    BY <1>0, <1>6, AskFacts DEF LoadNextPage, ExpandGroup, serverVars, triageVars
  <2> QED
    BY <2>1 DEF RowsAgree, Reloading, Agrees
<1>7. CASE \/ \E u \in Updates : \/ ServerWrites(u)
                                \/ \E f \in Findings, s \in TriageStatus : UpdateTriage(u, f, s)
           \/ \E f \in Findings, s \in TriageStatus : ChangedElsewhere(f, s)
           \/ \E i \in 1 .. Len(FindingOrder) : ToggleRow(i)
           \/ UNCHANGED listVars
  <2>1. UNCHANGED loadVars
    BY <1>7, PagesAlone
  <2>2. Live' = Live /\ (Reloading' <=> Reloading)
    BY <2>1, SameLoads
  <2>3. CASE \E u \in Updates : UpdateSucceeds(u) \/ UpdateFails(u)
    BY <1>5, <2>3
  <2>4. CASE \A u \in Updates : ~UpdateSucceeds(u) /\ ~UpdateFails(u)
    <3>1. \A r : r.id \in Findings /\ Agrees(r) => Agrees(r)'
      BY <2>4, AgreesKept
    <3>2. Live \subseteq calls
      BY DEF Live
    <3> QED
      BY <1>0, <2>1, <2>2, <3>1, <3>2 DEF RowsAgree, Agrees, loadVars
  <2> QED
    BY <2>3, <2>4
<1> QED
  BY <1>1, <1>2, <1>3, <1>4, <1>5, <1>6, <1>7 DEF ListNext

-----------------------------------------------------------------------------
(* No finding twice *)

\* A page as the server has just put it together.
LEMMA FreshPage ==
  ASSUME NEW list, NEW p \in Nat \ {0}, PageFits(list, p)
  PROVE  /\ Apart(list) /\ Within(list, p)
         /\ \A k \in DOMAIN list, i \in Unmuted :
              FindingOrder[i] = list[k].id => (p - 1) * PageSize < Rank(Unmuted, i)
<1>1. ASSUME NEW k \in DOMAIN list, NEW i \in Unmuted, FindingOrder[i] = list[k].id
      PROVE  (p - 1) * PageSize < Rank(Unmuted, i) /\ Rank(Unmuted, i) <= p * PageSize
  <2>1. PICK j \in Unmuted : /\ FindingOrder[j] = list[k].id
                            /\ (p - 1) * PageSize < Rank(Unmuted, j)
                            /\ Rank(Unmuted, j) <= p * PageSize
    BY DEF PageFits
  <2>2. i = j
    BY <1>1, <2>1, OrderFacts, UnmutedFinite
  <2> QED
    BY <2>1, <2>2
<1> QED
  BY <1>1 DEF PageFits, Within

LEMMA WithinKept ==
  ASSUME muted \subseteq muted'
  PROVE  \A list, p : p \in Nat /\ Within(list, p) => Within(list, p)'
<1> SUFFICES ASSUME NEW list, NEW p \in Nat, Within(list, p),
                    NEW k \in DOMAIN list, NEW i \in Unmuted', FindingOrder[i] = list[k].id
             PROVE  Rank(Unmuted', i) <= p * PageSize
  BY DEF Within
<1>0. Unmuted' \in SUBSET Unmuted
  BY DEF Unmuted
<1>1. /\ i \in Unmuted /\ Rank(Unmuted', i) \in Nat
      /\ Rank(Unmuted', i) <= Rank(Unmuted, i)
  BY <1>0, RanksFall, UnmutedFinite
<1>2. Rank(Unmuted, i) <= p * PageSize /\ Rank(Unmuted, i) \in Nat /\ p * PageSize \in Nat
  BY <1>1, UnmutedFinite, RankBounds, OrderFacts DEF Within
<1> QED
  BY <1>1, <1>2

\* Rows among the first pages are among the first of more pages.
LEMMA WithinMore ==
  ASSUME NEW list, NEW p \in Nat, Within(list, p)
  PROVE  Within(list, p + 1)
<1> SUFFICES ASSUME NEW k \in DOMAIN list, NEW i \in Unmuted, FindingOrder[i] = list[k].id
             PROVE  Rank(Unmuted, i) <= (p + 1) * PageSize
  BY DEF Within
<1>1. Rank(Unmuted, i) <= p * PageSize /\ Rank(Unmuted, i) \in Nat
  BY UnmutedFinite, RankBounds DEF Within
<1>2. (p + 1) * PageSize = p * PageSize + PageSize /\ p * PageSize \in Nat
  BY OrderFacts
<1> QED
  BY <1>1, <1>2, OrderFacts

LEMMA JoinedApart ==
  ASSUME NEW a \in Seq(Row), NEW b \in Seq(Row), NEW p \in Nat,
         Apart(a), Within(a, p), Apart(b), Within(b, p + 1),
         \A i \in DOMAIN a, k \in DOMAIN b : a[i].id # b[k].id
  PROVE  Apart(a \o b) /\ Within(a \o b, p + 1)
<1>1. /\ DOMAIN (a \o b) \subseteq Nat /\ Len(a) \in Nat
      /\ \A i \in DOMAIN (a \o b) :
           \/ i \in DOMAIN a /\ (a \o b)[i] = a[i]
           \/ i - Len(a) \in DOMAIN b /\ i > Len(a) /\ (a \o b)[i] = b[i - Len(a)]
  BY JoinedRows, LenProperties
<1>2. Within(a, p + 1)
  BY WithinMore
<1>3. Within(a \o b, p + 1)
  BY <1>1, <1>2 DEF Within
<1>4. Apart(a \o b)
  BY <1>1 DEF Apart
<1> QED
  BY <1>3, <1>4

LEMMA RowsApartStep ==
  ASSUME ListTypeOK, CallsOrdered, PagesFollow, RowsApart, [ListNext]_listVars
  PROVE  RowsApart'
<1>0. /\ PagingTypes /\ pageRef \in Nat /\ baseRows \in Seq(Row)
      /\ \A c \in calls : c.page \in Nat \ {0}
  BY DEF ListTypeOK, PagingTypes, Call
<1>1. ASSUME NEW c \in calls, ServerReads(c)
      PROVE  RowsApart'
  <2>1. PICK d : /\ Live' = {d} /\ d.page = c.page /\ d.rows = PageOf(c.page).rows
                 /\ Live = {c} /\ (Reloading' <=> Reloading)
    BY <1>0, <1>1, ServerReadsFacts
  <2>2. UNCHANGED <<baseRows, rejected, muted, pageRef>>
    BY <1>1 DEF ServerReads, serverVars
  <2>3. PageFits(d.rows, c.page)
    BY <1>0, <2>1, PageFacts
  <2>4. /\ Apart(d.rows) /\ Within(d.rows, c.page)
        /\ \A k \in DOMAIN d.rows, i \in Unmuted :
             FindingOrder[i] = d.rows[k].id => (c.page - 1) * PageSize < Rank(Unmuted, i)
    BY <1>0, <2>3, FreshPage
  <2>5. ASSUME ~rejected, c.page # 1,
               NEW i \in DOMAIN baseRows, NEW k \in DOMAIN d.rows
        PROVE  baseRows[i].id # d.rows[k].id
    <3>1. Within(baseRows, pageRef) /\ c.page = pageRef + 1
      BY <2>1, <2>5 DEF RowsApart, Reloading, PagesFollow
    <3>2. PICK j \in Unmuted : FindingOrder[j] = d.rows[k].id
      BY <2>3 DEF PageFits
    <3>3. /\ pageRef * PageSize < Rank(Unmuted, j)
          /\ Rank(Unmuted, j) \in Nat /\ pageRef * PageSize \in Nat
      <4>1. c.page - 1 = pageRef /\ (c.page - 1) * PageSize < Rank(Unmuted, j)
        BY <1>0, <2>4, <3>1, <3>2
      <4>2. (c.page - 1) * PageSize = pageRef * PageSize
        BY <4>1
      <4>3. Rank(Unmuted, j) \in Nat /\ pageRef * PageSize \in Nat
        BY <1>0, UnmutedFinite, RankBounds, OrderFacts
      <4> QED
        BY <4>1, <4>2, <4>3
    <3> QED
      BY <3>1, <3>2, <3>3 DEF Within
  <2> QED
    BY <2>1, <2>2, <2>4, <2>5 DEF RowsApart, Apart, Within, Unmuted
<1>2. ASSUME NEW c \in calls, PageArrives(c) \/ PageRejected(c), c \notin Live
      PROVE  RowsApart'
  <2>1. /\ calls' = calls \ {c} /\ c.ctl # controller
        /\ UNCHANGED <<controller, isLoadingRef, baseRows, pageRef, rejected, muted>>
    BY <1>2 DEF PageArrives, PageRejected, Live, serverVars
  <2>2. Live' = Live /\ (Reloading' <=> Reloading)
    BY <2>1, StaleFacts
  <2> QED
    BY <2>1, <2>2 DEF RowsApart, Apart, Within, Unmuted
<1>3. ASSUME NEW c \in Live, PageArrives(c)
      PROVE  RowsApart'
  <2>1. muted' = muted /\ c \in calls
    BY <1>3 DEF PageArrives, serverVars, Live
  <2>2. /\ Live = {c} /\ Live' = {} /\ (Reloading <=> c.page = 1)
        /\ pageRef' = c.page /\ c.page \in Nat
    BY <1>0, <1>3, PageShown
  <2>3. PICK list \in Seq(Row) :
          /\ list = << >> \/ (c.read /\ list = c.rows)
          /\ \/ c.page = 1 /\ baseRows' = list
             \/ c.page # 1 /\ baseRows' = baseRows \o list /\ rejected' = rejected
    BY <1>0, <1>3, PageShown
  <2>4. /\ Apart(list) /\ Within(list, c.page)
        /\ ~rejected /\ c.page # 1 =>
             \A i \in DOMAIN baseRows, k \in DOMAIN list : baseRows[i].id # list[k].id
    <3>1. CASE list = << >>
      BY <3>1 DEF Apart, Within
    <3>2. CASE c.read /\ list = c.rows
      BY <3>2 DEF RowsApart
    <3> QED
      BY <2>3, <3>1, <3>2
  <2>5. ~rejected' => Apart(baseRows') /\ Within(baseRows', c.page)
    <3>1. CASE c.page = 1
      BY <2>3, <2>4, <3>1
    <3>2. CASE c.page # 1 /\ ~rejected
      <4>1. Apart(baseRows) /\ Within(baseRows, pageRef) /\ c.page = pageRef + 1
        BY <2>2, <3>2 DEF RowsApart, PagesFollow
      <4>2. Apart(baseRows \o list) /\ Within(baseRows \o list, pageRef + 1)
        BY <1>0, <2>4, <3>2, <4>1, JoinedApart
      <4> QED
        BY <2>3, <3>2, <4>1, <4>2
    <3> QED
      BY <2>3, <3>1, <3>2
  <2> QED
    BY <2>1, <2>2, <2>5 DEF RowsApart, Apart, Within, Unmuted
<1>4. ASSUME NEW c \in Live, PageRejected(c)
      PROVE  RowsApart'
  <2>1. /\ UNCHANGED <<baseRows, muted, pageRef>>
        /\ rejected' = (rejected \/ c.page = 1)
        /\ calls' = calls \ {c} /\ controller' = controller
    BY <1>4 DEF PageRejected, serverVars, Live
  <2>2. Live = {c} /\ Live' = {}
    BY <2>1, ReturnFacts
  <2> QED
    BY <2>1, <2>2 DEF RowsApart, Reloading, Apart, Within, Unmuted
<1>5. CASE \/ ExpandGroup \/ MuteSelected
           \/ \E u \in Updates : UpdateSucceeds(u) \/ UpdateFails(u)
  BY <1>0, <1>5, Reloads DEF RowsApart
<1>6. CASE LoadNextPage
  <2>1. /\ Live = {} /\ \A c \in Live' : ~c.read
        /\ UNCHANGED <<muted, pageRef, baseRows, rejected>>
    BY <1>0, <1>6, AskFacts DEF LoadNextPage, ExpandGroup, serverVars
  <2> QED
    BY <2>1 DEF RowsApart, Reloading, Apart, Within, Unmuted
<1>7. CASE \/ \E u \in Updates : \/ ServerWrites(u)
                                \/ \E f \in Findings, s \in TriageStatus : UpdateTriage(u, f, s)
           \/ \E f \in Findings, s \in TriageStatus : ChangedElsewhere(f, s)
           \/ \E i \in 1 .. Len(FindingOrder) : ToggleRow(i)
           \/ UNCHANGED listVars
  <2>1. UNCHANGED loadVars /\ muted \subseteq muted'
    BY <1>7, PagesAlone
  <2>2. Live' = Live /\ (Reloading' <=> Reloading) /\ Live \subseteq calls
        /\ UNCHANGED <<baseRows, pageRef, rejected>>
    BY <2>1, SameLoads DEF Live, loadVars
  <2>3. \A list, p : p \in Nat /\ Within(list, p) => Within(list, p)'
    BY <2>1, WithinKept
  <2>4. ~rejected /\ ~Reloading => Within(baseRows, pageRef)'
    <3>1. ~rejected /\ ~Reloading => Within(baseRows, pageRef)
      BY DEF RowsApart
    <3> QED
      BY <1>0, <2>2, <2>3, <3>1 DEF Within
  <2>5. \A c \in Live : c.read => Within(c.rows, c.page)'
    <3>1. \A c \in Live : c.read => Within(c.rows, c.page) /\ c.page \in Nat
      BY <1>0, <2>2 DEF RowsApart
    <3> QED
      BY <2>3, <3>1
  <2>6. \A c \in Live : c.read =>
          /\ Apart(c.rows)
          /\ ~rejected /\ c.page # 1 =>
               \A i \in DOMAIN baseRows, k \in DOMAIN c.rows : baseRows[i].id # c.rows[k].id
    BY DEF RowsApart
  <2>7. ~rejected /\ ~Reloading => Apart(baseRows)
    BY DEF RowsApart
  <2> QED
    BY <2>2, <2>4, <2>5, <2>6, <2>7 DEF RowsApart, Apart
<1> QED
  BY <1>1, <1>2, <1>3, <1>4, <1>5, <1>6, <1>7 DEF ListNext

-----------------------------------------------------------------------------
(* Ticks *)

LEMMA TicksStep ==
  ASSUME ListTypeOK, CallsOrdered, Collapsed, PagesFollow, RowsApart, TicksKept,
         [ListNext]_listVars
  PROVE  TicksKept'
<1>0. /\ PagingTypes /\ baseRows \in Seq(Row) /\ shifted \in BOOLEAN
      /\ \A c \in calls : c.page \in Nat \ {0}
  BY DEF ListTypeOK, PagingTypes, TickTypes, Call
<1>1. ASSUME NEW c \in calls, ServerReads(c)
      PROVE  TicksKept'
  <2>1. Reloading' <=> Reloading
    BY <1>0, <1>1, ServerReadsFacts
  <2>2. UNCHANGED <<baseRows, rejected>> /\ UNCHANGED tickVars
    BY <1>1 DEF ServerReads
  <2> QED
    BY <2>1, <2>2 DEF TicksKept, SelectedFindingIds, tickVars
<1>2. ASSUME NEW c \in calls, PageArrives(c) \/ PageRejected(c), c \notin Live
      PROVE  TicksKept'
  <2>1. /\ calls' = calls \ {c} /\ c.ctl # controller
        /\ UNCHANGED <<controller, isLoadingRef, baseRows, rejected>> /\ UNCHANGED tickVars
    BY <1>2 DEF PageArrives, PageRejected, Live
  <2>2. Reloading' <=> Reloading
    BY <2>1, StaleFacts
  <2> QED
    BY <2>1, <2>2 DEF TicksKept, SelectedFindingIds, tickVars
<1>3. ASSUME NEW c \in Live, PageArrives(c)
      PROVE  TicksKept'
  <2>1. UNCHANGED tickVars
    BY <1>3 DEF PageArrives
  <2>2. ~Reloading' /\ (Reloading <=> c.page = 1)
    BY <1>0, <1>3, PageShown
  <2>3. PICK list \in Seq(Row) :
          \/ c.page = 1 /\ baseRows' = list
          \/ c.page # 1 /\ baseRows' = baseRows \o list /\ rejected' = rejected
    BY <1>0, <1>3, PageShown
  <2>4. CASE c.page = 1
    <3>1. ~shifted => rowSelection = {} /\ ticked = {}
      BY <2>2, <2>4 DEF TicksKept, SelectedFindingIds
    <3> QED
      BY <2>1, <2>2, <3>1 DEF TicksKept, SelectedFindingIds, tickVars
  <2>5. CASE c.page # 1 /\ rowSelection \subseteq DOMAIN baseRows
    <3>1. baseRows' = baseRows \o list /\ rejected' = rejected
      BY <2>3, <2>5
    <3>2. \A i \in DOMAIN baseRows : i \in DOMAIN baseRows' /\ baseRows'[i] = baseRows[i]
      BY <1>0, <3>1, JoinedRows
    <3>3. rowSelection' \subseteq DOMAIN baseRows' /\ SelectedFindingIds' = SelectedFindingIds
      BY <2>1, <2>5, <3>2 DEF SelectedFindingIds, tickVars
    <3> QED
      BY <2>1, <2>2, <3>1, <3>3 DEF TicksKept, tickVars
  <2>6. CASE shifted
    BY <2>1, <2>6 DEF TicksKept, tickVars
  <2> QED
    BY <2>4, <2>5, <2>6 DEF TicksKept
<1>4. ASSUME NEW c \in Live, PageRejected(c)
      PROVE  TicksKept'
  <2>1. /\ baseRows' = baseRows /\ UNCHANGED tickVars
        /\ rejected' = (rejected \/ c.page = 1)
        /\ calls' = calls \ {c} /\ controller' = controller
    BY <1>4 DEF PageRejected, Live
  <2>2. ~Reloading'
    BY <2>1, ReturnFacts
  <2> QED
    BY <2>1, <2>2 DEF TicksKept, SelectedFindingIds, tickVars
<1>5. CASE ExpandGroup
  <2>1. UNCHANGED tickVars /\ UNCHANGED <<baseRows, rejected>> /\ controller = 0
    BY <1>5 DEF ExpandGroup
  <2>2. rowSelection = {}
    BY <2>1 DEF Collapsed
  <2> QED
    BY <2>1, <2>2 DEF TicksKept, SelectedFindingIds, tickVars
<1>6. CASE MuteSelected
  BY <1>6 DEF MuteSelected, TicksKept, SelectedFindingIds
<1>7. CASE \E u \in Updates : UpdateSucceeds(u) \/ UpdateFails(u)
  <2>1. /\ UNCHANGED <<rowSelection, ticked, baseRows, rejected>>
        /\ shifted' = (shifted \/ rowSelection # {})
    BY <1>7 DEF UpdateSucceeds, UpdateFails, Refresh
  <2> QED
    BY <2>1 DEF TicksKept, SelectedFindingIds
<1>8. CASE LoadNextPage
  <2>1. /\ UNCHANGED <<baseRows, rejected>> /\ UNCHANGED tickVars /\ ~Reloading'
    BY <1>0, <1>8, AskFacts DEF LoadNextPage, Reloading
  <2> QED
    BY <2>1 DEF TicksKept, SelectedFindingIds, tickVars
<1>9. CASE \/ \E u \in Updates : \/ ServerWrites(u)
                                \/ \E f \in Findings, s \in TriageStatus : UpdateTriage(u, f, s)
           \/ \E f \in Findings, s \in TriageStatus : ChangedElsewhere(f, s)
           \/ UNCHANGED listVars
  <2>1. UNCHANGED loadVars
    BY <1>9, PagesAlone
  <2>2. UNCHANGED <<rowSelection, ticked, shifted>>
    BY <1>9 DEF ServerWrites, UpdateTriage, ChangedElsewhere, listVars, tickVars
  <2>3. Reloading' <=> Reloading
    BY <2>1, SameLoads
  <2> QED
    BY <2>1, <2>2, <2>3 DEF TicksKept, SelectedFindingIds, loadVars
<1>10. ASSUME NEW i \in 1 .. Len(FindingOrder), ToggleRow(i)
       PROVE  TicksKept'
  <2>1. /\ UNCHANGED loadVars /\ i \in DOMAIN baseRows
        /\ \/ /\ i \in rowSelection /\ rowSelection' = rowSelection \ {i}
              /\ ticked' = ticked \ {baseRows[i].id}
           \/ /\ rowSelection' = rowSelection \cup {i}
              /\ ticked' = ticked \cup {baseRows[i].id}
    BY <1>10 DEF ToggleRow
  <2>2. (Reloading' <=> Reloading) /\ UNCHANGED <<baseRows, rejected>>
    BY <2>1, SameLoads DEF loadVars
  <2>3. ~shifted' => ~shifted /\ ~Reloading
    BY <1>10 DEF ToggleRow, Reloading, CallsOrdered, Live
  <2>4. CASE shifted'
    BY <2>4 DEF TicksKept
  <2>5. CASE ~shifted'
    <3>1. /\ ~shifted /\ ~Reloading /\ rowSelection \subseteq DOMAIN baseRows
          /\ ticked \subseteq SelectedFindingIds
          /\ ~rejected => SelectedFindingIds \subseteq ticked /\ Apart(baseRows)
      BY <2>3, <2>5 DEF TicksKept, RowsApart
    <3>2. rowSelection' \subseteq DOMAIN baseRows
      BY <2>1, <3>1
    <3>3. SelectedFindingIds = {baseRows[j].id : j \in rowSelection}
          /\ SelectedFindingIds' = {baseRows[j].id : j \in rowSelection'}
      BY <2>2, <3>1, <3>2 DEF SelectedFindingIds
    <3>4. ticked' \subseteq SelectedFindingIds'
      BY <2>1, <3>1, <3>3
    <3>5. ~rejected => SelectedFindingIds' \subseteq ticked'
      <4>1. CASE rowSelection' = rowSelection \cup {i} /\ ticked' = ticked \cup {baseRows[i].id}
        BY <3>1, <3>3, <4>1
      <4>2. CASE rowSelection' = rowSelection \ {i} /\ ticked' = ticked \ {baseRows[i].id}
        <5>1. ~rejected => \A j \in rowSelection' : baseRows[j].id # baseRows[i].id
          BY <2>1, <3>1, <4>2 DEF Apart
        <5> QED
          BY <3>1, <3>3, <4>2, <5>1
      <4> QED
        BY <2>1, <4>1, <4>2
    <3> QED
      BY <2>2, <3>1, <3>2, <3>4, <3>5 DEF TicksKept
  <2> QED
    BY <2>4, <2>5
<1> QED
  BY <1>1, <1>2, <1>3, <1>4, <1>5, <1>6, <1>7, <1>8, <1>9, <1>10 DEF ListNext

-----------------------------------------------------------------------------
(* The invariant *)

LEMMA InitInv == ListInit => ListInv
<1> SUFFICES ASSUME ListInit PROVE ListInv
  OBVIOUS
<1>1. ListTypeOK
  BY InitTypes
<1>2. /\ calls = {} /\ baseRows = << >> /\ loaded = << >> /\ rowSelection = {} /\ ticked = {}
      /\ controller = 0 /\ settled = {} /\ ~shifted
      /\ optimistic = [f \in Findings |-> NoUpdate]
      /\ progress = [u \in Updates |-> "new"]
  BY DEF ListInit
<1>3. CallsOrdered /\ Collapsed /\ PagesFollow
  BY <1>2 DEF CallsOrdered, Collapsed, PagesFollow, Live
<1>4. UpdatesOrdered /\ Entries /\ EntriesWritten
  BY <1>2, UpdateFacts DEF UpdatesOrdered, Entries, EntriesWritten, Used, InFlight
<1>5. RowsAgree /\ RowsApart /\ TicksKept
  BY <1>2 DEF RowsAgree, RowsApart, TicksKept, Apart, Within, Live, Reloading,
              SelectedFindingIds
<1> QED
  BY <1>1, <1>3, <1>4, <1>5 DEF ListInv

\* Every part is kept, each with the help of the ones before it.
LEMMA InvStep == ListInv /\ [ListNext]_listVars => ListInv'
BY TypeStep, PagingStep, CollapsedStep, EntriesStep, RowsAgreeStep, RowsApartStep, TicksStep
   DEF ListInv, EntriesKept

\* The invariant the theorems below rest on: besides the types, that one request at a
\* time is not aborted and which page it is for, how updates, their entries and the server
\* hang together, and that the rows of all pages are different findings.
THEOREM ListInvariant == ListSpec => []ListInv
BY InitInv, InvStep, PTL DEF ListSpec

\* The rows, calls, updates and ticks keep their types.
THEOREM ListTypes == ListSpec => []ListTypeOK
<1>1. ListInv => ListTypeOK
  BY DEF ListInv
<1> QED
  BY <1>1, ListInvariant, PTL

\* fetchPage: the rows are pages 1, 2, ... each loaded once, whatever refreshes abort and
\* whenever the answers of aborted loads arrive.
THEOREM PagesComeInOrder == ListSpec => []PagesInOrder
<1>1. ListInv => PagesInOrder
  BY DEF ListInv, PagesFollow, PagesInOrder
<1> QED
  BY <1>1, ListInvariant, PTL

\* handleTriageUpdate: a row shows its newest change while it is under way.
THEOREM NewestShown == ListSpec => []NewestChangeShown
<1>1. ListInv => NewestChangeShown
  <2> SUFFICES ASSUME ListInv, NEW u \in Updates, NEW i \in DOMAIN baseRows,
                      InFlight(u), baseRows[i].id = input[u].id,
                      \A v \in Updates : v > u => input[v].id # input[u].id
               PROVE  ShownStatus(baseRows[i]) = input[u].status
    BY DEF NewestChangeShown
  <2>1. Newest(u)
    BY DEF Newest
  <2>2. optimistic[input[u].id] = u
    BY <2>1 DEF ListInv, Entries
  <2>3. u # NoUpdate
    BY UpdateFacts
  <2> QED
    BY <2>2, <2>3 DEF ShownStatus
<1> QED
  BY <1>1, ListInvariant, PTL

\* Once nothing is under way the rows show what the server holds, but for findings that
\* somebody else changed or whose updates reached the server in the other order.
THEOREM RowsShowServer == ListSpec => []RowsMatchServer
<1>1. ListInv => RowsMatchServer
  <2> SUFFICES ASSUME ListInv, ~isLoadingRef, ~rejected,
                      \A u \in Updates : ~InFlight(u),
                      NEW i \in DOMAIN baseRows, baseRows[i].id \notin contested
               PROVE  ShownStatus(baseRows[i]) = triage[baseRows[i].id]
    BY DEF RowsMatchServer
  <2> DEFINE f == baseRows[i].id
  <2>0. f \in Findings /\ optimistic[f] \in {NoUpdate} \cup Updates
    BY RowFacts DEF ListInv, ListTypeOK, PagingTypes, TriageTypes
  <2>1. CASE optimistic[f] = NoUpdate
    <3>1. ~Reloading
      BY DEF ListInv, CallsOrdered, Reloading
    <3>2. baseRows[i].status = triage[f]
      BY <3>1 DEF ListInv, RowsAgree, Agrees, InFlight
    <3> QED
      BY <2>1, <3>2 DEF ShownStatus
  <2>2. CASE optimistic[f] \in Updates
    <3> DEFINE u == optimistic[f]
    <3>1. Used(u)
      BY <2>0, <2>2 DEF ListInv, Entries
    <3>2. progress[u] = "done"
      BY <2>2, <3>1 DEF ListInv, ListTypeOK, TriageTypes, Used, InFlight
    <3>3. triage[f] = input[u].status
      BY <2>0, <2>2, <3>2 DEF ListInv, EntriesWritten
    <3> QED
      BY <2>2, <3>3, UpdateFacts DEF ShownStatus
  <2> QED
    BY <2>0, <2>1, <2>2
<1> QED
  BY <1>1, ListInvariant, PTL

\* handleMuteComplete and the append of pages: what "mute selected" takes is what the user
\* ticked, unless the rows were reloaded under the ticks.
THEOREM SelectionIsTicked == ListSpec => []SelectionIsWhatWasTicked
<1>1. ListInv => SelectionIsWhatWasTicked
  BY DEF ListInv, TicksKept, SelectionIsWhatWasTicked
<1> QED
  BY <1>1, ListInvariant, PTL

-----------------------------------------------------------------------------
(* What the drawer keeps *)

Mark == IF change.kind = "mute" THEN "muted" ELSE "triaged"

\* The change under way is of a finding; once made, the server holds it.
ChangeKnown ==
  /\ change = NoChange \/ change.item \in Items
  /\ change.done => Mark \in truth[change.item]

\* No load is newer than the current controller, and a failed one is over.
LoadsOrdered == \A x \in fetches : x.n <= fetchNo /\ (x.finding = "failed" => x.over)

\* DrawerShowsCurrentRow, and the load that may still be shown is of that row.
OnRow ==
  ~astray => /\ {currentFinding.item, otherOf} \subseteq {NoItem, RowNow}
             /\ \A x \in fetches : Current(x) => x.item = RowNow

\* A copy differs from the server at most by the change made but not confirmed.
Fits(k, copy) ==
  IF change.done /\ change.item = k THEN copy \cup {Mark} = truth[k] ELSE copy = truth[k]

\* So do the copy shown, the cached ones, and those of loads: a read one is cached even if
\* its load was aborted, one that is back is only shown, by the current load.
ShownFits == \A k \in Items \ stale : currentFinding.item = k => Fits(k, currentFinding.copy)
CacheFits ==
  \A k \in Items \ stale : findingCache[k] \in {NotCached, Missing} \/ Fits(k, findingCache[k])
LoadsFit ==
  \A x \in fetches : x.item \notin stale =>
    /\ x.finding = "read" => Fits(x.item, x.copy)
    /\ x.finding = "done" /\ Current(x) => x.copy = Missing \/ Fits(x.item, x.copy)
CopiesFit == ShownFits /\ CacheFits /\ LoadsFit

\* The inductive invariant.
DrawerInv == DrawerTypeOK /\ ChangeKnown /\ LoadsOrdered /\ OnRow /\ CopiesFit

-----------------------------------------------------------------------------
(* Steps of a load *)

LEMMA CopyFacts ==
  /\ Missing \notin Copies /\ NotCached \notin Copies /\ Missing # NotCached /\ {} \in Copies
  /\ NoShown \in [item : Items \cup {NoItem}, copy : Copies] /\ NoItem \notin Items
<1>1. Missing \notin Copies /\ NotCached \notin Copies /\ Missing # NotCached /\ {} \in Copies
  <2>1. "missing" \notin {"muted", "triaged"} /\ "not cached" \notin {"muted", "triaged"}
        /\ "missing" # "not cached"
    OBVIOUS
  <2> QED
    BY <2>1 DEF Missing, NotCached, Copies
<1> QED
  BY <1>1 DEF NoShown, NoItem, Items

\* What comes back with a load, and what the drawer shows of it.
Brings(x, copy) == copy = Missing \/ (x.finding \in {"read", "done"} /\ copy = x.copy)
Shows(x) ==
  \/ UNCHANGED shownState
  \/ currentFinding' = NoShown /\ otherOf' = NoItem
  \/ /\ Current(x) /\ otherOf' = x.item
     /\ \/ currentFinding' = NoShown
        \/ /\ currentFinding' = [item |-> x.item, copy |-> x.copy] /\ x.copy \in Copies
           /\ x.finding \in {"read", "done"}

LEMMA NavTypes ==
  ASSUME FlagTypes, UNCHANGED isOpen, FinishNavigation \/ UNCHANGED navState
  PROVE  FlagTypes'
<1>1. CASE UNCHANGED navState
  BY <1>1 DEF FlagTypes, navState
<1>2. CASE FinishNavigation
  <2>1. CASE navTimer' = TRUE /\ UNCHANGED <<isNavigating, navStarted>>
    BY <1>2, <2>1 DEF FlagTypes, FinishNavigation
  <2>2. CASE navTimer' = FALSE /\ isNavigating' = FALSE /\ navStarted' = FALSE
    BY <1>2, <2>2 DEF FlagTypes, FinishNavigation
  <2> QED
    BY <1>2, <2>1, <2>2 DEF FinishNavigation
<1> QED
  BY <1>1, <1>2

LEMMA Settles ==
  ASSUME LoadTypes, FlagTypes, NEW x \in fetches, NEW y \in Load, y.item = x.item, UNCHANGED isOpen,
         SettleLoad(x, y), Current(x) => Brings(x, y.copy)
  PROVE  Shows(x) /\ FlagTypes' /\ fetches' = fetches \ {x}
<1>1. CASE ~Current(x)
  <2>1. UNCHANGED <<shownState, navState>>
    BY <1>1 DEF SettleLoad
  <2> QED
    BY <2>1, NavTypes DEF Shows, SettleLoad
<1>2. CASE Current(x)
  <2>1. Show(y.item, y.copy) /\ FinishNavigation
    BY <1>2 DEF SettleLoad
  <2>2. Shows(x)
    <3>1. CASE y.copy = Missing
      BY <1>2, <2>1, <3>1 DEF Shows, Show
    <3>2. CASE y.copy # Missing
      <4>1. x.finding \in {"read", "done"} /\ y.copy = x.copy /\ y.copy \in Copies
        BY <1>2, <3>2 DEF Brings, Load
      <4> QED
        BY <1>2, <2>1, <3>2, <4>1 DEF Shows, Show
    <3> QED
      BY <3>1, <3>2
  <2> QED
    BY <2>1, <2>2, NavTypes DEF SettleLoad
<1> QED
  BY <1>1, <1>2

\* What a load becomes when one of its requests is read or comes back.
Becomes(x, y) ==
  /\ y \in Load /\ y.n = x.n /\ y.item = x.item
  /\ y.over \/ ~x.over
  /\ y.finding = "failed" => y.over
  /\ y.finding = "read" =>
       y.copy = truth[x.item] \/ (x.finding = "read" /\ y.copy = x.copy)
  /\ y.finding = "done" => Brings(x, y.copy)

LoadMoved(x) ==
  /\ UNCHANGED <<listState, placeState, fetchNo>>
  /\ \E y : Becomes(x, y) /\ fetches' \subseteq (fetches \ {x}) \cup {y}
  /\ \/ findingCache' = findingCache
     \/ \E copy \in {Missing} \cup (IF x.finding = "read" THEN {x.copy} ELSE {}) :
          findingCache' = [findingCache EXCEPT ![x.item] = copy]
  /\ otherCache' \in [Items -> BOOLEAN]
  /\ Shows(x) /\ FlagTypes'

LEMMA LoadRead ==
  ASSUME DrawerTypeOK, LoadsOrdered, NEW x \in fetches, FindingReads(x)
  PROVE  LoadMoved(x)
<1> USE DEF DrawerTypeOK
<1> DEFINE y == [x EXCEPT !.finding = "read", !.copy = truth[x.item]]
<1>1. x \in Load /\ truth[x.item] \in Copies
  BY DEF LoadTypes, UnderTypes, Load
<1>2. Becomes(x, y)
  BY <1>1 DEF Becomes, Load
<1>3. FlagTypes'
  BY DEF FindingReads, FlagTypes, placeState, navState
<1>4. Shows(x) /\ fetches' = (fetches \ {x}) \cup {y}
  BY DEF Shows, FindingReads
<1> HIDE DEF y
<1> QED
  BY <1>2, <1>3, <1>4 DEF LoadMoved, FindingReads, LoadTypes

LEMMA FindingBack ==
  ASSUME DrawerTypeOK, LoadsOrdered, NEW x \in fetches, FindingReturns(x)
  PROVE  LoadMoved(x)
<1> USE DEF DrawerTypeOK
<1>0. x \in Load
  BY DEF LoadTypes
<1>1. PICK copy \in {Missing} \cup (IF x.finding = "read" THEN {x.copy} ELSE {}) :
        LET y == [x EXCEPT !.finding = "done", !.copy = copy]
        IN  /\ findingCache' = [findingCache EXCEPT ![x.item] = copy]
            /\ IF x.other # "asked" THEN SettleLoad(x, y) ELSE Waits(<<x, y>>)
            /\ UNCHANGED <<listState, placeState, otherCache, fetchNo>>
  BY DEF FindingReturns
<1> DEFINE y == [x EXCEPT !.finding = "done", !.copy = copy]
<1>2. y \in Load /\ y.n = x.n /\ y.item = x.item /\ y.over = x.over /\ y.finding = "done"
      /\ y.copy = copy /\ Brings(x, copy)
  BY <1>0, <1>1 DEF Load, Brings
<1>3. Becomes(x, y)
  BY <1>0, <1>2 DEF Becomes, Load
<1> HIDE DEF y
<1>4. UNCHANGED isOpen
  BY <1>1 DEF placeState
<1>5. Shows(x) /\ FlagTypes' /\ fetches' \subseteq (fetches \ {x}) \cup {y}
  <2>1. CASE SettleLoad(x, y)
    BY <1>2, <1>4, <2>1, Settles
  <2>2. CASE Waits(<<x, y>>)
    BY <1>4, <2>2, NavTypes DEF Waits, Shows
  <2> QED
    BY <1>1, <2>1, <2>2 DEF y
<1> QED
  BY <1>1, <1>3, <1>5 DEF LoadMoved, LoadTypes

LEMMA OtherBack ==
  ASSUME DrawerTypeOK, LoadsOrdered, NEW x \in fetches, OtherReturns(x)
  PROVE  LoadMoved(x)
<1> USE DEF DrawerTypeOK
<1> DEFINE y == [x EXCEPT !.other = "done"]
<1>0. x \in Load /\ (x.finding = "failed" => x.over)
  BY DEF LoadTypes, LoadsOrdered
<1>1. /\ y \in Load /\ y.n = x.n /\ y.item = x.item /\ y.over = x.over /\ y.finding = x.finding
      /\ y.copy = x.copy
  BY <1>0 DEF Load
<1>2. Becomes(x, y)
  BY <1>0, <1>1 DEF Becomes, Brings
<1>3. otherCache' \in [Items -> BOOLEAN]
  BY <1>0 DEF OtherReturns, LoadTypes, Load
<1>4. UNCHANGED isOpen
  BY DEF OtherReturns, placeState
<1>5. Shows(x) /\ FlagTypes' /\ fetches' \subseteq (fetches \ {x}) \cup {y}
  <2>1. CASE SettleLoad(x, y) /\ x.finding \notin {"asked", "read"}
    <3>1. Current(x) => Brings(x, y.copy)
      BY <1>0, <1>1, <2>1 DEF Current, Brings, Load
    <3> HIDE DEF y
    <3> QED
      BY <1>1, <1>4, <2>1, <3>1, Settles
  <2>2. CASE Waits(<<x, y>>)
    <3> HIDE DEF y
    <3> QED
      BY <1>4, <2>2, NavTypes DEF Waits, Shows
  <2> QED
    BY <2>1, <2>2 DEF OtherReturns
<1> HIDE DEF y
<1> QED
  BY <1>2, <1>3, <1>5 DEF LoadMoved, OtherReturns

LEMMA RequestFails ==
  ASSUME DrawerTypeOK, LoadsOrdered, NEW x \in fetches, RequestRejects(x)
  PROVE  LoadMoved(x)
<1> USE DEF DrawerTypeOK
<1>0. x \in Load /\ UNCHANGED isOpen
  BY DEF LoadTypes, RequestRejects, placeState
<1>1. ASSUME NEW y \in Load, FailLoad(x, y), y.n = x.n, y.item = x.item, y.copy = x.copy,
             y.finding = x.finding \/ y.finding = "failed"
      PROVE  LoadMoved(x)
  <2> DEFINE z == [y EXCEPT !.over = TRUE]
  <2>1. z \in Load /\ z.n = x.n /\ z.item = x.item /\ z.over /\ z.copy = x.copy
        /\ (z.finding = x.finding \/ z.finding = "failed")
    BY <1>1 DEF Load
  <2>2. Becomes(x, z)
    BY <2>1 DEF Becomes, Brings
  <2>3. fetches' \subseteq (fetches \ {x}) \cup {z}
    BY <1>1 DEF FailLoad
  <2> HIDE DEF z
  <2>4. Shows(x) /\ FlagTypes'
    BY <1>0, <1>1, NavTypes DEF FailLoad, Shows
  <2> QED
    BY <2>2, <2>3, <2>4 DEF LoadMoved, RequestRejects, LoadTypes
<1>2. CASE FailLoad(x, [x EXCEPT !.finding = "failed"])
  <2> DEFINE y == [x EXCEPT !.finding = "failed"]
  <2>1. y \in Load /\ y.n = x.n /\ y.item = x.item /\ y.copy = x.copy /\ y.finding = "failed"
    BY <1>0 DEF Load
  <2> HIDE DEF y
  <2>2. FailLoad(x, y)
    BY <1>2 DEF y
  <2> QED
    BY <1>1, <2>1, <2>2
<1>3. CASE FailLoad(x, [x EXCEPT !.other = "failed"])
  <2> DEFINE y == [x EXCEPT !.other = "failed"]
  <2>1. y \in Load /\ y.n = x.n /\ y.item = x.item /\ y.copy = x.copy /\ y.finding = x.finding
    BY <1>0 DEF Load
  <2> HIDE DEF y
  <2>2. FailLoad(x, y)
    BY <1>3 DEF y
  <2> QED
    BY <1>1, <2>1, <2>2
<1> QED
  BY <1>2, <1>3 DEF RequestRejects

\* The four kinds of step of a load have this in common.
LEMMA LoadMoves ==
  ASSUME DrawerTypeOK, LoadsOrdered, NEW x \in fetches, FindingReads(x) \/ LoadStep(x)
  PROVE  LoadMoved(x)
BY LoadRead, FindingBack, OtherBack, RequestFails DEF LoadStep

-----------------------------------------------------------------------------
(* Starting a load. *)

\* Only the new load, if any, is not aborted; what the cache holds is shown.
Started(k, cached) ==
  /\ fetchNo' = fetchNo + 1 /\ fetchNo' \in 0 .. MaxFetches
  /\ \E y \in Load :
       /\ fetches' \subseteq fetches \cup {y}
       /\ y.n = fetchNo' /\ y.item = k
       /\ \/ y.finding = "asked"
          \/ y.finding = "done" /\ cached # NotCached /\ y.copy = cached
  /\ \/ currentFinding' = NoShown /\ otherOf' \in {NoItem, k}
     \/ /\ cached \in Copies /\ otherOf' = k
        /\ currentFinding' = [item |-> k, copy |-> cached]

LEMMA FetchStarts ==
  ASSUME LoadTypes, FlagTypes, NEW k \in Items, NEW cached,
         cached[k] \in Copies \cup {NotCached, Missing},
         isOpen' \in BOOLEAN, otherCache' \in [Items -> BOOLEAN], Fetch(k, cached)
  PROVE  Started(k, cached[k]) /\ FlagTypes'
<1>0. fetchNo + 1 \in 1 .. MaxFetches /\ fetchNo' = fetchNo + 1
  BY DrawerAssumption DEF Fetch, LoadTypes
<1>1. FlagTypes'
  <2>1. isNavigating' = TRUE /\ navStarted' = TRUE
    BY DEF Fetch
  <2>2. isLoading' \in BOOLEAN /\ navTimer' \in BOOLEAN
    BY DEF Fetch
  <2> QED
    BY <2>1, <2>2 DEF FlagTypes
<1> DEFINE y == NewLoad(fetchNo + 1, k, cached[k], otherCache'[k])
<1>2. /\ y \in Load /\ y.n = fetchNo' /\ y.item = k
      /\ \/ y.finding = "asked"
         \/ y.finding = "done" /\ cached[k] # NotCached /\ y.copy = cached[k]
  <2>1. CASE cached[k] = NotCached
    BY <1>0, <2>1, CopyFacts DEF NewLoad, Load
  <2>2. CASE cached[k] # NotCached
    BY <1>0, <2>2 DEF NewLoad, Load
  <2> QED
    BY <2>1, <2>2
<1>3. fetches' \subseteq fetches \cup {y}
  BY DEF Fetch
<1> HIDE DEF y
<1>4. \/ currentFinding' = NoShown /\ otherOf' \in {NoItem, k}
      \/ /\ cached[k] \in Copies /\ otherOf' = k
         /\ currentFinding' = [item |-> k, copy |-> cached[k]]
  <2>1. CASE currentFinding' = NoShown /\ otherOf' = NoItem
    BY <2>1
  <2>2. CASE cached[k] # NotCached /\ Show(k, cached[k])
    BY <2>2 DEF Show
  <2> QED
    BY <2>1, <2>2 DEF Fetch
<1> QED
  BY <1>0, <1>1, <1>2, <1>3, <1>4 DEF Started

LEMMA RowItems ==
  ASSUME UnderTypes, NEW k \in DOMAIN rows
  PROVE  rows[k] \in Items
<1>1. rows \in Seq(Items)
  BY DEF UnderTypes
<1>2. k \in 1 .. Len(rows)
  BY <1>1, LenProperties
<1> QED
  BY <1>1, <1>2, ElementOfSeq

LEMMA Navigates ==
  ASSUME DrawerTypeOK, NEW k, NavigateTo(k), isOpen' \in BOOLEAN
  PROVE  /\ k \in DOMAIN rows /\ rows[k] \in Items /\ currentIndex' = k /\ ~astray'
         /\ UNCHANGED <<truth, rows, change, stale, findingCache, otherCache>>
         /\ Started(rows[k], findingCache[rows[k]]) /\ FlagTypes'
<1> USE DEF DrawerTypeOK
<1>1. k \in DOMAIN rows /\ rows[k] \in Items
  BY RowItems DEF NavigateTo
<1>2. findingCache[rows[k]] \in Copies \cup {NotCached, Missing}
      /\ otherCache' \in [Items -> BOOLEAN]
  BY <1>1 DEF LoadTypes, NavigateTo
<1>3. Started(rows[k], findingCache[rows[k]]) /\ FlagTypes'
  BY <1>1, <1>2, FetchStarts DEF NavigateTo
<1> QED
  BY <1>1, <1>3 DEF NavigateTo

\* The drawer is opened or moved.
Moves ==
  \/ \E k \in Items : OpenDrawer(k)
  \/ NavigatePrev \/ NavigateNext

LEMMA Moved ==
  ASSUME DrawerTypeOK, Moves
  PROVE  \E k \in DOMAIN rows :
           /\ k \in Items /\ rows[k] \in Items /\ currentIndex' = k /\ ~astray'
           /\ UNCHANGED <<truth, rows, change, stale, findingCache, otherCache>>
           /\ Started(rows[k], findingCache[rows[k]]) /\ FlagTypes'
<1>1. isOpen' \in BOOLEAN
  BY DEF Moves, OpenDrawer, NavigatePrev, NavigateNext, DrawerTypeOK, FlagTypes
<1>2. currentIndex \in Items /\ NumItems \in Nat
  BY DrawerAssumption DEF DrawerTypeOK, ShownTypes
<1>3. ASSUME NEW k \in Items, NavigateTo(k)
      PROVE  \E l \in DOMAIN rows :
           /\ l \in Items /\ rows[l] \in Items /\ currentIndex' = l /\ ~astray'
           /\ UNCHANGED <<truth, rows, change, stale, findingCache, otherCache>>
           /\ Started(rows[l], findingCache[rows[l]]) /\ FlagTypes'
  BY <1>1, <1>3, Navigates
<1>4. currentIndex > 1 => currentIndex - 1 \in Items
  BY <1>2 DEF Items
<1>5. currentIndex < NumItems => currentIndex + 1 \in Items
  BY <1>2 DEF Items
<1>6. \E k \in Items : NavigateTo(k)
  BY <1>4, <1>5 DEF Moves, OpenDrawer, NavigatePrev, NavigateNext
<1> QED
  BY <1>3, <1>6

\* A mute is confirmed: the row is loaded anew with empty caches, or nothing happens.
LEMMA MuteReturned ==
  ASSUME DrawerTypeOK, MuteReturns
  PROVE  /\ FlagTypes'
         /\ \/ /\ change.row \in Items /\ Started(change.row, NotCached)
               /\ findingCache' = [findingCache EXCEPT ![change.row] = NotCached]
               /\ otherCache' \in [Items -> BOOLEAN]
            \/ /\ change.row = NoItem
               /\ UNCHANGED <<findingCache, otherCache, shownState, fetches, fetchNo>>
<1> USE DEF DrawerTypeOK
<1>0. change.row \in Items \cup {NoItem} /\ UNCHANGED isOpen
  BY DEF UnderTypes, MuteReturns, placeState
<1>1. CASE change.row # NoItem /\ Refetch(change.row)
  <2> DEFINE cached == [findingCache EXCEPT ![change.row] = NotCached]
  <2>1. cached[change.row] = NotCached
    BY <1>0, <1>1 DEF LoadTypes
  <2>2. findingCache' = cached /\ otherCache' \in [Items -> BOOLEAN] /\ Fetch(change.row, cached)
    BY <1>0, <1>1 DEF Refetch, LoadTypes
  <2> HIDE DEF cached
  <2>3. Started(change.row, NotCached) /\ FlagTypes'
    <3>1. PICK c : c = cached
      OBVIOUS
    <3>2. Fetch(change.row, c) /\ c[change.row] = NotCached
      BY <2>1, <2>2, <3>1
    <3>3. isOpen' \in BOOLEAN
      BY <1>0 DEF FlagTypes
    <3>4. Started(change.row, c[change.row]) /\ FlagTypes'
      BY <1>0, <1>1, <2>2, <3>2, <3>3, FetchStarts
    <3> QED
      BY <3>2, <3>4
  <2> QED
    BY <1>0, <1>1, <2>2, <2>3 DEF cached
<1>2. CASE /\ change.row = NoItem
           /\ UNCHANGED <<findingCache, otherCache, shownState, navState, fetches, fetchNo>>
  BY <1>0, <1>2, NavTypes
<1> QED
  BY <1>1, <1>2 DEF MuteReturns

-----------------------------------------------------------------------------
(* The drawer's types *)

LEMMA StartedTypes ==
  ASSUME LoadTypes, NEW k \in Items, NEW cached, Started(k, cached),
         findingCache' \in [Items -> Copies \cup {NotCached, Missing}],
         otherCache' \in [Items -> BOOLEAN], currentIndex' \in Items
  PROVE  ShownTypes' /\ LoadTypes'
<1>1. ShownTypes'
  <2>1. currentFinding' \in [item : Items \cup {NoItem}, copy : Copies]
    BY CopyFacts DEF Started
  <2> QED
    BY <2>1 DEF Started, ShownTypes
<1>2. LoadTypes'
  <2>1. \A x \in fetches' : x \in Load
    BY DEF Started, LoadTypes
  <2>2. fetchNo' \in 0 .. MaxFetches
    BY DEF Started
  <2> QED
    BY <2>1, <2>2 DEF LoadTypes
<1> QED
  BY <1>1, <1>2

LEMMA LoadMovedTypes ==
  ASSUME DrawerTypeOK, NEW x \in fetches, LoadMoved(x)
  PROVE  DrawerTypeOK'
<1> USE DEF DrawerTypeOK
<1>0. x \in Load
  BY DEF LoadTypes
<1>1. UnderTypes'
  BY DEF LoadMoved, listState, UnderTypes
<1>2. ShownTypes'
  <2>1. currentFinding' \in [item : Items \cup {NoItem}, copy : Copies]
        /\ otherOf' \in Items \cup {NoItem}
    BY <1>0, CopyFacts DEF LoadMoved, Shows, shownState, ShownTypes, Load
  <2> QED
    BY <2>1 DEF LoadMoved, placeState, ShownTypes
<1>3. LoadTypes'
  <2>1. findingCache' \in [Items -> Copies \cup {NotCached, Missing}]
    <3>1. \A copy \in {Missing} \cup (IF x.finding = "read" THEN {x.copy} ELSE {}) :
            copy \in Copies \cup {NotCached, Missing}
      BY <1>0 DEF Load
    <3> QED
      BY <3>1 DEF LoadMoved, LoadTypes
  <2>2. \A y \in fetches' : y \in Load
    BY DEF LoadMoved, Becomes, LoadTypes
  <2> QED
    BY <2>1, <2>2 DEF LoadMoved, LoadTypes
<1> QED
  BY <1>1, <1>2, <1>3 DEF LoadMoved

LEMMA MovesTypes ==
  ASSUME DrawerTypeOK, Moves
  PROVE  DrawerTypeOK'
<1> USE DEF DrawerTypeOK
<1>1. PICK k \in DOMAIN rows :
        /\ k \in Items /\ rows[k] \in Items /\ currentIndex' = k /\ ~astray'
        /\ UNCHANGED <<truth, rows, change, stale, findingCache, otherCache>>
        /\ Started(rows[k], findingCache[rows[k]]) /\ FlagTypes'
  BY Moved
<1>2. UnderTypes'
  <2>1. astray' = FALSE
    BY DEF Moves, OpenDrawer, NavigatePrev, NavigateNext, NavigateTo
  <2> QED
    BY <1>1, <2>1 DEF UnderTypes
<1>3. ShownTypes' /\ LoadTypes'
  <2>1. findingCache' \in [Items -> Copies \cup {NotCached, Missing}]
        /\ otherCache' \in [Items -> BOOLEAN]
    BY <1>1 DEF LoadTypes
  <2> QED
    BY <1>1, <2>1, StartedTypes
<1> QED
  BY <1>1, <1>2, <1>3

LEMMA ReloadTypes ==
  ASSUME UnderTypes, ReloadRows
  PROVE  rows' \in Seq(Items)
<1> DEFINE unmuted == {k \in Items : "muted" \notin truth[k]}
           size == IF Cardinality(unmuted) < FirstLoaded THEN Cardinality(unmuted) ELSE FirstLoaded
<1>1. unmuted \in SUBSET Nat /\ IsFiniteSet(unmuted) /\ Cardinality(unmuted) \in Nat
  <2>1. IsFiniteSet(Items) /\ Items \subseteq Nat
    BY DrawerAssumption, FS_Interval DEF Items
  <2>2. IsFiniteSet(unmuted)
    BY <2>1, FS_Subset
  <2> QED
    BY <2>1, <2>2, FS_CardinalityType
<1>2. rows' = [i \in 1 .. size |-> Ranked(unmuted, i)]
  BY DEF ReloadRows
<1>3. size \in Nat /\ size <= Cardinality(unmuted)
  <2> HIDE DEF unmuted
  <2> QED
    BY <1>1, DrawerAssumption
<1>4. \A i \in 1 .. size : Ranked(unmuted, i) \in Items
  <2>1. \A i \in 1 .. size : Ranked(unmuted, i) \in unmuted
    <3> HIDE DEF unmuted, size
    <3> QED
      BY <1>1, <1>3, RankTaken
  <2> QED
    BY <2>1
<1> HIDE DEF unmuted, size
<1>5. rows' \in [1 .. size -> Items]
  BY <1>2, <1>4
<1> QED
  BY <1>3, <1>5, SeqDef

LEMMA OtherDrawerTypes ==
  ASSUME DrawerTypeOK, ChangeKnown,
         \/ NavigationTimeout \/ CloseDrawer \/ AppendRows \/ ReloadRows
         \/ \E kind \in {"mute", "triage"} : BeginChange(kind)
         \/ ServerChanges \/ MuteReturns \/ TriageReturns \/ ChangeFails
         \/ UNCHANGED drawerVars
  PROVE  DrawerTypeOK'
<1> USE DEF DrawerTypeOK
<1>0. NoChange \in [item : Items \cup {NoItem}, row : Items \cup {NoItem},
                    kind : {"mute", "triage"}, done : BOOLEAN]
  BY DEF NoChange
<1>1. CASE NavigationTimeout \/ CloseDrawer
  <2>1. UNCHANGED <<listState, currentIndex, shownState, findingCache, otherCache, fetches,
                    fetchNo>>
    BY <1>1 DEF NavigationTimeout, CloseDrawer, placeState
  <2>2. FlagTypes'
    BY <1>1 DEF NavigationTimeout, CloseDrawer, placeState, navState, FlagTypes
  <2> QED
    BY <2>1, <2>2 DEF listState, shownState, UnderTypes, ShownTypes, LoadTypes
<1>2. CASE \/ AppendRows \/ ReloadRows \/ ServerChanges \/ ChangeFails
           \/ \E kind \in {"mute", "triage"} : BeginChange(kind)
  <2>1. UNCHANGED <<placeState, shownState, navState, findingCache, otherCache, fetches, fetchNo>>
    BY <1>2 DEF AppendRows, ReloadRows, ServerChanges, ChangeFails, BeginChange
  <2>2. ASSUME AppendRows PROVE UnderTypes'
    <3>1. PICK k \in Items : rows' = Append(rows, k)
      BY <2>2 DEF AppendRows
    <3>2. rows' \in Seq(Items)
      BY <3>1 DEF UnderTypes
    <3> QED
      BY <2>2, <3>2 DEF AppendRows, UnderTypes
  <2>3. ASSUME ReloadRows PROVE UnderTypes'
    <3>1. astray' \in BOOLEAN
      BY <2>3 DEF ReloadRows, UnderTypes
    <3> QED
      BY <2>3, <3>1, ReloadTypes DEF ReloadRows, UnderTypes
  <2>4. ASSUME ServerChanges \/ ChangeFails PROVE UnderTypes'
    <3>1. change.item \in Items /\ change \in [item : Items \cup {NoItem},
             row : Items \cup {NoItem}, kind : {"mute", "triage"}, done : BOOLEAN]
      BY <2>4 DEF ServerChanges, ChangeFails, ChangeKnown, UnderTypes
    <3>2. truth' \in [Items -> Copies]
      BY <2>4, <3>1 DEF ServerChanges, ChangeFails, UnderTypes, Copies
    <3>3. change' \in [item : Items \cup {NoItem}, row : Items \cup {NoItem},
                       kind : {"mute", "triage"}, done : BOOLEAN]
      BY <1>0, <2>4, <3>1 DEF ServerChanges, ChangeFails
    <3> QED
      BY <2>4, <3>1, <3>2, <3>3 DEF ServerChanges, ChangeFails, UnderTypes
  <2>5. ASSUME \E kind \in {"mute", "triage"} : BeginChange(kind) PROVE UnderTypes'
    <3>1. RowNow \in Items \cup {NoItem}
      BY RowItems DEF RowNow
    <3> QED
      BY <2>5, <3>1 DEF BeginChange, UnderTypes, ShownTypes
  <2>6. UnderTypes'
    BY <1>2, <2>2, <2>3, <2>4, <2>5
  <2> QED
    BY <2>1, <2>6 DEF placeState, shownState, navState, ShownTypes, FlagTypes, LoadTypes
<1>3. CASE MuteReturns
  <2>1. change.item \in Items
    BY <1>3, CopyFacts DEF MuteReturns, ChangeKnown, NoChange
  <2>2. astray' \in BOOLEAN
    BY <1>3 DEF MuteReturns
  <2>3. UnderTypes'
    BY <1>0, <1>3, <2>1, <2>2 DEF MuteReturns, UnderTypes
  <2>4. currentIndex' \in Items
    BY <1>3 DEF MuteReturns, placeState, ShownTypes
  <2>5. ShownTypes' /\ LoadTypes'
    <3>1. CASE /\ change.row \in Items /\ Started(change.row, NotCached)
               /\ findingCache' = [findingCache EXCEPT ![change.row] = NotCached]
               /\ otherCache' \in [Items -> BOOLEAN]
      <4>1. findingCache' \in [Items -> Copies \cup {NotCached, Missing}]
        BY <3>1 DEF LoadTypes
      <4> QED
        BY <2>4, <3>1, <4>1, StartedTypes
    <3>2. CASE UNCHANGED <<findingCache, otherCache, shownState, fetches, fetchNo>>
      BY <2>4, <3>2 DEF shownState, ShownTypes, LoadTypes
    <3> QED
      BY <1>3, <3>1, <3>2, MuteReturned
  <2> QED
    BY <1>3, <2>3, <2>5, MuteReturned
<1>4. CASE TriageReturns
  <2>1. change.item \in Items
    BY <1>4, CopyFacts DEF TriageReturns, ChangeKnown, NoChange
  <2>2. UnderTypes'
    BY <1>0, <1>4, <2>1 DEF TriageReturns, UnderTypes
  <2>3. \A k, copy : copy \in Copies => Patched(k, copy) \in Copies
    BY DEF Patched, Copies
  <2>4. currentFinding' \in [item : Items \cup {NoItem}, copy : Copies]
    BY <1>4, <2>3 DEF TriageReturns, PatchTriageUpdate, ShownTypes
  <2>5. findingCache' \in [Items -> Copies \cup {NotCached, Missing}]
    <3>1. \A k \in Items : findingCache[k] \in {NotCached, Missing} \/ findingCache[k] \in Copies
      BY DEF LoadTypes
    <3> QED
      BY <1>4, <2>3, <3>1 DEF TriageReturns, PatchTriageUpdate
  <2> QED
    BY <1>4, <2>2, <2>4, <2>5 DEF TriageReturns, placeState, navState, ShownTypes, FlagTypes,
                                LoadTypes
<1>5. CASE UNCHANGED drawerVars
  BY <1>5 DEF drawerVars, UnderTypes, ShownTypes, FlagTypes, LoadTypes
<1> QED
  BY <1>1, <1>2, <1>3, <1>4, <1>5

\* The ways the drawer goes on.
\* The steps of the drawer, by what they do to loads and copies.
LEMMA DrawerSteps ==
  ASSUME DrawerTypeOK, LoadsOrdered, [DrawerNext]_drawerVars
  PROVE  \/ \E x \in fetches : LoadMoved(x)
         \/ Moves
         \/ NavigationTimeout \/ CloseDrawer \/ AppendRows \/ ReloadRows
         \/ \E kind \in {"mute", "triage"} : BeginChange(kind)
         \/ ServerChanges \/ MuteReturns \/ TriageReturns \/ ChangeFails
         \/ UNCHANGED drawerVars
BY LoadMoves DEF DrawerNext, Moves

LEMMA DrawerTypeStep ==
  ASSUME DrawerTypeOK, ChangeKnown, LoadsOrdered, [DrawerNext]_drawerVars
  PROVE  DrawerTypeOK'
BY DrawerSteps, LoadMovedTypes, MovesTypes, OtherDrawerTypes

-----------------------------------------------------------------------------
(* Loads and the row *)

LEMMA ChangeStep ==
  ASSUME DrawerTypeOK, ChangeKnown, LoadsOrdered, [DrawerNext]_drawerVars
  PROVE  ChangeKnown'
<1> USE DEF DrawerTypeOK
<1>1. CASE \/ \E x \in fetches : LoadMoved(x)
           \/ Moves \/ NavigationTimeout \/ CloseDrawer \/ AppendRows \/ ReloadRows
           \/ UNCHANGED drawerVars
  <2>1. UNCHANGED <<truth, change>>
    BY <1>1, Moved DEF LoadMoved, NavigationTimeout, CloseDrawer, AppendRows, ReloadRows,
                       drawerVars, listState
  <2> QED
    BY <2>1 DEF ChangeKnown, Mark
<1>2. CASE \E kind \in {"mute", "triage"} : BeginChange(kind)
  <2>1. change'.item \in Items /\ ~change'.done
    BY <1>2 DEF BeginChange, ShownTypes
  <2> QED
    BY <2>1 DEF ChangeKnown
<1>3. CASE ServerChanges
  <2>1. change.item \in Items /\ change'.item = change.item /\ change'.kind = change.kind
    BY <1>3 DEF ServerChanges, ChangeKnown, UnderTypes
  <2>2. truth'[change.item] = truth[change.item] \cup {Mark} /\ Mark' = Mark
    BY <1>3, <2>1 DEF ServerChanges, UnderTypes, Mark
  <2> QED
    BY <2>1, <2>2 DEF ChangeKnown
<1>4. CASE MuteReturns \/ TriageReturns \/ ChangeFails
  <2>1. change' = NoChange /\ ~NoChange.done
    BY <1>4 DEF MuteReturns, TriageReturns, ChangeFails, NoChange
  <2> QED
    BY <2>1 DEF ChangeKnown
<1> QED
  BY <1>1, <1>2, <1>3, <1>4, DrawerSteps

\* A load that has started leaves no other that is not aborted.
\* A new load leaves no other that is not aborted.
LEMMA StartedAlone ==
  ASSUME LoadTypes, LoadsOrdered, NEW k, NEW cached, Started(k, cached)
  PROVE  /\ \A x \in fetches' : Current(x)' =>
              /\ x.item = k /\ x.finding # "read"
              /\ x.finding = "done" => cached # NotCached /\ x.copy = cached
         /\ LoadsOrdered'
<1>1. PICK y \in Load :
        /\ fetches' \subseteq fetches \cup {y}
        /\ y.n = fetchNo' /\ y.item = k
        /\ \/ y.finding = "asked"
           \/ y.finding = "done" /\ cached # NotCached /\ y.copy = cached
  BY DEF Started
<1>2. \A x \in fetches : x.n \in Nat /\ x.n <= fetchNo /\ fetchNo \in Nat
  BY DrawerAssumption DEF LoadsOrdered, LoadTypes, Load
<1>3. fetchNo' = fetchNo + 1
  BY DEF Started
<1>4. \A x \in fetches : x.n # fetchNo' /\ x.n <= fetchNo'
  BY <1>2, <1>3
<1>5. \A x \in fetches' : Current(x)' => x = y
  BY <1>1, <1>4 DEF Current
<1>6. y.n <= fetchNo'
  BY <1>1 DEF Load
<1>7. LoadsOrdered'
  BY <1>1, <1>4, <1>6 DEF LoadsOrdered
<1> QED
  BY <1>1, <1>5, <1>7

\* Steps between loads.
LEMMA LoadsAlone ==
  ASSUME \/ NavigationTimeout \/ CloseDrawer \/ AppendRows \/ ReloadRows
         \/ \E kind \in {"mute", "triage"} : BeginChange(kind)
         \/ ServerChanges \/ TriageReturns \/ ChangeFails \/ UNCHANGED drawerVars
  PROVE  UNCHANGED <<fetches, fetchNo, currentIndex, otherOf>>
         /\ (~TriageReturns => UNCHANGED <<currentFinding, findingCache>>)
BY DEF NavigationTimeout, CloseDrawer, AppendRows, ReloadRows, BeginChange, ServerChanges,
       TriageReturns, ChangeFails, drawerVars, placeState, shownState

LEMMA LoadsOrderedStep ==
  ASSUME DrawerTypeOK, LoadsOrdered, [DrawerNext]_drawerVars
  PROVE  LoadsOrdered'
<1> USE DEF DrawerTypeOK
<1>1. ASSUME NEW x \in fetches, LoadMoved(x) PROVE LoadsOrdered'
  BY <1>1 DEF LoadMoved, Becomes, LoadsOrdered
<1>2. CASE Moves
  BY <1>2, Moved, StartedAlone
<1>3. CASE MuteReturns
  <2>1. CASE UNCHANGED <<fetches, fetchNo>>
    BY <2>1 DEF LoadsOrdered
  <2>2. CASE Started(change.row, NotCached)
    BY <2>2, StartedAlone
  <2> QED
    BY <1>3, <2>1, <2>2, MuteReturned
<1>4. CASE UNCHANGED <<fetches, fetchNo>>
  BY <1>4 DEF LoadsOrdered
<1> QED
  BY <1>1, <1>2, <1>3, <1>4, DrawerSteps, LoadsAlone

\* What is shown, or may still be shown, follows the row.
LEMMA OnRowStep ==
  ASSUME DrawerTypeOK, LoadsOrdered, OnRow, [DrawerNext]_drawerVars
  PROVE  OnRow'
<1> USE DEF DrawerTypeOK
<1>0. NoItem \notin Items /\ NoShown.item = NoItem /\ \A x \in fetches : x.item \in Items
  BY CopyFacts DEF NoShown, LoadTypes, Load
<1>1. ASSUME NEW x \in fetches, LoadMoved(x) PROVE OnRow'
  <2>1. UNCHANGED <<rows, currentIndex, astray, fetchNo>>
    BY <1>1 DEF LoadMoved, listState, placeState
  <2>2. PICK y : Becomes(x, y) /\ fetches' \subseteq (fetches \ {x}) \cup {y}
    BY <1>1 DEF LoadMoved
  <2>3. Current(y)' => Current(x)
    BY <2>1, <2>2 DEF Becomes, Current
  <2>4. ~astray => \A z \in fetches' : Current(z)' => z.item = RowNow
    <3>1. \A z \in fetches : Current(z)' => Current(z)
      BY <2>1 DEF Current
    <3> QED
      BY <2>2, <2>3, <3>1 DEF OnRow, Becomes
  <2>5. ~astray => {currentFinding'.item, otherOf'} \subseteq {NoItem, RowNow}
    <3>1. CASE UNCHANGED shownState
      BY <3>1 DEF OnRow, shownState
    <3>2. CASE currentFinding' = NoShown /\ otherOf' = NoItem
      BY <1>0, <3>2
    <3>3. CASE /\ Current(x) /\ otherOf' = x.item
               /\ currentFinding' = NoShown \/ currentFinding' = [item |-> x.item, copy |-> x.copy]
      BY <1>0, <3>3 DEF OnRow
    <3> QED
      BY <1>1, <3>1, <3>2, <3>3 DEF LoadMoved, Shows
  <2>6. RowNow' = RowNow
    BY <2>1 DEF RowNow
  <2> QED
    BY <2>1, <2>4, <2>5, <2>6 DEF OnRow
<1>2. ASSUME NEW k \in Items, NEW cached, Started(k, cached), ~astray' => RowNow' = k
      PROVE  OnRow'
  <2>1. {currentFinding'.item, otherOf'} \subseteq {NoItem, k}
    BY <1>0, <1>2 DEF Started
  <2>2. \A x \in fetches' : Current(x)' => x.item = k
    BY <1>2, StartedAlone
  <2> QED
    BY <1>2, <2>1, <2>2 DEF OnRow
<1>3. CASE Moves
  <2>1. PICK k \in DOMAIN rows :
          /\ rows[k] \in Items /\ currentIndex' = k /\ rows' = rows
          /\ Started(rows[k], findingCache[rows[k]])
    BY <1>3, Moved
  <2>2. RowNow' = rows[k]
    BY <2>1 DEF RowNow
  <2> QED
    BY <1>2, <2>1, <2>2
<1>4. CASE MuteReturns
  <2>1. /\ astray' = (astray \/ change.row # RowNow)
        /\ UNCHANGED <<rows, currentIndex>>
    BY <1>4 DEF MuteReturns, placeState
  <2>2. RowNow' = RowNow
    BY <2>1 DEF RowNow
  <2>3. CASE UNCHANGED <<shownState, fetches, fetchNo>>
    BY <2>1, <2>2, <2>3 DEF OnRow, shownState, Current
  <2>4. CASE change.row \in Items /\ Started(change.row, NotCached)
    BY <1>2, <2>1, <2>2, <2>4
  <2> QED
    BY <1>4, <2>3, <2>4, MuteReturned
<1>5. CASE \/ NavigationTimeout \/ CloseDrawer \/ AppendRows \/ ReloadRows
           \/ \E kind \in {"mute", "triage"} : BeginChange(kind)
           \/ ServerChanges \/ TriageReturns \/ ChangeFails \/ UNCHANGED drawerVars
  <2>1. /\ UNCHANGED <<fetches, fetchNo, currentIndex, otherOf>>
        /\ currentFinding'.item = currentFinding.item
    BY <1>5, LoadsAlone DEF TriageReturns, PatchTriageUpdate, ShownTypes
  <2>2. \A x \in fetches' : x \in fetches /\ (Current(x)' <=> Current(x))
    BY <2>1 DEF Current
  <2>3. ASSUME ~astray' PROVE ~astray /\ (RowNow' = RowNow \/ RowNow = NoItem)
    <3>1. CASE UNCHANGED <<rows, astray>>
      BY <2>1, <2>3, <3>1 DEF RowNow
    <3>2. CASE AppendRows
      <4>1. /\ \A i \in DOMAIN rows : i \in DOMAIN rows' /\ rows'[i] = rows[i]
            /\ astray' = astray
        BY <3>2 DEF AppendRows, UnderTypes
      <4> QED
        BY <2>1, <2>3, <4>1 DEF RowNow
    <3>3. CASE ReloadRows
      BY <2>1, <2>3, <3>3 DEF ReloadRows, RowNow, UnderTypes
    <3> QED
      BY <1>5, <3>1, <3>2, <3>3 DEF NavigationTimeout, CloseDrawer, BeginChange, ServerChanges,
         TriageReturns, ChangeFails, drawerVars, listState
  <2> QED
    BY <1>0, <2>1, <2>2, <2>3 DEF OnRow
<1> QED
  BY <1>1, <1>3, <1>4, <1>5, DrawerSteps

-----------------------------------------------------------------------------
(* Copies and the server *)

LEMMA SameFits ==
  ASSUME UNCHANGED <<truth, change>>
  PROVE  \A k, copy : Fits(k, copy)' <=> Fits(k, copy)
BY DEF Fits, Mark

\* Steps that move no copy.
LEMMA CopiesAlone ==
  ASSUME CopiesFit, UNCHANGED <<currentFinding, findingCache, fetches, fetchNo>>,
         stale \subseteq stale', LoadTypes,
         \A k \in Items \ stale' : \A copy : Fits(k, copy) => Fits(k, copy)'
  PROVE  CopiesFit'
<1>1. ShownFits'
  BY DEF CopiesFit, ShownFits
<1>2. CacheFits'
  BY DEF CopiesFit, CacheFits
<1>3. LoadsFit'
  <2>1. \A x \in fetches : x.item \in Items /\ (Current(x)' <=> Current(x))
    BY DEF LoadTypes, Load, Current
  <2> QED
    BY <2>1 DEF CopiesFit, LoadsFit
<1> QED
  BY <1>1, <1>2, <1>3 DEF CopiesFit

\* A load brings and caches only what its request read.
LEMMA FitsLoadMoved ==
  ASSUME DrawerTypeOK, ChangeKnown, CopiesFit, NEW x \in fetches, LoadMoved(x)
  PROVE  CopiesFit'
<1> USE DEF DrawerTypeOK
<1>0. /\ UNCHANGED <<truth, change, stale, fetchNo>> /\ x.item \in Items
      /\ \A k, copy : Fits(k, copy)' <=> Fits(k, copy)
  BY SameFits DEF LoadMoved, listState, LoadTypes, Load
<1>1. Fits(x.item, truth[x.item])
  BY DEF Fits, ChangeKnown
<1>2. x.item \notin stale =>
        /\ x.finding = "read" => Fits(x.item, x.copy)
        /\ x.finding = "done" /\ Current(x) => x.copy = Missing \/ Fits(x.item, x.copy)
  BY DEF CopiesFit, LoadsFit
<1>3. ShownFits'
  <2> SUFFICES ASSUME NEW k \in Items, k \notin stale, currentFinding'.item = k
               PROVE  Fits(k, currentFinding'.copy)
    BY <1>0 DEF ShownFits
  <2>1. CASE UNCHANGED shownState
    BY <2>1 DEF CopiesFit, ShownFits, shownState
  <2>2. currentFinding' # NoShown
    BY CopyFacts DEF NoShown
  <2>3. CASE /\ Current(x) /\ currentFinding' = [item |-> x.item, copy |-> x.copy]
             /\ x.copy \in Copies /\ x.finding \in {"read", "done"}
    BY <1>2, <2>3, CopyFacts
  <2> QED
    BY <2>1, <2>2, <2>3 DEF LoadMoved, Shows
<1>4. CacheFits'
  <2>1. CASE findingCache' = findingCache
    BY <1>0, <2>1 DEF CopiesFit, CacheFits
  <2>2. ASSUME NEW copy, findingCache' = [findingCache EXCEPT ![x.item] = copy],
               copy = Missing \/ (x.finding = "read" /\ copy = x.copy)
        PROVE  CacheFits'
    <3>1. findingCache'[x.item] = copy
          /\ \A k \in Items : k # x.item => findingCache'[k] = findingCache[k]
      BY <1>0, <2>2 DEF LoadTypes
    <3>2. x.item \notin stale => copy = Missing \/ Fits(x.item, copy)
      BY <1>2, <2>2
    <3> QED
      BY <1>0, <3>1, <3>2 DEF CopiesFit, CacheFits
  <2> QED
    BY <2>1, <2>2 DEF LoadMoved
<1>5. LoadsFit'
  <2>1. PICK y : Becomes(x, y) /\ fetches' \subseteq (fetches \ {x}) \cup {y}
    BY DEF LoadMoved
  <2>2. /\ y.item = x.item /\ (Current(y)' => Current(x))
        /\ \A z \in fetches : Current(z)' <=> Current(z)
    BY <1>0, <2>1 DEF Becomes, Current
  <2>3. x.item \notin stale =>
          /\ y.finding = "read" => Fits(x.item, y.copy)
          /\ y.finding = "done" /\ Current(y)' => y.copy = Missing \/ Fits(x.item, y.copy)
    BY <1>1, <1>2, <2>1, <2>2 DEF Becomes, Brings
  <2> QED
    BY <1>0, <2>1, <2>2, <2>3 DEF CopiesFit, LoadsFit
<1> QED
  BY <1>3, <1>4, <1>5 DEF CopiesFit

LEMMA FitsMoves ==
  ASSUME DrawerTypeOK, LoadsOrdered, CopiesFit, Moves
  PROVE  CopiesFit'
<1> USE DEF DrawerTypeOK
<1>1. PICK r \in DOMAIN rows :
        /\ rows[r] \in Items
        /\ UNCHANGED <<truth, change, stale, findingCache>>
        /\ Started(rows[r], findingCache[rows[r]])
  BY Moved
<1> DEFINE k == rows[r]
           cached == findingCache[k]
<1>2. \A i, copy : Fits(i, copy)' <=> Fits(i, copy)
  BY <1>1, SameFits
<1>3. k \notin stale => cached \in {NotCached, Missing} \/ Fits(k, cached)
  BY <1>1 DEF CopiesFit, CacheFits
<1>4. ShownFits'
  <2>1. \/ currentFinding' = NoShown
        \/ cached \in Copies /\ currentFinding' = [item |-> k, copy |-> cached]
    BY <1>1 DEF Started
  <2>2. NoShown.item \notin Items
    BY CopyFacts DEF NoShown
  <2> HIDE DEF k, cached
  <2> QED
    BY <1>1, <1>2, <1>3, <2>1, <2>2, CopyFacts DEF ShownFits
<1>5. CacheFits'
  BY <1>1, <1>2 DEF CopiesFit, CacheFits
<1>6. LoadsFit'
  <2>1. \A x \in fetches' : Current(x)' =>
          x.item = k /\ (x.finding = "done" => cached # NotCached /\ x.copy = cached)
    BY <1>1, StartedAlone
  <2>2. \A x \in fetches' : x.finding = "read" => x \in fetches
    BY <1>1 DEF Started
  <2> HIDE DEF k, cached
  <2> QED
    BY <1>1, <1>2, <1>3, <2>1, <2>2 DEF CopiesFit, LoadsFit
<1> QED
  BY <1>4, <1>5, <1>6 DEF CopiesFit

\* The refetch forgets the muted finding's copy, or the row it was sent from is another.
LEMMA FitsMuteReturns ==
  ASSUME DrawerTypeOK, ChangeKnown, LoadsOrdered, CopiesFit, MuteReturns
  PROVE  CopiesFit'
<1> USE DEF DrawerTypeOK
<1>0. change.item \in Items /\ change.done
  BY CopyFacts DEF MuteReturns, ChangeKnown, NoChange
<1>1. /\ change' = NoChange /\ truth' = truth /\ stale \subseteq stale'
      /\ change.item \notin stale' => change.row = change.item /\ ~Late({"read"})
  BY DEF MuteReturns
<1>2. \A k \in Items : \A copy :
        /\ Fits(k, copy)' <=> copy = truth[k]
        /\ k # change.item => (Fits(k, copy) <=> copy = truth[k])
  BY <1>1, CopyFacts DEF Fits, NoChange
<1>3. CASE /\ change.row = NoItem
           /\ UNCHANGED <<findingCache, otherCache, shownState, fetches, fetchNo>>
  <2>0. change.item \in stale'
    BY <1>0, <1>1, <1>3, CopyFacts
  <2>1. \A k \in Items \ stale' : \A copy : Fits(k, copy) => Fits(k, copy)'
    BY <2>0, <1>2
  <2> QED
    BY <1>1, <1>3, <2>1, CopiesAlone DEF shownState
<1>4. CASE /\ change.row \in Items /\ Started(change.row, NotCached)
           /\ findingCache' = [findingCache EXCEPT ![change.row] = NotCached]
  <2>1. ShownFits'
    <3>1. currentFinding' = NoShown
      BY <1>4, CopyFacts DEF Started
    <3> QED
      BY <3>1, CopyFacts DEF ShownFits, NoShown
  <2>2. CacheFits'
    <3>1. findingCache'[change.row] = NotCached
          /\ \A k \in Items : k # change.row => findingCache'[k] = findingCache[k]
      BY <1>4 DEF LoadTypes
    <3>2. ASSUME NEW k \in Items, k \notin stale', k # change.row
          PROVE  findingCache[k] \in {NotCached, Missing} \/ findingCache[k] = truth[k]
      <4>1. k # change.item /\ k \notin stale
        BY <1>1, <3>2
      <4> QED
        BY <1>2, <4>1 DEF CopiesFit, CacheFits
    <3> QED
      BY <1>2, <3>1, <3>2 DEF CacheFits
  <2>3. LoadsFit'
    <3>1. \A x \in fetches' : Current(x)' => x.finding # "done"
      BY <1>4, StartedAlone
    <3>2. \A x \in fetches' : x.item \in Items /\ (x.finding = "read" => x \in fetches)
      BY <1>4 DEF Started, LoadTypes, Load
    <3>3. ASSUME NEW x \in fetches, x.item \in Items \ stale', x.finding = "read"
          PROVE  x.copy = truth[x.item]
      <4>1. CASE x.item = change.item
        BY <1>1, <3>3, <4>1 DEF Late
      <4>2. CASE x.item # change.item
        <5>1. Fits(x.item, x.copy)
          BY <1>1, <3>3 DEF CopiesFit, LoadsFit
        <5> QED
          BY <1>2, <3>3, <4>2, <5>1
      <4> QED
        BY <4>1, <4>2
    <3> QED
      BY <1>2, <3>1, <3>2, <3>3 DEF LoadsFit
  <2> QED
    BY <2>1, <2>2, <2>3 DEF CopiesFit
<1> QED
  BY <1>3, <1>4, MuteReturned

\* The patch reaches the copy shown and the cached ones.
LEMMA FitsTriageReturns ==
  ASSUME DrawerTypeOK, ChangeKnown, CopiesFit, TriageReturns
  PROVE  CopiesFit'
<1> USE DEF DrawerTypeOK
<1> DEFINE t == change.item
<1>0. t \in Items /\ change.done /\ Mark = "triaged"
  BY CopyFacts DEF TriageReturns, ChangeKnown, NoChange, Mark
<1>1. /\ change' = NoChange /\ truth' = truth /\ stale \subseteq stale'
      /\ t \notin stale' => ~Late({"read", "done"})
      /\ UNCHANGED <<fetches, fetchNo>>
  BY DEF TriageReturns
<1>2. \A k \in Items : \A copy :
        /\ Fits(k, copy)' <=> copy = truth[k]
        /\ k # t => (Fits(k, copy) <=> copy = truth[k])
        /\ Fits(k, copy) => Patched(k, copy) = truth[k]
  BY <1>0, <1>1, CopyFacts DEF Fits, NoChange, Patched
<1> HIDE DEF t
<1>3. ShownFits'
  <2>1. /\ currentFinding'.item = currentFinding.item
        /\ currentFinding'.copy = Patched(currentFinding.item, currentFinding.copy)
    BY DEF TriageReturns, PatchTriageUpdate, ShownTypes
  <2>2. \A k \in Items \ stale' : currentFinding.item = k => currentFinding'.copy = truth[k]
    BY <1>1, <1>2, <2>1 DEF CopiesFit, ShownFits
  <2> QED
    BY <1>2, <2>1, <2>2 DEF ShownFits
<1>4. CacheFits'
  <2> SUFFICES ASSUME NEW k \in Items, k \notin stale'
               PROVE  findingCache'[k] \in {NotCached, Missing} \/ findingCache'[k] = truth[k]
    BY <1>2 DEF CacheFits
  <2>1. findingCache'[k] = IF findingCache[k] \in {NotCached, Missing}
                           THEN findingCache[k] ELSE Patched(k, findingCache[k])
    BY DEF TriageReturns, PatchTriageUpdate
  <2>2. findingCache[k] \in {NotCached, Missing} \/ Fits(k, findingCache[k])
    BY <1>1 DEF CopiesFit, CacheFits
  <2> QED
    BY <1>2, <2>1, <2>2
<1>5. LoadsFit'
  <2>1. ASSUME NEW x \in fetches, x.item \notin stale', x.finding \in {"read", "done"},
               x.finding = "done" => Current(x)
        PROVE  x.copy = truth[x.item] \/ (x.finding = "done" /\ x.copy = Missing)
    <3>1. x.item \in Items /\ x.item \notin stale
      BY <1>1, <2>1 DEF LoadTypes, Load
    <3>2. CASE x.item = t
      BY <1>1, <2>1, <3>2 DEF Late, t
    <3>3. CASE x.item # t
      <4>1. Fits(x.item, x.copy) \/ (x.finding = "done" /\ x.copy = Missing)
        BY <2>1, <3>1 DEF CopiesFit, LoadsFit
      <4> QED
        BY <1>2, <3>1, <3>3, <4>1
    <3> QED
      BY <3>2, <3>3
  <2>2. \A x \in fetches : x.item \in Items /\ (Current(x)' <=> Current(x))
    BY <1>1 DEF LoadTypes, Load, Current
  <2> QED
    BY <1>1, <1>2, <2>1, <2>2 DEF LoadsFit
<1> QED
  BY <1>3, <1>4, <1>5 DEF CopiesFit

LEMMA FitsStep ==
  ASSUME DrawerTypeOK, ChangeKnown, LoadsOrdered, CopiesFit, [DrawerNext]_drawerVars
  PROVE  CopiesFit'
<1> USE DEF DrawerTypeOK
<1>1. CASE ServerChanges
  <2>1. change.item \in Items /\ ~change.done /\ change'.done /\ change'.item = change.item
        /\ stale' = stale
    BY <1>1 DEF ServerChanges, ChangeKnown, UnderTypes
  <2>2. /\ truth'[change.item] = truth[change.item] \cup {Mark} /\ Mark' = Mark
        /\ \A k \in Items : k # change.item => truth'[k] = truth[k]
    BY <1>1, <2>1 DEF ServerChanges, UnderTypes, Mark
  <2>3. \A k \in Items \ stale' : \A copy : Fits(k, copy) => Fits(k, copy)'
    BY <2>1, <2>2 DEF Fits
  <2> QED
    BY <1>1, <2>1, <2>3, CopiesAlone, LoadsAlone DEF ServerChanges, TriageReturns
<1>2. CASE ChangeFails \/ \E kind \in {"mute", "triage"} : BeginChange(kind)
  <2>1. /\ truth' = truth /\ ~change'.done /\ stale \subseteq stale'
        /\ change.done => change.item \in stale'
    BY <1>2 DEF ChangeFails, BeginChange, NoChange
  <2>2. \A k \in Items \ stale' : \A copy : Fits(k, copy) => Fits(k, copy)'
    BY <2>1 DEF Fits
  <2>3. UNCHANGED <<currentFinding, findingCache, fetches, fetchNo>>
    BY <1>2 DEF ChangeFails, BeginChange, shownState
  <2> QED
    BY <2>1, <2>2, <2>3, CopiesAlone
<1>3. CASE NavigationTimeout \/ CloseDrawer \/ AppendRows \/ ReloadRows \/ UNCHANGED drawerVars
  <2>1. UNCHANGED <<truth, change, stale, currentFinding, findingCache, fetches, fetchNo>>
    BY <1>3 DEF NavigationTimeout, CloseDrawer, AppendRows, ReloadRows, drawerVars, listState,
                shownState
  <2> QED
    BY <2>1, CopiesAlone, SameFits
<1> QED
  BY <1>1, <1>2, <1>3, DrawerSteps, FitsLoadMoved, FitsMoves, FitsMuteReturns, FitsTriageReturns

-----------------------------------------------------------------------------
(* The drawer's invariant *)

LEMMA DrawerInitInv == DrawerInit => DrawerInv
<1> SUFFICES ASSUME DrawerInit PROVE DrawerInv
  OBVIOUS
<1>0. 1 \in Items /\ Items \subseteq Nat /\ 1 \in 1 .. MaxFetches /\ 0 \in 0 .. MaxFetches
      /\ FirstLoaded \in Nat /\ FirstLoaded >= 1 /\ \A k \in 1 .. FirstLoaded : k \in Items
  BY DrawerAssumption DEF Items
<1> DEFINE x == NewLoad(1, 1, NotCached, FALSE)
<1>1. x \in Load /\ x.n = 1 /\ x.item = 1 /\ x.finding = "asked"
  BY <1>0, CopyFacts DEF NewLoad, Load
<1> HIDE DEF x
<1>2. /\ fetches \subseteq {x} /\ fetchNo \in 0 .. MaxFetches
      /\ fetches = {x} => fetchNo = 1
  <2>1. CASE fetches = {} /\ fetchNo = 0
    BY <1>0, <2>1
  <2>2. CASE fetches = {x} /\ fetchNo = 1
    BY <1>0, <2>2
  <2> QED
    BY <2>1, <2>2 DEF DrawerInit, x
<1>3. rows = [k \in 1 .. FirstLoaded |-> k] /\ rows \in Seq(Items) /\ RowNow = 1
  <2>1. rows = [k \in 1 .. FirstLoaded |-> k] /\ currentIndex = 1
    BY DEF DrawerInit, Listed
  <2>2. rows \in [1 .. FirstLoaded -> Items]
    BY <1>0, <2>1
  <2> QED
    BY <1>0, <2>1, <2>2, SeqDef DEF RowNow
<1>4. DrawerTypeOK
  <2>1. UnderTypes
    <3>1. truth \in [Items -> Copies]
      BY CopyFacts DEF DrawerInit
    <3>2. astray \in BOOLEAN
      BY DEF DrawerInit
    <3> QED
      BY <1>3, <3>1, <3>2 DEF UnderTypes, DrawerInit, NoChange
  <2>2. ShownTypes
    BY <1>0, CopyFacts DEF ShownTypes, DrawerInit
  <2>3. FlagTypes
    <3>1. isNavigating \in BOOLEAN /\ navStarted \in BOOLEAN /\ navTimer \in BOOLEAN
      BY DEF DrawerInit
    <3>2. isOpen \in BOOLEAN /\ isLoading \in BOOLEAN
      BY DEF DrawerInit
    <3> QED
      BY <3>1, <3>2 DEF FlagTypes
  <2>4. LoadTypes
    BY <1>1, <1>2 DEF LoadTypes, DrawerInit
  <2> QED
    BY <2>1, <2>2, <2>3, <2>4 DEF DrawerTypeOK
<1>5. ChangeKnown
  BY DEF ChangeKnown, DrawerInit, NoChange
<1>6. LoadsOrdered
  BY <1>1, <1>2 DEF LoadsOrdered
<1>7. OnRow
  BY <1>1, <1>2, <1>3 DEF OnRow, DrawerInit, NoShown
<1>8. CopiesFit
  <2>1. currentFinding.item \notin Items /\ \A k \in Items : findingCache[k] = NotCached
    BY CopyFacts DEF DrawerInit, NoShown
  <2> QED
    BY <1>1, <1>2, <2>1 DEF CopiesFit, ShownFits, CacheFits, LoadsFit
<1> QED
  BY <1>4, <1>5, <1>6, <1>7, <1>8 DEF DrawerInv

LEMMA DrawerInvStep == DrawerInv /\ [DrawerNext]_drawerVars => DrawerInv'
BY DrawerTypeStep, ChangeStep, LoadsOrderedStep, OnRowStep, FitsStep DEF DrawerInv

\* The invariant of the drawer, for any number of findings, loads and changes.
THEOREM DrawerInvariant == DrawerSpec => []DrawerInv
BY DrawerInitInv, DrawerInvStep, PTL DEF DrawerSpec

\* The rows, copies, caches and loads of the drawer keep their types.
THEOREM DrawerTypes == DrawerSpec => []DrawerTypeOK
<1>1. DrawerInv => DrawerTypeOK
  BY DEF DrawerInv
<1> QED
  BY <1>1, DrawerInvariant, PTL

\* fetchFindings: what the drawer shows is of the row it is on, however fast the user moves.
THEOREM ShowsCurrentRow == DrawerSpec => []DrawerShowsCurrentRow
<1>1. DrawerInv => DrawerShowsCurrentRow
  BY DEF DrawerInv, OnRow, DrawerShowsCurrentRow
<1> QED
  BY <1>1, DrawerInvariant, PTL

\* refetchCurrent and patchTriageUpdate: a confirmed change is shown from then on, and no
\* cache holds an older copy.
THEOREM ConfirmedStays == DrawerSpec => []ConfirmedChangeShown
<1>1. DrawerInv => ConfirmedChangeShown
  BY DEF DrawerInv, CopiesFit, ShownFits, CacheFits, Fits, ConfirmedChangeShown
<1> QED
  BY <1>1, DrawerInvariant, PTL

-----------------------------------------------------------------------------
(* What ListLoads rests on: a list that is loading has its request.         *)

SpinnerHasLoad == spinner = isLoadingRef /\ (isLoadingRef <=> Live # {})

LEMMA SpinnerStep ==
  ASSUME ListInv, SpinnerHasLoad, [ListNext]_listVars
  PROVE  SpinnerHasLoad'
<1>0. PagingTypes /\ CallsOrdered /\ PagesFollow /\ CallsOrdered'
  BY InvStep DEF ListInv, ListTypeOK
<1>2. ASSUME Refresh PROVE SpinnerHasLoad'
  BY <1>0, <1>2, RefreshFacts DEF SpinnerHasLoad, Refresh, FetchPage
<1>3. ASSUME NEW c \in calls, PageArrives(c) \/ PageRejected(c) PROVE SpinnerHasLoad'
  <2>1. CASE c.ctl # controller
    <3>1. calls' = calls \ {c} /\ UNCHANGED <<controller, isLoadingRef, spinner>>
      BY <1>3, <2>1 DEF PageArrives, PageRejected
    <3> QED
      BY <1>0, <2>1, <3>1, StaleFacts DEF SpinnerHasLoad
  <2>2. CASE c.ctl = controller
    <3>1. /\ isLoadingRef' = FALSE /\ spinner' = FALSE
          /\ calls' = calls \ {c} /\ controller' = controller
      BY <1>3, <2>2 DEF PageArrives, PageRejected, ShowPage
    <3>2. Live' = {}
      BY <1>0, <2>2, <3>1, ReturnFacts DEF Live
    <3> QED
      BY <3>1, <3>2 DEF SpinnerHasLoad
  <2> QED
    BY <2>1, <2>2
<1>4. ASSUME NEW c \in calls, ServerReads(c) PROVE SpinnerHasLoad'
  <2>1. Live # {} /\ Live' # {} /\ UNCHANGED <<isLoadingRef, spinner>>
    BY <1>0, <1>4, ServerReadsFacts DEF ServerReads
  <2> QED
    BY <2>1 DEF SpinnerHasLoad
<1>5. CASE ExpandGroup \/ LoadNextPage
  <2>1. isLoadingRef' = TRUE /\ spinner' = TRUE
        /\ Asked(controller', IF ExpandGroup THEN 1 ELSE pageRef + 1) \in Live'
    <3>1. CASE ExpandGroup
      BY <3>1 DEF ExpandGroup, FetchPage, Asked, Live
    <3>2. CASE LoadNextPage /\ ~ExpandGroup
      BY <3>2 DEF LoadNextPage, FetchPage, Asked, Live
    <3> QED
      BY <1>5, <3>1, <3>2
  <2> QED
    BY <2>1 DEF SpinnerHasLoad
<1>6. CASE \/ \E u \in Updates : \/ ServerWrites(u)
                                \/ \E f \in Findings, s \in TriageStatus : UpdateTriage(u, f, s)
           \/ \E f \in Findings, s \in TriageStatus : ChangedElsewhere(f, s)
           \/ \E i \in 1 .. Len(FindingOrder) : ToggleRow(i)
           \/ UNCHANGED listVars
  <2>1. UNCHANGED loadVars
    BY <1>6 DEF ServerWrites, UpdateTriage, ChangedElsewhere, ToggleRow, listVars, loadVars
  <2> QED
    BY <2>1 DEF SpinnerHasLoad, Live, loadVars
<1>7. CASE MuteSelected \/ \E u \in Updates : UpdateSucceeds(u) \/ UpdateFails(u)
  BY <1>2, <1>7 DEF MuteSelected, UpdateSucceeds, UpdateFails
<1> QED
  BY <1>3, <1>4, <1>5, <1>6, <1>7 DEF ListNext

\* The safety part of ListLoads: whatever is refreshed, aborted and answered in any order,
\* while the list loads, and shows it, exactly one request is on its way whose answer is
\* not dropped; with none on its way the list is not loading, so that the next page can
\* be asked for.
THEOREM LoadingHasItsRequest ==
  ListSpec => [](SpinnerHasLoad /\ \A c, d \in Live : c = d)
<1>1. ListInit => ListInv /\ SpinnerHasLoad
  <2>1. ListInit => SpinnerHasLoad
    BY DEF ListInit, SpinnerHasLoad, Live
  <2> QED
    BY <2>1, InitInv
<1>2. ListInv /\ SpinnerHasLoad /\ [ListNext]_listVars => (ListInv /\ SpinnerHasLoad)'
  BY InvStep, SpinnerStep
<1>3. ListInv /\ SpinnerHasLoad => SpinnerHasLoad /\ \A c, d \in Live : c = d
  BY DEF ListInv, CallsOrdered
<1> QED
  BY <1>1, <1>2, <1>3, PTL DEF ListSpec

-----------------------------------------------------------------------------
(* What SkeletonEnds rests on: a skeleton has a timer or a load.            *)

\* A load waits for one of its requests; loads are told apart by their numbers; the
\* drawer is loading while the newest has not ended.
Awaited(x) == x.finding \in {"asked", "read"} \/ x.other = "asked"

LoadsEnd ==
  /\ \A x \in fetches : Awaited(x)
  /\ \A x, y \in fetches : x.n = y.n => x = y
  /\ isLoading <=> \E x \in fetches : Current(x)

SkeletonHasEnd ==
  /\ isNavigating => navTimer \/ isLoading
  /\ navTimer => isNavigating
  /\ navStarted = isNavigating

\* A step of load x: it goes on, as y, or ends, and its other request with it or not.
GoesOn(x) ==
  /\ \E y : /\ y.n = x.n /\ y.over = x.over /\ Awaited(y)
            /\ fetches' = (fetches \ {x}) \cup {y}
  /\ UNCHANGED navState
Ends(x) ==
  /\ fetches \ {x} \subseteq fetches'
  /\ \A y, z \in fetches' \ (fetches \ {x}) : y.n = x.n /\ y.over /\ Awaited(y) /\ y = z
  /\ IF Current(x) THEN FinishNavigation ELSE UNCHANGED navState

LEMMA LoadGoesOnOrEnds ==
  ASSUME DrawerTypeOK, NEW x \in fetches, FindingReads(x) \/ LoadStep(x)
  PROVE  (GoesOn(x) \/ Ends(x)) /\ UNCHANGED fetchNo
<1>0. x \in Load /\ UNCHANGED fetchNo
  BY DEF DrawerTypeOK, LoadTypes, FindingReads, LoadStep, FindingReturns, OtherReturns,
         RequestRejects
<1>1. ASSUME NEW y, SettleLoad(x, y) PROVE Ends(x)
  BY <1>1 DEF SettleLoad, Ends
<1>2. ASSUME NEW y \in Load, y.n = x.n, y.over = x.over, Awaited(y), Waits(<<x, y>>)
      PROVE  GoesOn(x)
  BY <1>2 DEF Waits, GoesOn
<1>3. CASE FindingReads(x)
  <2> DEFINE y == [x EXCEPT !.finding = "read", !.copy = truth[x.item]]
  <2>1. y.n = x.n /\ y.over = x.over /\ y.finding = "read"
    BY <1>0 DEF Load
  <2>2. fetches' = (fetches \ {x}) \cup {y} /\ UNCHANGED navState
    BY <1>3 DEF FindingReads
  <2> HIDE DEF y
  <2> QED
    BY <1>0, <2>1, <2>2 DEF GoesOn, Awaited
<1>4. CASE FindingReturns(x)
  <2>1. PICK copy \in {Missing} \cup (IF x.finding = "read" THEN {x.copy} ELSE {}) :
          LET y == [x EXCEPT !.finding = "done", !.copy = copy]
          IN  IF x.other # "asked" THEN SettleLoad(x, y) ELSE Waits(<<x, y>>)
    BY <1>4 DEF FindingReturns
  <2> DEFINE y == [x EXCEPT !.finding = "done", !.copy = copy]
  <2>2. y.n = x.n /\ y.over = x.over /\ y.other = x.other /\ y \in Load
    BY <1>0, <2>1 DEF Load
  <2>3. (x.other # "asked" /\ SettleLoad(x, y)) \/ (x.other = "asked" /\ Waits(<<x, y>>))
    BY <2>1
  <2> HIDE DEF y
  <2> QED
    BY <1>0, <1>1, <1>2, <2>2, <2>3 DEF Awaited
<1>5. CASE OtherReturns(x)
  <2> DEFINE y == [x EXCEPT !.other = "done"]
  <2>1. y.n = x.n /\ y.over = x.over /\ y.finding = x.finding /\ y \in Load
    BY <1>0 DEF Load
  <2>2. \/ SettleLoad(x, y)
        \/ x.finding \in {"asked", "read"} /\ Waits(<<x, y>>)
    BY <1>5 DEF OtherReturns
  <2> HIDE DEF y
  <2> QED
    BY <1>0, <1>1, <1>2, <2>1, <2>2 DEF Awaited
<1>6. ASSUME NEW y \in Load, FailLoad(x, y), y.n = x.n PROVE Ends(x)
  <2> DEFINE z == [y EXCEPT !.over = TRUE]
             left == IF "asked" \in {y.finding, y.other} \/ y.finding = "read" THEN {z} ELSE {}
  <2>1. z.n = x.n /\ z.over /\ z.finding = y.finding /\ z.other = y.other
    BY <1>6 DEF Load
  <2>2. fetches' = (fetches \ {x}) \cup left
    BY <1>6 DEF FailLoad
  <2>3. \A w \in left : w = z /\ Awaited(z)
    <3> HIDE DEF z
    <3> QED
      BY <2>1 DEF Awaited
  <2>4. IF Current(x) THEN FinishNavigation ELSE UNCHANGED navState
    BY <1>6 DEF FailLoad
  <2> HIDE DEF z, left
  <2> QED
    BY <2>1, <2>2, <2>3, <2>4 DEF Ends
<1>7. CASE RequestRejects(x)
  <2> DEFINE y == [x EXCEPT !.finding = "failed"]
             z == [x EXCEPT !.other = "failed"]
  <2>1. y \in Load /\ z \in Load /\ y.n = x.n /\ z.n = x.n
    BY <1>0 DEF Load
  <2>2. FailLoad(x, y) \/ FailLoad(x, z)
    BY <1>7 DEF RequestRejects
  <2> HIDE DEF y, z
  <2> QED
    BY <1>0, <1>6, <2>1, <2>2
<1> QED
  BY <1>0, <1>3, <1>4, <1>5, <1>7 DEF LoadStep

\* A new load takes the place of the one the drawer waited for.
LEMMA FetchHasEnd ==
  ASSUME DrawerTypeOK, LoadsOrdered, LoadsEnd, NEW k \in Items, NEW cached, Fetch(k, cached),
         otherCache' \in [Items -> BOOLEAN]
  PROVE  LoadsEnd' /\ SkeletonHasEnd'
<1>1. fetchNo' = fetchNo + 1 /\ isNavigating' = TRUE /\ navStarted' = TRUE
  BY DEF Fetch
<1>2. \A x \in fetches : x.n \in Nat /\ x.n # fetchNo' /\ ~(x.n = fetchNo' /\ ~x.over)
  BY <1>1, DrawerAssumption DEF LoadsOrdered, DrawerTypeOK, LoadTypes, Load
<1>3. CASE UNCHANGED fetches /\ isLoading' = FALSE /\ navTimer' = TRUE
  <2>1. LoadsEnd'
    BY <1>2, <1>3 DEF LoadsEnd, Current
  <2> QED
    BY <1>1, <1>3, <2>1 DEF SkeletonHasEnd
<1>4. CASE /\ cached[k] = NotCached \/ ~otherCache'[k]
           /\ isLoading' = TRUE /\ navTimer' = FALSE
           /\ fetches' = fetches \cup {NewLoad(fetchNo + 1, k, cached[k], otherCache'[k])}
  <2> DEFINE y == NewLoad(fetchNo + 1, k, cached[k], otherCache'[k])
  <2>1. y.n = fetchNo' /\ ~y.over /\ Awaited(y)
    BY <1>1, <1>4 DEF NewLoad, Awaited
  <2>2. fetches' = fetches \cup {y}
    BY <1>4
  <2> HIDE DEF y
  <2>3. /\ \A x \in fetches' : Awaited(x)
        /\ \A x, z \in fetches' : x.n = z.n => x = z
        /\ \E x \in fetches' : x.n = fetchNo' /\ ~x.over
    BY <1>2, <2>1, <2>2 DEF LoadsEnd
  <2>4. LoadsEnd'
    BY <1>4, <2>3 DEF LoadsEnd, Current
  <2> QED
    BY <1>1, <1>4, <2>4 DEF SkeletonHasEnd
<1> QED
  BY <1>3, <1>4 DEF Fetch

LEMMA LoadHasEnd ==
  ASSUME DrawerTypeOK, LoadsEnd, SkeletonHasEnd, NEW x \in fetches, FindingReads(x) \/ LoadStep(x)
  PROVE  LoadsEnd' /\ SkeletonHasEnd'
<1>0. (GoesOn(x) \/ Ends(x)) /\ fetchNo' = fetchNo
  BY LoadGoesOnOrEnds
<1>1. CASE GoesOn(x)
  <2>1. PICK y : /\ y.n = x.n /\ y.over = x.over /\ Awaited(y)
                 /\ fetches' = (fetches \ {x}) \cup {y}
    BY <1>1 DEF GoesOn
  <2>2. /\ \A w \in fetches' : Awaited(w)
        /\ \A w, z \in fetches' : w.n = z.n => w = z
        /\ (\E w \in fetches' : w.n = fetchNo' /\ ~w.over) <=> \E w \in fetches : Current(w)
    BY <1>0, <2>1 DEF LoadsEnd, Current
  <2>3. UNCHANGED <<isLoading, isNavigating, navStarted, navTimer>>
    BY <1>1 DEF GoesOn, navState
  <2> QED
    BY <2>2, <2>3 DEF LoadsEnd, SkeletonHasEnd, Current
<1>2. CASE Ends(x)
  <2>1. /\ fetches \ {x} \subseteq fetches'
        /\ \A y, z \in fetches' \ (fetches \ {x}) : y.n = x.n /\ y.over /\ Awaited(y) /\ y = z
    BY <1>2 DEF Ends
  <2>2. /\ \A w \in fetches' : Awaited(w)
        /\ \A w, z \in fetches' : w.n = z.n => w = z
    BY <2>1 DEF LoadsEnd
  <2>3. \A w : w \in fetches' /\ w.n = fetchNo' /\ ~w.over <=>
               w \in fetches /\ Current(w) /\ w # x
    BY <1>0, <2>1 DEF Current
  <2>4. CASE Current(x)
    <3>1. FinishNavigation
      BY <1>2, <2>4 DEF Ends
    <3>2. \A w \in fetches : Current(w) => w = x
      BY <2>4 DEF LoadsEnd, Current
    <3>3. LoadsEnd'
      BY <2>2, <2>3, <3>1, <3>2 DEF LoadsEnd, FinishNavigation, Current
    <3>4. SkeletonHasEnd'
      BY <3>1 DEF SkeletonHasEnd, FinishNavigation
    <3> QED
      BY <3>3, <3>4
  <2>5. CASE ~Current(x)
    <3>1. UNCHANGED <<isLoading, isNavigating, navStarted, navTimer>>
      BY <1>2, <2>5 DEF Ends, navState
    <3>2. (\E w \in fetches' : w.n = fetchNo' /\ ~w.over) <=> \E w \in fetches : Current(w)
      BY <2>3, <2>5
    <3> QED
      BY <2>2, <3>1, <3>2 DEF LoadsEnd, SkeletonHasEnd, Current
  <2> QED
    BY <2>4, <2>5
<1> QED
  BY <1>0, <1>1, <1>2

LEMMA SkeletonStep ==
  ASSUME DrawerInv, LoadsEnd, SkeletonHasEnd, [DrawerNext]_drawerVars
  PROVE  LoadsEnd' /\ SkeletonHasEnd'
<1>0. DrawerTypeOK /\ LoadsOrdered /\ otherCache \in [Items -> BOOLEAN]
  BY DEF DrawerInv, DrawerTypeOK, LoadTypes
<1>1. CASE \E x \in fetches : FindingReads(x) \/ LoadStep(x)
  BY <1>0, <1>1, LoadHasEnd
<1>2. CASE NavigationTimeout
  <2>1. UNCHANGED <<fetches, fetchNo, isLoading>> /\ ~navTimer' /\ ~isNavigating' /\ ~navStarted'
        /\ navStarted' = isNavigating'
    BY <1>2 DEF NavigationTimeout
  <2> QED
    BY <2>1 DEF LoadsEnd, SkeletonHasEnd, Current
<1>3. CASE Moves
  <2>1. PICK k \in Items : NavigateTo(k)
    <3>1. currentIndex \in Items /\ NumItems \in Nat
      BY <1>0, DrawerAssumption DEF DrawerTypeOK, ShownTypes
    <3>2. /\ currentIndex > 1 => currentIndex - 1 \in Items
          /\ currentIndex < NumItems => currentIndex + 1 \in Items
      BY <3>1 DEF Items
    <3> QED
      BY <1>3, <3>2 DEF Moves, OpenDrawer, NavigatePrev, NavigateNext
  <2>2. Fetch(rows[k], findingCache) /\ otherCache' = otherCache /\ rows[k] \in Items
    BY <1>0, <2>1, RowItems DEF NavigateTo, DrawerTypeOK
  <2> QED
    BY <1>0, <2>2, FetchHasEnd
<1>4. CASE MuteReturns /\ change.row # NoItem
  <2>1. change.row \in Items /\ Refetch(change.row)
    BY <1>0, <1>4 DEF MuteReturns, DrawerTypeOK, UnderTypes
  <2>2. PICK cached : Fetch(change.row, cached)
    BY <2>1 DEF Refetch
  <2>3. otherCache' \in [Items -> BOOLEAN]
    BY <1>0, <2>1 DEF Refetch
  <2> QED
    BY <1>0, <2>1, <2>2, <2>3, FetchHasEnd
<1>5. CASE UNCHANGED <<fetches, fetchNo, navState>>
  BY <1>5 DEF LoadsEnd, SkeletonHasEnd, Current, navState
<1>6. CASE \/ CloseDrawer \/ AppendRows \/ ReloadRows
           \/ \E kind \in {"mute", "triage"} : BeginChange(kind)
           \/ ServerChanges \/ TriageReturns \/ ChangeFails
           \/ MuteReturns /\ change.row = NoItem
           \/ UNCHANGED drawerVars
  BY <1>5, <1>6 DEF CloseDrawer, AppendRows, ReloadRows, BeginChange, ServerChanges, TriageReturns,
                    ChangeFails, MuteReturns, drawerVars, navState
<1> QED
  BY <1>1, <1>2, <1>3, <1>4, <1>6 DEF DrawerNext, Moves

\* The safety part of SkeletonEnds: however fast the user moves, and whatever fails or is
\* aborted, a skeleton on screen has its timer set or the newest load in progress, and a
\* load in progress waits for a request: finishNavigation is reached on every path.
THEOREM SkeletonAwaitsAnEnd == DrawerSpec => [](SkeletonHasEnd /\ LoadsEnd)
<1>1. DrawerInit => LoadsEnd /\ SkeletonHasEnd
  <2> SUFFICES ASSUME DrawerInit PROVE LoadsEnd /\ SkeletonHasEnd
    OBVIOUS
  <2>1. ~isNavigating /\ ~navTimer /\ navStarted = isNavigating
    BY DEF DrawerInit
  <2>2. \/ fetches = {} /\ ~isLoading
        \/ /\ isLoading /\ fetchNo = 1 /\ fetches = {NewLoad(1, 1, NotCached, FALSE)}
    BY DEF DrawerInit
  <2>3. LoadsEnd
    <3>1. CASE fetches = {} /\ ~isLoading
      BY <3>1 DEF LoadsEnd
    <3>2. CASE isLoading /\ fetchNo = 1 /\ fetches = {NewLoad(1, 1, NotCached, FALSE)}
      <4> DEFINE x == NewLoad(1, 1, NotCached, FALSE)
      <4>1. x.n = 1 /\ ~x.over /\ Awaited(x)
        BY DEF NewLoad, Awaited
      <4>2. fetches = {x}
        BY <3>2
      <4> HIDE DEF x
      <4> QED
        BY <3>2, <4>1, <4>2 DEF LoadsEnd, Current
    <3> QED
      BY <2>2, <3>1, <3>2
  <2> QED
    BY <2>1, <2>3 DEF SkeletonHasEnd
<1>2. DrawerInv /\ LoadsEnd /\ SkeletonHasEnd /\ [DrawerNext]_drawerVars
        => (DrawerInv /\ LoadsEnd /\ SkeletonHasEnd)'
  BY DrawerInvStep, SkeletonStep
<1> QED
  BY <1>1, <1>2, DrawerInitInv, PTL DEF DrawerSpec

-----------------------------------------------------------------------------
(* The list, the drawer and the chat beside each other.                     *)

\* A step of the UI is a step of one view and leaves the others alone.
LEMMA UIStepIsViewStep ==
  ASSUME [UINext]_uiVars
  PROVE  [ListNext]_listVars /\ [DrawerNext]_drawerVars /\ [ChatNext]_chatVars
<1>1. CASE UseFindings
  BY <1>1 DEF UseFindings
<1>2. CASE UseDrawer
  BY <1>2 DEF UseDrawer
<1>3. CASE UseChat
  BY <1>3 DEF UseChat
<1>4. CASE UNCHANGED uiVars
  BY <1>4 DEF uiVars
<1> QED
  BY <1>1, <1>2, <1>3, <1>4 DEF UINext

\* The composition that is model-checked implements each of its components, fairness
\* included: what is proved of a component holds in it.
THEOREM ViewsImplementComponents == UISpec => ListSpec /\ DrawerSpec /\ ChatSpec
<1>1. UIInit => ListInit /\ DrawerInit /\ ChatInit
  BY DEF UIInit
<1>2. [UINext]_uiVars => [ListNext]_listVars /\ [DrawerNext]_drawerVars /\ [ChatNext]_chatVars
  BY UIStepIsViewStep
<1> QED
  BY <1>1, <1>2, PTL DEF UISpec, ListSpec, DrawerSpec, ChatSpec

\* The variables of the three views keep their types.
THEOREM FindingsAndChatTypeCorrect == UISpec => []FindingsAndChatTypeOK
<1>1. ListTypeOK /\ DrawerTypeOK /\ ChatTypeOK => FindingsAndChatTypeOK
  BY DEF FindingsAndChatTypeOK
<1> QED
  BY <1>1, ViewsImplementComponents, ListTypes, DrawerTypes, ChatTypeCorrect, PTL
=============================================================================
