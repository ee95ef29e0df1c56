---------------------------- MODULE UserFlowsProofs ----------------------------
(***************************************************************************)
(* Proofs about AttackPathsPage, for any set of scans and any number of    *)
(* executions and visits: its types, that the graph on screen belongs to   *)
(* the selected scan, and that a filtered view leads back to its whole.    *)
(*                                                                         *)
(* Then, with the theorems of TaskWatcherProofs and OrgWizardProofs, that  *)
(* the composition of the three flows that is model-checked implements     *)
(* each of them, so that what is proved of a flow holds in it.             *)
(***************************************************************************)
EXTENDS MCUserFlows, TaskWatcherProofs, OrgWizardProofs

-----------------------------------------------------------------------------
(* Types *)

\* The graphs the store can hold.
LEMMA GraphTypes ==
  /\ NoGraph \in Graphs
  /\ \A q \in Queries, part \in Parts : Graph(q, part) \in Graphs
  BY DEF NoGraph, Graph, Graphs, Parts

LEMMA InitPageTypes == PageInit => PageTypeOK
<1> SUFFICES ASSUME PageInit PROVE PageTypeOK
  OBVIOUS
<1>1. visits \in 0 .. MaxVisits
  BY PageAssumption DEF PageInit
<1>2. pageOpen \in BOOLEAN /\ isFilteredView \in BOOLEAN /\ graphLoading \in BOOLEAN
      /\ queriesLoading \in BOOLEAN /\ queriesError \in BOOLEAN
  BY DEF PageInit
<1> QED
  BY <1>1, <1>2, GraphTypes DEF PageInit, PageTypeOK

\* Selecting, opening and leaving.
LEMMA PlaceTypes ==
  ASSUME PageTypeOK,
         LeavePage \/ \E s \in GraphScans \cup {NoScan} : SelectScan(s) \/ OpenPage(s)
  PROVE  PageTypeOK'
<1>1. data' \in Graphs /\ fullData' \in Graphs
  BY GraphTypes DEF PageTypeOK, LeavePage, SelectScan, OpenPage, ResetGraph, graphStore
<1>2. isFilteredView' \in BOOLEAN /\ graphLoading' \in BOOLEAN
  BY DEF PageTypeOK, LeavePage, SelectScan, OpenPage, ResetGraph, graphStore
<1>3. CASE LeavePage
  <2>1. pageOpen' \in BOOLEAN /\ queriesLoading' \in BOOLEAN /\ queriesError' \in BOOLEAN
    BY <1>3 DEF LeavePage
  <2> QED
    BY <1>1, <1>2, <1>3, <2>1 DEF PageTypeOK, LeavePage
<1>4. CASE \E s \in GraphScans \cup {NoScan} : SelectScan(s) \/ OpenPage(s)
  <2>1. PICK s \in GraphScans \cup {NoScan} : SelectScan(s) \/ OpenPage(s)
    BY <1>4
  <2>2. pageOpen' \in BOOLEAN
    BY <2>1 DEF PageTypeOK, SelectScan, OpenPage
  <2>3. visits' \in 0 .. MaxVisits /\ visits + 1 \in 1 .. MaxVisits
    <3>1. visits < MaxVisits /\ visits' = visits + 1
      BY <2>1 DEF SelectScan, OpenPage, LoadQueries
    <3>2. visits \in 0 .. MaxVisits
      BY DEF PageTypeOK
    <3> QED
      BY <3>1, <3>2, PageAssumption
  <2>4. queriesLoading' \in BOOLEAN
    BY <2>1 DEF SelectScan, OpenPage, LoadQueries
  <2>5. queriesError' \in BOOLEAN
    <3>1. queriesError' = (IF s = NoScan THEN TRUE ELSE queriesError)
      BY <2>1 DEF SelectScan, OpenPage, LoadQueries
    <3> QED
      BY <3>1 DEF PageTypeOK
  <2>6. listLoads' \in SUBSET [n : 1 .. MaxVisits, scan : GraphScans]
    <3>1. listLoads' = (IF s = NoScan THEN listLoads
                        ELSE listLoads \cup {[n |-> visits + 1, scan |-> s]})
      BY <2>1 DEF SelectScan, OpenPage, LoadQueries
    <3> QED
      BY <3>1, <2>3 DEF PageTypeOK
  <2>7. scanId' = s /\ overtaken' = overtaken \cup executing
        /\ UNCHANGED <<asked, executing, queriesOf>>
    BY <2>1 DEF SelectScan, OpenPage, LoadQueries
  <2> QED
    BY <1>1, <1>2, <2>2, <2>3, <2>4, <2>5, <2>6, <2>7 DEF PageTypeOK
<1> QED
  BY <1>3, <1>4

\* A query list arrives, and the queries and their graphs.
LEMMA GraphStepTypes ==
  ASSUME PageTypeOK,
         \/ \E l \in listLoads : QueriesArrive(l)
         \/ \E q \in Queries : HandleExecuteQuery(q) \/ QueryAnswered(q)
         \/ EnterFilteredView \/ ExitFilteredView
  PROVE  PageTypeOK'
<1>1. CASE \E l \in listLoads : QueriesArrive(l)
  <2>1. PICK l \in listLoads : QueriesArrive(l)
    BY <1>1
  <2>2. queriesLoading' \in BOOLEAN /\ queriesError' \in BOOLEAN
    BY <2>1 DEF QueriesArrive
  <2>3. queriesOf' \in GraphScans \cup {NoScan}
    BY <2>1 DEF PageTypeOK, QueriesArrive
  <2> QED
    BY <2>1, <2>2, <2>3 DEF PageTypeOK, QueriesArrive, place, graphStore
<1>2. CASE \E q \in Queries : HandleExecuteQuery(q)
  BY <1>2 DEF PageTypeOK, HandleExecuteQuery, place, queryList
<1>3. CASE \E q \in Queries : QueryAnswered(q)
  <2>1. PICK q \in Queries : QueryAnswered(q)
    BY <1>3
  <2>2. data' \in Graphs /\ fullData' \in Graphs
    BY <2>1, GraphTypes DEF PageTypeOK, QueryAnswered, SetGraphData, ResetGraph, Parts
  <2>3. isFilteredView' \in BOOLEAN /\ graphLoading' \in BOOLEAN
    BY <2>1 DEF QueryAnswered, SetGraphData, ResetGraph
  <2> QED
    BY <2>1, <2>2, <2>3 DEF PageTypeOK, QueryAnswered, place, queryList
<1>4. CASE EnterFilteredView \/ ExitFilteredView
  <2>1. isFilteredView' \in BOOLEAN
    BY <1>4 DEF EnterFilteredView, ExitFilteredView
  <2>2. data' \in Graphs /\ fullData' \in Graphs
    BY <1>4, GraphTypes
    DEF PageTypeOK, EnterFilteredView, ExitFilteredView, Graphs, Graph, NoGraph, Parts
  <2> QED
    BY <1>4, <2>1, <2>2 DEF PageTypeOK, EnterFilteredView, ExitFilteredView, place, queryList
<1> QED
  BY <1>1, <1>2, <1>3, <1>4

LEMMA StepPageTypes == PageTypeOK /\ [PageNext]_pageVars => PageTypeOK'
<1>1. ASSUME PageTypeOK, UNCHANGED pageVars PROVE PageTypeOK'
  BY <1>1 DEF PageTypeOK, pageVars
<1>2. ASSUME PageTypeOK, PageNext PROVE PageTypeOK'
  BY <1>2, PlaceTypes, GraphStepTypes DEF PageNext
<1> QED
  BY <1>1, <1>2

\* The variables keep their types.
THEOREM PageTypeCorrect == PageSpec => []PageTypeOK
  BY InitPageTypes, StepPageTypes, PTL DEF PageSpec

-----------------------------------------------------------------------------
(* The inductive invariant: besides the two properties, an execution under  *)
(* way was sent for the selected scan or is noted as overtaken, and so was  *)
(* the one that drew the graph.                                             *)

QueriesKnown ==
  \A q \in executing :
    asked[q] # NoScan /\ (q \in overtaken \/ (pageOpen /\ asked[q] = scanId))

GraphKnown == data # NoGraph => data.of \in Queries /\ asked[data.of] # NoScan

PageInv ==
  PageTypeOK /\ QueriesKnown /\ GraphKnown /\ FullViewRestorable /\ GraphOfSelectedScan

\* A graph on screen is that of a query.
LEMMA ShownIsOfQuery ==
  ASSUME PageTypeOK, FullViewRestorable, data # NoGraph
  PROVE  data.of \in Queries
  BY DEF PageTypeOK, FullViewRestorable, Graphs, Graph, NoGraph, Parts, Queries, NoQuery

LEMMA InitPageInv == PageInit => PageInv
<1> SUFFICES ASSUME PageInit PROVE PageInv
  OBVIOUS
<1>1. QueriesKnown /\ GraphKnown /\ GraphOfSelectedScan
  BY DEF PageInit, QueriesKnown, GraphKnown, GraphOfSelectedScan
<1>2. FullViewRestorable
  BY DEF PageInit, FullViewRestorable, NoGraph, Graph
<1> QED
  BY <1>1, <1>2, InitPageTypes DEF PageInv

\* Selecting and opening drop the graph and overtake what is under way.
LEMMA SelectKeeps ==
  ASSUME PageInv, NEW s \in GraphScans \cup {NoScan}, SelectScan(s) \/ OpenPage(s)
  PROVE  (QueriesKnown /\ GraphKnown /\ FullViewRestorable /\ GraphOfSelectedScan)'
<1>1. /\ data' = NoGraph /\ fullData' = NoGraph /\ isFilteredView' = FALSE
      /\ overtaken' = overtaken \cup executing
      /\ UNCHANGED <<asked, executing>>
  BY DEF SelectScan, OpenPage, ResetGraph, LoadQueries
<1>2. QueriesKnown'
  BY <1>1 DEF PageInv, QueriesKnown
<1>3. GraphKnown' /\ GraphOfSelectedScan'
  BY <1>1 DEF GraphKnown, GraphOfSelectedScan
<1>4. FullViewRestorable'
  BY <1>1 DEF FullViewRestorable, NoGraph, Graph
<1> QED
  BY <1>2, <1>3, <1>4

LEMMA LeaveKeeps ==
  ASSUME PageInv, LeavePage
  PROVE  (QueriesKnown /\ GraphKnown /\ FullViewRestorable /\ GraphOfSelectedScan)'
<1>1. QueriesKnown'
  BY DEF PageInv, QueriesKnown, LeavePage
<1>2. GraphKnown' /\ GraphOfSelectedScan'
  BY DEF PageInv, GraphKnown, GraphOfSelectedScan, LeavePage, graphStore
<1>3. FullViewRestorable'
  BY DEF PageInv, FullViewRestorable, LeavePage, graphStore
<1> QED
  BY <1>1, <1>2, <1>3

\* A new execution is sent for the selected scan; no graph is of it yet.
LEMMA ExecuteKeeps ==
  ASSUME PageInv, NEW q \in Queries, HandleExecuteQuery(q)
  PROVE  (QueriesKnown /\ GraphKnown /\ FullViewRestorable /\ GraphOfSelectedScan)'
<1>1. QueriesKnown'
  BY DEF PageInv, PageTypeOK, QueriesKnown, HandleExecuteQuery, place
<1>2. data # NoGraph => data.of \in Queries /\ data.of # q
  BY DEF PageInv, GraphKnown, HandleExecuteQuery
<1>3. GraphKnown' /\ GraphOfSelectedScan'
  BY <1>2 DEF PageInv, PageTypeOK, GraphKnown, GraphOfSelectedScan, HandleExecuteQuery, place
<1>4. FullViewRestorable'
  BY DEF PageInv, FullViewRestorable, HandleExecuteQuery
<1> QED
  BY <1>1, <1>3, <1>4

\* The graph that comes in is that of a query under way.
LEMMA AnswerKeeps ==
  ASSUME PageInv, NEW q \in Queries, QueryAnswered(q)
  PROVE  (QueriesKnown /\ GraphKnown /\ FullViewRestorable /\ GraphOfSelectedScan)'
<1>1. QueriesKnown'
  BY DEF PageInv, QueriesKnown, QueryAnswered, place
<1>2. asked[q] # NoScan /\ (q \in overtaken \/ asked[q] = scanId)
  BY DEF PageInv, QueriesKnown, QueryAnswered
<1>3. /\ data' = NoGraph \/ data' = Graph(q, "whole")
      /\ fullData' = NoGraph /\ isFilteredView' = FALSE
  BY DEF QueryAnswered, SetGraphData, ResetGraph
<1>4. data' # NoGraph => data'.of = q
  BY <1>3 DEF Graph
<1>5. GraphKnown' /\ GraphOfSelectedScan'
  BY <1>2, <1>4 DEF GraphKnown, GraphOfSelectedScan, QueryAnswered, place
<1>6. FullViewRestorable'
  BY <1>3 DEF FullViewRestorable, NoGraph, Graph
<1> QED
  BY <1>1, <1>5, <1>6

\* Filtering and going back change the part that is shown, never its query.
LEMMA FilterKeeps ==
  ASSUME PageInv, EnterFilteredView \/ ExitFilteredView
  PROVE  (QueriesKnown /\ GraphKnown /\ FullViewRestorable /\ GraphOfSelectedScan)'
<1>1. UNCHANGED <<place, asked, executing>> /\ data # NoGraph
  BY DEF PageInv, FullViewRestorable, EnterFilteredView, ExitFilteredView, NoGraph, Graph
<1>2. data.of \in Queries
  BY <1>1, ShownIsOfQuery DEF PageInv
<1>3. data \in Graphs /\ fullData \in Graphs
  BY DEF PageInv, PageTypeOK
<1>4. data'.of = data.of /\ FullViewRestorable'
  <2>1. CASE EnterFilteredView
    <3> DEFINE source == IF fullData # NoGraph THEN fullData ELSE data
    <3>1. data' = Graph(source.of, "filtered") /\ fullData' = source /\ isFilteredView' = TRUE
      BY <2>1 DEF EnterFilteredView
    <3>2. source = Graph(data.of, "whole") /\ source # NoGraph
      BY <1>1, <1>3 DEF PageInv, FullViewRestorable, Graphs, Graph
    <3> HIDE DEF source
    <3>3. source.of = data.of
      BY <3>2 DEF Graph
    <3> QED
      BY <3>1, <3>2, <3>3 DEF FullViewRestorable, Graph
  <2>2. CASE ExitFilteredView
    BY <2>2 DEF PageInv, FullViewRestorable, ExitFilteredView, Graph
  <2> QED
    BY <2>1, <2>2
<1>5. QueriesKnown'
  BY <1>1 DEF PageInv, QueriesKnown, place
<1>6. GraphKnown' /\ GraphOfSelectedScan'
  BY <1>1, <1>2, <1>4 DEF PageInv, GraphKnown, GraphOfSelectedScan, place
<1> QED
  BY <1>4, <1>5, <1>6

LEMMA StepPageInv == PageInv /\ [PageNext]_pageVars => PageInv'
<1>1. ASSUME PageInv, UNCHANGED pageVars PROVE PageInv'
  BY <1>1 DEF PageInv, PageTypeOK, QueriesKnown, GraphKnown, FullViewRestorable,
              GraphOfSelectedScan, pageVars
<1>2. ASSUME PageInv, PageNext PROVE PageInv'
  <2>1. PageTypeOK'
    BY <1>2, StepPageTypes DEF PageInv
  <2>2. CASE \E s \in GraphScans \cup {NoScan} : SelectScan(s) \/ OpenPage(s)
    BY <1>2, <2>1, <2>2, SelectKeeps DEF PageInv
  <2>3. CASE LeavePage
    BY <1>2, <2>1, <2>3, LeaveKeeps DEF PageInv
  <2>4. CASE \E l \in listLoads : QueriesArrive(l)
    <3>1. UNCHANGED <<place, asked, executing, graphStore>>
      BY <2>4 DEF QueriesArrive
    <3> QED
      BY <1>2, <2>1, <3>1 DEF PageInv, QueriesKnown, GraphKnown, FullViewRestorable,
                              GraphOfSelectedScan, place, graphStore
  <2>5. CASE \E q \in Queries : HandleExecuteQuery(q) \/ QueryAnswered(q)
    BY <1>2, <2>1, <2>5, ExecuteKeeps, AnswerKeeps DEF PageInv
  <2>6. CASE EnterFilteredView \/ ExitFilteredView
    BY <1>2, <2>1, <2>6, FilterKeeps DEF PageInv
  <2> QED
    BY <1>2, <2>2, <2>3, <2>4, <2>5, <2>6 DEF PageNext
<1> QED
  BY <1>1, <1>2

\* Whatever is selected, left, opened again or answered late, the graph on screen is of
\* the selected scan unless its query was overtaken.
THEOREM GraphBelongsToScan == PageSpec => []GraphOfSelectedScan
<1>1. PageInv => GraphOfSelectedScan
  BY DEF PageInv
<1> QED
  BY <1>1, InitPageInv, StepPageInv, PTL DEF PageSpec

\* The whole graph kept beside a filtered one is always its own.
THEOREM BackToFullView == PageSpec => []FullViewRestorable
<1>1. PageInv => FullViewRestorable
  BY DEF PageInv
<1> QED
  BY <1>1, InitPageInv, StepPageInv, PTL DEF PageSpec

-----------------------------------------------------------------------------
(* The three flows beside each other *)

\* A step of the UI is a step of one flow and leaves the others alone.
LEMMA UIStepIsFlowStep ==
  ASSUME [UINext]_uiVars
  PROVE  [WatcherNext]_watcherVars /\ [PageNext]_pageVars /\ [WizardNext]_wizardVars
<1>1. CASE UseTasks
  BY <1>1 DEF UseTasks
<1>2. CASE UseGraph
  BY <1>2 DEF UseGraph
<1>3. CASE UseWizard
  BY <1>3 DEF UseWizard
<1>4. CASE UNCHANGED uiVars
  BY <1>4 DEF uiVars
<1> QED
  BY <1>1, <1>2, <1>3, <1>4 DEF UINext

\* The composition the runs check implements each of its components, fairness
\* included: what is proved of a component holds in it.
THEOREM FlowsImplementComponents == UISpec => WatcherSpec /\ PageSpec /\ WizardSpec
<1>1. UIInit => WatcherInit /\ PageInit /\ WizardInit
  BY DEF UIInit
<1>2. [UINext]_uiVars => [WatcherNext]_watcherVars /\ [PageNext]_pageVars
                         /\ [WizardNext]_wizardVars
  BY UIStepIsFlowStep
<1> QED
  BY <1>1, <1>2, PTL DEF UISpec, WatcherSpec, PageSpec, WizardSpec

\* The variables of the three flows keep their types.
THEOREM UserFlowsTypeCorrect == UISpec => []UserFlowsTypeOK
<1>1. WatcherTypeOK /\ PageTypeOK /\ WizardTypeOK => UserFlowsTypeOK
  BY DEF UserFlowsTypeOK
<1> QED
  BY <1>1, FlowsImplementComponents, WatcherTypeCorrect, PageTypeCorrect, WizardTypeCorrect, PTL
=============================================================================
