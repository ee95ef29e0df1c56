---------------------------- MODULE AttackPathsPage ----------------------------
(***************************************************************************)
(* The query builder of the Attack Paths page: the scan named by the URL,  *)
(* the list of queries loaded for it, the execution of a query and the     *)
(* graph of its answer, whole or filtered to the paths of one finding.     *)
(* The graph is in a zustand store that outlives the page; no request is   *)
(* aborted, and selecting a scan is a navigation, which lets the requests  *)
(* of the scan before it come back among the new ones.                     *)
(*                                                                         *)
(* Left out: the scan table and its refresh (a row can be selected while   *)
(* its graph is ready), the query form, the finding drawer, the tours and  *)
(* the export.                                                             *)
(***************************************************************************)
EXTENDS Naturals

CONSTANTS
  GraphScans,  \* scans with a graph to query
  MaxQueries,  \* bound: executions of a query
  MaxVisits    \* bound: selections of a scan

ASSUME PageAssumption == MaxQueries \in Nat /\ MaxVisits \in Nat

NoScan == "no scan"
NoQuery == 0
Queries == 1 .. MaxQueries
Parts == {"whole", "filtered"}

VARIABLES
  pageOpen,
  scanId,       \* the scan in the URL
  visits,       \* selections so far
  asked,        \* the scan each execution was sent for
  executing,    \* executions whose answer is still to come
  data,         \* the graph on screen: the execution that answered it, and which part of it
  fullData,     \* the graph kept while a part is shown
  isFilteredView,
  graphLoading,
  listLoads,    \* loads of a query list that are still to come: number and scan
  queriesOf,    \* the scan whose queries are listed
  queriesLoading, queriesError,
  overtaken     \* history: executions under way when the user changed scans or left

pageVars == <<pageOpen, scanId, visits, asked, executing, data, fullData, isFilteredView,
              graphLoading, listLoads, queriesOf, queriesLoading, queriesError, overtaken>>
graphStore == <<data, fullData, isFilteredView, graphLoading>>
queryList == <<listLoads, queriesOf, queriesLoading, queriesError>>
place == <<pageOpen, scanId, visits, overtaken>>

Graph(q, part) == [of |-> q, part |-> part]
NoGraph == Graph(NoQuery, "whole")
Graphs == [of : Queries \cup {NoQuery}, part : Parts]

PageTypeOK ==
  /\ pageOpen \in BOOLEAN /\ scanId \in GraphScans \cup {NoScan}
  /\ visits \in 0 .. MaxVisits
  /\ asked \in [Queries -> GraphScans \cup {NoScan}]
  /\ executing \in SUBSET Queries /\ overtaken \in SUBSET Queries
  /\ data \in Graphs /\ fullData \in Graphs
  /\ isFilteredView \in BOOLEAN /\ graphLoading \in BOOLEAN
  /\ listLoads \in SUBSET [n : 1 .. MaxVisits, scan : GraphScans]
  /\ queriesOf \in GraphScans \cup {NoScan}
  /\ queriesLoading \in BOOLEAN /\ queriesError \in BOOLEAN

PageInit ==
  /\ pageOpen = FALSE /\ scanId = NoScan /\ visits = 0
  /\ asked = [q \in Queries |-> NoScan] /\ executing = {} /\ overtaken = {}
  /\ data = NoGraph /\ fullData = NoGraph /\ isFilteredView = FALSE /\ graphLoading = FALSE
  /\ listLoads = {} /\ queriesOf = NoScan /\ queriesLoading = TRUE /\ queriesError = FALSE

-----------------------------------------------------------------------------
(* The graph store.                                                        *)

ResetGraph ==
  /\ data' = NoGraph /\ fullData' = NoGraph
  /\ isFilteredView' = FALSE /\ graphLoading' = FALSE

SetGraphData(q) ==
  data' = Graph(q, "whole") /\ fullData' = NoGraph /\ isFilteredView' = FALSE

FilterShownPart ==
  /\ pageOpen /\ ~graphLoading /\ data # NoGraph
  /\ data' = Graph(data.of, "filtered") /\ fullData' = data /\ isFilteredView' = TRUE
  /\ UNCHANGED <<place, asked, executing, queryList, graphLoading>>

\* A click on a finding: the whole graph is kept, also when a part of it is shown already.
EnterFilteredView ==
  LET sourceData == IF fullData # NoGraph THEN fullData ELSE data
  IN  /\ pageOpen /\ ~graphLoading /\ data # NoGraph
      /\ data' = Graph(sourceData.of, "filtered") /\ fullData' = sourceData
      /\ isFilteredView' = TRUE
      /\ UNCHANGED <<place, asked, executing, queryList, graphLoading>>

ExitFilteredView ==
  /\ pageOpen /\ ~graphLoading /\ isFilteredView /\ fullData # NoGraph
  /\ data' = fullData /\ fullData' = NoGraph /\ isFilteredView' = FALSE
  /\ UNCHANGED <<place, asked, executing, queryList, graphLoading>>

-----------------------------------------------------------------------------
(* Executing a query.                                                      *)

HandleExecuteQuery(q) ==
  /\ pageOpen /\ scanId # NoScan
  /\ ~graphLoading /\ ~queriesLoading /\ ~queriesError
  /\ asked[q] = NoScan /\ \A p \in 1 .. q - 1 : asked[p] # NoScan
  /\ asked' = [asked EXCEPT ![q] = scanId]
  /\ executing' = executing \cup {q}
  /\ graphLoading' = TRUE
  /\ UNCHANGED <<place, data, fullData, isFilteredView, queryList>>

\* The answer is a graph, or an error in one of its forms: either reaches the store,
\* whatever scan is selected by then and whether or not another query is under way.
QueryAnswered(q) ==
  /\ q \in executing
  /\ executing' = executing \ {q}
  /\ (SetGraphData(q) /\ graphLoading' = FALSE) \/ ResetGraph
  /\ UNCHANGED <<place, asked, queryList>>

-----------------------------------------------------------------------------
(* Selecting a scan.                                                       *)

\* The effects of a new scanId, loadQueries up to its await among them.
LoadQueries(s) ==
  /\ visits < MaxVisits /\ visits' = visits + 1
  /\ scanId' = s
  /\ queriesLoading' = (s # NoScan)
  /\ queriesError' = (IF s = NoScan THEN TRUE ELSE queriesError)
  /\ listLoads' = (IF s = NoScan THEN listLoads
                   ELSE listLoads \cup {[n |-> visits + 1, scan |-> s]})
  /\ overtaken' = overtaken \cup executing

SelectKeepingGraph(s) ==
  /\ pageOpen /\ s # scanId
  /\ LoadQueries(s)
  /\ UNCHANGED <<pageOpen, asked, executing, graphStore, queriesOf>>

\* A row of the table, or the browser's back button.
SelectScan(s) ==
  /\ pageOpen /\ s # scanId
  /\ LoadQueries(s) /\ ResetGraph
  /\ UNCHANGED <<pageOpen, asked, executing, queriesOf>>

OpenPage(s) ==
  /\ ~pageOpen /\ pageOpen' = TRUE
  /\ LoadQueries(s) /\ ResetGraph
  /\ UNCHANGED <<asked, executing, queriesOf>>

\* The page's own state is lost and its loads come to nothing; the store stays as it
\* is and the queries under way still write to it.
LeavePage ==
  /\ pageOpen /\ pageOpen' = FALSE
  /\ scanId' = NoScan
  /\ listLoads' = {} /\ queriesOf' = NoScan /\ queriesLoading' = TRUE /\ queriesError' = FALSE
  /\ overtaken' = overtaken \cup executing
  /\ UNCHANGED <<visits, asked, executing, graphStore>>

\* A list of queries; none, or a failed request; a rejected call, which leaves the list.
QueriesArrive(l) ==
  /\ l \in listLoads /\ listLoads' = listLoads \ {l}
  /\ \/ queriesOf' = l.scan /\ queriesError' = FALSE
     \/ queriesOf' \in {NoScan, queriesOf} /\ queriesError' = TRUE
  /\ queriesLoading' = FALSE
  /\ UNCHANGED <<place, asked, executing, graphStore>>

PageNext ==
  \/ \E s \in GraphScans \cup {NoScan} : SelectScan(s) \/ OpenPage(s)
  \/ LeavePage
  \/ \E l \in listLoads : QueriesArrive(l)
  \/ \E q \in Queries : HandleExecuteQuery(q) \/ QueryAnswered(q)
  \/ EnterFilteredView \/ ExitFilteredView

\* Every execution comes back, with an answer or an error.
PageFairness == WF_pageVars(\E q \in Queries : QueryAnswered(q))

PageSpec == PageInit /\ [][PageNext]_pageVars /\ PageFairness
-----------------------------------------------------------------------------
(* Properties.                                                             *)

\* The graph on screen was queried from the scan that is selected, unless its query was
\* under way when the user changed scans or left: a graph that had come in is dropped
\* with its scan, and the store does not carry it over to the next visit.
GraphOfSelectedScan ==
  pageOpen /\ data # NoGraph => asked[data.of] = scanId \/ data.of \in overtaken

\* "Back to full view" leads to the whole graph of the query that is shown, however often
\* the view was filtered and whatever answers came in meanwhile; an unfiltered view shows
\* a whole graph.
FullViewRestorable ==
  IF isFilteredView THEN fullData = Graph(data.of, "whole") /\ fullData # NoGraph
  ELSE data.part = "whole" /\ fullData = NoGraph
=============================================================================
