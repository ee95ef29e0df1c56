------------------------------ MODULE ScanQueue ------------------------------
(***************************************************************************)
(* What the dispatcher promises for the scans of one provider: one runs at *)
(* a time, the others wait and start in the order they were inserted.      *)
(***************************************************************************)
EXTENDS Naturals, FiniteSetsExt

CONSTANT Scans \* identifiers, ordered by insertion

VARIABLES waiting, running
vars == <<waiting, running>>

Init == waiting = {} /\ running = {}

\* A scan runs at once when the provider has none, and joins the queue otherwise.
Submit(s) ==
  /\ s \notin waiting \cup running
  /\ IF waiting = {} /\ running = {}
     THEN running' = {s} /\ UNCHANGED waiting
     ELSE /\ \A q \in waiting : q < s
          /\ waiting' = waiting \cup {s} /\ UNCHANGED running

\* The running scan ends.
Finish == running # {} /\ running' = {} /\ UNCHANGED waiting

\* The oldest waiting scan takes its place.
Promote ==
  /\ running = {} /\ waiting # {}
  /\ running' = {Min(waiting)} /\ waiting' = waiting \ running'

\* Deleting the provider removes its scans.
Withdraw ==
  /\ waiting \cup running # {}
  /\ waiting' = {} /\ running' = {}

Next == Finish \/ Promote \/ Withdraw \/ \E s \in Scans : Submit(s)

\* A running scan ends and the queue moves on.
Spec == Init /\ [][Next]_vars /\ WF_vars(Finish) /\ WF_vars(Promote)
=============================================================================
