------------------------------- MODULE OrgWizard -------------------------------
(***************************************************************************)
(* The wizard that adds an AWS organization: authentication and discovery  *)
(* of its accounts, the selection of accounts and the test of their        *)
(* connections, the launch of scans.  Each step is a component with state  *)
(* of its own, lost when it unmounts; the selection and the results are in *)
(* a store.  Applying the selection makes a provider of each account; the  *)
(* connections are tested by a pool of workers, and a test that finished   *)
(* the list takes everybody who passed to the launch step.                 *)
(*                                                                         *)
(* An account and its provider have one name here.  A reload of the page   *)
(* closes the wizard, which is reset when it is opened again.              *)
(***************************************************************************)
EXTENDS Naturals, FiniteSets

CONSTANTS
  Accounts,
  PoolSize,   \* connections tested at a time
  MaxOpens,   \* bound: times the wizard is opened
  MaxApplies  \* bound: times a selection is applied or a discovery asked for

ASSUME WizardAssumption ==
  /\ IsFiniteSet(Accounts)
  /\ PoolSize \in Nat \ {0} /\ MaxOpens \in Nat /\ MaxApplies \in Nat

Steps == {"closed", "setup", "validate", "launch"}
TestStatus == {"none", "pending", "success", "error"}
Untested == [a \in Accounts |-> "none"]

VARIABLES
  wizardStep, \* orgCurrentStep, or "closed"
  opens, applies,
  discovering, \* a submission of the setup step is under way
  selectable,  \* accounts of the discovery result
  selected, created, results, \* selectedAccountIds, createdProviderIds, connectionResults
  isTestingView,
  applying,    \* isApplying: "no", its "apply" or "mapping" call, "stuck" when one was rejected
  applyError, hasApplied, lastApplied,
  inTest, toTest, \* accounts being tested, and those no worker has taken yet
  testRound,       \* accounts of the round of tests
  launching,   \* isLaunching
  launches,    \* launches under way, each by the opening it was made in
  passed       \* history: applied accounts whose last test was a success

wizardVars == <<wizardStep, opens, applies, discovering, selectable, selected, created, results,
                isTestingView, applying, applyError, hasApplied, lastApplied, inTest, toTest, testRound,
                launching, launches, passed>>
orgStore == <<selectable, selected, created, results>>
testPool == <<inTest, toTest, testRound>>
selectionFlow == <<isTestingView, applying, applyError, hasApplied, lastApplied, testPool>>
bounds == <<opens, applies>>

WizardTypeOK ==
  /\ wizardStep \in Steps /\ opens \in 0 .. MaxOpens /\ applies \in 0 .. MaxApplies
  /\ discovering \in BOOLEAN /\ selectable \in SUBSET Accounts
  /\ selected \in SUBSET Accounts /\ created \in SUBSET Accounts
  /\ results \in [Accounts -> TestStatus]
  /\ isTestingView \in BOOLEAN /\ applying \in {"no", "apply", "mapping", "stuck"}
  /\ applyError \in BOOLEAN /\ hasApplied \in BOOLEAN /\ lastApplied \in SUBSET Accounts
  /\ inTest \in SUBSET Accounts /\ toTest \in SUBSET Accounts /\ testRound \in SUBSET Accounts
  /\ launching \in BOOLEAN /\ launches \in SUBSET (1 .. MaxOpens)
  /\ passed \in SUBSET Accounts

WizardInit ==
  /\ wizardStep = "closed" /\ opens = 0 /\ applies = 0
  /\ discovering = FALSE
  /\ selectable = {} /\ selected = {} /\ created = {} /\ results = Untested
  /\ isTestingView = FALSE /\ applying = "no"
  /\ applyError = FALSE /\ hasApplied = FALSE /\ lastApplied = {}
  /\ inTest = {} /\ toTest = {} /\ testRound = {}
  /\ launching = FALSE /\ launches = {} /\ passed = {}

-----------------------------------------------------------------------------
(* The store, and the selection component's own state.                     *)

ResetStore == selectable' = {} /\ selected' = {} /\ created' = {} /\ results' = Untested

ClearValidationState == created' = {} /\ results' = Untested

\* The selection step unmounts, or mounts again: its calls are aborted or ignored.
FreshSelectionFlow ==
  /\ isTestingView' = FALSE /\ applying' = "no"
  /\ applyError' = FALSE /\ hasApplied' = FALSE /\ lastApplied' = {}
  /\ inTest' = {} /\ toTest' = {} /\ testRound' = {}

Locked == applying # "no" \/ inTest # {}
Launchable == {a \in created : results[a] = "success"}

-----------------------------------------------------------------------------
(* Opening, closing and the setup step.                                    *)

OpenWizard ==
  /\ wizardStep = "closed" /\ opens < MaxOpens
  /\ wizardStep' = "setup" /\ opens' = opens + 1
  /\ ResetStore /\ FreshSelectionFlow
  /\ UNCHANGED <<applies, discovering, launching, launches, passed>>

\* handleClose, from the dialog or at the end of a launch.
HandleClose ==
  /\ wizardStep' = "closed"
  /\ ResetStore /\ FreshSelectionFlow
  /\ discovering' = FALSE /\ launching' = FALSE

CloseWizard ==
  /\ wizardStep # "closed"
  /\ HandleClose
  /\ UNCHANGED <<bounds, launches, passed>>

SubmitOrganizationSetup ==
  /\ wizardStep = "setup" /\ ~discovering /\ applies < MaxApplies
  /\ discovering' = TRUE /\ applies' = applies + 1
  /\ ClearValidationState
  /\ UNCHANGED <<wizardStep, opens, selectable, selected, selectionFlow, launching, launches, passed>>

\* The discovery succeeds with the accounts `found`, all of them selected at first.
Discovered(found) ==
  /\ discovering /\ discovering' = FALSE
  /\ selectable' = found /\ selected' = found
  /\ wizardStep' = "validate"
  /\ FreshSelectionFlow
  /\ UNCHANGED <<bounds, created, results, launching, launches, passed>>

\* An error of one of its calls, a failed discovery, or no end of it in 60 polls.
DiscoveryFails ==
  /\ discovering /\ discovering' = FALSE
  /\ UNCHANGED <<wizardStep, bounds, orgStore, selectionFlow, launching, launches, passed>>

-----------------------------------------------------------------------------
(* Selecting and applying.                                                 *)

SelectWithoutClearing(chosen) ==
  /\ wizardStep = "validate" /\ ~Locked
  /\ chosen \subseteq selectable /\ chosen # selected
  /\ selected' = chosen
  /\ hasApplied' = FALSE /\ lastApplied' = {} /\ applyError' = FALSE
  /\ UNCHANGED <<wizardStep, bounds, discovering, selectable, created, results, isTestingView,
                 applying, testPool, launching, launches, passed>>

\* Another selection forgets the providers and results of the one before.
HandleTreeSelectionChange(chosen) ==
  /\ wizardStep = "validate" /\ ~Locked
  /\ chosen \subseteq selectable /\ chosen # selected
  /\ selected' = chosen
  /\ hasApplied' = FALSE /\ lastApplied' = {} /\ applyError' = FALSE
  /\ ClearValidationState
  /\ UNCHANGED <<wizardStep, bounds, discovering, selectable, isTestingView, applying, testPool,
                 launching, launches, passed>>

\* testAllConnections up to its first await: the workers take the first accounts.
TestAllConnections(ids) ==
  /\ testRound' = ids
  /\ results' = [a \in Accounts |-> IF a \in ids THEN "pending" ELSE results[a]]
  /\ \E first \in SUBSET ids :
       /\ Cardinality(first) = IF Cardinality(ids) < PoolSize THEN Cardinality(ids) ELSE PoolSize
       /\ inTest' = first /\ toTest' = ids \ first

\* "Test Connections": the selection is applied unless that has been done; after that
\* the accounts that failed are tested again, or all of them.
HandleStartTesting ==
  LET failed == {a \in created : results[a] = "error"}
      again == hasApplied /\ ~applyError /\ lastApplied = selected
  IN  /\ wizardStep = "validate" /\ ~Locked /\ selected # {}
      /\ applies < MaxApplies /\ applies' = applies + 1
      /\ isTestingView' = TRUE /\ applyError' = FALSE
      /\ \/ /\ ~again
            /\ hasApplied' = TRUE /\ applying' = "apply"
            /\ lastApplied' = IF applyError THEN {} ELSE lastApplied
            /\ UNCHANGED <<results, testPool>>
         \/ /\ again
            /\ TestAllConnections(IF failed # {} THEN failed ELSE created)
            /\ UNCHANGED <<hasApplied, applying, lastApplied>>
      /\ UNCHANGED <<wizardStep, opens, discovering, selectable, selected, created, launching,
                     launches, passed>>

\* applyDiscovery answers with the providers it made, or an error.
ApplyAnswered ==
  /\ applying = "apply"
  /\ \/ /\ \E made \in SUBSET selected : created' = made /\ passed' = passed \ made
        /\ applying' = "mapping"
        /\ UNCHANGED <<applyError, hasApplied>>
     \/ /\ applyError' = TRUE /\ applying' = "no" /\ hasApplied' = FALSE
        /\ UNCHANGED <<created, passed>>
  /\ UNCHANGED <<wizardStep, bounds, discovering, selectable, selected, results, isTestingView,
                 lastApplied, testPool, launching, launches>>

\* The providers are matched with the accounts, and tested.
MappingDone ==
  /\ applying = "mapping" /\ applying' = "no"
  /\ lastApplied' = selected
  /\ TestAllConnections(created)
  /\ UNCHANGED <<wizardStep, bounds, discovering, selectable, selected, created, isTestingView,
                 applyError, hasApplied, launching, launches, passed>>

\* A call of handleApplyAndTest rejects (the transport, or a 5xx of getProvider that
\* its try block does not await): nothing catches it.
ApplyRejected ==
  /\ applying \in {"apply", "mapping"} /\ applying' = "stuck"
  /\ UNCHANGED <<wizardStep, bounds, discovering, orgStore, isTestingView, applyError, hasApplied,
                 lastApplied, testPool, launching, launches, passed>>

-----------------------------------------------------------------------------
(* Testing.                                                                *)

TestRetriesFailed(a, verdict) ==
  LET left == inTest \ {a}
      waiting == IF verdict = "success" THEN toTest ELSE toTest \cup {a}
      after == [results EXCEPT ![a] = verdict]
  IN  /\ a \in inTest
      /\ passed' = IF verdict = "success" THEN passed \cup {a} ELSE passed \ {a}
      /\ results' = after
      /\ \/ /\ left \cup waiting = {} /\ \A b \in testRound : after[b] = "success"
            /\ wizardStep' = "launch" /\ FreshSelectionFlow
         \/ /\ \/ waiting = {} /\ inTest' = left /\ UNCHANGED toTest
               \/ \E b \in waiting : inTest' = left \cup {b} /\ toTest' = waiting \ {b}
            /\ UNCHANGED <<wizardStep, isTestingView, applying, applyError, hasApplied, lastApplied,
                           testRound>>
      /\ UNCHANGED <<bounds, discovering, selectable, selected, created, launching, launches>>

\* A test of account a ends: with the task's verdict, an error answer, or the polls used
\* up.  The worker takes the next account; after the last one, if all of the round
\* passed, the wizard goes on to the launch step.
TestConnectionReturns(a, verdict) ==
  LET left == inTest \ {a}
      after == [results EXCEPT ![a] = verdict]
      done == left = {} /\ toTest = {}
  IN  /\ a \in inTest
      /\ passed' = IF verdict = "success" THEN passed \cup {a} ELSE passed \ {a}
      /\ results' = after
      /\ \/ /\ done /\ \A b \in testRound : after[b] = "success"
            /\ wizardStep' = "launch" /\ FreshSelectionFlow
         \/ /\ done /\ \E b \in testRound : after[b] # "success"
            /\ inTest' = {}
            /\ UNCHANGED <<wizardStep, isTestingView, applying, applyError, hasApplied, lastApplied,
                           toTest, testRound>>
         \/ /\ ~done
            /\ \/ toTest = {} /\ inTest' = left /\ UNCHANGED toTest
               \/ \E b \in toTest : inTest' = left \cup {b} /\ toTest' = toTest \ {b}
            /\ UNCHANGED <<wizardStep, isTestingView, applying, applyError, hasApplied, lastApplied,
                           testRound>>
      /\ UNCHANGED <<bounds, discovering, selectable, selected, created, launching, launches>>

\* Back: from the tests to the tree, from the tree to the setup step.
Back ==
  /\ wizardStep = "validate" /\ ~Locked
  /\ \/ isTestingView /\ isTestingView' = FALSE
        /\ UNCHANGED <<wizardStep, applying, applyError, hasApplied, lastApplied, testPool>>
     \/ ~isTestingView /\ wizardStep' = "setup" /\ FreshSelectionFlow
  /\ UNCHANGED <<bounds, discovering, orgStore, launching, launches, passed>>

\* "Skip Connection Validation": on to the launch with those that passed.
SkipValidation ==
  /\ wizardStep = "validate" /\ isTestingView /\ ~Locked /\ Launchable # {}
  /\ created' = Launchable
  /\ wizardStep' = "launch" /\ FreshSelectionFlow
  /\ UNCHANGED <<bounds, discovering, selectable, selected, results, launching, launches, passed>>

-----------------------------------------------------------------------------
(* Launching.                                                              *)

LaunchScans ==
  /\ wizardStep = "launch" /\ ~launching /\ created # {}
  /\ launching' = TRUE /\ launches' = launches \cup {opens}
  /\ UNCHANGED <<wizardStep, bounds, discovering, orgStore, selectionFlow, passed>>

\* The launch is done: the store is reset and the wizard closed, the one of this moment
\* even if the launch was made in an earlier one that has been closed since.
LaunchDone(n) ==
  /\ n \in launches /\ launches' = launches \ {n}
  /\ HandleClose
  /\ UNCHANGED <<bounds, passed>>

\* No schedule could be saved: an error message, and the step stays.  If the call itself
\* rejected, nothing clears isLaunching either.
LaunchFails(n) ==
  /\ n \in launches /\ launches' = launches \ {n}
  /\ launching' \in {launching, launching /\ n # opens}
  /\ UNCHANGED <<wizardStep, bounds, discovering, orgStore, selectionFlow, passed>>

BackToSelection ==
  /\ wizardStep = "launch" /\ ~launching
  /\ wizardStep' = "validate" /\ FreshSelectionFlow
  /\ UNCHANGED <<bounds, discovering, orgStore, launching, launches, passed>>

ApplyReturns == ApplyAnswered \/ MappingDone \/ ApplyRejected
TestReturns == \E a \in Accounts, v \in {"success", "error"} : TestConnectionReturns(a, v)

WizardNext ==
  \/ OpenWizard \/ CloseWizard
  \/ SubmitOrganizationSetup \/ DiscoveryFails
  \/ \E found \in (SUBSET Accounts) \ {{}} : Discovered(found)
  \/ \E chosen \in SUBSET Accounts : HandleTreeSelectionChange(chosen)
  \/ HandleStartTesting \/ ApplyReturns \/ TestReturns
  \/ Back \/ SkipValidation
  \/ LaunchScans \/ BackToSelection
  \/ \E n \in 1 .. MaxOpens : LaunchDone(n) \/ LaunchFails(n)

\* Calls return, and a test ends: its polls are counted.
WizardFairness == WF_wizardVars(ApplyReturns) /\ WF_wizardVars(TestReturns)

WizardSpec == WizardInit /\ [][WizardNext]_wizardVars /\ WizardFairness
-----------------------------------------------------------------------------
(* Properties.                                                             *)

\* Scans are launched for accounts of the selection only, and only for accounts whose
\* last connection test was a success, whichever way the launch step was reached: at
\* the end of a round, of a second one for the accounts that failed, or by skipping,
\* after selections were changed, applied again or failed to be applied.
LaunchOnlyConnected ==
  wizardStep = "launch" => created # {} /\ created \subseteq passed \cap selected

\* The step is not locked for ever: applying and testing end, whatever order the workers
\* finish in, unless a call rejected while the selection was being applied.
WizardUnlocks == Locked ~> (~Locked \/ applying = "stuck")
=============================================================================
