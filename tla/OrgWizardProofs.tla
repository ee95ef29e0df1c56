---------------------------- MODULE OrgWizardProofs ----------------------------
(***************************************************************************)
(* Proofs about OrgWizard, for any finite set of accounts, any number of   *)
(* workers and of openings: its types, that only accounts whose last       *)
(* connection test succeeded reach the launch step, and that a locked step *)
(* only comes closer to its end (the safety part of WizardUnlocks).        *)
(***************************************************************************)
EXTENDS OrgWizard, FiniteSetTheorems, TLAPS

-----------------------------------------------------------------------------
(* Types *)

ApplyStates == {"no", "apply", "mapping", "stuck"}

\* The flags, apart from the rest.
WizardFlags ==
  /\ discovering \in BOOLEAN /\ isTestingView \in BOOLEAN
  /\ applyError \in BOOLEAN /\ hasApplied \in BOOLEAN /\ launching \in BOOLEAN

WizardData ==
  /\ wizardStep \in Steps /\ applies \in 0 .. MaxApplies
  /\ selectable \in SUBSET Accounts /\ selected \in SUBSET Accounts
  /\ created \in SUBSET Accounts /\ results \in [Accounts -> TestStatus]
  /\ applying \in ApplyStates /\ lastApplied \in SUBSET Accounts
  /\ inTest \in SUBSET Accounts /\ toTest \in SUBSET Accounts /\ testRound \in SUBSET Accounts
  /\ passed \in SUBSET Accounts

\* A launch belongs to an opening of the wizard.
OpeningTypes ==
  /\ opens \in 0 .. MaxOpens /\ launches \in SUBSET (1 .. MaxOpens)
  /\ wizardStep # "closed" => opens \in 1 .. MaxOpens

\* Discovery is part of the setup step, applying and testing of the selection step.
BusyInStep ==
  /\ discovering => wizardStep = "setup"
  /\ applying # "no" \/ inTest # {} => wizardStep = "validate"

WizardTypes == WizardFlags /\ WizardData /\ OpeningTypes /\ BusyInStep

LEMMA TypesGiveTypeOK == WizardTypes => WizardTypeOK
  BY DEF WizardTypes, WizardFlags, WizardData, OpeningTypes, WizardTypeOK, ApplyStates

LEMMA InitWizardTypes == WizardInit => WizardTypes
<1> SUFFICES ASSUME WizardInit PROVE WizardTypes
  OBVIOUS
<1>1. WizardFlags
  BY DEF WizardInit, WizardFlags
<1>2. 0 \in 0 .. MaxApplies /\ 0 \in 0 .. MaxOpens
  BY WizardAssumption
<1>3. WizardData /\ OpeningTypes
  BY <1>2 DEF WizardInit, WizardData, OpeningTypes, Steps, TestStatus, Untested, ApplyStates
<1> QED
  BY <1>1, <1>3 DEF WizardTypes, WizardInit, BusyInStep

\* What a fresh selection component and a reset store hold.
LEMMA FreshTypes ==
  ASSUME FreshSelectionFlow
  PROVE  /\ isTestingView' \in BOOLEAN /\ applyError' \in BOOLEAN /\ hasApplied' \in BOOLEAN
         /\ applying' = "no" /\ lastApplied' = {} /\ inTest' = {} /\ toTest' = {} /\ testRound' = {}
         /\ ~hasApplied'
  BY DEF FreshSelectionFlow

LEMMA UntestedTypes == Untested \in [Accounts -> TestStatus]
  BY DEF Untested, TestStatus

LEMMA ResetTypes ==
  ASSUME ResetStore
  PROVE  /\ selectable' = {} /\ selected' = {} /\ created' = {}
         /\ results' \in [Accounts -> TestStatus]
  BY UntestedTypes DEF ResetStore

\* The tests of a round.
LEMMA RoundTypes ==
  ASSUME WizardData, NEW ids \in SUBSET Accounts, TestAllConnections(ids)
  PROVE  /\ testRound' = ids /\ results' \in [Accounts -> TestStatus]
         /\ inTest' \subseteq ids /\ toTest' = ids \ inTest'
         /\ \A a \in ids : results'[a] = "pending"
         /\ \A a \in Accounts \ ids : results'[a] = results[a]
  BY DEF WizardData, TestAllConnections, TestStatus

LEMMA AppliesGrow ==
  ASSUME applies \in 0 .. MaxApplies, applies < MaxApplies, applies' = applies + 1
  PROVE  applies' \in 0 .. MaxApplies
  BY WizardAssumption

LEMMA OpenCloseTypes ==
  ASSUME WizardTypes, OpenWizard \/ CloseWizard \/ \E n \in 1 .. MaxOpens : LaunchDone(n)
  PROVE  WizardTypes'
<1>1. FreshSelectionFlow /\ ResetStore
  BY DEF OpenWizard, CloseWizard, LaunchDone, HandleClose
<1>2. WizardFlags'
  <2>1. discovering' \in BOOLEAN /\ launching' \in BOOLEAN
    BY DEF WizardTypes, WizardFlags, OpenWizard, CloseWizard, LaunchDone, HandleClose
  <2> QED
    BY <1>1, <2>1, FreshTypes DEF WizardFlags
<1>3. WizardData'
  <2>1. wizardStep' \in Steps /\ applies' = applies /\ passed' = passed
    BY DEF OpenWizard, CloseWizard, LaunchDone, HandleClose, Steps, bounds
  <2> QED
    BY <1>1, <2>1, FreshTypes, ResetTypes DEF WizardTypes, WizardData, ApplyStates
<1>4. OpeningTypes'
  <2>1. CASE OpenWizard
    <3>1. opens < MaxOpens /\ opens' = opens + 1 /\ launches' = launches
      BY <2>1 DEF OpenWizard
    <3>2. opens' \in 1 .. MaxOpens /\ opens' \in 0 .. MaxOpens
      BY <3>1, WizardAssumption DEF WizardTypes, OpeningTypes
    <3> QED
      BY <3>1, <3>2 DEF WizardTypes, OpeningTypes
  <2>2. CASE CloseWizard \/ \E n \in 1 .. MaxOpens : LaunchDone(n)
    BY <2>2 DEF CloseWizard, LaunchDone, HandleClose, bounds, WizardTypes, OpeningTypes
  <2> QED
    BY <2>1, <2>2
<1>5. BusyInStep'
  <2>1. discovering' => wizardStep' = "setup"
    BY DEF OpenWizard, CloseWizard, LaunchDone, HandleClose, WizardTypes, BusyInStep
  <2> QED
    BY <1>1, <2>1, FreshTypes DEF BusyInStep
<1> QED
  BY <1>2, <1>3, <1>4, <1>5 DEF WizardTypes

LEMMA SetupTypes ==
  ASSUME WizardTypes,
         \/ SubmitOrganizationSetup \/ DiscoveryFails
         \/ \E found \in (SUBSET Accounts) \ {{}} : Discovered(found)
  PROVE  WizardTypes'
<1>1. CASE SubmitOrganizationSetup
  <2>1. WizardFlags'
    BY <1>1 DEF WizardTypes, WizardFlags, SubmitOrganizationSetup, selectionFlow
  <2>2. applies' \in 0 .. MaxApplies
    BY <1>1, AppliesGrow DEF WizardTypes, WizardData, SubmitOrganizationSetup
  <2>3. created' = {} /\ results' \in [Accounts -> TestStatus]
    BY <1>1, UntestedTypes DEF SubmitOrganizationSetup, ClearValidationState
  <2>4. WizardData' /\ OpeningTypes' /\ BusyInStep'
    BY <1>1, <2>2, <2>3 DEF WizardTypes, WizardData, OpeningTypes, BusyInStep,
                            SubmitOrganizationSetup, selectionFlow, testPool
  <2> QED
    BY <2>1, <2>4 DEF WizardTypes
<1>2. CASE DiscoveryFails
  <2>1. WizardFlags'
    BY <1>2 DEF WizardTypes, WizardFlags, DiscoveryFails, selectionFlow
  <2>2. WizardData' /\ OpeningTypes' /\ BusyInStep'
    BY <1>2 DEF WizardTypes, WizardData, OpeningTypes, BusyInStep, DiscoveryFails, selectionFlow,
                testPool, orgStore, bounds
  <2> QED
    BY <2>1, <2>2 DEF WizardTypes
<1>3. ASSUME NEW found \in SUBSET Accounts, Discovered(found) PROVE WizardTypes'
  <2>1. FreshSelectionFlow /\ wizardStep = "setup" /\ wizardStep' = "validate"
    BY <1>3 DEF Discovered, WizardTypes, BusyInStep
  <2>2. WizardFlags' /\ BusyInStep'
    <3>1. discovering' \in BOOLEAN /\ launching' \in BOOLEAN /\ ~discovering'
      BY <1>3 DEF Discovered, WizardTypes, WizardFlags
    <3> QED
      BY <2>1, <3>1, FreshTypes DEF WizardFlags, BusyInStep
  <2>3. WizardData'
    BY <1>3, <2>1, FreshTypes DEF Discovered, WizardTypes, WizardData, ApplyStates, Steps, bounds
  <2> QED
    BY <1>3, <2>1, <2>2, <2>3 DEF WizardTypes, OpeningTypes, Discovered, bounds
<1> QED
  BY <1>1, <1>2, <1>3

LEMMA SelectTypes ==
  ASSUME WizardTypes,
         \/ \E chosen \in SUBSET Accounts : HandleTreeSelectionChange(chosen)
         \/ HandleStartTesting
  PROVE  WizardTypes'
<1>1. ASSUME NEW chosen \in SUBSET Accounts, HandleTreeSelectionChange(chosen) PROVE WizardTypes'
  <2>1. WizardFlags'
    <3>1. hasApplied' \in BOOLEAN /\ applyError' \in BOOLEAN
      BY <1>1 DEF HandleTreeSelectionChange
    <3> QED
      BY <1>1, <3>1 DEF WizardTypes, WizardFlags, HandleTreeSelectionChange
  <2>2. created' = {} /\ results' \in [Accounts -> TestStatus]
    BY <1>1, UntestedTypes DEF HandleTreeSelectionChange, ClearValidationState
  <2>3. WizardData' /\ OpeningTypes' /\ BusyInStep'
    BY <1>1, <2>2 DEF WizardTypes, WizardData, OpeningTypes, BusyInStep,
                      HandleTreeSelectionChange, testPool, bounds
  <2> QED
    BY <2>1, <2>3 DEF WizardTypes
<1>2. CASE HandleStartTesting
  <2>1. WizardFlags'
    <3>1. isTestingView' \in BOOLEAN /\ applyError' \in BOOLEAN
      BY <1>2 DEF HandleStartTesting
    <3>2. hasApplied' \in BOOLEAN
      BY <1>2 DEF HandleStartTesting, WizardTypes, WizardFlags
    <3> QED
      BY <1>2, <3>1, <3>2 DEF WizardTypes, WizardFlags, HandleStartTesting
  <2>2. applies' \in 0 .. MaxApplies
    BY <1>2, AppliesGrow DEF WizardTypes, WizardData, HandleStartTesting
  <2>3. /\ results' \in [Accounts -> TestStatus] /\ applying' \in ApplyStates
        /\ lastApplied' \in SUBSET Accounts
        /\ inTest' \in SUBSET Accounts /\ toTest' \in SUBSET Accounts
        /\ testRound' \in SUBSET Accounts
    <3>1. CASE /\ hasApplied' = TRUE /\ applying' = "apply"
               /\ lastApplied' = IF applyError THEN {} ELSE lastApplied
               /\ UNCHANGED <<results, testPool>>
      BY <3>1 DEF WizardTypes, WizardData, ApplyStates, testPool
    <3>2. ASSUME NEW ids \in SUBSET Accounts, TestAllConnections(ids),
                 UNCHANGED <<hasApplied, applying, lastApplied>>
          PROVE  <2>3
      BY <3>2, RoundTypes DEF WizardTypes, WizardData
    <3>3. {a \in created : results[a] = "error"} \in SUBSET Accounts /\ created \in SUBSET Accounts
      BY DEF WizardTypes, WizardData
    <3> QED
      BY <1>2, <3>1, <3>2, <3>3 DEF HandleStartTesting
  <2>4. WizardData' /\ OpeningTypes' /\ BusyInStep'
    BY <1>2, <2>2, <2>3 DEF WizardTypes, WizardData, OpeningTypes, BusyInStep, HandleStartTesting
  <2> QED
    BY <2>1, <2>4 DEF WizardTypes
<1> QED
  BY <1>1, <1>2

LEMMA ApplyTypes ==
  ASSUME WizardTypes, ApplyReturns
  PROVE  WizardTypes'
<1>1. CASE ApplyAnswered
  <2>1. WizardFlags'
    <3>1. applyError' \in BOOLEAN /\ hasApplied' \in BOOLEAN
      BY <1>1 DEF ApplyAnswered, WizardTypes, WizardFlags
    <3> QED
      BY <1>1, <3>1 DEF ApplyAnswered, WizardTypes, WizardFlags
  <2>2. created' \in SUBSET Accounts /\ passed' \in SUBSET Accounts /\ applying' \in ApplyStates
    BY <1>1 DEF ApplyAnswered, WizardTypes, WizardData, ApplyStates
  <2>3. WizardData' /\ OpeningTypes' /\ BusyInStep'
    BY <1>1, <2>2 DEF WizardTypes, WizardData, OpeningTypes, BusyInStep, ApplyAnswered, testPool,
                      bounds
  <2> QED
    BY <2>1, <2>3 DEF WizardTypes
<1>2. CASE MappingDone
  <2>1. WizardFlags'
    BY <1>2 DEF MappingDone, WizardTypes, WizardFlags
  <2>2. /\ results' \in [Accounts -> TestStatus] /\ testRound' \in SUBSET Accounts
        /\ inTest' \in SUBSET Accounts /\ toTest' \in SUBSET Accounts
    BY <1>2, RoundTypes DEF MappingDone, WizardTypes, WizardData
  <2>3. WizardData' /\ OpeningTypes' /\ BusyInStep'
    BY <1>2, <2>2 DEF WizardTypes, WizardData, OpeningTypes, BusyInStep, MappingDone, ApplyStates,
                      bounds
  <2> QED
    BY <2>1, <2>3 DEF WizardTypes
<1>3. CASE ApplyRejected
  <2>1. WizardFlags'
    BY <1>3 DEF ApplyRejected, WizardTypes, WizardFlags
  <2>2. WizardData' /\ OpeningTypes' /\ BusyInStep'
    BY <1>3 DEF WizardTypes, WizardData, OpeningTypes, BusyInStep, ApplyRejected, ApplyStates,
                orgStore, testPool, bounds
  <2> QED
    BY <2>1, <2>2 DEF WizardTypes
<1> QED
  BY <1>1, <1>2, <1>3 DEF ApplyReturns

\* The end of a test: the round goes on, ends, or leads to the launch step.
LEMMA TestEffect ==
  ASSUME WizardTypes, NEW a \in Accounts, NEW v \in {"success", "error"},
         TestConnectionReturns(a, v)
  PROVE  /\ a \in inTest /\ wizardStep = "validate"
         /\ results' = [results EXCEPT ![a] = v] /\ results' \in [Accounts -> TestStatus]
         /\ passed' = IF v = "success" THEN passed \cup {a} ELSE passed \ {a}
         /\ \/ /\ inTest \ {a} = {} /\ toTest = {}
               /\ \A b \in testRound : results'[b] = "success"
               /\ wizardStep' = "launch" /\ FreshSelectionFlow
            \/ /\ inTest' = inTest \ {a} /\ toTest = {} /\ toTest' = {}
               /\ UNCHANGED <<wizardStep, isTestingView, applying, applyError, hasApplied,
                              lastApplied, testRound>>
            \/ /\ \E b \in toTest : inTest' = (inTest \ {a}) \cup {b} /\ toTest' = toTest \ {b}
               /\ UNCHANGED <<wizardStep, isTestingView, applying, applyError, hasApplied,
                              lastApplied, testRound>>
         /\ UNCHANGED <<bounds, discovering, selectable, selected, created, launching, launches>>
<1> DEFINE left == inTest \ {a}
           after == [results EXCEPT ![a] = v]
           done == left = {} /\ toTest = {}
<1>1. a \in inTest /\ results' = after
      /\ passed' = (IF v = "success" THEN passed \cup {a} ELSE passed \ {a})
      /\ UNCHANGED <<bounds, discovering, selectable, selected, created, launching, launches>>
  BY DEF TestConnectionReturns
<1>2. wizardStep = "validate"
  BY <1>1 DEF WizardTypes, BusyInStep
<1>3. after \in [Accounts -> TestStatus]
  BY DEF WizardTypes, WizardData, TestStatus
<1>4. \/ /\ done /\ \A b \in testRound : after[b] = "success"
         /\ wizardStep' = "launch" /\ FreshSelectionFlow
      \/ /\ done /\ \E b \in testRound : after[b] # "success"
         /\ inTest' = {}
         /\ UNCHANGED <<wizardStep, isTestingView, applying, applyError, hasApplied, lastApplied,
                        toTest, testRound>>
      \/ /\ ~done
         /\ \/ toTest = {} /\ inTest' = left /\ UNCHANGED toTest
            \/ \E b \in toTest : inTest' = left \cup {b} /\ toTest' = toTest \ {b}
         /\ UNCHANGED <<wizardStep, isTestingView, applying, applyError, hasApplied, lastApplied,
                        testRound>>
  BY DEF TestConnectionReturns
<1> HIDE DEF after
<1> QED
  BY <1>1, <1>2, <1>3, <1>4 DEF after

LEMMA TestTypes ==
  ASSUME WizardTypes, TestReturns
  PROVE  WizardTypes'
<1>1. PICK a \in Accounts, v \in {"success", "error"} : TestConnectionReturns(a, v)
  BY DEF TestReturns
<1>2. /\ a \in inTest /\ wizardStep = "validate" /\ results' \in [Accounts -> TestStatus]
      /\ passed' = (IF v = "success" THEN passed \cup {a} ELSE passed \ {a})
      /\ UNCHANGED <<bounds, discovering, selectable, selected, created, launching, launches>>
  BY <1>1, TestEffect
<1>3. CASE wizardStep' = "launch" /\ FreshSelectionFlow
  <2>1. WizardFlags'
    BY <1>2, <1>3, FreshTypes DEF WizardTypes, WizardFlags
  <2>2. WizardData' /\ OpeningTypes' /\ BusyInStep'
    BY <1>2, <1>3, FreshTypes DEF WizardTypes, WizardData, OpeningTypes, BusyInStep, Steps,
                                  ApplyStates, bounds
  <2> QED
    BY <2>1, <2>2 DEF WizardTypes
<1>4. CASE UNCHANGED <<wizardStep, isTestingView, applying, applyError, hasApplied, lastApplied,
                       testRound>>
  <2>1. WizardFlags'
    BY <1>2, <1>4 DEF WizardTypes, WizardFlags
  <2>2. inTest' \in SUBSET Accounts /\ toTest' \in SUBSET Accounts
    <3>1. inTest' \subseteq inTest \cup toTest \/ inTest' = {}
      BY <1>1, TestEffect, FreshTypes
    <3>2. toTest' \subseteq toTest
      BY <1>1, TestEffect, FreshTypes
    <3> QED
      BY <3>1, <3>2 DEF WizardTypes, WizardData
  <2>3. WizardData' /\ OpeningTypes' /\ BusyInStep'
    BY <1>2, <1>4, <2>2 DEF WizardTypes, WizardData, OpeningTypes, BusyInStep, bounds
  <2> QED
    BY <2>1, <2>3 DEF WizardTypes
<1> QED
  BY <1>1, <1>3, <1>4, TestEffect

LEMMA MoveTypes ==
  ASSUME WizardTypes, Back \/ SkipValidation \/ BackToSelection
  PROVE  WizardTypes'
<1>1. CASE Back
  <2>1. wizardStep = "validate"
        /\ UNCHANGED <<bounds, discovering, selectable, selected, created, results, launching,
                       launches, passed>>
    BY <1>1 DEF Back, orgStore
  <2>2. CASE isTestingView' = FALSE
             /\ UNCHANGED <<wizardStep, applying, applyError, hasApplied, lastApplied, testPool>>
    <3>1. WizardFlags'
      BY <2>1, <2>2 DEF WizardTypes, WizardFlags
    <3>2. WizardData' /\ OpeningTypes' /\ BusyInStep'
      BY <2>1, <2>2 DEF WizardTypes, WizardData, OpeningTypes, BusyInStep, testPool, bounds
    <3> QED
      BY <3>1, <3>2 DEF WizardTypes
  <2>3. CASE wizardStep' = "setup" /\ FreshSelectionFlow
    <3>1. WizardFlags'
      BY <2>1, <2>3, FreshTypes DEF WizardTypes, WizardFlags
    <3>2. WizardData' /\ OpeningTypes' /\ BusyInStep'
      BY <2>1, <2>3, FreshTypes DEF WizardTypes, WizardData, OpeningTypes, BusyInStep, Steps,
                                    ApplyStates, bounds
    <3> QED
      BY <3>1, <3>2 DEF WizardTypes
  <2> QED
    BY <1>1, <2>2, <2>3 DEF Back
<1>2. CASE SkipValidation \/ BackToSelection
  <2>1. FreshSelectionFlow
        /\ UNCHANGED <<bounds, discovering, selectable, selected, results, launching, launches,
                       passed>>
    BY <1>2 DEF SkipValidation, BackToSelection, orgStore
  <2>2. created' \in SUBSET Accounts
    BY <1>2 DEF SkipValidation, BackToSelection, orgStore, Launchable, WizardTypes, WizardData
  <2>3. wizardStep \in {"validate", "launch"} /\ wizardStep' \in {"validate", "launch"}
    BY <1>2 DEF SkipValidation, BackToSelection
  <2>4. WizardFlags'
    BY <2>1, FreshTypes DEF WizardTypes, WizardFlags
  <2>5. WizardData' /\ OpeningTypes' /\ BusyInStep'
    BY <2>1, <2>2, <2>3, FreshTypes DEF WizardTypes, WizardData, OpeningTypes, BusyInStep, Steps,
                                        ApplyStates, bounds
  <2> QED
    BY <2>4, <2>5 DEF WizardTypes
<1> QED
  BY <1>1, <1>2

LEMMA LaunchTypes ==
  ASSUME WizardTypes, LaunchScans \/ \E n \in 1 .. MaxOpens : LaunchFails(n)
  PROVE  WizardTypes'
<1>1. /\ UNCHANGED <<wizardStep, bounds, discovering, orgStore, selectionFlow, passed>>
      /\ launches' \subseteq launches \cup {opens} /\ (launches' \subseteq launches \/ wizardStep = "launch")
  BY DEF LaunchScans, LaunchFails
<1>2. launching' \in BOOLEAN
  BY DEF LaunchScans, LaunchFails, WizardTypes, WizardFlags
<1>3. WizardFlags'
  BY <1>1, <1>2 DEF WizardTypes, WizardFlags, selectionFlow
<1>4. WizardData' /\ OpeningTypes' /\ BusyInStep'
  BY <1>1 DEF WizardTypes, WizardData, OpeningTypes, BusyInStep, orgStore, selectionFlow, testPool,
              bounds
<1> QED
  BY <1>3, <1>4 DEF WizardTypes

LEMMA StepWizardTypes == WizardTypes /\ [WizardNext]_wizardVars => WizardTypes'
<1>1. ASSUME WizardTypes, UNCHANGED wizardVars PROVE WizardTypes'
  BY <1>1 DEF WizardTypes, WizardFlags, WizardData, OpeningTypes, BusyInStep, wizardVars
<1>2. ASSUME WizardTypes, WizardNext PROVE WizardTypes'
  BY <1>2, OpenCloseTypes, SetupTypes, SelectTypes, ApplyTypes, TestTypes, MoveTypes, LaunchTypes
  DEF WizardNext
<1> QED
  BY <1>1, <1>2

\* The variables keep their types.
THEOREM WizardTypeCorrect == WizardSpec => []WizardTypeOK
  BY InitWizardTypes, StepWizardTypes, TypesGiveTypeOK, PTL DEF WizardSpec

-----------------------------------------------------------------------------
(* Only connected accounts.  Providers belong to the selection; a success   *)
(* on screen is that of the last test, except while a new application is    *)
(* being mapped; and of a round, what is neither in test nor waiting has    *)
(* its result.                                                              *)

Tested(a) == results[a] \in {"success", "error"}

DiscoveryIsBlank == discovering => created = {}

SuccessIsLast ==
  applying \in {"no", "apply"} => \A a \in created : results[a] = "success" => a \in passed

RoundCovers ==
  /\ inTest = {} => toTest = {}
  /\ inTest # {} =>
       /\ applying = "no" /\ testRound \subseteq created
       /\ inTest \cup toTest \subseteq testRound
       /\ \A a \in created \ testRound : results[a] = "success"
       /\ \A a \in testRound \ (inTest \cup toTest) : Tested(a)

\* The button tests again, rather than applies, only what has been tested.
AgainIsTested ==
  applying = "no" /\ inTest = {} /\ hasApplied /\ ~applyError /\ lastApplied = selected =>
    \A a \in created : Tested(a)

Connected ==
  /\ created \subseteq selected
  /\ DiscoveryIsBlank /\ SuccessIsLast /\ RoundCovers /\ AgainIsTested
  /\ LaunchOnlyConnected

LEMMA InitConnected == WizardInit => Connected
  BY DEF WizardInit, Connected, DiscoveryIsBlank, SuccessIsLast, RoundCovers, AgainIsTested,
         LaunchOnlyConnected

\* A step after which there are no providers, and nothing is tested.
LEMMA NothingCreated ==
  ASSUME created' = {}, inTest' = {}, toTest' = {}, wizardStep' # "launch"
  PROVE  Connected'
  BY DEF Connected, DiscoveryIsBlank, SuccessIsLast, RoundCovers, AgainIsTested,
         LaunchOnlyConnected

\* A step to or from the selection component: the providers stay or become fewer.
LEMMA FreshKeeps ==
  ASSUME WizardTypes, Connected, FreshSelectionFlow, UNCHANGED <<selected, results, passed>>,
         created' \subseteq created,
         applying \in {"no", "apply"},
         discovering' => created' = {},
         wizardStep' = "launch" => created' # {} /\ created' \subseteq passed
  PROVE  Connected'
<1>1. SuccessIsLast'
  BY DEF Connected, SuccessIsLast
<1>2. RoundCovers' /\ AgainIsTested'
  BY FreshTypes DEF RoundCovers, AgainIsTested
<1>3. (created \subseteq selected)' /\ LaunchOnlyConnected' /\ DiscoveryIsBlank'
  BY DEF Connected, LaunchOnlyConnected, DiscoveryIsBlank
<1> QED
  BY <1>1, <1>2, <1>3 DEF Connected

\* A step that changes nothing of it.
LEMMA ConnectedSame ==
  ASSUME Connected, discovering' => discovering,
         UNCHANGED <<wizardStep, selected, created, results, applying, applyError, hasApplied,
                     lastApplied, testPool, passed>>
  PROVE  Connected'
<1>1. RoundCovers'
  <2>1. \A a : Tested(a)' <=> Tested(a)
    BY DEF Tested
  <2> QED
    BY <2>1 DEF Connected, RoundCovers, testPool
<1>2. AgainIsTested'
  BY DEF Connected, AgainIsTested, Tested, testPool
<1> QED
  BY <1>1, <1>2 DEF Connected, DiscoveryIsBlank, SuccessIsLast, LaunchOnlyConnected

\* There is a worker: a round over some accounts starts with a test.
LEMMA RoundStarts ==
  ASSUME NEW ids \in SUBSET Accounts, ids # {}, TestAllConnections(ids)
  PROVE  inTest' # {}
<1>1. IsFiniteSet(ids)
  BY WizardAssumption, FS_Subset
<1>2. Cardinality(ids) \in Nat /\ Cardinality(ids) # 0
  BY <1>1, FS_CardinalityType, FS_EmptySet
<1>3. PICK first \in SUBSET ids :
        /\ Cardinality(first) = IF Cardinality(ids) < PoolSize THEN Cardinality(ids) ELSE PoolSize
        /\ inTest' = first
  BY DEF TestAllConnections
<1>4. Cardinality(first) # 0
  BY <1>2, <1>3, WizardAssumption
<1> QED
  BY <1>3, <1>4, FS_EmptySet

\* A round is started over tested accounts that leave only successes outside it.
LEMMA RoundKeeps ==
  ASSUME WizardTypes, Connected, NEW ids \in SUBSET created, TestAllConnections(ids),
         \A a \in created \ ids : results[a] = "success",
         ids = {} => created = {},
         applying' = "no", wizardStep = "validate",
         applying = "mapping" => ids = created, applying # "stuck",
         UNCHANGED <<wizardStep, discovering, selected, created, passed>>
  PROVE  Connected'
<1>1. created \in SUBSET Accounts /\ ids \in SUBSET Accounts
  BY DEF WizardTypes, WizardData
<1>2. /\ testRound' = ids /\ inTest' \subseteq ids /\ toTest' = ids \ inTest'
      /\ \A a \in ids : results'[a] = "pending"
      /\ \A a \in Accounts \ ids : results'[a] = results[a]
  BY <1>1, RoundTypes DEF WizardTypes
<1>3. ids # {} => inTest' # {}
  BY <1>1, RoundStarts
<1>4. SuccessIsLast'
  <2> SUFFICES ASSUME NEW a \in created, results'[a] = "success" PROVE a \in passed
    BY DEF SuccessIsLast
  <2>1. a \notin ids /\ results[a] = "success"
    BY <1>1, <1>2
  <2>2. applying # "mapping"
    BY <2>1
  <2> QED
    BY <2>1, <2>2 DEF Connected, SuccessIsLast, WizardTypes, WizardData, ApplyStates
<1>5. RoundCovers'
  <2>1. \A a \in created \ ids : results'[a] = "success"
    BY <1>1, <1>2
  <2>2. inTest' \cup toTest' = ids /\ (inTest' = {} => toTest' = {})
    BY <1>2, <1>3
  <2> QED
    BY <1>2, <2>1, <2>2 DEF RoundCovers
<1>6. AgainIsTested'
  BY <1>3 DEF AgainIsTested
<1>7. (created \subseteq selected)' /\ DiscoveryIsBlank' /\ LaunchOnlyConnected'
  BY DEF Connected, DiscoveryIsBlank, LaunchOnlyConnected
<1> QED
  BY <1>4, <1>5, <1>6, <1>7 DEF Connected

LEMMA StartKeeps ==
  ASSUME WizardTypes, Connected, HandleStartTesting
  PROVE  Connected'
<1> DEFINE failed == {a \in created : results[a] = "error"}
           again == hasApplied /\ ~applyError /\ lastApplied = selected
<1>1. /\ wizardStep = "validate" /\ applying = "no" /\ inTest = {} /\ applyError' = FALSE
      /\ UNCHANGED <<wizardStep, discovering, selected, created, passed>>
  BY DEF HandleStartTesting, Locked
<1>2. CASE again /\ TestAllConnections(IF failed # {} THEN failed ELSE created)
            /\ UNCHANGED applying
  <2>1. \A a \in created : Tested(a)
    BY <1>1, <1>2 DEF Connected, AgainIsTested
  <2>2. CASE failed # {}
    <3>1. \A a \in created \ failed : results[a] = "success"
      BY <2>1 DEF Tested
    <3>2. failed \in SUBSET created /\ TestAllConnections(failed)
      BY <1>2, <2>2
    <3> HIDE DEF failed
    <3> QED
      BY <1>1, <1>2, <2>2, <3>1, <3>2, RoundKeeps
  <2>3. CASE failed = {}
    <3>1. TestAllConnections(created)
      BY <1>2, <2>3
    <3> HIDE DEF failed
    <3> QED
      BY <1>1, <1>2, <3>1, RoundKeeps
  <2> QED
    BY <2>2, <2>3
<1>3. CASE applying' = "apply" /\ UNCHANGED <<results, testPool>>
  <2>1. SuccessIsLast'
    BY <1>1, <1>3 DEF Connected, SuccessIsLast
  <2>2. RoundCovers' /\ AgainIsTested'
    BY <1>1, <1>3 DEF Connected, RoundCovers, AgainIsTested, testPool
  <2>3. (created \subseteq selected)' /\ DiscoveryIsBlank' /\ LaunchOnlyConnected'
    BY <1>1 DEF Connected, DiscoveryIsBlank, LaunchOnlyConnected
  <2> QED
    BY <2>1, <2>2, <2>3 DEF Connected
<1> QED
  BY <1>2, <1>3 DEF HandleStartTesting

LEMMA ApplyKeeps ==
  ASSUME WizardTypes, Connected, ApplyReturns
  PROVE  Connected'
<1>1. CASE ApplyAnswered
  <2>1. wizardStep = "validate" /\ inTest = {} /\ applying = "apply"
        /\ UNCHANGED <<wizardStep, discovering, selected, results, lastApplied, testPool>>
    BY <1>1 DEF ApplyAnswered, WizardTypes, BusyInStep, Connected, RoundCovers
  <2>2. ASSUME NEW made \in SUBSET selected, created' = made, passed' = passed \ made,
               applying' = "mapping"
        PROVE  Connected'
    <3>1. ~discovering
      BY <2>1 DEF WizardTypes, BusyInStep
    <3>2. SuccessIsLast' /\ AgainIsTested' /\ RoundCovers'
      BY <2>1, <2>2 DEF SuccessIsLast, AgainIsTested, RoundCovers, Connected, testPool
    <3> QED
      BY <2>1, <2>2, <3>1, <3>2 DEF Connected, DiscoveryIsBlank, LaunchOnlyConnected
  <2>3. CASE applying' = "no" /\ hasApplied' = FALSE /\ UNCHANGED <<created, passed>>
    <3>1. SuccessIsLast' /\ AgainIsTested' /\ RoundCovers'
      BY <2>1, <2>3 DEF SuccessIsLast, AgainIsTested, RoundCovers, Connected, testPool
    <3> QED
      BY <2>1, <2>3, <3>1 DEF Connected, DiscoveryIsBlank, LaunchOnlyConnected
  <2> QED
    BY <1>1, <2>2, <2>3 DEF ApplyAnswered
<1>2. CASE MappingDone
  <2>1. /\ wizardStep = "validate" /\ TestAllConnections(created)
        /\ applying = "mapping" /\ applying' = "no"
        /\ UNCHANGED <<wizardStep, discovering, selected, created, passed>>
    BY <1>2 DEF MappingDone, WizardTypes, BusyInStep
  <2> QED
    BY <2>1, RoundKeeps
<1>3. CASE ApplyRejected
  <2>1. wizardStep = "validate" /\ inTest = {} /\ applying' = "stuck"
        /\ UNCHANGED <<wizardStep, discovering, orgStore, testPool, passed>>
    BY <1>3 DEF ApplyRejected, WizardTypes, BusyInStep, Connected, RoundCovers
  <2>2. SuccessIsLast' /\ AgainIsTested' /\ RoundCovers'
    BY <2>1 DEF SuccessIsLast, AgainIsTested, RoundCovers, Connected, testPool
  <2> QED
    BY <2>1, <2>2 DEF Connected, DiscoveryIsBlank, LaunchOnlyConnected, orgStore
<1> QED
  BY <1>1, <1>2, <1>3 DEF ApplyReturns

LEMMA TestKeeps ==
  ASSUME WizardTypes, Connected, TestReturns
  PROVE  Connected'
<1>1. PICK a \in Accounts, v \in {"success", "error"} : TestConnectionReturns(a, v)
  BY DEF TestReturns
<1>2. /\ a \in inTest /\ wizardStep = "validate"
      /\ results \in [Accounts -> TestStatus] /\ results' = [results EXCEPT ![a] = v]
      /\ passed' = (IF v = "success" THEN passed \cup {a} ELSE passed \ {a})
      /\ UNCHANGED <<discovering, selected, created>>
  BY <1>1, TestEffect DEF WizardTypes, WizardData
<1>3. /\ applying = "no" /\ testRound \subseteq created /\ inTest \cup toTest \subseteq testRound
      /\ \A b \in created \ testRound : results[b] = "success"
      /\ \A b \in testRound \ (inTest \cup toTest) : Tested(b)
      /\ a \in testRound /\ a \in created /\ created \subseteq Accounts
  BY <1>2 DEF Connected, RoundCovers, WizardTypes, WizardData
<1>4. results'[a] = v /\ \A b \in Accounts \ {a} : results'[b] = results[b]
  BY <1>2
<1>5. \A b \in created : results'[b] = "success" => b \in passed'
  BY <1>2, <1>3, <1>4 DEF Connected, SuccessIsLast
<1>6. \A b \in created \ testRound : results'[b] = "success"
  BY <1>3, <1>4
<1>7. ~discovering
  BY <1>2 DEF WizardTypes, BusyInStep
<1>8. CASE /\ \A b \in testRound : results'[b] = "success"
           /\ wizardStep' = "launch" /\ FreshSelectionFlow
  <2>1. created \subseteq passed'
    BY <1>5, <1>6, <1>8
  <2>2. SuccessIsLast' /\ LaunchOnlyConnected' /\ DiscoveryIsBlank'
    BY <1>2, <1>3, <1>7, <2>1 DEF SuccessIsLast, LaunchOnlyConnected, DiscoveryIsBlank, Connected
  <2>3. RoundCovers' /\ AgainIsTested'
    BY <1>8, FreshTypes DEF RoundCovers, AgainIsTested
  <2> QED
    BY <1>2, <2>2, <2>3 DEF Connected
<1>9. CASE UNCHANGED <<wizardStep, isTestingView, applying, applyError, hasApplied, lastApplied,
                       testRound>>
  <2>1. /\ inTest' \cup toTest' \subseteq inTest \cup toTest
        /\ (inTest \cup toTest) \ {a} \subseteq inTest' \cup toTest'
        /\ inTest' = {} => toTest' = {}
    BY <1>1, TestEffect, FreshTypes
  <2>2. ASSUME NEW b \in testRound \ (inTest' \cup toTest') PROVE Tested(b)'
    <3>1. CASE b = a
      BY <1>4, <3>1 DEF Tested
    <3>2. CASE b # a
      <4>1. Tested(b) /\ b \in Accounts
        BY <1>3, <2>1, <3>2
      <4> QED
        BY <1>4, <3>2, <4>1 DEF Tested
    <3> QED
      BY <3>1, <3>2
  <2>3. RoundCovers'
    BY <1>2, <1>3, <1>6, <1>9, <2>1, <2>2 DEF RoundCovers
  <2>4. AgainIsTested'
    <3> SUFFICES ASSUME inTest' = {}, NEW b \in created PROVE Tested(b)'
      BY <1>2 DEF AgainIsTested
    <3>1. CASE b \in testRound
      BY <2>1, <2>2, <3>1
    <3>2. CASE b \notin testRound
      BY <1>6, <3>2 DEF Tested
    <3> QED
      BY <3>1, <3>2
  <2>5. SuccessIsLast' /\ LaunchOnlyConnected' /\ DiscoveryIsBlank'
    BY <1>2, <1>5, <1>7, <1>9 DEF SuccessIsLast, LaunchOnlyConnected, DiscoveryIsBlank
  <2> QED
    BY <1>2, <2>3, <2>4, <2>5 DEF Connected
<1> QED
  BY <1>1, <1>8, <1>9, TestEffect

LEMMA ResetKeeps ==
  ASSUME WizardTypes, Connected,
         \/ OpenWizard \/ CloseWizard \/ \E n \in 1 .. MaxOpens : LaunchDone(n)
         \/ SubmitOrganizationSetup \/ \E found \in SUBSET Accounts : Discovered(found)
         \/ \E chosen \in SUBSET Accounts : HandleTreeSelectionChange(chosen)
  PROVE  Connected'
<1>1. CASE OpenWizard \/ CloseWizard \/ \E n \in 1 .. MaxOpens : LaunchDone(n)
  <2>1. FreshSelectionFlow /\ ResetStore /\ wizardStep' # "launch"
    BY <1>1 DEF OpenWizard, CloseWizard, LaunchDone, HandleClose
  <2> QED
    BY <2>1, FreshTypes, ResetTypes, NothingCreated
<1>2. CASE SubmitOrganizationSetup
  <2>1. inTest = {} /\ toTest = {} /\ wizardStep = "setup"
    BY <1>2 DEF SubmitOrganizationSetup, WizardTypes, BusyInStep, Connected, RoundCovers
  <2>2. created' = {} /\ inTest' = {} /\ toTest' = {} /\ wizardStep' # "launch"
    BY <1>2, <2>1 DEF SubmitOrganizationSetup, ClearValidationState, selectionFlow, testPool
  <2> QED
    BY <2>2, NothingCreated
<1>3. ASSUME NEW found \in SUBSET Accounts, Discovered(found) PROVE Connected'
  <2>1. created' = {} /\ wizardStep' # "launch" /\ FreshSelectionFlow
    BY <1>3 DEF Discovered, Connected, DiscoveryIsBlank
  <2> QED
    BY <2>1, FreshTypes, NothingCreated
<1>4. ASSUME NEW chosen \in SUBSET Accounts, HandleTreeSelectionChange(chosen) PROVE Connected'
  <2>1. inTest = {} /\ toTest = {}
    BY <1>4 DEF HandleTreeSelectionChange, Locked, Connected, RoundCovers
  <2>2. created' = {} /\ inTest' = {} /\ toTest' = {} /\ wizardStep' # "launch"
    BY <1>4, <2>1 DEF HandleTreeSelectionChange, ClearValidationState, testPool
  <2> QED
    BY <2>2, NothingCreated
<1> QED
  BY <1>1, <1>2, <1>3, <1>4

LEMMA MoveKeeps ==
  ASSUME WizardTypes, Connected, Back \/ SkipValidation \/ BackToSelection
  PROVE  Connected'
<1>1. CASE Back
  <2>1. wizardStep = "validate" /\ applying = "no" /\ ~discovering
        /\ UNCHANGED <<discovering, selected, created, results, passed>>
    BY <1>1 DEF Back, Locked, orgStore, WizardTypes, BusyInStep
  <2>2. CASE UNCHANGED <<wizardStep, applying, applyError, hasApplied, lastApplied, testPool>>
    BY <2>1, <2>2, ConnectedSame
  <2>3. CASE wizardStep' = "setup" /\ FreshSelectionFlow
    BY <2>1, <2>3, FreshKeeps
  <2> QED
    BY <1>1, <2>2, <2>3 DEF Back
<1>2. CASE SkipValidation
  <2>1. /\ wizardStep = "validate" /\ applying = "no" /\ ~discovering
        /\ FreshSelectionFlow /\ UNCHANGED <<discovering, selected, results, passed>>
        /\ created' = Launchable /\ Launchable # {}
    BY <1>2 DEF SkipValidation, Locked, WizardTypes, BusyInStep
  <2>2. Launchable \subseteq created /\ Launchable \subseteq passed
    BY <2>1 DEF Launchable, Connected, SuccessIsLast
  <2> QED
    BY <2>1, <2>2, FreshKeeps
<1>3. CASE BackToSelection
  <2>1. /\ wizardStep = "launch" /\ wizardStep' = "validate"
        /\ FreshSelectionFlow /\ UNCHANGED <<discovering, selected, results, created, passed>>
    BY <1>3 DEF BackToSelection, orgStore
  <2>2. applying = "no" /\ ~discovering
    BY <2>1 DEF WizardTypes, BusyInStep
  <2> QED
    BY <2>1, <2>2, FreshKeeps
<1> QED
  BY <1>1, <1>2, <1>3

WizardInv == WizardTypes /\ Connected

LEMMA StepWizardInv == WizardInv /\ [WizardNext]_wizardVars => WizardInv'
<1>1. ASSUME WizardInv, UNCHANGED wizardVars PROVE WizardInv'
  <2>1. WizardTypes'
    BY <1>1, StepWizardTypes DEF WizardInv
  <2>2. Connected'
    BY <1>1, ConnectedSame DEF WizardInv, wizardVars, testPool
  <2> QED
    BY <2>1, <2>2 DEF WizardInv
<1>2. ASSUME WizardInv, WizardNext PROVE WizardInv'
  <2>1. WizardTypes' /\ WizardTypes /\ Connected
    BY <1>2, StepWizardTypes DEF WizardInv
  <2>2. CASE DiscoveryFails \/ LaunchScans \/ \E n \in 1 .. MaxOpens : LaunchFails(n)
    <3>1. (discovering' => discovering)
          /\ UNCHANGED <<wizardStep, selected, created, results, applying, applyError, hasApplied,
                         lastApplied, testPool, passed>>
      BY <2>2 DEF DiscoveryFails, LaunchScans, LaunchFails, orgStore, selectionFlow
    <3> QED
      BY <2>1, <3>1, ConnectedSame DEF WizardInv
  <2>3. CASE ~(DiscoveryFails \/ LaunchScans \/ \E n \in 1 .. MaxOpens : LaunchFails(n))
    <3>1. Connected'
      BY <1>2, <2>1, <2>3, StartKeeps, ApplyKeeps, TestKeeps, ResetKeeps, MoveKeeps DEF WizardNext
    <3> QED
      BY <2>1, <3>1 DEF WizardInv
  <2> QED
    BY <2>2, <2>3
<1> QED
  BY <1>1, <1>2

\* Whatever is selected, applied, tested, skipped and gone back from, in any order, the
\* launch step holds accounts of the selection whose last test was a success.
THEOREM LaunchIsConnected == WizardSpec => []LaunchOnlyConnected
<1>1. WizardInit => WizardInv
  BY InitWizardTypes, InitConnected DEF WizardInv
<1>2. WizardInv => LaunchOnlyConnected
  BY DEF WizardInv, Connected
<1> QED
  BY <1>1, <1>2, StepWizardInv, PTL DEF WizardSpec

-----------------------------------------------------------------------------
(* The pool of workers, and what WizardUnlocks rests on.                    *)

\* No account is tested twice at a time, at most PoolSize are, and while any waits every
\* worker is busy; nothing is tested while a selection is applied.
PoolBusy ==
  /\ inTest \cap toTest = {}
  /\ Cardinality(inTest) <= PoolSize
  /\ toTest # {} => Cardinality(inTest) = PoolSize
  /\ applying # "no" => inTest = {} /\ toTest = {}

\* As long as the step stays locked, applying goes forward and a round of tests shrinks,
\* one account at a time.
LockShrinks ==
  Locked /\ Locked' =>
    \/ UNCHANGED <<applying, inTest, toTest>>
    \/ applying = "apply" /\ applying' \in {"mapping", "stuck"} /\ UNCHANGED testPool
    \/ applying = "mapping" /\ applying' = "stuck" /\ UNCHANGED testPool
    \/ applying = "mapping" /\ applying' = "no" /\ inTest' \cup toTest' = created
    \/ /\ applying = "no" /\ applying' = "no"
       /\ \E a \in inTest : inTest' \cup toTest' = (inTest \cup toTest) \ {a}

LEMMA Counts ==
  ASSUME NEW S \in SUBSET Accounts
  PROVE  IsFiniteSet(S) /\ Cardinality(S) \in Nat
  BY WizardAssumption, FS_Subset, FS_CardinalityType

LEMMA NobodyTested == PoolSize \in Nat /\ PoolSize > 0 /\ Cardinality({}) = 0
  BY WizardAssumption, FS_EmptySet

LEMMA PoolEmpty ==
  ASSUME inTest' = {}, toTest' = {}
  PROVE  PoolBusy'
  BY NobodyTested DEF PoolBusy

LEMMA PoolFilled ==
  ASSUME NEW ids \in SUBSET Accounts, TestAllConnections(ids), applying' = "no"
  PROVE  PoolBusy' /\ inTest' \cup toTest' = ids
<1>1. PICK first \in SUBSET ids :
        /\ Cardinality(first) = IF Cardinality(ids) < PoolSize THEN Cardinality(ids) ELSE PoolSize
        /\ inTest' = first /\ toTest' = ids \ first
  BY DEF TestAllConnections
<1>2. Cardinality(ids) \in Nat /\ IsFiniteSet(ids) /\ PoolSize \in Nat
  BY Counts, NobodyTested
<1>3. Cardinality(first) = Cardinality(ids) => first = ids
  BY <1>2, FS_Subset
<1>4. Cardinality(first) <= PoolSize /\ (ids \ first # {} => Cardinality(first) = PoolSize)
  BY <1>1, <1>2, <1>3
<1> QED
  BY <1>1, <1>4 DEF PoolBusy

\* The worker whose test ended takes an account that waits, if there is one.
LEMMA PoolRefilled ==
  ASSUME WizardTypes, PoolBusy,
         NEW a \in Accounts, NEW v \in {"success", "error"}, TestConnectionReturns(a, v)
  PROVE  /\ PoolBusy' /\ applying = "no" /\ applying' = "no"
         /\ \/ inTest' = {} /\ toTest' = {}
            \/ inTest' \cup toTest' = (inTest \cup toTest) \ {a}
<1>1. a \in inTest /\ applying = "no" /\ inTest \cap toTest = {}
      /\ inTest \in SUBSET Accounts /\ toTest \in SUBSET Accounts
  BY TestEffect DEF PoolBusy, WizardTypes, WizardData
<1>2. /\ Cardinality(inTest) \in Nat /\ PoolSize \in Nat /\ IsFiniteSet(inTest)
      /\ Cardinality(inTest) <= PoolSize /\ (toTest # {} => Cardinality(inTest) = PoolSize)
  BY <1>1, Counts, NobodyTested DEF PoolBusy
<1>3. IsFiniteSet(inTest \ {a}) /\ Cardinality(inTest \ {a}) = Cardinality(inTest) - 1
  BY <1>1, <1>2, FS_RemoveElement
<1>4. CASE FreshSelectionFlow
  BY <1>1, <1>4, FreshTypes, PoolEmpty
<1>5. CASE inTest' = inTest \ {a} /\ toTest = {} /\ toTest' = {} /\ applying' = applying
  BY <1>1, <1>2, <1>3, <1>5 DEF PoolBusy
<1>6. ASSUME NEW b \in toTest, inTest' = (inTest \ {a}) \cup {b}, toTest' = toTest \ {b},
             applying' = applying
      PROVE  PoolBusy' /\ inTest' \cup toTest' = (inTest \cup toTest) \ {a}
  <2>1. Cardinality(inTest') = Cardinality(inTest)
    <3>1. b \notin inTest \ {a}
      BY <1>1
    <3>2. Cardinality((inTest \ {a}) \cup {b}) = Cardinality(inTest \ {a}) + 1
      BY <1>3, <3>1, FS_AddElement
    <3> QED
      BY <1>2, <1>3, <1>6, <3>2
  <2> QED
    BY <1>1, <1>2, <1>6, <2>1 DEF PoolBusy
<1>7. \/ FreshSelectionFlow
      \/ inTest' = inTest \ {a} /\ toTest = {} /\ toTest' = {} /\ applying' = applying
      \/ \E b \in toTest : inTest' = (inTest \ {a}) \cup {b} /\ toTest' = toTest \ {b}
                           /\ applying' = applying
  BY TestEffect
<1> QED
  BY <1>1, <1>4, <1>5, <1>6, <1>7, FreshTypes

LEMMA PoolStep ==
  ASSUME WizardTypes, PoolBusy, [WizardNext]_wizardVars
  PROVE  PoolBusy' /\ LockShrinks
<1>1. CASE TestReturns
  <2>1. PICK a \in Accounts, v \in {"success", "error"} : TestConnectionReturns(a, v)
    BY <1>1 DEF TestReturns
  <2>2. a \in inTest
    BY <2>1, TestEffect
  <2> QED
    BY <2>1, <2>2, PoolRefilled DEF LockShrinks, Locked
<1>2. CASE MappingDone
  <2>1. TestAllConnections(created) /\ created \in SUBSET Accounts
        /\ applying = "mapping" /\ applying' = "no"
    BY <1>2 DEF MappingDone, WizardTypes, WizardData
  <2> QED
    BY <2>1, PoolFilled DEF LockShrinks
<1>3. CASE ApplyAnswered \/ ApplyRejected
  <2>1. /\ UNCHANGED testPool /\ applying # "no"
        /\ \/ applying = "apply" /\ applying' \in {"mapping", "stuck", "no"}
           \/ applying = "mapping" /\ applying' = "stuck"
    BY <1>3 DEF ApplyAnswered, ApplyRejected
  <2>2. inTest = {} /\ toTest = {} /\ inTest' = {} /\ toTest' = {}
    BY <2>1 DEF PoolBusy, testPool
  <2> QED
    BY <2>1, <2>2, PoolEmpty DEF LockShrinks, Locked
<1>4. CASE HandleStartTesting
  <2>1. ~Locked /\ applying = "no"
    BY <1>4 DEF HandleStartTesting, Locked
  <2>2. CASE UNCHANGED testPool /\ applying' = "apply"
    <3>1. inTest = {} /\ toTest = {}
      BY <2>1, NobodyTested DEF PoolBusy, Locked
    <3> QED
      BY <2>1, <2>2, <3>1, PoolEmpty DEF LockShrinks, testPool
  <2>3. ASSUME NEW ids \in SUBSET Accounts, TestAllConnections(ids), applying' = applying
        PROVE  PoolBusy' /\ LockShrinks
    BY <2>1, <2>3, PoolFilled DEF LockShrinks
  <2>4. \/ UNCHANGED testPool /\ applying' = "apply"
        \/ \E ids \in SUBSET Accounts : TestAllConnections(ids) /\ applying' = applying
    <3>1. {a \in created : results[a] = "error"} \in SUBSET Accounts /\ created \in SUBSET Accounts
      BY DEF WizardTypes, WizardData
    <3> QED
      BY <1>4, <3>1 DEF HandleStartTesting
  <2> QED
    BY <2>2, <2>3, <2>4
<1>5. CASE \/ OpenWizard \/ CloseWizard \/ SkipValidation \/ BackToSelection
           \/ \E n \in 1 .. MaxOpens : LaunchDone(n)
           \/ \E found \in (SUBSET Accounts) \ {{}} : Discovered(found)
  <2>1. FreshSelectionFlow
    BY <1>5 DEF OpenWizard, CloseWizard, SkipValidation, BackToSelection, LaunchDone, Discovered,
                HandleClose
  <2> QED
    BY <2>1, FreshTypes, PoolEmpty DEF LockShrinks, Locked
<1>6. CASE Back
  <2>1. FreshSelectionFlow \/ UNCHANGED <<applying, testPool>>
    BY <1>6 DEF Back
  <2>2. CASE FreshSelectionFlow
    BY <2>2, FreshTypes, PoolEmpty DEF LockShrinks, Locked
  <2> QED
    BY <2>1, <2>2 DEF PoolBusy, LockShrinks, testPool
<1>7. CASE \/ SubmitOrganizationSetup \/ DiscoveryFails \/ LaunchScans
           \/ \E n \in 1 .. MaxOpens : LaunchFails(n)
           \/ \E chosen \in SUBSET Accounts : HandleTreeSelectionChange(chosen)
           \/ UNCHANGED wizardVars
  <2>1. UNCHANGED <<applying, inTest, toTest>>
    BY <1>7 DEF SubmitOrganizationSetup, DiscoveryFails, LaunchScans, LaunchFails,
                HandleTreeSelectionChange, selectionFlow, testPool, wizardVars
  <2> QED
    BY <2>1 DEF PoolBusy, LockShrinks
<1> QED
  BY <1>1, <1>2, <1>3, <1>4, <1>5, <1>6, <1>7 DEF WizardNext, ApplyReturns

\* The safety part of WizardUnlocks: while the step is locked, whichever order the
\* workers finish in, the application goes forward or the round shrinks by the account
\* that finished, and as long as accounts wait all the workers are at it; nothing can
\* add accounts to a round or apply again under it.
THEOREM LockedStepShrinks == WizardSpec => []PoolBusy /\ [][LockShrinks]_wizardVars
<1> DEFINE Inv == WizardTypes /\ PoolBusy
<1>1. WizardInit => Inv
  <2>1. WizardInit => PoolBusy
    BY NobodyTested DEF WizardInit, PoolBusy
  <2> QED
    BY <2>1, InitWizardTypes
<1>2. Inv /\ [WizardNext]_wizardVars => Inv'
  BY StepWizardTypes, PoolStep
<1>3. Inv /\ [WizardNext]_wizardVars => [LockShrinks]_wizardVars
  BY PoolStep
<1>4. Inv => PoolBusy
  OBVIOUS
<1> HIDE DEF Inv, LockShrinks
<1> QED
  BY <1>1, <1>2, <1>3, <1>4, PTL DEF WizardSpec
=============================================================================
