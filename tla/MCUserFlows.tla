----------------------------- MODULE MCUserFlows -----------------------------
(* The background tasks, the Attack Paths page and the organization wizard   *)
(* for TLC.  They share no state: a behaviour is that of a user who stays in *)
(* one of them, chosen at the start.                                         *)
EXTENDS TaskWatcher, AttackPathsPage, OrgWizard

VARIABLE view  \* the part of the UI the behaviour is about

uiVars == <<watcherVars, pageVars, wizardVars, view>>

UserFlowsTypeOK == WatcherTypeOK /\ PageTypeOK /\ WizardTypeOK

UIInit ==
  /\ view \in {"tasks", "graph", "wizard"}
  /\ WatcherInit /\ PageInit /\ WizardInit

UseTasks ==
  /\ view = "tasks" /\ WatcherNext
  /\ UNCHANGED <<view, pageVars, wizardVars>>

UseGraph ==
  /\ view = "graph" /\ PageNext
  /\ UNCHANGED <<view, watcherVars, wizardVars>>

UseWizard ==
  /\ view = "wizard" /\ WizardNext
  /\ UNCHANGED <<view, watcherVars, pageVars>>

UINext == UseTasks \/ UseGraph \/ UseWizard

UISpec ==
  /\ UIInit /\ [][UINext]_uiVars
  /\ WatcherFairness /\ PageFairness /\ WizardFairness
=============================================================================
