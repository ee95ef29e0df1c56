-------------------------- MODULE MCFindingsAndChat --------------------------
(* The list of findings, the drawer over it and the Lighthouse chat for TLC.  *)
(* They share no state here (the drawer brings its own rows): a behaviour is  *)
(* that of a user who stays in one of them, chosen at the start.             *)
EXTENDS FindingGroupList, ResourceDrawer, LighthouseChat

VARIABLE view  \* the part of the UI the behaviour is about

MCFindingOrder == <<"f1", "f2">>

uiVars == <<listVars, drawerVars, chatVars, view>>

FindingsAndChatTypeOK == ListTypeOK /\ DrawerTypeOK /\ ChatTypeOK

UIInit ==
  /\ view \in {"findings", "drawer", "chat"}
  /\ ListInit /\ DrawerInit /\ ChatInit
  /\ (view # "drawer" => ~isOpen)
  /\ (view # "chat" => activeSession = 0)

UseFindings ==
  /\ view = "findings" /\ ListNext
  /\ UNCHANGED <<view, drawerVars, chatVars>>

UseDrawer ==
  /\ view = "drawer" /\ DrawerNext
  /\ UNCHANGED <<view, listVars, chatVars>>

UseChat ==
  /\ view = "chat" /\ ChatNext
  /\ UNCHANGED <<view, listVars, drawerVars>>

UINext == UseFindings \/ UseDrawer \/ UseChat

UISpec ==
  /\ UIInit /\ [][UINext]_uiVars
  /\ ListFairness /\ DrawerFairness /\ ChatFairness
=============================================================================
