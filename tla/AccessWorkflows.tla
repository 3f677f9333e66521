--------------------------- MODULE AccessWorkflows ---------------------------
(***************************************************************************)
(* Which of the two time-boxed access workflows the workspace offers, and  *)
(* the page on which an administrator chooses.                             *)
(*                                                                         *)
(* Source: resources/js/pages/settings/admin/access-workflows.tsx and      *)
(* AccessWorkflowSettingsController.  The runtime limit and the username   *)
(* prefix are kept as whether they pass validation.                        *)
(***************************************************************************)
EXTENDS Naturals

VARIABLES
    enabled,         \* the stored settings: the workflows that are on
    workflowDraft,   \* the switches of the page
    draftValid       \* whether the other two fields pass validation

workflowVars == <<enabled, workflowDraft, draftValid>>

Workflows == {"query", "native"}

WorkflowsTypeOK ==
    /\ enabled \subseteq Workflows /\ workflowDraft \subseteq Workflows
    /\ draftValid \in BOOLEAN

\* The page is opened: the switches show the stored settings.
OpenWorkflows ==
    /\ workflowDraft' = enabled /\ draftValid' = TRUE
    /\ UNCHANGED enabled

\* AccessFeatureField: a switch is changed.
ToggleWorkflow(w) ==
    /\ workflowDraft' = IF w \in workflowDraft THEN workflowDraft \ {w} ELSE workflowDraft \cup {w}
    /\ UNCHANGED <<enabled, draftValid>>

\* The runtime limit or the prefix is typed.
TypeSetting(ok) ==
    /\ draftValid' = ok
    /\ UNCHANGED <<enabled, workflowDraft>>

\* The form is sent and stored; a setting out of range refuses all of it.
SaveWorkflows ==
    /\ draftValid
    /\ enabled' = workflowDraft
    /\ UNCHANGED <<workflowDraft, draftValid>>

WorkflowsInit ==
    /\ enabled \in SUBSET Workflows
    /\ workflowDraft = enabled /\ draftValid = TRUE

WorkflowsNext ==
    \/ OpenWorkflows
    \/ \E w \in Workflows : ToggleWorkflow(w)
    \/ \E ok \in BOOLEAN : TypeSetting(ok)
    \/ SaveWorkflows

=============================================================================
