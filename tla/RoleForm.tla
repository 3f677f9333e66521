------------------------------- MODULE RoleForm -------------------------------
(***************************************************************************)
(* The form of an access role: the policies of connection groups and the   *)
(* exceptions for individual connections, edited together and stored as a  *)
(* whole.                                                                  *)
(*                                                                         *)
(* Source: resources/js/pages/roles/form.tsx, the two "add" comboboxes of  *)
(* components/crucible/connection-combobox.tsx, StoreRoleRequest and       *)
(* RoleController.  A policy is a partial function from the groups or      *)
(* connections of the form; a limit in minutes is none, one within the     *)
(* bounds, or one outside them.                                            *)
(***************************************************************************)
EXTENDS AccessWorkflows, Catalog, Functions

CONSTANTS
    StartPolicies, \* policies the role may have at the start
    MaxEdits       \* bound on the changes made in the form

VARIABLES
    storedGroups,        \* the role's stored group policies
    storedExceptions,    \* the role's stored connection policies
    groupPolicies,       \* the form's drafts
    policies,
    exceptionsOpen,      \* isConnectionExceptionsOpen
    shown,               \* access_features: the workflows the form shows
    editing,             \* the form is on display
    roleEdits            \* the number of changes so far

roleVars == <<storedGroups, storedExceptions, groupPolicies, policies, exceptionsOpen,
              shown, editing, roleEdits>>

Modes == {"none", "read", "write"}

Policy == [access : Modes, query : Modes, native : Modes, review : BOOLEAN,
           readApproval : BOOLEAN, writeApproval : BOOLEAN, limit : {"none", "ok", "out"}]

ASSUME RoleAssumption ==
    /\ StartPolicies \subseteq Policy
    /\ MaxEdits \in Nat

Drafts(S) == UNION {[T -> Policy] : T \in SUBSET S}

NoDrafts == [t \in {} |-> CHOOSE p \in Policy : TRUE]

RoleTypeOK ==
    /\ storedGroups \in Drafts(Groups) /\ groupPolicies \in Drafts(Groups)
    /\ storedExceptions \in Drafts(Connections) /\ policies \in Drafts(Connections)
    /\ exceptionsOpen \in BOOLEAN /\ editing \in BOOLEAN
    /\ shown \subseteq Workflows
    /\ roleEdits \in 0..MaxEdits

-----------------------------------------------------------------------------
(* What can be chosen in a row                                             *)

\* accessModeRank.
Rank(mode) == CASE mode = "none" -> 0 [] mode = "read" -> 1 [] mode = "write" -> 2

\* capWorkflowAccessMode.
Cap(mode, maximum) == IF Rank(mode) > Rank(maximum) THEN maximum ELSE mode

\* The options of WorkflowAccessModeField.
WorkflowOptions(access) == {m \in Modes : Rank(m) <= Rank(access)}

\* Add a row.
NewPolicy == [access |-> "read", query |-> "none", native |-> "none", review |-> FALSE,
              readApproval |-> FALSE, writeApproval |-> FALSE, limit |-> "none"]

\* The maximum access of a row is changed.
WithAccess(p, mode) ==
    [p EXCEPT !.access = mode,
              !.query = Cap(@, mode), !.native = Cap(@, mode),
              !.writeApproval = (mode = "write"),
              !.limit = IF mode = "write" THEN @ ELSE "none"]

\* A workflow mode of a row is changed; the field of a disabled workflow is not shown.
WorkflowEdits(p) ==
    {[p EXCEPT !.query = m] : m \in IF "query" \in shown THEN WorkflowOptions(p.access) ELSE {}}
    \cup {[p EXCEPT !.native = m] : m \in IF "native" \in shown THEN WorkflowOptions(p.access) ELSE {}}

\* A check box of a row is changed; write approval is disabled below write access.
ApprovalEdits(p) ==
    {[p EXCEPT !.review = ~@], [p EXCEPT !.readApproval = ~@]}
    \cup IF p.access = "write" THEN {[p EXCEPT !.writeApproval = ~@]} ELSE {}

\* The write-session limit of a row is typed; the field is disabled below write access.
LimitEdits(p) ==
    {[p EXCEPT !.limit = l] : l \in IF p.access = "write" THEN {"none", "ok", "out"} ELSE {}}

-----------------------------------------------------------------------------
(* The group policies                                                      *)

\* A change is made in the form.
Editing ==
    /\ editing /\ roleEdits < MaxEdits
    /\ roleEdits' = roleEdits + 1
    /\ UNCHANGED <<storedGroups, storedExceptions, shown, editing, workflowVars>>

\* addGroupPolicy, from the combobox, which does not offer a group that has a row.
AddGroupPolicy(g) ==
    /\ Editing
    /\ g \notin DOMAIN groupPolicies
    /\ groupPolicies' = [h \in DOMAIN groupPolicies \cup {g} |->
                            IF h = g THEN NewPolicy ELSE groupPolicies[h]]
    /\ UNCHANGED <<policies, exceptionsOpen>>

UpdateGroupPolicy(g, p) ==
    /\ Editing
    /\ groupPolicies' = [groupPolicies EXCEPT ![g] = p]
    /\ UNCHANGED <<policies, exceptionsOpen>>

RemoveGroupPolicy(g) ==
    /\ Editing
    /\ groupPolicies' = Restrict(groupPolicies, DOMAIN groupPolicies \ {g})
    /\ UNCHANGED <<policies, exceptionsOpen>>

\* The fields of a group's row.
GroupAccess(g) == \E m \in Modes : UpdateGroupPolicy(g, WithAccess(groupPolicies[g], m))

GroupWorkflows(g) == \E p \in WorkflowEdits(groupPolicies[g]) : UpdateGroupPolicy(g, p)

GroupApprovals(g) == \E p \in ApprovalEdits(groupPolicies[g]) : UpdateGroupPolicy(g, p)

GroupLimit(g) == \E p \in LimitEdits(groupPolicies[g]) : UpdateGroupPolicy(g, p)

-----------------------------------------------------------------------------
(* The exceptions, in a section that can be closed                         *)

ToggleExceptions ==
    /\ Editing
    /\ exceptionsOpen' = ~exceptionsOpen
    /\ UNCHANGED <<groupPolicies, policies>>

\* addPolicy, from the combobox of the open section.
AddPolicy(c) ==
    /\ Editing
    /\ exceptionsOpen /\ c \notin DOMAIN policies
    /\ policies' = [d \in DOMAIN policies \cup {c} |-> IF d = c THEN NewPolicy ELSE policies[d]]
    /\ UNCHANGED <<groupPolicies, exceptionsOpen>>

UpdatePolicy(c, p) ==
    /\ Editing
    /\ exceptionsOpen
    /\ policies' = [policies EXCEPT ![c] = p]
    /\ UNCHANGED <<groupPolicies, exceptionsOpen>>

RemovePolicy(c) ==
    /\ Editing
    /\ exceptionsOpen
    /\ policies' = Restrict(policies, DOMAIN policies \ {c})
    /\ UNCHANGED <<groupPolicies, exceptionsOpen>>

\* The fields of an exception's row.
ExceptionAccess(c) == \E m \in Modes : UpdatePolicy(c, WithAccess(policies[c], m))

ExceptionWorkflows(c) == \E p \in WorkflowEdits(policies[c]) : UpdatePolicy(c, p)

ExceptionApprovals(c) == \E p \in ApprovalEdits(policies[c]) : UpdatePolicy(c, p)

ExceptionLimit(c) == \E p \in LimitEdits(policies[c]) : UpdatePolicy(c, p)

\* The rows whose fields are in the document: a closed section has none.
ExceptionRows == IF exceptionsOpen THEN policies ELSE NoDrafts

-----------------------------------------------------------------------------
(* Saving                                                                  *)

\* Variant: a workflow that is not shown is not sent, and the server takes "none" for it.
SentWithoutHidden(p) ==
    LET Sent(w, m) == IF w \in shown /\ m \in WorkflowOptions(p.access) THEN m ELSE "none"
    IN [p EXCEPT !.query = Sent("query", p.query), !.native = Sent("native", p.native),
                 !.writeApproval = @ /\ p.access = "write",
                 !.limit = IF p.access = "write" THEN @ ELSE "none"]

\* What the browser sends of a row.  The mode of a workflow that is not shown is a hidden
\* field; a select whose value is none of its options shows and sends the first one; a
\* disabled field is not sent.
Sent(p) ==
    LET Mode(w, m) == IF w \in shown /\ m \notin WorkflowOptions(p.access) THEN "none" ELSE m
    IN [p EXCEPT !.query = Mode("query", p.query), !.native = Mode("native", p.native),
                 !.writeApproval = @ /\ p.access = "write",
                 !.limit = IF p.access = "write" THEN @ ELSE "none"]

\* workflowAccessModeFor.
ServerMode(access, m) ==
    CASE access = "none" -> "none"
      [] access = "read" -> IF m = "none" THEN "none" ELSE "read"
      [] access = "write" -> m

\* policyAttributes and groupPolicyAttributes.
Attributes(p) == [p EXCEPT !.query = ServerMode(p.access, @), !.native = ServerMode(p.access, @)]

\* hasRuntimeEffect.
HasEffect(p) == p.access # "none" \/ p.review

\* syncDatabasePolicies and syncConnectionGroupPolicies: what is not sent is deleted, and so
\* is a row without an effect.
Synced(rows) ==
    LET sent == [r \in DOMAIN rows |-> Attributes(Sent(rows[r]))]
    IN Restrict(sent, {r \in DOMAIN sent : HasEffect(sent[r])})

\* A limit outside the bounds refuses the request.
PassesValidation(rows) == \A r \in DOMAIN rows : Sent(rows[r]).limit # "out"

\* store() and update(); the answer leads to the list of roles.
SaveRole ==
    /\ editing
    /\ PassesValidation(groupPolicies) /\ PassesValidation(ExceptionRows)
    /\ storedGroups' = Synced(groupPolicies)
    /\ storedExceptions' = Synced(ExceptionRows)
    /\ editing' = FALSE
    /\ UNCHANGED <<groupPolicies, policies, exceptionsOpen, shown, roleEdits, workflowVars>>

\* edit(): the drafts are those of the stored role, the section is open if it has rows.
OpenRole ==
    /\ groupPolicies' = storedGroups /\ policies' = storedExceptions
    /\ exceptionsOpen' = (DOMAIN storedExceptions # {})
    /\ shown' = enabled
    /\ editing' = TRUE
    /\ UNCHANGED <<storedGroups, storedExceptions, roleEdits, workflowVars>>

-----------------------------------------------------------------------------
RoleInit ==
    /\ WorkflowsInit
    /\ storedGroups \in {[g \in S |-> p] : S \in SUBSET Groups, p \in StartPolicies}
    /\ storedExceptions \in {[c \in S |-> p] : S \in SUBSET Connections, p \in StartPolicies}
    /\ groupPolicies = storedGroups /\ policies = storedExceptions
    /\ exceptionsOpen = (DOMAIN storedExceptions # {})
    /\ shown = enabled /\ editing = FALSE /\ roleEdits = 0

RoleNext ==
    \/ WorkflowsNext /\ UNCHANGED roleVars
    \/ OpenRole \/ SaveRole \/ ToggleExceptions
    \/ \E g \in Groups : AddGroupPolicy(g)
    \/ \E g \in DOMAIN groupPolicies :
         \/ GroupAccess(g) \/ GroupWorkflows(g) \/ GroupApprovals(g) \/ GroupLimit(g)
         \/ RemoveGroupPolicy(g)
    \/ \E c \in Connections : AddPolicy(c)
    \/ \E c \in DOMAIN policies :
         \/ ExceptionAccess(c) \/ ExceptionWorkflows(c) \/ ExceptionApprovals(c)
         \/ ExceptionLimit(c) \/ RemovePolicy(c)

-----------------------------------------------------------------------------
(* Properties                                                              *)

\* A save stores every row of the document as the form holds it, or removes the row where
\* it grants nothing.  The form and the server cap the modes each by its own rule, and the
\* mode of a disabled workflow is not shown: neither may change on the way what the
\* administrator left alone, so that the grants of a workflow come back when it is
\* enabled again.
SavedAsShown ==
    [][SaveRole =>
         /\ \A g \in DOMAIN groupPolicies :
              IF g \in DOMAIN storedGroups' THEN storedGroups'[g] = groupPolicies[g]
                                            ELSE ~HasEffect(groupPolicies[g])
         /\ \A c \in DOMAIN ExceptionRows :
              IF c \in DOMAIN storedExceptions' THEN storedExceptions'[c] = policies[c]
                                                ELSE ~HasEffect(policies[c])]_roleVars

=============================================================================
