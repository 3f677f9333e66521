------------------------------- MODULE People --------------------------------
(***************************************************************************)
(* The people of the workspace: invitations, the ordered roles of a        *)
(* person, disabling and enabling, and the deletion of one's own account;  *)
(* and the page on which an administrator, the viewer, does most of that   *)
(* beside the other administrators.                                        *)
(*                                                                         *)
(* Source: resources/js/pages/users/index.tsx and users/create.tsx,        *)
(* auth/accept-invitation.tsx, roles/index.tsx, components/delete-user.tsx,*)
(* UserRoleController, AssignUserRoleRequest, UserInvitationController,    *)
(* ProfileController and RoleController::destroy.                          *)
(*                                                                         *)
(* A request is admitted by the checks at its beginning and written        *)
(* afterwards (see Serving).  Left out: names and addresses, the search in *)
(* the list of roles, the expiry of an invitation, and the row lock of the *)
(* deletion of an account, which only keeps others from being written in   *)
(* between.                                                                *)
(***************************************************************************)
EXTENDS Naturals, Sequences, FiniteSets, Functions, Serving

CONSTANTS
    Persons,       \* everyone who is ever invited
    Viewer,        \* the administrator whose page is modelled
    Roles,         \* the roles
    AdminRole,     \* the one with is_admin
    MaxChanges     \* bound on the changes to accounts and roles

ASSUME PeopleAssumption ==
    /\ Viewer \in Persons /\ AdminRole \in Roles
    /\ IsFiniteSet(Roles) /\ MaxChanges \in Nat

VARIABLES
    person,        \* the accounts
    roleRows,      \* the roles that exist
    listed,        \* the page: the accounts and roles it was rendered with
    dialog,        \* the page: the role dialog of each person
    serving,       \* requests that were admitted and not written yet
    changes        \* counter, for the bound

peopleVars == <<person, roleRows, listed, dialog, serving, changes>>

\* The roles of a person, in order of precedence.
Orders == {s \in UNION {[1..n -> Roles] : n \in 0..Cardinality(Roles)} : IsInjective(s)}

Person == [exists : BOOLEAN, accepted : BOOLEAN, disabled : BOOLEAN, roles : Orders]

\* The operations on the page of the people; "leave" is the deletion of one's own account.
PageOps == {"assign", "disable", "enable"}

\* order is the roles that are assigned, or the role that is deleted; shown, the roles the
\* person had on the page when the request was sent.
Assignment == [op : PageOps \cup {"leave", "delete_role"}, actor : Persons, target : Persons,
               order : Orders, shown : Orders]

\* An order without a role; a role is in it once.
Without(order, x) ==
    IF x \in Range(order)
    THEN LET i == CHOOSE j \in DOMAIN order : order[j] = x
         IN SubSeq(order, 1, i - 1) \o SubSeq(order, i + 1, Len(order))
    ELSE order

Absent == [exists |-> FALSE, accepted |-> FALSE, disabled |-> FALSE, roles |-> <<>>]

PeopleTypeOK ==
    /\ person \in [Persons -> Person]
    /\ AdminRole \in roleRows /\ roleRows \subseteq Roles
    /\ \A p \in Persons : Range(person[p].roles) \subseteq roleRows
    /\ listed \in [people : [Persons -> Person], roles : SUBSET Roles]
    /\ dialog \in [Persons -> [open : BOOLEAN, order : Orders]]
    /\ serving \subseteq Assignment
    /\ changes \in 0..MaxChanges

-----------------------------------------------------------------------------
(* Administrators                                                          *)

IsAdmin(p) == AdminRole \in Range(person[p].roles)

\* EnsureUserIsEnabled and the checks for an administrator.
MayAct(p) == person[p].exists /\ person[p].accepted /\ ~person[p].disabled /\ IsAdmin(p)

\* anotherActiveAdministratorExists().
AnotherAdministrator(p) ==
    \E q \in Persons \ {p} : person[q].exists /\ ~person[q].disabled /\ IsAdmin(q)

\* A worker takes up a change, within the bound.
Spend ==
    /\ WorkerFree(serving)
    /\ changes < MaxChanges /\ changes' = changes + 1

-----------------------------------------------------------------------------
(* The page                                                                *)

ResetDialog(p, people) == [open |-> FALSE, order |-> people[p].roles]

\* The page is rendered with new properties.  The form of a person who appears, or who
\* moves between the active and the disabled, starts anew; every other keeps its state.
Rendered(people, rows) ==
    /\ listed' = [people |-> people, roles |-> rows]
    /\ dialog' = [p \in Persons |->
         IF listed.people[p].exists = people[p].exists
            /\ listed.people[p].disabled = people[p].disabled
         THEN dialog[p] ELSE ResetDialog(p, people)]

\* index(): the page is opened.
OpenPeople ==
    /\ MayAct(Viewer) /\ \A r \in serving : r.actor # Viewer
    /\ listed' = [people |-> person, roles |-> roleRows]
    /\ dialog' = [p \in Persons |-> ResetDialog(p, person)]
    /\ UNCHANGED <<person, roleRows, serving, changes>>

\* The row of a person has a form; that of the viewer is protected.
HasForm(p) == p # Viewer /\ listed.people[p].exists

\* The dialog opens, with the state it has kept, or is closed and reset.
ToggleDialog(p) ==
    /\ HasForm(p)
    /\ \A q \in Persons : dialog[q].open => q = p
    /\ dialog' = [dialog EXCEPT ![p] = IF @.open THEN ResetDialog(p, listed.people)
                                                 ELSE [@ EXCEPT !.open = TRUE]]
    /\ UNCHANGED <<person, roleRows, listed, serving, changes>>

\* selectedRoles: those of the form that the page has a role for.
SelectedRoles(p) == SelectSeq(dialog[p].order, LAMBDA x : x \in listed.roles)

\* addRole: at the bottom of the list.
AddRole(p, x) ==
    /\ dialog[p].open /\ x \in listed.roles \ Range(dialog[p].order)
    /\ dialog' = [dialog EXCEPT ![p].order = Append(@, x)]
    /\ UNCHANGED <<person, roleRows, listed, serving, changes>>

\* removeRole.
RemoveRole(p, x) ==
    /\ dialog[p].open /\ x \in Range(dialog[p].order)
    /\ dialog' = [dialog EXCEPT ![p].order = Without(@, x)]
    /\ UNCHANGED <<person, roleRows, listed, serving, changes>>

\* moveRole, up; down is the same move of the next role.  The buttons count the roles on
\* display.
MoveRole(p, i) ==
    /\ dialog[p].open
    /\ i \in 2..Cardinality({j \in DOMAIN dialog[p].order : dialog[p].order[j] \in listed.roles})
    /\ dialog' = [dialog EXCEPT ![p].order = [@ EXCEPT ![i - 1] = dialog[p].order[i],
                                                       ![i] = dialog[p].order[i - 1]]]
    /\ UNCHANGED <<person, roleRows, listed, serving, changes>>

-----------------------------------------------------------------------------
(* Requests                                                                *)

\* The checks on the sender, the target and the roles.
Permitted(r) ==
    /\ person[r.actor].exists /\ person[r.actor].accepted /\ ~person[r.actor].disabled
    /\ r.op # "leave" => IsAdmin(r.actor)
    /\ CASE r.op = "assign" -> person[r.target].exists /\ Range(r.order) \subseteq roleRows
         [] r.op = "disable" -> person[r.target].exists /\ ~person[r.target].disabled
         [] r.op = "enable" -> person[r.target].exists /\ person[r.target].disabled
         [] r.op = "leave" -> IsAdmin(r.actor) => AnotherAdministrator(r.actor)
         [] OTHER -> \A p \in Persons : Range(r.order) \cap Range(person[p].roles) = {}

\* Variant: an administrator may disable or demote themselves.
AdmittedForAll(r) == Permitted(r)

\* update(), disable() and enable(), destroy() of the profile and destroy() of a role
\* before they write.
Admitted(r) ==
    /\ Permitted(r)
    /\ r.op \in {"assign", "disable"} => r.target # r.actor

\* Two deletions of accounts exclude each other with a cache lock.
TakesLock(r) == r.op = "leave" => \A s \in serving : s.op # "leave"

\* The deletion of an account names its owner.
DeletesAccount(r) == r.op = "leave" /\ r.target = r.actor /\ r.order = <<>>

\* The deletion of a role names one other than the administrators'.
DeletesRole(r) ==
    /\ r.op = "delete_role" /\ r.target = r.actor
    /\ \E x \in roleRows \ {AdminRole} : r.order = <<x>>

\* A request comes in.  The viewer's come from the forms of the page, one at a time; what
\* the server refuses renders the page again.
RequestComesIn(r) ==
    /\ r.op \notin PageOps => DeletesAccount(r) \/ DeletesRole(r)
    /\ r.op \in {"disable", "enable"} => r.order = <<>>
    /\ r.actor = Viewer /\ r.op \in PageOps =>
         /\ HasForm(r.target)
         /\ \A s \in serving : s.actor = Viewer => s.op \notin PageOps
         /\ r.shown = listed.people[r.target].roles
         /\ CASE r.op = "assign" ->
                   /\ dialog[r.target].open
                   /\ r.order = SelectedRoles(r.target)
              [] r.op = "disable" -> ~listed.people[r.target].disabled
              [] OTHER -> listed.people[r.target].disabled
    /\ r.actor # Viewer \/ r.op \notin PageOps => r.shown = <<>>
    /\ \/ /\ Admitted(r) /\ TakesLock(r)
          /\ Spend /\ serving' = serving \cup {r}
          /\ UNCHANGED <<listed, dialog>>
       \/ /\ ~Admitted(r) /\ r.actor = Viewer /\ r.op \in PageOps /\ MayAct(Viewer)
          /\ Rendered(person, roleRows)
          /\ UNCHANGED <<serving, changes>>
    /\ UNCHANGED <<person, roleRows>>

\* What a request leaves of the account; the roles are written in one transaction,
\* which fails when one of them is gone.
After(r) ==
    CASE r.op = "assign" -> IF Range(r.order) \subseteq roleRows
                            THEN [person[r.target] EXCEPT !.roles = r.order]
                            ELSE person[r.target]
      [] r.op = "disable" -> [person[r.target] EXCEPT !.disabled = TRUE]
      [] r.op = "enable" -> [person[r.target] EXCEPT !.disabled = FALSE]
      [] OTHER -> Absent

\* The accounts once a request is written: who has a role that is deleted loses it.
PersonAfter(r) ==
    IF r.op = "delete_role"
    THEN [p \in Persons |-> [person[p] EXCEPT !.roles = Without(@, r.order[1])]]
    ELSE IF person[r.target].exists THEN [person EXCEPT ![r.target] = After(r)] ELSE person

\* The request is written and answered.  The dialog of the roles is then closed by the
\* callback of the rendering that sent the form: it resets the form to the roles of
\* that rendering.
RequestWritten(r) ==
    /\ r \in serving
    /\ serving' = serving \ {r}
    /\ person' = PersonAfter(r)
    /\ roleRows' = IF r.op = "delete_role" THEN roleRows \ Range(r.order) ELSE roleRows
    /\ IF r.actor # Viewer \/ r.op \notin PageOps THEN UNCHANGED <<listed, dialog>>
       ELSE IF r.op # "assign" THEN Rendered(person', roleRows)
       ELSE /\ listed' = [people |-> person', roles |-> roleRows]
            /\ dialog' = [dialog EXCEPT ![r.target] = [open |-> FALSE, order |-> r.shown]]
    /\ UNCHANGED changes

\* store(): someone is invited, without roles.
Invite(p) ==
    /\ Spend
    /\ \E a \in Persons : MayAct(a)
    /\ ~person[p].exists
    /\ person' = [person EXCEPT ![p] = [Absent EXCEPT !.exists = TRUE]]
    /\ UNCHANGED <<roleRows, listed, dialog, serving>>

\* accept(), or acceptance with a provider.
AcceptInvitation(p) ==
    /\ person[p].exists /\ ~person[p].accepted
    /\ person' = [person EXCEPT ![p].accepted = TRUE]
    /\ UNCHANGED <<roleRows, listed, dialog, serving, changes>>

-----------------------------------------------------------------------------
\* After the setup: its owner is the only person.
PeopleInit ==
    /\ person = [p \in Persons |-> IF p = Viewer
                   THEN [exists |-> TRUE, accepted |-> TRUE, disabled |-> FALSE,
                         roles |-> <<AdminRole>>]
                   ELSE Absent]
    /\ roleRows = Roles /\ serving = {} /\ changes = 0
    /\ listed = [people |-> person, roles |-> roleRows]
    /\ dialog = [p \in Persons |-> [open |-> FALSE, order |-> person[p].roles]]

PeopleNext ==
    \/ OpenPeople
    \/ \E p \in Persons :
         \/ ToggleDialog(p) \/ Invite(p) \/ AcceptInvitation(p)
         \/ \E x \in Roles : AddRole(p, x) \/ RemoveRole(p, x)
         \/ \E i \in 1..Cardinality(Roles) : MoveRole(p, i)
    \/ \E r \in Assignment : RequestComesIn(r)
    \/ \E r \in serving : RequestWritten(r)

-----------------------------------------------------------------------------
(* Properties                                                              *)

\* Somebody administers the workspace.
Administered == \E p \in Persons : person[p].exists /\ ~person[p].disabled /\ IsAdmin(p)

\* Whoever disables, demotes and deletes whom, the last administrator who is not disabled
\* is lost in one way only: disable(), update() and the deletion of an account check and
\* write without a common lock, and the request that is written then would be refused if
\* it were judged now - the sender is no longer an administrator, or the other one is gone
\* (UserRoleController::update and disable, ProfileController::destroy).  No sequence of
\* requests that are each judged when they are written loses the last one: their checks
\* differ and none looks at the others, but nobody takes the role from themselves.
LastAdministratorStays ==
    [][Administered /\ ~Administered' => \E r \in serving \ serving' : ~Admitted(r)]_peopleVars

=============================================================================
