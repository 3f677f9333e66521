------------------------------- MODULE SignIn --------------------------------
(***************************************************************************)
(* How people can sign in: the two core methods and the SSO providers, the *)
(* pages on which an administrator manages them, and a sign-in with a      *)
(* provider.                                                               *)
(*                                                                         *)
(* Source: resources/js/pages/settings/admin/authentication.tsx,           *)
(* settings/authentication-providers/form.tsx and index.tsx,               *)
(* auth/login.tsx, AuthenticationMethodController,                         *)
(* UpdateAuthenticationMethodsRequest, AuthProviderController, its form    *)
(* requests, SsoController, InvitationAcceptance, UserInvitationController *)
(* and ProfileController::destroy.                                         *)
(*                                                                         *)
(* A provider is its kind, whether it is enabled, has an issuer, and whose *)
(* identities are linked to it.  The people are those who sign in beside   *)
(* the administrator of the pages.  Left out: credentials, domains, the    *)
(* expiry of an invitation, and the provider's own answer, which is any    *)
(* person.  destroy() asks for linked identities and deletes afterwards,   *)
(* and callback() asks whether the provider is enabled before it calls it  *)
(* and signs in, both without a lock (see Serving); the forms of the one   *)
(* administrator are read and written in one step.                         *)
(***************************************************************************)
EXTENDS Naturals, FiniteSets, Serving

CONSTANTS
    Invitees,      \* the people who are ever invited
    ProviderIds,   \* bound: the rows of providers that are ever created
    ProviderKinds, \* the provider types
    OidcKind       \* the one that needs an issuer and may be configured repeatedly

ASSUME SignInAssumption == OidcKind \in ProviderKinds /\ ProviderIds # {}

VARIABLES
    methods,       \* the core methods that are enabled
    providers,     \* the providers
    ticked,        \* the page of the methods: the boxes that are ticked
    editor,        \* the form of a provider
    registry,      \* the page of the providers: the providers it shows
    removing,      \* the deletions of providers that were admitted and not written yet
    browser,       \* a browser on its way to a provider and back
    users          \* the accounts of the people

signInVars == <<methods, providers, ticked, editor, registry, removing, browser, users>>

Methods == {"password", "passkey"}

\* A row that was deleted is not used again.
Provider == [row : {"unused", "stored", "deleted"}, kind : ProviderKinds, enabled : BOOLEAN,
             issuer : BOOLEAN, linked : SUBSET Invitees]

NoProvider == [row |-> "unused", kind |-> OidcKind, enabled |-> FALSE, issuer |-> FALSE,
               linked |-> {}]

\* seen: the people whose identities destroy() found linked.
Removal == [id : ProviderIds, seen : SUBSET Invitees]

\* id is the provider being edited, or a free one; loaded is what the form was opened with.
Editor == [open : BOOLEAN, id : ProviderIds, loaded : Provider, kind : ProviderKinds,
           enabled : BOOLEAN, issuer : BOOLEAN]

NoEditor == [open |-> FALSE, id |-> CHOOSE p \in ProviderIds : TRUE, loaded |-> NoProvider,
             kind |-> OidcKind, enabled |-> FALSE, issuer |-> FALSE]

Idle == [state |-> "idle", at |-> {}]

SignInTypeOK ==
    /\ methods \subseteq Methods /\ ticked \subseteq Methods
    /\ providers \in [ProviderIds -> Provider]
    /\ registry \in [ProviderIds -> Provider]
    /\ editor \in Editor /\ removing \subseteq Removal
    /\ browser \in [state : {"idle", "testing", "signing_in", "calling", "signed_in"},
                    at : SUBSET ProviderIds]
    /\ Cardinality(browser.at) <= 1
    /\ users \in [Invitees -> {"absent", "invited", "accepted"}]
    /\ \A p \in ProviderIds : \A u \in providers[p].linked :
         providers[p].row = "stored" /\ users[u] = "accepted"

-----------------------------------------------------------------------------
(* The core methods                                                        *)

EnabledProviders == {p \in ProviderIds : providers[p].row = "stored" /\ providers[p].enabled}

OpenMethods ==
    /\ ticked' = methods
    /\ UNCHANGED <<methods, providers, editor, registry, removing, browser, users>>

TickMethod(m) ==
    /\ ticked' = IF m \in ticked THEN ticked \ {m} ELSE ticked \cup {m}
    /\ UNCHANGED <<methods, providers, editor, registry, removing, browser, users>>

\* update(): refused when it would leave neither a method nor an enabled provider.
SaveMethods ==
    /\ ticked # {} \/ EnabledProviders # {}
    /\ methods' = ticked
    /\ UNCHANGED <<providers, ticked, editor, registry, removing, browser, users>>

-----------------------------------------------------------------------------
(* The providers                                                           *)

OpenRegistry ==
    /\ registry' = providers
    /\ UNCHANGED <<methods, providers, ticked, editor, removing, browser, users>>

\* create() and edit(): the values the form starts with.
OpenEditor(p) ==
    /\ providers[p].row # "deleted"
    /\ editor' = [open |-> TRUE, id |-> p, loaded |-> providers[p],
                  kind |-> providers[p].kind, enabled |-> providers[p].enabled,
                  issuer |-> providers[p].issuer]
    /\ UNCHANGED <<methods, providers, ticked, registry, removing, browser, users>>

\* Another provider type: the field of the issuer comes with its stored value, or goes
\* with what was typed.
SelectKind(k) ==
    /\ editor.open /\ k # editor.kind
    /\ editor' = [editor EXCEPT !.kind = k, !.issuer = k = OidcKind /\ editor.loaded.issuer]
    /\ UNCHANGED <<methods, providers, ticked, registry, removing, browser, users>>

\* An issuer is typed or removed, or the box of the provider ticked.
EditProvider(field) ==
    /\ editor.open
    /\ field = "issuer" => editor.kind = OidcKind
    /\ editor' = [editor EXCEPT ![field] = ~@]
    /\ UNCHANGED <<methods, providers, ticked, registry, removing, browser, users>>

\* providerAttributes() and the rules: one provider of every type but the generic one,
\* which has an issuer.
Acceptable(e) ==
    /\ e.kind = OidcKind => e.issuer
    /\ \A q \in ProviderIds \ {e.id} :
         providers[q].row = "stored" /\ providers[q].kind = e.kind => e.kind = OidcKind

\* store() and update(); the answer is the registry.
SaveProvider ==
    /\ editor.open /\ Acceptable(editor)
    /\ editor.loaded.row = providers[editor.id].row
    /\ providers' = [providers EXCEPT ![editor.id] =
                       [row |-> "stored", kind |-> editor.kind, enabled |-> editor.enabled,
                        issuer |-> editor.kind = OidcKind, linked |-> @.linked]]
    /\ editor' = NoEditor
    /\ registry' = providers'
    /\ UNCHANGED <<methods, ticked, removing, browser, users>>

\* The page offers to delete a provider that it shows as linked to nobody, and a worker
\* finds the row.
DeletionSent(p) ==
    /\ registry[p].row = "stored" /\ registry[p].linked = {}
    /\ providers[p].row = "stored" /\ WorkerFree(removing)

\* Variant: the page alone decides.
DeleteProviderAsShown(p) ==
    /\ DeletionSent(p)
    /\ removing' = removing \cup {[id |-> p, seen |-> providers[p].linked]}
    /\ UNCHANGED <<methods, providers, ticked, editor, registry, browser, users>>

\* destroy(): refused when somebody is linked by now.
DeleteProvider(p) ==
    /\ DeletionSent(p)
    /\ IF providers[p].linked = {}
       THEN /\ removing' = removing \cup {[id |-> p, seen |-> providers[p].linked]}
            /\ UNCHANGED registry
       ELSE registry' = providers /\ UNCHANGED removing
    /\ UNCHANGED <<methods, providers, ticked, editor, browser, users>>

\* The row is deleted; identities that are linked to it by now lose their provider.
ProviderDeleted(r) ==
    /\ r \in removing
    /\ removing' = removing \ {r}
    /\ providers' = [providers EXCEPT ![r.id] = [NoProvider EXCEPT !.row = "deleted"]]
    /\ editor' = NoEditor
    /\ registry' = providers'
    /\ UNCHANGED <<methods, ticked, browser, users>>

-----------------------------------------------------------------------------
(* People and their sign-in with a provider                                *)

InviteUser(u) ==
    /\ users[u] = "absent"
    /\ users' = [users EXCEPT ![u] = "invited"]
    /\ UNCHANGED <<methods, providers, ticked, editor, registry, removing, browser>>

\* accept(): the invitation is accepted with a password.
AcceptWithPassword(u) ==
    /\ users[u] = "invited"
    /\ users' = [users EXCEPT ![u] = "accepted"]
    /\ UNCHANGED <<methods, providers, ticked, editor, registry, removing, browser>>

\* destroy() of the profile: the identities of the person are deleted with the account.
DeleteUser(u) ==
    /\ users[u] = "accepted"
    /\ users' = [users EXCEPT ![u] = "absent"]
    /\ providers' = [p \in ProviderIds |-> [providers[p] EXCEPT !.linked = @ \ {u}]]
    /\ UNCHANGED <<methods, ticked, editor, registry, removing, browser>>

\* redirect() and invitationRedirect() from the pages that show the enabled providers, and
\* testRedirect() of an administrator, for any provider.
GoToProvider(p, test) ==
    /\ browser.state = "idle" /\ providers[p].row = "stored"
    /\ test \/ providers[p].enabled
    /\ browser' = [state |-> IF test THEN "testing" ELSE "signing_in", at |-> {p}]
    /\ UNCHANGED <<methods, providers, ticked, editor, registry, removing, users>>

\* callback(): a test changes nothing; for a sign-in the provider has to be enabled, and
\* is asked who the person is.
ComeBack(p) ==
    /\ p \in browser.at /\ browser.state \in {"testing", "signing_in"}
    /\ browser' = IF browser.state = "signing_in" /\ p \in EnabledProviders
                  THEN [browser EXCEPT !.state = "calling"] ELSE Idle
    /\ UNCHANGED <<methods, providers, ticked, editor, registry, removing, users>>

\* The provider names a person.  A linked identity is signed in, and an invitation is
\* accepted by linking one, in a transaction that fails when the provider is gone; anybody
\* else is refused.
SignedIn(p, u) ==
    /\ p \in browser.at /\ browser.state = "calling"
    /\ IF providers[p].row = "stored" /\ (u \in providers[p].linked \/ users[u] = "invited")
       THEN /\ browser' = [state |-> "signed_in", at |-> {}]
            /\ providers' = [providers EXCEPT ![p].linked = @ \cup {u}]
            /\ users' = [users EXCEPT ![u] = "accepted"]
       ELSE browser' = Idle /\ UNCHANGED <<providers, users>>
    /\ UNCHANGED <<methods, ticked, editor, registry, removing>>

\* The way to the provider is abandoned, or the person signs out.
GoAway ==
    /\ browser.state # "idle"
    /\ browser' = Idle
    /\ UNCHANGED <<methods, providers, ticked, editor, registry, removing, users>>

-----------------------------------------------------------------------------
SignInInit ==
    /\ methods = Methods /\ ticked = Methods
    /\ providers = [p \in ProviderIds |-> NoProvider] /\ registry = providers
    /\ editor = NoEditor /\ removing = {}
    /\ browser = Idle /\ users = [u \in Invitees |-> "absent"]

SignInNext ==
    \/ OpenMethods \/ SaveMethods \/ OpenRegistry \/ SaveProvider \/ GoAway
    \/ \E m \in Methods : TickMethod(m)
    \/ \E k \in ProviderKinds : SelectKind(k)
    \/ \E field \in {"enabled", "issuer"} : EditProvider(field)
    \/ \E p \in ProviderIds :
         \/ OpenEditor(p) \/ DeleteProvider(p) \/ ComeBack(p)
         \/ \E u \in Invitees : SignedIn(p, u)
    \/ \E r \in removing : ProviderDeleted(r)
    \/ \E u \in Invitees : InviteUser(u) \/ AcceptWithPassword(u) \/ DeleteUser(u)
    \/ \E p \in ProviderIds, test \in BOOLEAN : GoToProvider(p, test)

-----------------------------------------------------------------------------
(* Properties                                                              *)

\* A person who signs in with a provider keeps it: no form that was opened before, no page
\* that was loaded before and nobody else's leaving takes it away.  It is lost with the
\* account, whose identities are deleted with it, or to a deletion of the provider whose
\* question for linked identities came before the person was linked
\* (AuthProviderController::destroy and update, ProfileController::destroy).
LinkedProviderStays ==
    [][\A p \in ProviderIds : \A u \in providers[p].linked \ providers'[p].linked :
          \/ users'[u] = "absent"
          \/ \E r \in removing \ removing' : r.id = p /\ u \notin r.seen]_signInVars

\* There is always a way to sign in.  docs/admin-guide/authentication.md: "The server
\* rejects a configuration that would leave no enabled login path."  The methods are
\* saved with that check; a provider is disabled or deleted without it.
LoginPathRemains == methods # {} \/ EnabledProviders # {}

=============================================================================
