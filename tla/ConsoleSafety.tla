--------------------------- MODULE ConsoleSafety ---------------------------
(***************************************************************************)
(* Theorems about the parts of Console, for every workspace: any number of *)
(* providers, drivers, people, roles, statements, plans and databases.     *)
(*                                                                         *)
(* A step of Console is a step of one part and leaves the variables of the *)
(* others alone (OnlyOn), so that an inductive invariant of a part is one  *)
(* of the whole.                                                           *)
(***************************************************************************)
EXTENDS Console, MigrationSafety, FiniteSetTheorems, SequenceTheorems, TLAPS

-----------------------------------------------------------------------------
(* Sign-in                                                                 *)

\* No row of a provider, and the form that nobody has opened.
LEMMA ProviderConstants ==
  /\ NoProvider \in Provider /\ NoProvider.linked = {}
  /\ [NoProvider EXCEPT !.row = "deleted"] \in Provider
  /\ [NoProvider EXCEPT !.row = "deleted"].linked = {}
  /\ NoEditor \in Editor
<1>1. NoProvider \in Provider /\ NoProvider.linked = {}
  BY SignInAssumption DEF NoProvider, Provider
<1>2. PICK p : p = CHOOSE q \in ProviderIds : TRUE
  OBVIOUS
<1>3. p \in ProviderIds
  BY <1>2, SignInAssumption
<1>4. NoEditor \in Editor
  BY <1>1, <1>2, <1>3, SignInAssumption DEF NoEditor, Editor
<1>5. PICK d : d = [NoProvider EXCEPT !.row = "deleted"]
  OBVIOUS
<1>6. d \in Provider /\ d.linked = {}
  BY <1>1, <1>5 DEF Provider
<1> QED
  BY <1>1, <1>4, <1>5, <1>6

\* The rows of the providers and the accounts: who is linked has accepted an invitation, and
\* a provider somebody is linked to is there.
Links(f, g) ==
    /\ f \in [ProviderIds -> Provider]
    /\ g \in [Invitees -> {"absent", "invited", "accepted"}]
    /\ \A p \in ProviderIds : \A u \in f[p].linked : f[p].row = "stored" /\ g[u] = "accepted"

\* The browser is nowhere, or at one provider.
BrowserOK(b) ==
    /\ b \in [state : {"idle", "testing", "signing_in", "calling", "signed_in"},
              at : SUBSET ProviderIds]
    /\ Cardinality(b.at) <= 1

\* The types of the sign-in, part by part.
LEMMA SignInParts ==
  SignInTypeOK <=> /\ methods \subseteq Methods /\ ticked \subseteq Methods
                   /\ Links(providers, users) /\ registry \in [ProviderIds -> Provider]
                   /\ editor \in Editor /\ removing \subseteq Removal /\ BrowserOK(browser)
BY Zenon DEF SignInTypeOK, Links, BrowserOK

LEMMA BrowserTypes ==
  ASSUME NEW st \in {"idle", "testing", "signing_in", "calling", "signed_in"},
         NEW S \in SUBSET ProviderIds, S = {} \/ \E p : S = {p}
  PROVE  BrowserOK([state |-> st, at |-> S])
<1>1. Cardinality(S) = 0 \/ Cardinality(S) = 1
  BY FS_EmptySet, FS_Singleton, Zenon
<1>2. Cardinality(S) <= 1
  BY <1>1
<1>3. PICK b : b = [state |-> st, at |-> S]
  OBVIOUS
<1>4. b.at = S
  BY <1>3
<1>5. b \in [state : {"idle", "testing", "signing_in", "calling", "signed_in"},
             at : SUBSET ProviderIds]
  BY <1>3
<1> QED
  BY <1>2, <1>3, <1>4, <1>5, Zenon DEF BrowserOK

\* destroy() goes on only where it found nobody.
SignInInv ==
    /\ SignInTypeOK
    /\ \A r \in removing : r.seen = {}

\* At the start there are no providers.
LEMMA SignInStart == SignInInit => SignInInv
<1> SUFFICES ASSUME SignInInit
             PROVE  SignInInv
  OBVIOUS
<1>1. BrowserOK(browser)
  <2>1. browser = [state |-> "idle", at |-> {}]
    BY DEF SignInInit, Idle
  <2>2. {} \in SUBSET ProviderIds
    OBVIOUS
  <2> QED
    BY <2>1, <2>2, BrowserTypes
<1>2. Links(providers, users) /\ registry \in [ProviderIds -> Provider]
  BY ProviderConstants DEF SignInInit, Links
<1>3. editor \in Editor /\ removing = {} /\ methods \subseteq Methods /\ ticked \subseteq Methods
  BY ProviderConstants DEF SignInInit
<1>4. SignInTypeOK
  BY <1>1, <1>2, <1>3, SignInParts
<1> QED
  BY <1>3, <1>4 DEF SignInInv

\* What a step may do to the link of a person.
LinkRule ==
    \A p \in ProviderIds : \A u \in providers[p].linked \ providers'[p].linked :
        \/ users'[u] = "absent"
        \/ \E r \in removing \ removing' : r.id = p /\ u \notin r.seen

\* Every step of the sign-in settings, of the browser and of the server keeps the types, and
\* takes links away only as the rule says.
LEMMA SignInStep ==
  ASSUME SignInInv, SignInNext
  PROVE  SignInInv' /\ LinkRule
<1>0. /\ methods \subseteq Methods /\ ticked \subseteq Methods
      /\ Links(providers, users) /\ registry \in [ProviderIds -> Provider]
      /\ editor \in Editor /\ removing \subseteq Removal /\ BrowserOK(browser)
      /\ \A r \in removing : r.seen = {}
  BY SignInParts DEF SignInInv
<1>a. ASSUME methods' \subseteq Methods, ticked' \subseteq Methods, Links(providers', users'),
             registry' \in [ProviderIds -> Provider], editor' \in Editor,
             removing' \subseteq Removal, BrowserOK(browser'), \A r \in removing' : r.seen = {}
      PROVE  SignInInv'
  BY <1>a, Zenon DEF SignInInv, SignInTypeOK, Links, BrowserOK
<1>b. ASSUME UNCHANGED providers
      PROVE  LinkRule
  BY <1>b DEF LinkRule
<1>c. ASSUME UNCHANGED <<methods, ticked, registry, editor, removing>>, Links(providers', users'),
             BrowserOK(browser')
      PROVE  SignInInv'
  BY <1>0, <1>a, <1>c
<1>1. CASE OpenMethods \/ SaveMethods \/ \E m \in Methods : TickMethod(m)
  <2>1. UNCHANGED <<providers, users, registry, editor, removing, browser>>
    BY <1>1 DEF OpenMethods, SaveMethods, TickMethod
  <2>2. methods' \subseteq Methods /\ ticked' \subseteq Methods
    BY <1>0, <1>1 DEF OpenMethods, SaveMethods, TickMethod
  <2> QED
    BY <1>0, <1>a, <1>b, <2>1, <2>2
<1>2. CASE OpenRegistry
  <2>1. UNCHANGED <<methods, ticked, providers, users, editor, removing, browser>>
        /\ registry' = providers
    BY <1>2 DEF OpenRegistry
  <2>2. registry' \in [ProviderIds -> Provider]
    BY <1>0, <2>1 DEF Links
  <2> QED
    BY <1>0, <1>a, <1>b, <2>1, <2>2
<1>3. CASE \/ \E k \in ProviderKinds : SelectKind(k)
           \/ \E field \in {"enabled", "issuer"} : EditProvider(field)
           \/ \E p \in ProviderIds : OpenEditor(p)
  <2>1. UNCHANGED <<methods, ticked, browser, providers, users, registry, removing>>
    BY <1>3 DEF SelectKind, EditProvider, OpenEditor
  <2>2. editor \in Editor /\ providers \in [ProviderIds -> Provider]
    BY <1>0 DEF Links
  <2>3. ASSUME NEW p \in ProviderIds, OpenEditor(p)
        PROVE  editor' \in Editor
    <3>1. providers[p] \in Provider
      BY <2>2
    <3> QED
      BY <2>3, <3>1 DEF OpenEditor, Editor, Provider
  <2>4. ASSUME NEW k \in ProviderKinds, SelectKind(k)
        PROVE  editor' \in Editor
    <3>1. PICK i \in BOOLEAN : i = (k = OidcKind /\ editor.loaded.issuer)
      BY Zenon
    <3>2. editor' = [editor EXCEPT !.kind = k, !.issuer = i]
      BY <2>4, <3>1, Zenon DEF SelectKind
    <3> QED
      BY <2>2, <3>1, <3>2 DEF Editor
  <2>5. ASSUME NEW field \in {"enabled", "issuer"}, EditProvider(field)
        PROVE  editor' \in Editor
    <3>1. PICK b \in BOOLEAN : editor' = [editor EXCEPT ![field] = b]
      BY <2>5, Zenon DEF EditProvider
    <3>2. CASE field = "enabled"
      BY <2>2, <3>1, <3>2 DEF Editor
    <3>3. CASE field = "issuer"
      BY <2>2, <3>1, <3>3 DEF Editor
    <3> QED
      BY <3>2, <3>3
  <2>6. editor' \in Editor
    BY <1>3, <2>3, <2>4, <2>5
  <2> QED
    BY <1>0, <1>a, <1>b, <2>1, <2>6
<1>4. CASE SaveProvider
  <2>1. /\ UNCHANGED <<methods, ticked, browser, removing, users>> /\ editor' = NoEditor
        /\ registry' = providers'
    BY <1>4 DEF SaveProvider
  <2>2. PICK e : e = editor.id
    OBVIOUS
  <2>3. PICK i \in BOOLEAN : i = (editor.kind = OidcKind)
    BY Zenon
  <2>4. PICK L : L = providers[e].linked
    OBVIOUS
  <2>5. PICK z : z = [row |-> "stored", kind |-> editor.kind, enabled |-> editor.enabled,
                      issuer |-> i, linked |-> L]
    OBVIOUS
  <2>6. e \in ProviderIds /\ editor.kind \in ProviderKinds /\ editor.enabled \in BOOLEAN
    BY <1>0, <2>2 DEF Editor
  <2>7. L \in SUBSET Invitees /\ providers \in [ProviderIds -> Provider]
    BY <1>0, <2>4, <2>6 DEF Links, Provider
  <2>8. providers' = [providers EXCEPT ![e] = z]
    BY <1>4, <2>2, <2>3, <2>4, <2>5, <2>6, <2>7 DEF SaveProvider
  <2>9. z \in Provider /\ z.row = "stored" /\ z.linked = L
    BY <2>3, <2>5, <2>6, <2>7 DEF Provider
  <2>10. \A p \in ProviderIds : providers'[p].linked = providers[p].linked
    BY <2>4, <2>6, <2>7, <2>8, <2>9
  <2>11. providers' \in [ProviderIds -> Provider]
    BY <2>6, <2>7, <2>8, <2>9
  <2>12. Links(providers', users')
    BY <1>0, <2>1, <2>6, <2>7, <2>8, <2>9, <2>10, <2>11 DEF Links
  <2>13. LinkRule
    BY <2>10 DEF LinkRule
  <2> QED
    BY <1>0, <1>a, <2>1, <2>11, <2>12, <2>13, ProviderConstants
<1>5. ASSUME NEW p \in ProviderIds, DeleteProvider(p)
      PROVE  SignInInv' /\ LinkRule
  <2>1. UNCHANGED <<methods, ticked, providers, users, editor, browser>>
    BY <1>5 DEF DeleteProvider
  <2>2. PICK L : L = providers[p].linked
    OBVIOUS
  <2>3. \/ L = {} /\ removing' = removing \cup {[id |-> p, seen |-> L]} /\ registry' = registry
        \/ removing' = removing /\ registry' = providers
    BY <1>5, <2>2, Zenon DEF DeleteProvider
  <2>4. CASE L = {} /\ removing' = removing \cup {[id |-> p, seen |-> L]} /\ registry' = registry
    <3>1. PICK z : z = [id |-> p, seen |-> L]
      OBVIOUS
    <3>2. L \in SUBSET Invitees
      BY <2>4
    <3>3. z \in Removal /\ z.seen = L
      BY <3>1, <3>2 DEF Removal
    <3>4. removing' \subseteq Removal /\ \A r \in removing' : r.seen = {}
      BY <1>0, <2>4, <3>1, <3>3
    <3> QED
      BY <1>0, <1>a, <1>b, <2>1, <2>4, <3>4
  <2>5. CASE removing' = removing /\ registry' = providers
    <3>1. registry' \in [ProviderIds -> Provider]
      BY <1>0, <2>5 DEF Links
    <3> QED
      BY <1>0, <1>a, <1>b, <2>1, <2>5, <3>1
  <2> QED
    BY <2>3, <2>4, <2>5
<1>6. ASSUME NEW r \in removing, ProviderDeleted(r)
      PROVE  SignInInv' /\ LinkRule
  <2>1. PICK d : d = [NoProvider EXCEPT !.row = "deleted"]
    OBVIOUS
  <2>2. d \in Provider /\ d.linked = {}
    BY <2>1, ProviderConstants
  <2>3. /\ UNCHANGED <<methods, ticked, browser, users>> /\ editor' = NoEditor
        /\ registry' = providers' /\ removing' = removing \ {r}
        /\ providers' = [providers EXCEPT ![r.id] = d]
    BY <1>6, <2>1 DEF ProviderDeleted
  <2>4. r.id \in ProviderIds /\ r.seen = {} /\ providers \in [ProviderIds -> Provider]
    BY <1>0, <1>6 DEF Removal, Links
  <2>5. Links(providers', users') /\ providers' \in [ProviderIds -> Provider]
    BY <1>0, <2>2, <2>3, <2>4 DEF Links
  <2>6. removing' \subseteq Removal /\ \A q \in removing' : q.seen = {}
    BY <1>0, <2>3
  <2>7. \A p \in ProviderIds \ {r.id} : providers'[p] = providers[p]
    BY <2>3, <2>4
  <2>8. r \in removing \ removing'
    BY <1>6, <2>3
  <2>9. LinkRule
    BY <2>4, <2>7, <2>8 DEF LinkRule
  <2> QED
    BY <1>0, <1>a, <2>3, <2>5, <2>6, <2>9, ProviderConstants
<1>7. ASSUME NEW u \in Invitees, InviteUser(u) \/ AcceptWithPassword(u)
      PROVE  SignInInv' /\ LinkRule
  <2>1. /\ UNCHANGED <<methods, ticked, providers, registry, editor, removing, browser>>
        /\ users[u] # "accepted"
        /\ \E s \in {"invited", "accepted"} : users' = [users EXCEPT ![u] = s]
    BY <1>7 DEF InviteUser, AcceptWithPassword
  <2>2. users' \in [Invitees -> {"absent", "invited", "accepted"}]
    BY <1>0, <2>1 DEF Links
  <2>3. \A v \in Invitees : users[v] = "accepted" => users'[v] = "accepted"
    BY <1>0, <2>1 DEF Links
  <2>4. \A p \in ProviderIds : providers[p].linked \subseteq Invitees
    BY <1>0 DEF Links, Provider
  <2>5. Links(providers', users')
    BY <1>0, <2>1, <2>2, <2>3, <2>4 DEF Links
  <2> QED
    BY <1>0, <1>b, <1>c, <2>1, <2>5
<1>8. ASSUME NEW u \in Invitees, DeleteUser(u)
      PROVE  SignInInv' /\ LinkRule
  <2>1. /\ UNCHANGED <<methods, ticked, registry, editor, removing, browser>>
        /\ users' = [users EXCEPT ![u] = "absent"]
        /\ providers' = [p \in ProviderIds |-> [providers[p] EXCEPT !.linked = @ \ {u}]]
    BY <1>8 DEF DeleteUser
  <2>2. users' \in [Invitees -> {"absent", "invited", "accepted"}] /\ users'[u] = "absent"
        /\ \A v \in Invitees \ {u} : users'[v] = users[v]
    BY <1>0, <2>1 DEF Links
  <2>3. ASSUME NEW p \in ProviderIds
        PROVE  /\ providers'[p] \in Provider
               /\ providers'[p].row = providers[p].row
               /\ providers'[p].linked = providers[p].linked \ {u}
               /\ providers[p].linked \subseteq Invitees
    <3>1. PICK L : L = providers[p].linked \ {u}
      OBVIOUS
    <3>2. providers'[p] = [providers[p] EXCEPT !.linked = L]
      BY <2>1, <3>1
    <3>3. providers[p] \in Provider
      BY <1>0 DEF Links
    <3>4. L \in SUBSET Invitees
      BY <3>1, <3>3 DEF Provider
    <3> QED
      BY <3>1, <3>2, <3>3, <3>4 DEF Provider
  <2>4. providers' \in [ProviderIds -> Provider]
    BY <2>1, <2>3
  <2>5. Links(providers', users')
    BY <1>0, <2>2, <2>3, <2>4 DEF Links
  <2>6. LinkRule
    BY <2>2, <2>3 DEF LinkRule
  <2> QED
    BY <1>0, <1>c, <2>1, <2>5, <2>6
<1>9. ASSUME NEW p \in ProviderIds, NEW test \in BOOLEAN, GoToProvider(p, test)
      PROVE  SignInInv' /\ LinkRule
  <2>1. PICK st \in {"idle", "testing", "signing_in", "calling", "signed_in"} :
                browser' = [state |-> st, at |-> {p}]
    BY <1>9 DEF GoToProvider
  <2>2. {p} \in SUBSET ProviderIds
    OBVIOUS
  <2>3. BrowserOK(browser')
    BY <2>1, <2>2, BrowserTypes, Zenon
  <2>4. UNCHANGED <<methods, ticked, providers, users, registry, editor, removing>>
    BY <1>9 DEF GoToProvider
  <2> QED
    BY <1>0, <1>b, <1>c, <2>3, <2>4
<1>d. BrowserOK(Idle)
  <2>1. Idle = [state |-> "idle", at |-> {}] /\ {} \in SUBSET ProviderIds
    BY DEF Idle
  <2> QED
    BY <2>1, BrowserTypes
<1>10. ASSUME NEW p \in ProviderIds, ComeBack(p)
       PROVE  SignInInv' /\ LinkRule
  <2>1. UNCHANGED <<methods, ticked, providers, users, registry, editor, removing>>
    BY <1>10 DEF ComeBack
  <2>2. BrowserOK([browser EXCEPT !.state = "calling"])
    <3>1. PICK b : b = [browser EXCEPT !.state = "calling"]
      OBVIOUS
    <3>2. /\ b \in [state : {"idle", "testing", "signing_in", "calling", "signed_in"},
                    at : SUBSET ProviderIds]
          /\ b.at = browser.at
      BY <1>0, <3>1 DEF BrowserOK
    <3>3. BrowserOK(b)
      BY <1>0, <3>2, Zenon DEF BrowserOK
    <3> QED
      BY <3>1, <3>3
  <2>3. browser' = Idle \/ browser' = [browser EXCEPT !.state = "calling"]
    BY <1>10, Zenon DEF ComeBack
  <2>4. BrowserOK(browser')
    BY <1>d, <2>2, <2>3, Zenon
  <2> QED
    BY <1>0, <1>b, <1>c, <2>1, <2>4
<1>11. ASSUME NEW p \in ProviderIds, NEW u \in Invitees, SignedIn(p, u)
       PROVE  SignInInv' /\ LinkRule
  <2>1. UNCHANGED <<methods, ticked, registry, editor, removing>>
    BY <1>11 DEF SignedIn
  <2>2. CASE browser' = Idle /\ UNCHANGED <<providers, users>>
    <3>1. BrowserOK(browser')
      BY <1>d, <2>2, Zenon
    <3> QED
      BY <1>0, <1>b, <1>c, <2>1, <2>2, <3>1
  <2>3. CASE /\ providers[p].row = "stored"
             /\ browser' = [state |-> "signed_in", at |-> {}]
             /\ providers' = [providers EXCEPT ![p].linked = @ \cup {u}]
             /\ users' = [users EXCEPT ![u] = "accepted"]
    <3>1. PICK L : L = providers[p].linked \cup {u}
      OBVIOUS
    <3>2. PICK z : z = [providers[p] EXCEPT !.linked = L]
      OBVIOUS
    <3>3. providers \in [ProviderIds -> Provider] /\ providers[p] \in Provider
      BY <1>0 DEF Links
    <3>4. L \in SUBSET Invitees
      BY <3>1, <3>3 DEF Provider
    <3>5. z \in Provider /\ z.row = "stored" /\ z.linked = L
      BY <2>3, <3>2, <3>3, <3>4 DEF Provider
    <3>6. providers' = [providers EXCEPT ![p] = z]
      BY <2>3, <3>1, <3>2, <3>3
    <3>7. users' \in [Invitees -> {"absent", "invited", "accepted"}] /\ users'[u] = "accepted"
          /\ \A v \in Invitees : users[v] = "accepted" => users'[v] = "accepted"
      BY <1>0, <2>3 DEF Links
    <3>8. \A q \in ProviderIds : providers[q].linked \subseteq Invitees
      BY <3>3 DEF Provider
    <3>9. \A q \in ProviderIds : q # p => providers'[q] = providers[q]
      BY <3>3, <3>6
    <3>10. providers' \in [ProviderIds -> Provider] /\ providers'[p] = z
      BY <3>3, <3>5, <3>6
    <3>11. \A v \in z.linked : users'[v] = "accepted"
      BY <1>0, <3>1, <3>5, <3>7, <3>8 DEF Links
    <3>12. Links(providers', users')
      BY <1>0, <3>5, <3>7, <3>8, <3>9, <3>10, <3>11 DEF Links
    <3>13. \A q \in ProviderIds : providers[q].linked \subseteq providers'[q].linked
      BY <3>1, <3>5, <3>9, <3>10
    <3>14. LinkRule
      BY <3>13 DEF LinkRule
    <3>15. BrowserOK(browser')
      <4>1. {} \in SUBSET ProviderIds
        OBVIOUS
      <4> QED
        BY <2>3, <4>1, BrowserTypes
    <3> QED
      BY <1>c, <2>1, <3>12, <3>14, <3>15
  <2> QED
    BY <1>11, <2>2, <2>3, Zenon DEF SignedIn
<1>12. CASE GoAway
  <2>1. UNCHANGED <<methods, ticked, providers, users, registry, editor, removing>>
        /\ browser' = Idle
    BY <1>12 DEF GoAway
  <2>2. BrowserOK(browser')
    BY <1>d, <2>1, Zenon
  <2> QED
    BY <1>0, <1>b, <1>c, <2>1, <2>2
<1> QED
  BY <1>1, <1>2, <1>3, <1>4, <1>5, <1>6, <1>7, <1>8, <1>9, <1>10, <1>11, <1>12 DEF SignInNext

\* A person who signs in with a provider keeps it, with any number of workers, people,
\* providers, stale pages and open forms, unless the account is deleted, or the provider is
\* deleted by a request that asked for linked identities before.
THEOREM ProvidersStay == Spec => LinkedProviderStays
<1>1. Init => SignInInv
  BY SignInStart DEF Init
<1>2. ASSUME SignInInv, [Next]_vars
      PROVE  SignInInv' /\ [LinkRule]_signInVars
  <2>1. CASE UNCHANGED signInVars
    BY <1>2, <2>1 DEF signInVars, SignInInv, SignInTypeOK
  <2>2. CASE SignInNext
    BY <1>2, <2>2, SignInStep
  <2> QED
    BY <1>2, <2>1, <2>2 DEF Next, OnlyOn, vars
<1> QED
  BY <1>1, <1>2, PTL DEF Spec, LinkedProviderStays, LinkRule

-----------------------------------------------------------------------------
(* Connections                                                             *)

\* A row as it should be.
Row(t) == t \in Target /\ (t.row = "stored" <=> t.driver # NoDriver)

LEMMA ConnectionConstants ==
  /\ Row(NoTarget) /\ NoTarget.row = "unused"
  /\ Row([NoTarget EXCEPT !.row = "deleted"]) /\ [NoTarget EXCEPT !.row = "deleted"].row = "deleted"
<1>1. NoTarget \in Target /\ NoTarget.row = "unused" /\ NoTarget.driver = NoDriver
  BY DEF NoTarget, Target, TlsModes
<1>2. PICK d : d = [NoTarget EXCEPT !.row = "deleted"]
  OBVIOUS
<1>3. d \in Target /\ d.row = "deleted" /\ d.driver = NoDriver
  BY <1>1, <1>2 DEF Target
<1> QED
  BY <1>1, <1>2, <1>3 DEF Row

\* The form of a connection that is as it should be starts as it should be.
LEMMA FreshForm ==
  ASSUME NEW id \in ConnectionIds \cup {NewRow}, NEW t \in Target, id # NewRow => t.driver # NoDriver
  PROVE  Fresh(id, t) \in Form
<1>1. PICK e : e = CHOOSE x \in Drivers : TRUE
  OBVIOUS
<1>2. e \in Drivers
  BY <1>1, ConnectionAssumption, Zenon
<1>3. PICK d : d = IF id = NewRow THEN e ELSE t.driver
  OBVIOUS
<1>4. d \in Drivers
  BY <1>2, <1>3 DEF Target
<1>5. Fresh(id, t) = [id |-> id, loaded |-> t, driver |-> d, mode |-> t.mode,
                      action |-> "retain", pasted |-> {}]
  BY <1>1, <1>3 DEF Fresh
<1> QED
  BY <1>4, <1>5 DEF Form, Target

\* A change of the form leaves a form.
LEMMA KeptForm ==
  ASSUME NEW f \in Form
  PROVE  Kept(f) \in Form
<1>1. CASE MaterialFields(f)
  BY <1>1 DEF Kept
<1>2. CASE ~MaterialFields(f)
  <2>1. Kept(f) = [f EXCEPT !.pasted = {}]
    BY <1>2, Zenon DEF Kept
  <2> QED
    BY <2>1 DEF Form
<1> QED
  BY <1>1, <1>2

\* A request that is being served has passed validation against what it had read; one for a
\* new connection takes the material as it was pasted.
ConnectionInv ==
    /\ ConnectionTypeOK
    /\ \A r \in served : Validates(r) /\ (r.id = NewRow => r.action = "retain")

\* What validation accepts is complete once it is stored as a new row, ...
LEMMA CreatingCompletes ==
  ASSUME NEW r, Validates(r), r.id = NewRow, r.action = "retain", NEW t,
         t.mode = r.mode, t.material = r.pasted
  PROVE  Complete(t)
<1>1. r.mode = "verify" => "ca" \in r.pasted
  BY DEF Validates, CaAfter
<1>2. "cert" \in ClientPair(r) <=> "key" \in ClientPair(r)
  BY DEF Validates
<1>3. "cert" \in r.pasted <=> "key" \in r.pasted
  BY <1>2 DEF ClientPair
<1> QED
  BY <1>1, <1>3 DEF Complete

\* ... and once it is written to the complete row it was validated against.
LEMMA UpdatingCompletes ==
  ASSUME NEW r, Validates(r), r.id # NewRow, Complete(r.read), r.read.row = "stored"
  PROVE  Complete(Updated(r, r.read))
<1>1. PICK t : t = Updated(r, r.read)
  OBVIOUS
<1>2. t.mode = r.mode /\ t.material = MaterialAfter(r, r.read)
  BY <1>1 DEF Updated
<1>3. r.mode = "verify" => "ca" \in MaterialAfter(r, r.read)
  BY DEF Validates, CaAfter, MaterialAfter
<1>4. "cert" \in MaterialAfter(r, r.read) <=> "key" \in MaterialAfter(r, r.read)
  <2>1. "cert" \in ClientPair(r) <=> "key" \in ClientPair(r)
    BY DEF Validates
  <2>2. CASE r.action = "replace"
    BY <2>1, <2>2 DEF ClientPair, MaterialAfter, Complete
  <2>3. CASE r.action # "replace"
    BY <2>1, <2>3 DEF MaterialAfter, Complete
  <2> QED
    BY <2>2, <2>3
<1>5. Complete(t)
  BY <1>2, <1>3, <1>4 DEF Complete
<1> QED
  BY <1>1, <1>5

\* At the start there is no connection and the form is fresh.
LEMMA ConnectionStart == ConnectionInit => ConnectionInv
<1>1. NoTarget \in Target /\ NoTarget.row # "stored" /\ NoTarget.driver = NoDriver
  BY ConnectionConstants DEF Row
<1>2. Fresh(NewRow, NoTarget) \in Form
  BY <1>1, FreshForm
<1>3. 0 \in 0..MaxSubmissions
  BY ConnectionAssumption
<1> QED
  BY <1>1, <1>2, <1>3 DEF ConnectionInit, ConnectionInv, ConnectionTypeOK

\* What a step may do to a complete connection.
TlsRule ==
    \A c \in ConnectionIds : Complete(target[c]) /\ ~Complete(target'[c]) =>
        \E r \in served \ served' : r.id = c /\ r.read # target[c]

\* Every step of the form and of a request keeps the invariant, and breaks a complete
\* connection only as the rule says.
LEMMA ConnectionStep ==
  ASSUME ConnectionInv, ConnectionNext
  PROVE  ConnectionInv' /\ TlsRule
<1>0. /\ target \in [ConnectionIds -> Target] /\ form \in Form /\ served \subseteq Request
      /\ \A c \in ConnectionIds : Row(target[c])
      /\ \A r \in served : Validates(r) /\ (r.id = NewRow => r.action = "retain")
      /\ submissions \in 0..MaxSubmissions
  BY DEF ConnectionInv, ConnectionTypeOK, Row
<1>a. ASSUME target' \in [ConnectionIds -> Target], \A c \in ConnectionIds : Row(target'[c]),
             form' \in Form, served' \subseteq Request,
             \A r \in served' : Validates(r) /\ (r.id = NewRow => r.action = "retain"),
             submissions' \in 0..MaxSubmissions
      PROVE  ConnectionInv'
  BY <1>a DEF ConnectionInv, ConnectionTypeOK, Row, Validates, CaAfter, ClientPair
<1>b. ASSUME UNCHANGED target
      PROVE  TlsRule
  BY <1>b, Zenon DEF TlsRule
<1>c. ASSUME UNCHANGED <<target, served, submissions>>, form' \in Form
      PROVE  ConnectionInv' /\ TlsRule
  BY <1>0, <1>a, <1>b, <1>c
<1>d. ASSUME NEW c \in ConnectionIds, NEW t, Row(t), target' = [target EXCEPT ![c] = t],
             served' \subseteq served, UNCHANGED submissions, form' \in Form
      PROVE  ConnectionInv' /\ (Complete(t) => TlsRule)
  <2>1. target' \in [ConnectionIds -> Target] /\ target'[c] = t
        /\ \A e \in ConnectionIds : e # c => target'[e] = target[e]
    BY <1>0, <1>d DEF Row
  <2>2. \A e \in ConnectionIds : Row(target'[e])
    BY <1>0, <1>d, <2>1
  <2>3. ConnectionInv'
    BY <1>0, <1>a, <1>d, <2>1, <2>2
  <2>4. Complete(t) => TlsRule
    BY <2>1, Zenon DEF TlsRule
  <2> QED
    BY <2>3, <2>4
<1>1. CASE NewConnection
  BY <1>1, <1>c, ConnectionConstants, FreshForm DEF NewConnection, Row
<1>2. ASSUME NEW c \in ConnectionIds, OpenConnection(c)
      PROVE  ConnectionInv' /\ TlsRule
  <2>1. target[c] \in Target /\ target[c].driver # NoDriver
    BY <1>0, <1>2 DEF OpenConnection, Row
  <2>2. Fresh(c, target[c]) \in Form
    BY <2>1, FreshForm
  <2> QED
    BY <1>2, <1>c, <2>2 DEF OpenConnection
<1>3. ASSUME NEW d \in Drivers, ChangeDriver(d)
      PROVE  ConnectionInv' /\ TlsRule
  <2>1. form' \in Form
    BY <1>0, <1>3 DEF ChangeDriver, Form
  <2> QED
    BY <1>3, <1>c, <2>1 DEF ChangeDriver
<1>4. ASSUME NEW m \in TlsModes, ChangeTlsMode(m)
      PROVE  ConnectionInv' /\ TlsRule
  <2>1. [form EXCEPT !.mode = m] \in Form
    BY <1>0 DEF Form
  <2> QED
    BY <1>4, <1>c, <2>1, KeptForm DEF ChangeTlsMode
<1>5. ASSUME NEW a \in {"retain", "replace", "clear"}, ChangeMaterialAction(a)
      PROVE  ConnectionInv' /\ TlsRule
  <2>1. [form EXCEPT !.action = a] \in Form
    BY <1>0 DEF Form
  <2> QED
    BY <1>5, <1>c, <2>1, KeptForm DEF ChangeMaterialAction
<1>6. ASSUME NEW x \in Material, Paste(x)
      PROVE  ConnectionInv' /\ TlsRule
  <2>1. PICK P : P = IF x \in form.pasted THEN form.pasted \ {x} ELSE form.pasted \cup {x}
    OBVIOUS
  <2>2. P \in SUBSET Material
    BY <1>0, <2>1 DEF Form
  <2>3. form' = [form EXCEPT !.pasted = P]
    BY <1>6, <2>1, Zenon DEF Paste
  <2>4. form' \in Form
    BY <1>0, <2>2, <2>3 DEF Form
  <2> QED
    BY <1>6, <1>c, <2>4 DEF Paste
<1>7. CASE Submitted
  <2>0. PICK R : R = RowOf(form.id)
    OBVIOUS
  <2>1. PICK r : r = [id |-> form.id, read |-> R, driver |-> form.driver, mode |-> form.mode,
                      action |-> SentAction(form), pasted |-> form.pasted]
    OBVIOUS
  <2>2. SentAction(form) \in {"retain", "replace", "clear"}
    BY <1>0 DEF SentAction, Form
  <2>3. R \in Target
    BY <1>0, <2>0, ConnectionConstants DEF RowOf, Form, Row
  <2>4. r \in Request
    BY <1>0, <2>1, <2>2, <2>3 DEF Request, Form
  <2>5. r.id = NewRow => r.action = "retain"
    BY <2>1 DEF SentAction, IsEditing
  <2>6. [form EXCEPT !.pasted = {}] \in Form
    BY <1>0 DEF Form
  <2>7. /\ target' = target
        /\ \/ /\ Validates(r) /\ served' = served \cup {r} /\ form' = form
              /\ submissions < MaxSubmissions /\ submissions' = submissions + 1
           \/ /\ served' = served /\ form' = [form EXCEPT !.pasted = {}]
              /\ submissions' = submissions
    BY <1>7, <2>0, <2>1, Zenon DEF Submitted
  <2>8. CASE /\ Validates(r) /\ served' = served \cup {r} /\ form' = form
             /\ submissions < MaxSubmissions /\ submissions' = submissions + 1
    <3>1. submissions' \in 0..MaxSubmissions
      BY <1>0, <2>8, ConnectionAssumption
    <3>2. /\ served' \subseteq Request
          /\ \A q \in served' : Validates(q) /\ (q.id = NewRow => q.action = "retain")
      BY <1>0, <2>4, <2>5, <2>8
    <3> QED
      BY <1>0, <1>a, <1>b, <2>7, <2>8, <3>1, <3>2
  <2>9. CASE served' = served /\ form' = [form EXCEPT !.pasted = {}] /\ submissions' = submissions
    BY <1>c, <2>6, <2>7, <2>9
  <2> QED
    BY <2>7, <2>8, <2>9
<1>8. ASSUME NEW r \in served, NEW c \in ConnectionIds, NEW another \in BOOLEAN,
             Created(r, c, another)
      PROVE  ConnectionInv' /\ TlsRule
  <2>1. PICK t : t = [row |-> "stored", driver |-> r.driver, mode |-> r.mode,
                      material |-> r.pasted]
    OBVIOUS
  <2>2. r.driver \in Drivers /\ r.mode \in TlsModes /\ r.pasted \in SUBSET Material
    BY <1>0 DEF Request
  <2>3. t \in Target /\ t.row = "stored" /\ t.driver # NoDriver
        /\ t.mode = r.mode /\ t.material = r.pasted
    BY <2>1, <2>2, ConnectionAssumption DEF Target
  <2>4. /\ target' = [target EXCEPT ![c] = t] /\ served' \subseteq served
        /\ UNCHANGED submissions /\ r.id = NewRow
        /\ form' = form \/ form' = Fresh(c, target'[c])
    BY <1>8, <2>1 DEF Created
  <2>5. Complete(t)
    BY <1>0, <2>3, <2>4, CreatingCompletes
  <2>6. target'[c] = t
    BY <1>0, <2>4
  <2>7. form' \in Form
    BY <1>0, <2>3, <2>4, <2>6, FreshForm
  <2> QED
    BY <1>d, <2>3, <2>4, <2>5, <2>7 DEF Row
<1>9. ASSUME NEW r \in served, Stored(r)
      PROVE  ConnectionInv' /\ TlsRule
  <2>0. r.id \in ConnectionIds /\ served' = served \ {r} /\ UNCHANGED submissions
    BY <1>0, <1>9 DEF Stored, Request
  <2>1. CASE target[r.id].row # "stored"
    <3>1. UNCHANGED <<target, form>>
      BY <1>9, <2>1 DEF Stored
    <3> QED
      BY <1>0, <1>a, <1>b, <2>0, <3>1
  <2>2. CASE target[r.id].row = "stored"
    <3>1. PICK c : c = r.id
      OBVIOUS
    <3>2. PICK t : t = Updated(r, target[c])
      OBVIOUS
    <3>3. target' = [target EXCEPT ![c] = t] /\ form' = Fresh(c, target'[c])
      BY <1>9, <2>2, <3>1, <3>2, Zenon DEF Stored
    <3>4. /\ r.driver \in Drivers /\ r.mode \in TlsModes /\ r.pasted \in SUBSET Material
          /\ target[c].mode \in TlsModes /\ target[c].material \in SUBSET Material
          /\ target[c].driver \in Drivers /\ target[c].driver # NoDriver
      BY <1>0, <2>0, <2>2, <3>1 DEF Request, Target, Row
    <3>5. PICK m \in TlsModes : m = IF r.mode = r.read.mode THEN target[c].mode ELSE r.mode
      BY <3>4
    <3>6. PICK M \in SUBSET Material : M = MaterialAfter(r, target[c])
      BY <3>4 DEF MaterialAfter
    <3>7. PICK d \in Drivers : d = IF r.driver = r.read.driver THEN target[c].driver ELSE r.driver
      BY <3>4
    <3>8. t = [row |-> "stored", driver |-> d, mode |-> m, material |-> M]
      BY <3>2, <3>5, <3>6, <3>7, Zenon DEF Updated
    <3>9. t \in Target /\ t.row = "stored" /\ t.driver # NoDriver
      BY <3>5, <3>6, <3>7, <3>8, ConnectionAssumption DEF Target
    <3>10. target'[c] = t
      BY <1>0, <2>0, <3>1, <3>3
    <3>11. form' \in Form
      BY <2>0, <3>1, <3>3, <3>9, <3>10, FreshForm
    <3>12. ConnectionInv' /\ (Complete(t) => TlsRule)
      BY <1>d, <2>0, <3>1, <3>3, <3>9, <3>11 DEF Row
    <3>13. CASE r.read = target[c] /\ Complete(target[c])
      <4>1. Complete(t)
        BY <1>0, <1>9, <2>2, <3>1, <3>2, <3>13, UpdatingCompletes DEF Stored
      <4> QED
        BY <3>12, <4>1
    <3>14. CASE ~(r.read = target[c] /\ Complete(target[c]))
      <4>1. \A e \in ConnectionIds : e # c => target'[e] = target[e]
        BY <1>0, <3>3
      <4>2. r \in served \ served'
        BY <1>9, <2>0
      <4>3. TlsRule
        BY <3>1, <3>14, <4>1, <4>2, Zenon DEF TlsRule
      <4> QED
        BY <3>12, <4>3
    <3> QED
      BY <3>13, <3>14
  <2> QED
    BY <2>1, <2>2
<1>10. ASSUME NEW c \in ConnectionIds, DeleteConnection(c)
       PROVE  ConnectionInv' /\ TlsRule
  <2>1. PICK d : d = [NoTarget EXCEPT !.row = "deleted"]
    OBVIOUS
  <2>2. Row(d) /\ d.row # "stored"
    BY <2>1, ConnectionConstants
  <2>3. Complete(d)
    BY <2>2 DEF Complete
  <2>4. target' = [target EXCEPT ![c] = d] /\ UNCHANGED <<form, served, submissions>>
    BY <1>10, <2>1 DEF DeleteConnection
  <2> QED
    BY <1>0, <1>d, <2>2, <2>3, <2>4
<1> QED
  BY <1>1, <1>2, <1>3, <1>4, <1>5, <1>6, <1>7, <1>8, <1>9, <1>10 DEF ConnectionNext

\* With any number of workers, connections and stale forms, a complete connection becomes
\* incomplete only by an update that was validated against a row that has changed since.
THEOREM TlsIsComplete == Spec => TargetTlsComplete
<1>1. Init => ConnectionInv
  BY ConnectionStart DEF Init
<1>2. ASSUME ConnectionInv, [Next]_vars
      PROVE  ConnectionInv' /\ [TlsRule]_connectionVars
  <2>1. CASE UNCHANGED connectionVars
    BY <1>2, <2>1 DEF connectionVars, ConnectionInv, ConnectionTypeOK, Validates, CaAfter,
                      ClientPair
  <2>2. CASE ConnectionNext
    BY <1>2, <2>2, ConnectionStep
  <2> QED
    BY <1>2, <2>1, <2>2 DEF Next, OnlyOn, vars
<1> QED
  BY <1>1, <1>2, PTL DEF Spec, TargetTlsComplete, TlsRule

-----------------------------------------------------------------------------
(* People                                                                  *)

LEMMA OrdersAreSequences == Orders \subseteq Seq(Roles)
<1> SUFFICES ASSUME NEW s \in Orders
             PROVE  s \in Seq(Roles)
  OBVIOUS
<1>1. PICK n \in 0..Cardinality(Roles) : s \in [1..n -> Roles]
  BY DEF Orders
<1>2. Cardinality(Roles) \in Nat
  BY PeopleAssumption, FS_CardinalityType
<1>3. n \in Nat
  BY <1>1, <1>2
<1> QED
  BY <1>1, <1>3

\* A list of roles of the form: a sequence without repetition.
LEMMA OrdersAre ==
  ASSUME NEW s
  PROVE  s \in Orders <=> /\ s \in Seq(Roles)
                          /\ \A i, j \in 1..Len(s) : s[i] = s[j] => i = j
<1>0. Cardinality(Roles) \in Nat /\ IsFiniteSet(Roles)
  BY PeopleAssumption, FS_CardinalityType
<1>1. ASSUME s \in Orders
      PROVE  s \in Seq(Roles) /\ \A i, j \in 1..Len(s) : s[i] = s[j] => i = j
  <2>1. s \in Seq(Roles)
    BY <1>1, OrdersAreSequences
  <2>2. DOMAIN s = 1..Len(s)
    BY <2>1
  <2>3. IsInjective(s)
    BY <1>1, Zenon DEF Orders
  <2> QED
    BY <2>1, <2>2, <2>3 DEF IsInjective
<1>2. ASSUME s \in Seq(Roles), \A i, j \in 1..Len(s) : s[i] = s[j] => i = j
      PROVE  s \in Orders
  <2>1. PICK n \in Nat : n = Len(s)
    BY <1>2
  <2>2. s \in [1..n -> Roles] /\ DOMAIN s = 1..n
    BY <1>2, <2>1
  <2>3. IsInjective(s)
    BY <1>2, <2>1, <2>2 DEF IsInjective
  <2>4. s \in Injection(1..n, Roles)
    BY <1>2, <2>1, <2>2, Zenon DEF Injection, IsInjective
  <2>5. Cardinality(1..n) <= Cardinality(Roles)
    BY <1>0, <2>4, FS_Injection
  <2>6. Cardinality(1..n) = n
    <3>1. 1 \in Int /\ n \in Int
      BY <2>1
    <3>2. Cardinality(1..n) = IF 1 > n THEN 0 ELSE n - 1 + 1
      BY <3>1, FS_Interval, Zenon
    <3> QED
      BY <2>1, <3>2
  <2>7. n \in 0..Cardinality(Roles)
    BY <1>0, <2>1, <2>5, <2>6
  <2> QED
    BY <2>2, <2>3, <2>7, Zenon DEF Orders
<1> QED
  BY <1>1, <1>2

\* What the buttons of the dialog make of a list.
LEMMA OrderAdded ==
  ASSUME NEW s \in Orders, NEW x \in Roles, x \notin Range(s)
  PROVE  Append(s, x) \in Orders
<1>1. s \in Seq(Roles) /\ \A i, j \in 1..Len(s) : s[i] = s[j] => i = j
  BY OrdersAre
<1>2. \A i \in 1..Len(s) : s[i] # x
  BY <1>1 DEF Range
<1>3. PICK a : a = Append(s, x)
  OBVIOUS
<1>4. /\ a \in Seq(Roles) /\ Len(a) = Len(s) + 1 /\ a[Len(s) + 1] = x
      /\ \A i \in 1..Len(s) : a[i] = s[i]
  BY <1>1, <1>3
<1>5. \A i, j \in 1..Len(a) : a[i] = a[j] => i = j
  <2>1. Len(s) \in Nat
    BY <1>1
  <2> QED
    BY <1>1, <1>2, <1>4, <2>1
<1> QED
  BY <1>3, <1>4, <1>5, OrdersAre

\* ... and one without repetition when a role is taken out of it,
LEMMA OrderRemoved ==
  ASSUME NEW s \in Orders, NEW i \in DOMAIN s
  PROVE  /\ SubSeq(s, 1, i - 1) \o SubSeq(s, i + 1, Len(s)) \in Orders
         /\ Range(SubSeq(s, 1, i - 1) \o SubSeq(s, i + 1, Len(s))) = Range(s) \ {s[i]}
<1>1. s \in Seq(Roles) /\ \A k, j \in 1..Len(s) : s[k] = s[j] => k = j
  BY OrdersAre
<1>2. PICK n \in Nat : n = Len(s)
  BY <1>1
<1>3. i \in 1..n
  BY <1>1, <1>2
<1>4. PICK a : a = SubSeq(s, 1, i - 1)
  OBVIOUS
<1>5. PICK b : b = SubSeq(s, i + 1, Len(s))
  OBVIOUS
<1>6. a \in Seq(Roles) /\ Len(a) = i - 1 /\ \A j \in 1..(i - 1) : a[j] = s[j]
  <2>1. 1 \in 1..Len(s) + 1 /\ i - 1 \in 0..Len(s)
    BY <1>2, <1>3
  <2> QED
    BY <1>1, <1>3, <1>4, <2>1, SubSeqProperties
<1>7. b \in Seq(Roles) /\ Len(b) = n - i /\ \A j \in 1..(n - i) : b[j] = s[i + j]
  <2>1. i + 1 \in Int /\ n \in Int /\ \A k \in (i + 1)..n : s[k] \in Roles
    BY <1>1, <1>2, <1>3
  <2>2. /\ b \in Seq(Roles) /\ Len(b) = IF i + 1 <= n THEN n - (i + 1) + 1 ELSE 0
        /\ \A j \in 1..(n - (i + 1) + 1) : b[j] = s[(i + 1) + j - 1]
    <3>1. PICK m : m = i + 1
      OBVIOUS
    <3>2. b = SubSeq(s, m, n) /\ m \in Int /\ n \in Int /\ \A k \in m..n : s[k] \in Roles
      BY <1>2, <1>5, <2>1, <3>1, Zenon
    <3>3. /\ b \in Seq(Roles) /\ Len(b) = IF m <= n THEN n - m + 1 ELSE 0
          /\ \A j \in 1..(n - m + 1) : b[j] = s[m + j - 1]
      <4>1. /\ SubSeq(s, m, n) \in Seq(Roles)
            /\ Len(SubSeq(s, m, n)) = IF m <= n THEN n - m + 1 ELSE 0
            /\ \A j \in 1..(n - m + 1) : SubSeq(s, m, n)[j] = s[m + j - 1]
        BY <3>2, SubSeqProperties
      <4> QED
        BY <3>2, <4>1, Zenon
    <3> QED
      BY <3>1, <3>3, Zenon
  <2>3. /\ n - (i + 1) + 1 = n - i /\ \A j \in 1..(n - i) : (i + 1) + j - 1 = i + j
        /\ (IF i + 1 <= n THEN n - (i + 1) + 1 ELSE 0) = n - i
    BY <1>3
  <2> QED
    BY <2>2, <2>3
<1>8. PICK c : c = a \o b
  OBVIOUS
<1>9. /\ c \in Seq(Roles) /\ Len(c) = n - 1
      /\ \A j \in 1..(n - 1) : c[j] = IF j < i THEN s[j] ELSE s[j + 1]
  <2>1. c \in Seq(Roles) /\ Len(c) = (i - 1) + (n - i)
    <3>1. c \in Seq(Roles) /\ Len(c) = Len(a) + Len(b)
      BY <1>6, <1>7, <1>8, ConcatProperties, Zenon
    <3> QED
      BY <1>6, <1>7, <3>1, Zenon
  <2>2. \A j \in 1..(n - 1) : c[j] = IF j <= i - 1 THEN a[j] ELSE b[j - (i - 1)]
    BY <1>3, <1>6, <1>7, <1>8
  <2>3. \A j \in 1..(n - 1) : j >= i => j - (i - 1) \in 1..(n - i) /\ i + (j - (i - 1)) = j + 1
    BY <1>3
  <2> QED
    <3>1. (i - 1) + (n - i) = n - 1
      BY <1>3
    <3>2. \A j \in 1..(n - 1) : c[j] = IF j < i THEN s[j] ELSE s[j + 1]
      <4> SUFFICES ASSUME NEW j \in 1..(n - 1)
                   PROVE  c[j] = IF j < i THEN s[j] ELSE s[j + 1]
        OBVIOUS
      <4>1. CASE j < i
        BY <1>3, <1>6, <2>2, <4>1
      <4>2. CASE ~(j < i)
        <5>1. PICK k \in 1..(n - i) : k = j - (i - 1) /\ i + k = j + 1
          BY <1>3, <2>3, <4>2
        <5>2. c[j] = b[k]
          BY <1>3, <2>2, <4>2, <5>1
        <5> QED
          BY <1>7, <4>2, <5>1, <5>2
      <4> QED
        BY <4>1, <4>2
    <3> QED
      BY <2>1, <3>1, <3>2
<1>10. \A k, j \in 1..Len(c) : c[k] = c[j] => k = j
  BY <1>1, <1>2, <1>3, <1>9
<1>11. Range(c) = Range(s) \ {s[i]}
  <2>1. DOMAIN c = 1..(n - 1) /\ DOMAIN s = 1..n
    BY <1>1, <1>2, <1>9
  <2>2. ASSUME NEW j \in 1..(n - 1)
        PROVE  c[j] \in Range(s) \ {s[i]}
    <3>1. PICK k \in 1..n : c[j] = s[k] /\ k # i
      BY <1>3, <1>9
    <3>2. s[k] # s[i]
      BY <1>1, <1>2, <1>3, <3>1
    <3> QED
      BY <2>1, <3>1, <3>2 DEF Range
  <2>3. ASSUME NEW k \in 1..n, s[k] # s[i]
        PROVE  \E j \in 1..(n - 1) : c[j] = s[k]
    <3>1. CASE k < i
      BY <1>3, <1>9, <3>1
    <3>2. CASE ~(k < i)
      <4>1. k - 1 \in 1..(n - 1) /\ ~(k - 1 < i) /\ (k - 1) + 1 = k
        BY <1>3, <2>3, <3>2
      <4> QED
        BY <1>9, <4>1
    <3> QED
      BY <3>1, <3>2
  <2>4. Range(c) = {c[j] : j \in 1..(n - 1)} /\ Range(s) = {s[j] : j \in 1..n}
    BY <2>1, Zenon DEF Range
  <2>5. Range(c) \subseteq Range(s) \ {s[i]}
    BY <2>2, <2>4
  <2>6. Range(s) \ {s[i]} \subseteq Range(c)
    <3> SUFFICES ASSUME NEW k \in 1..n, s[k] # s[i]
                 PROVE  s[k] \in Range(c)
      BY <2>4
    <3> QED
      BY <2>3, <2>4
  <2> QED
    BY <2>5, <2>6
<1>12. c = SubSeq(s, 1, i - 1) \o SubSeq(s, i + 1, Len(s)) /\ c \in Orders
  <2>1. c \in Orders
    BY <1>9, <1>10, OrdersAre
  <2> QED
    BY <1>4, <1>5, <1>8, <2>1, Zenon
<1> QED
  BY <1>11, <1>12, Zenon

\* ... in the terms of the model,
LEMMA WithoutTypes ==
  ASSUME NEW s \in Orders, NEW x
  PROVE  Without(s, x) \in Orders /\ Range(Without(s, x)) = Range(s) \ {x}
<1>1. CASE x \in Range(s)
  <2>1. PICK i : i = CHOOSE j \in DOMAIN s : s[j] = x
    OBVIOUS
  <2>2. i \in DOMAIN s /\ s[i] = x
    BY <1>1, <2>1 DEF Range
  <2>3. Without(s, x) = SubSeq(s, 1, i - 1) \o SubSeq(s, i + 1, Len(s))
    BY <1>1, <2>1, Zenon DEF Without
  <2> QED
    BY <2>2, <2>3, OrderRemoved
<1>2. CASE x \notin Range(s)
  BY <1>2 DEF Without
<1> QED
  BY <1>1, <1>2

\* ... and when two neighbours change places.
LEMMA OrderMoved ==
  ASSUME NEW s \in Orders, NEW i \in 2..Len(s)
  PROVE  [s EXCEPT ![i - 1] = s[i], ![i] = s[i - 1]] \in Orders
<1>1. s \in Seq(Roles) /\ \A k, j \in 1..Len(s) : s[k] = s[j] => k = j
  BY OrdersAre
<1>2. PICK n \in Nat : n = Len(s)
  BY <1>1
<1>3. i \in 2..n /\ i \in 1..n /\ i - 1 \in 1..n /\ i # i - 1
  BY <1>2
<1>4. s \in [1..n -> Roles]
  BY <1>1, <1>2
<1>5. PICK c : c = [s EXCEPT ![i - 1] = s[i], ![i] = s[i - 1]]
  OBVIOUS
<1>6. /\ c \in [1..n -> Roles] /\ c[i] = s[i - 1] /\ c[i - 1] = s[i]
      /\ \A j \in 1..n : j # i /\ j # i - 1 => c[j] = s[j]
  BY <1>3, <1>4, <1>5
<1>7. c \in Seq(Roles) /\ Len(c) = n
  BY <1>2, <1>6
<1>8. \A k, j \in 1..Len(c) : c[k] = c[j] => k = j
  BY <1>1, <1>2, <1>3, <1>6, <1>7
<1> QED
  BY <1>5, <1>7, <1>8, OrdersAre

\* The roles of the first administrator and of an account that does not exist.
LEMMA PeopleConstants ==
  /\ <<>> \in Orders /\ <<AdminRole>> \in Orders /\ Range(<<>>) = {} /\ Range(<<AdminRole>>) = {AdminRole}
  /\ Absent \in Person /\ Absent.roles = <<>>
<1>1. <<>> \in Seq(Roles) /\ \A i, j \in 1..Len(<<>>) : <<>>[i] = <<>>[j] => i = j
  OBVIOUS
<1>2. <<>> \in Orders
  BY <1>1, OrdersAre
<1>3. PICK a : a = <<AdminRole>>
  OBVIOUS
<1>4. a \in Seq(Roles) /\ Len(a) = 1 /\ a[1] = AdminRole /\ DOMAIN a = {1}
  BY <1>3, PeopleAssumption
<1>5. \A i, j \in 1..Len(a) : a[i] = a[j] => i = j
  BY <1>4
<1>6. a \in Orders
  BY <1>4, <1>5, OrdersAre
<1>7. Range(a) = {AdminRole}
  BY <1>4 DEF Range
<1>8. Range(<<>>) = {}
  BY DEF Range
<1>9. Absent \in Person /\ Absent.roles = <<>>
  BY <1>2 DEF Absent, Person
<1> QED
  BY <1>2, <1>3, <1>6, <1>7, <1>8, <1>9

\* At the start there is one administrator.
LEMMA PeopleTypesStart == PeopleInit => PeopleTypeOK
<1> SUFFICES ASSUME PeopleInit
             PROVE  PeopleTypeOK
  OBVIOUS
<1>1. PICK o : o = [exists |-> TRUE, accepted |-> TRUE, disabled |-> FALSE, roles |-> <<AdminRole>>]
  OBVIOUS
<1>2. o \in Person /\ o.roles = <<AdminRole>>
  BY <1>1, PeopleConstants DEF Person
<1>3. person = [p \in Persons |-> IF p = Viewer THEN o ELSE Absent]
  BY <1>1, Zenon DEF PeopleInit
<1>4. /\ person \in [Persons -> Person]
      /\ \A p \in Persons : person[p] = o \/ person[p] = Absent
  BY <1>2, <1>3, PeopleConstants
<1>5. roleRows = Roles /\ AdminRole \in roleRows
  BY PeopleAssumption DEF PeopleInit
<1>6. \A p \in Persons : Range(person[p].roles) \subseteq roleRows
  <2> SUFFICES ASSUME NEW p \in Persons
               PROVE  Range(person[p].roles) \subseteq roleRows
    OBVIOUS
  <2>1. person[p].roles = <<AdminRole>> \/ person[p].roles = <<>>
    BY <1>2, <1>4, PeopleConstants
  <2>2. Range(person[p].roles) = {AdminRole} \/ Range(person[p].roles) = {}
    BY <2>1, PeopleConstants
  <2> QED
    BY <1>5, <2>2
<1>7. dialog \in [Persons -> [open : BOOLEAN, order : Orders]]
  BY <1>4 DEF PeopleInit, Person
<1>8. listed \in [people : [Persons -> Person], roles : SUBSET Roles]
  BY <1>4, <1>5 DEF PeopleInit
<1>9. serving = {} /\ changes \in 0..MaxChanges
  BY PeopleAssumption DEF PeopleInit
<1> QED
  BY <1>4, <1>5, <1>6, <1>7, <1>8, <1>9 DEF PeopleTypeOK

\* The accounts: every role somebody has exists.
Accounts(f, rows) ==
    /\ f \in [Persons -> Person] /\ AdminRole \in rows /\ rows \subseteq Roles
    /\ \A p \in Persons : Range(f[p].roles) \subseteq rows

\* The dialogs of the page.
Dialogs(f) == f \in [Persons -> [open : BOOLEAN, order : Orders]]

\* The accounts and the roles the page was rendered with.
Listing(f) == f \in [people : [Persons -> Person], roles : SUBSET Roles]

\* The types of the people, part by part.
LEMMA PeopleParts ==
  PeopleTypeOK <=> /\ Accounts(person, roleRows) /\ Dialogs(dialog) /\ Listing(listed)
                   /\ serving \subseteq Assignment /\ changes \in 0..MaxChanges
BY DEF PeopleTypeOK, Accounts, Dialogs, Listing

\* A form that is reset shows the roles of the person.
LEMMA ResetForm ==
  ASSUME NEW f \in [Persons -> Person], NEW p \in Persons
  PROVE  ResetDialog(p, f) \in [open : BOOLEAN, order : Orders]
<1>1. f[p].roles \in Orders
  BY DEF Person
<1> QED
  BY <1>1 DEF ResetDialog

\* The page is rendered with accounts and roles of the workspace.
LEMMA RenderedPeople ==
  ASSUME Dialogs(dialog), NEW f, NEW rows, Accounts(f, rows), Rendered(f, rows)
  PROVE  Dialogs(dialog') /\ Listing(listed')
<1>1. f \in [Persons -> Person] /\ rows \subseteq Roles
  BY DEF Accounts
<1>2. Listing(listed')
  BY <1>1 DEF Rendered, Listing
<1>3. ASSUME NEW p \in Persons
      PROVE  /\ dialog[p] \in [open : BOOLEAN, order : Orders]
             /\ ResetDialog(p, f) \in [open : BOOLEAN, order : Orders]
  BY <1>1, ResetForm DEF Dialogs
<1>4. Dialogs(dialog')
  BY <1>3 DEF Rendered, Dialogs
<1> QED
  BY <1>2, <1>4

\* The dialogs of the page and its buttons.
LEMMA DialogTypes ==
  ASSUME PeopleTypeOK,
         \/ OpenPeople
         \/ \E p \in Persons :
              \/ ToggleDialog(p)
              \/ \E x \in Roles : AddRole(p, x) \/ RemoveRole(p, x)
              \/ \E i \in 1..Cardinality(Roles) : MoveRole(p, i)
  PROVE  PeopleTypeOK'
<1>0. /\ Accounts(person, roleRows) /\ Dialogs(dialog) /\ Listing(listed)
      /\ serving \subseteq Assignment /\ changes \in 0..MaxChanges
  BY PeopleParts
<1>a. ASSUME UNCHANGED <<person, roleRows, serving, changes>>, Dialogs(dialog'), Listing(listed')
      PROVE  PeopleTypeOK'
  BY <1>0, <1>a, PeopleParts DEF PeopleTypeOK, Accounts, Dialogs, Listing
<1>b. ASSUME NEW p \in Persons, NEW e \in [open : BOOLEAN, order : Orders],
             UNCHANGED <<person, roleRows, listed, serving, changes>>,
             dialog' = [dialog EXCEPT ![p] = e]
      PROVE  PeopleTypeOK'
  <2>1. Dialogs(dialog')
    BY <1>0, <1>b DEF Dialogs
  <2> QED
    BY <1>0, <1>a, <1>b, <2>1 DEF Listing
<1>c. ASSUME NEW p \in Persons
      PROVE  /\ dialog[p] \in [open : BOOLEAN, order : Orders]
             /\ dialog[p].open \in BOOLEAN /\ dialog[p].order \in Orders
             /\ listed.people[p].roles \in Orders
  <2>1. dialog[p] \in [open : BOOLEAN, order : Orders]
    BY <1>0, <1>c DEF Dialogs
  <2>2. listed.people[p] \in Person
    BY <1>0, <1>c DEF Listing
  <2> QED
    BY <2>1, <2>2 DEF Person
<1>d. ASSUME NEW p \in Persons, NEW s \in Orders,
             UNCHANGED <<person, roleRows, listed, serving, changes>>,
             dialog' = [dialog EXCEPT ![p].order = s]
      PROVE  PeopleTypeOK'
  <2>1. Dialogs(dialog')
    BY <1>0, <1>d DEF Dialogs
  <2> QED
    BY <1>0, <1>a, <1>d, <2>1 DEF Listing
<1>1. CASE OpenPeople
  <2>1. person \in [Persons -> Person] /\ roleRows \subseteq Roles
    BY <1>0 DEF Accounts
  <2>2. Dialogs(dialog')
    BY <1>1, <2>1, ResetForm DEF OpenPeople, Dialogs
  <2>3. Listing(listed')
    BY <1>1, <2>1 DEF OpenPeople, Listing
  <2> QED
    BY <1>1, <1>a, <2>2, <2>3 DEF OpenPeople
<1>2. ASSUME NEW p \in Persons, ToggleDialog(p)
      PROVE  PeopleTypeOK'
  <2>1. CASE dialog[p].open
    <3>1. dialog' = [dialog EXCEPT ![p] = [open |-> FALSE, order |-> listed.people[p].roles]]
      BY <1>2, <2>1, Zenon DEF ToggleDialog, ResetDialog
    <3> QED
      BY <1>2, <1>b, <1>c, <3>1 DEF ToggleDialog
  <2>2. CASE ~dialog[p].open
    <3>1. PICK e : e = [dialog[p] EXCEPT !.open = TRUE]
      OBVIOUS
    <3>2. e \in [open : BOOLEAN, order : Orders]
      BY <1>c, <3>1
    <3>3. dialog' = [dialog EXCEPT ![p] = e]
      BY <1>2, <2>2, <3>1, Zenon DEF ToggleDialog
    <3> QED
      BY <1>2, <1>b, <1>c, <3>2, <3>3 DEF ToggleDialog
  <2> QED
    BY <2>1, <2>2
<1>3. ASSUME NEW p \in Persons, NEW x \in Roles, AddRole(p, x)
      PROVE  PeopleTypeOK'
  <2>1. Append(dialog[p].order, x) \in Orders
    BY <1>3, <1>c, OrderAdded DEF AddRole
  <2>2. /\ dialog' = [dialog EXCEPT ![p].order = Append(dialog[p].order, x)]
        /\ UNCHANGED <<person, roleRows, listed, serving, changes>>
    BY <1>3, Zenon DEF AddRole
  <2> QED
    BY <1>d, <2>1, <2>2
<1>4. ASSUME NEW p \in Persons, NEW x \in Roles, RemoveRole(p, x)
      PROVE  PeopleTypeOK'
  <2>1. Without(dialog[p].order, x) \in Orders
    BY <1>c, WithoutTypes
  <2>2. /\ dialog' = [dialog EXCEPT ![p].order = Without(dialog[p].order, x)]
        /\ UNCHANGED <<person, roleRows, listed, serving, changes>>
    BY <1>4, Zenon DEF RemoveRole
  <2> QED
    BY <1>d, <2>1, <2>2
<1>5. ASSUME NEW p \in Persons, NEW i \in 1..Cardinality(Roles), MoveRole(p, i)
      PROVE  PeopleTypeOK'
  <2>0. PICK o : o = dialog[p].order
    OBVIOUS
  <2>1. PICK D : D = {j \in DOMAIN o : o[j] \in listed.roles}
    OBVIOUS
  <2>2. i \in 2..Cardinality(D)
    BY <1>5, <2>0, <2>1, Zenon DEF MoveRole
  <2>3. PICK n \in Nat : n = Len(o) /\ DOMAIN o = 1..n
    <3>1. o \in Seq(Roles)
      BY <1>c, <2>0, OrdersAre
    <3> QED
      BY <3>1
  <2>4. IsFiniteSet(1..n) /\ Cardinality(1..n) = n
    <3>1. 1 \in Int /\ n \in Int
      BY <2>3
    <3>2. IsFiniteSet(1..n) /\ Cardinality(1..n) = IF 1 > n THEN 0 ELSE n - 1 + 1
      BY <3>1, FS_Interval, Zenon
    <3> QED
      BY <2>3, <3>2
  <2>5. D \in SUBSET (1..n)
    BY <2>1, <2>3
  <2>6. Cardinality(D) <= Cardinality(1..n) /\ IsFiniteSet(D)
    BY <2>4, <2>5, FS_Subset, Zenon
  <2>7. Cardinality(D) \in Nat
    BY <2>6, FS_CardinalityType
  <2>8. i \in 2..n
    BY <2>2, <2>4, <2>6, <2>7
  <2>9. [o EXCEPT ![i - 1] = o[i], ![i] = o[i - 1]] \in Orders
    BY <1>c, <2>0, <2>3, <2>8, OrderMoved
  <2>10. /\ dialog' = [dialog EXCEPT ![p].order = [o EXCEPT ![i - 1] = o[i], ![i] = o[i - 1]]]
         /\ UNCHANGED <<person, roleRows, listed, serving, changes>>
    BY <1>5, <2>0, Zenon DEF MoveRole
  <2> QED
    BY <1>d, <2>9, <2>10
<1> QED
  BY <1>1, <1>2, <1>3, <1>4, <1>5

\* Nobody disables or demotes themselves, an account is deleted by its owner, and the role
\* of the administrators is not deleted.
WellSent(r) ==
    /\ r.op \in {"assign", "disable"} => r.target # r.actor
    /\ r.op = "leave" => r.target = r.actor
    /\ r.op = "delete_role" => \E x \in Roles \ {AdminRole} : r.order = <<x>>

PeopleInv ==
    /\ PeopleTypeOK
    /\ \A r \in serving : WellSent(r)

\* What a step may do to the last administrator.
AdminRule == Administered /\ ~Administered' => \E r \in serving \ serving' : ~Admitted(r)

\* What a request leaves of an account is an account, whose roles exist.
LEMMA AfterTypes ==
  ASSUME Accounts(person, roleRows), NEW r \in Assignment
  PROVE  Accounts([person EXCEPT ![r.target] = After(r)], roleRows)
<1>0. PICK q : q = person[r.target]
  OBVIOUS
<1>1. r.target \in Persons /\ r.order \in Orders
  BY DEF Assignment
<1>2. q \in Person /\ Range(q.roles) \subseteq roleRows
  BY <1>0, <1>1 DEF Accounts
<1>3. PICK a, b, c : /\ a = [q EXCEPT !.roles = r.order] /\ b = [q EXCEPT !.disabled = TRUE]
                     /\ c = [q EXCEPT !.disabled = FALSE]
  BY Zenon
<1>4. /\ a \in Person /\ a.roles = r.order /\ b \in Person /\ b.roles = q.roles
      /\ c \in Person /\ c.roles = q.roles
  BY <1>1, <1>2, <1>3 DEF Person
<1>5. \/ After(r) = a /\ Range(r.order) \subseteq roleRows
      \/ After(r) = q \/ After(r) = b \/ After(r) = c \/ After(r) = Absent
  BY <1>0, <1>3, Zenon DEF After
<1>6. After(r) \in Person /\ Range(After(r).roles) \subseteq roleRows
  <2>1. CASE After(r) = a /\ Range(r.order) \subseteq roleRows
    BY <1>4, <2>1
  <2>2. CASE After(r) = q
    BY <1>2, <2>2
  <2>3. CASE After(r) = b
    BY <1>2, <1>4, <2>3
  <2>4. CASE After(r) = c
    BY <1>2, <1>4, <2>4
  <2>5. CASE After(r) = Absent
    BY <2>5, PeopleConstants
  <2> QED
    BY <1>5, <2>1, <2>2, <2>3, <2>4, <2>5
<1> QED
  BY <1>1, <1>6 DEF Accounts

\* An account without one of its roles.
LEMMA AccountWithout ==
  ASSUME NEW q \in Person, NEW x, NEW z, z = [q EXCEPT !.roles = Without(q.roles, x)]
  PROVE  /\ z \in Person /\ (q.exists => z.exists) /\ (~q.disabled => ~z.disabled)
         /\ Range(z.roles) = Range(q.roles) \ {x}
<1>1. PICK o : o = Without(q.roles, x)
  OBVIOUS
<1>2. o \in Orders /\ Range(o) = Range(q.roles) \ {x}
  BY <1>1, WithoutTypes DEF Person
<1>3. z = [q EXCEPT !.roles = o]
  BY <1>1
<1>4. z \in Person /\ z.exists = q.exists /\ z.disabled = q.disabled /\ z.roles = o
  BY <1>2, <1>3 DEF Person
<1> QED
  BY <1>2, <1>4

\* The accounts and the roles stay as they should be when a request is written.
LEMMA WrittenTypes ==
  ASSUME PeopleInv, NEW r \in serving, RequestWritten(r)
  PROVE  Accounts(person', roleRows')
<1>1. r \in Assignment /\ Accounts(person, roleRows) /\ WellSent(r)
  BY PeopleParts DEF PeopleInv
<1>2. CASE r.op = "delete_role"
  <2>1. PICK x \in Roles \ {AdminRole} : r.order = <<x>>
    BY <1>1, <1>2 DEF WellSent
  <2>2. r.order[1] = x /\ Range(r.order) = {x}
    BY <2>1 DEF Range
  <2>3. roleRows' = roleRows \ {x}
    BY <1>2, <2>2 DEF RequestWritten
  <2>4. person' = [q \in Persons |-> [person[q] EXCEPT !.roles = Without(@, x)]]
    BY <1>2, <2>2, Zenon DEF RequestWritten, PersonAfter
  <2>5. ASSUME NEW p \in Persons
        PROVE  /\ person'[p] \in Person
               /\ Range(person'[p].roles) = Range(person[p].roles) \ {x}
    <3>1. person[p] \in Person
      BY <1>1 DEF Accounts
    <3>2. person'[p] = [person[p] EXCEPT !.roles = Without(person[p].roles, x)]
      BY <2>4, Zenon
    <3> QED
      BY <3>1, <3>2, AccountWithout
  <2>6. person' \in [Persons -> Person]
    BY <2>4, <2>5
  <2>7. Accounts(person', roleRows \ {x})
    BY <1>1, <2>5, <2>6 DEF Accounts
  <2> QED
    BY <2>3, <2>7
<1>3. CASE r.op # "delete_role"
  <2>1. UNCHANGED roleRows
    BY <1>3 DEF RequestWritten
  <2>2. person' = person \/ person' = [person EXCEPT ![r.target] = After(r)]
    BY <1>3, Zenon DEF RequestWritten, PersonAfter
  <2> QED
    BY <1>1, <2>1, <2>2, AfterTypes
<1> QED
  BY <1>2, <1>3

\* A request that would still be admitted when it is written loses nobody the workspace needs.
LEMMA WritingKeepsAdministrator ==
  ASSUME PeopleInv, NEW r \in serving, RequestWritten(r), Administered, Admitted(r)
  PROVE  Administered'
<1>1. /\ r \in Assignment /\ Accounts(person, roleRows) /\ WellSent(r)
      /\ r.op \in PageOps \cup {"leave", "delete_role"} /\ r.actor \in Persons /\ r.target \in Persons
  BY PeopleParts DEF PeopleInv, Assignment
<1>2. person \in [Persons -> Person]
  BY <1>1 DEF Accounts
<1>a. PICK p \in Persons : person[p].exists /\ ~person[p].disabled /\ IsAdmin(p)
  BY DEF Administered
<1>b. ASSUME NEW q \in Persons, person[q].exists, ~person[q].disabled, IsAdmin(q),
             person'[q] = person[q]
      PROVE  Administered'
  BY <1>b DEF Administered, IsAdmin
<1>3. CASE UNCHANGED person
  BY <1>3, <1>a, <1>b
<1>4. CASE r.op = "delete_role"
  <2>1. PICK x \in Roles \ {AdminRole} : r.order = <<x>>
    BY <1>1, <1>4 DEF WellSent
  <2>2. r.order[1] = x
    BY <2>1
  <2>3. person' = [q \in Persons |-> [person[q] EXCEPT !.roles = Without(@, x)]]
    BY <1>4, <2>2, Zenon DEF RequestWritten, PersonAfter
  <2>4. person'[p] = [person[p] EXCEPT !.roles = Without(person[p].roles, x)]
    BY <2>3, Zenon
  <2>5. /\ person'[p].exists /\ ~person'[p].disabled
        /\ Range(person'[p].roles) = Range(person[p].roles) \ {x}
    <3>1. person[p] \in Person
      BY <1>2
    <3> QED
      BY <1>a, <2>4, <3>1, AccountWithout
  <2> QED
    BY <1>a, <2>5 DEF Administered, IsAdmin
<1>5. CASE person' = [person EXCEPT ![r.target] = After(r)] /\ r.op \in {"assign", "disable"}
  <2>1. /\ r.target # r.actor /\ person[r.actor].exists /\ ~person[r.actor].disabled
        /\ IsAdmin(r.actor)
    BY <1>1, <1>5 DEF WellSent, Admitted, Permitted
  <2>2. person'[r.actor] = person[r.actor]
    BY <1>1, <1>2, <1>5, <2>1
  <2> QED
    BY <1>1, <1>b, <2>1, <2>2
<1>6. CASE person' = [person EXCEPT ![r.target] = After(r)] /\ r.op = "enable"
  <2>1. PICK q : q = [person[r.target] EXCEPT !.disabled = FALSE]
    OBVIOUS
  <2>2. After(r) = q
    BY <1>6, <2>1, Zenon DEF After
  <2>3. q.exists = person[r.target].exists /\ ~q.disabled /\ q.roles = person[r.target].roles
    BY <1>1, <1>2, <2>1 DEF Person
  <2>4. person'[p].exists /\ ~person'[p].disabled /\ person'[p].roles = person[p].roles
    BY <1>1, <1>2, <1>6, <1>a, <2>2, <2>3
  <2> QED
    BY <1>a, <2>4 DEF Administered, IsAdmin
<1>7. CASE person' = [person EXCEPT ![r.target] = After(r)] /\ r.op = "leave"
  <2>1. r.target = r.actor
    BY <1>1, <1>7 DEF WellSent
  <2>2. IsAdmin(r.actor) => AnotherAdministrator(r.actor)
    BY <1>7 DEF Admitted, Permitted
  <2>3. PICK q \in Persons \ {r.actor} : person[q].exists /\ ~person[q].disabled /\ IsAdmin(q)
    BY <1>a, <2>2 DEF AnotherAdministrator
  <2>4. person'[q] = person[q]
    BY <1>1, <1>2, <1>7, <2>1, <2>3
  <2> QED
    BY <1>b, <2>3, <2>4
<1>8. \/ UNCHANGED person \/ r.op = "delete_role"
      \/ person' = [person EXCEPT ![r.target] = After(r)]
  BY Zenon DEF RequestWritten, PersonAfter
<1>9. r.op \in {"assign", "disable", "enable", "leave", "delete_role"}
  BY <1>1 DEF PageOps
<1> QED
  BY <1>3, <1>4, <1>5, <1>6, <1>7, <1>8, <1>9

LEMMA PeopleStart == PeopleInit => PeopleInv
BY PeopleTypesStart DEF PeopleInv, PeopleInit

\* Every step of the people's page, and of the server behind it, keeps the invariant, and
\* loses the last administrator only as the rule says.
LEMMA PeopleStep ==
  ASSUME PeopleInv, PeopleNext
  PROVE  PeopleInv' /\ AdminRule
<1>0. /\ Accounts(person, roleRows) /\ Dialogs(dialog) /\ Listing(listed)
      /\ serving \subseteq Assignment /\ changes \in 0..MaxChanges
      /\ \A r \in serving : WellSent(r)
  BY PeopleParts DEF PeopleInv
<1>a. ASSUME Accounts(person', roleRows'), Dialogs(dialog'), Listing(listed'),
             serving' \subseteq Assignment, changes' \in 0..MaxChanges,
             \A r \in serving' : WellSent(r)
      PROVE  PeopleInv'
  <2>1. PeopleTypeOK'
    BY <1>a, PeopleParts DEF PeopleTypeOK, Accounts, Dialogs, Listing
  <2> QED
    BY <1>a, <2>1, Zenon DEF PeopleInv, WellSent
<1>s. ASSUME Spend
      PROVE  changes' \in 0..MaxChanges
  BY <1>0, <1>s, PeopleAssumption DEF Spend
<1>u. ASSUME UNCHANGED person
      PROVE  AdminRule
  BY <1>u DEF AdminRule, Administered, IsAdmin
<1>1. ASSUME NEW r \in Assignment, RequestComesIn(r)
      PROVE  PeopleInv' /\ AdminRule
  <2>0. Accounts(person', roleRows') /\ AdminRule
    BY <1>0, <1>1, <1>u, Zenon DEF RequestComesIn
  <2>1. CASE Admitted(r) /\ Spend /\ serving' = serving \cup {r} /\ UNCHANGED <<listed, dialog>>
    <3>1. r.op \notin PageOps => DeletesAccount(r) \/ DeletesRole(r)
      BY <1>1, Zenon DEF RequestComesIn
    <3>2. WellSent(r)
      BY <1>0, <2>1, <3>1 DEF WellSent, DeletesAccount, DeletesRole, Admitted, PageOps, Accounts
    <3> QED
      BY <1>0, <1>a, <1>s, <2>0, <2>1, <3>2
  <2>2. CASE Rendered(person, roleRows) /\ UNCHANGED <<serving, changes>>
    BY <1>0, <1>a, <2>0, <2>2, RenderedPeople
  <2> QED
    BY <1>1, <2>1, <2>2, Zenon DEF RequestComesIn
<1>2. ASSUME NEW r \in serving, RequestWritten(r)
      PROVE  PeopleInv' /\ AdminRule
  <2>0. r \in Assignment /\ r.target \in Persons /\ r.shown \in Orders
    BY <1>0 DEF Assignment
  <2>1. UNCHANGED changes /\ serving' = serving \ {r}
    BY <1>2, Zenon DEF RequestWritten
  <2>2. AdminRule
    BY <1>2, <2>1, WritingKeepsAdministrator DEF AdminRule
  <2>3. Accounts(person', roleRows')
    BY <1>2, WrittenTypes
  <2>4. CASE UNCHANGED <<listed, dialog>>
    BY <1>0, <1>a, <2>1, <2>2, <2>3, <2>4
  <2>p. r.op \in PageOps => roleRows' = roleRows
    BY <1>2 DEF RequestWritten, PageOps
  <2>5. CASE Rendered(person', roleRows) /\ r.op \in PageOps
    BY <1>0, <1>a, <2>1, <2>2, <2>3, <2>5, <2>p, RenderedPeople
  <2>6. CASE /\ r.op \in PageOps /\ listed' = [people |-> person', roles |-> roleRows]
             /\ dialog' = [dialog EXCEPT ![r.target] = [open |-> FALSE, order |-> r.shown]]
    <3>1. Listing(listed')
      BY <2>3, <2>6, <2>p DEF Listing, Accounts
    <3>2. Dialogs(dialog')
      BY <1>0, <2>0, <2>6 DEF Dialogs
    <3> QED
      BY <1>0, <1>a, <2>1, <2>2, <2>3, <3>1, <3>2
  <2> QED
    BY <1>2, <2>4, <2>5, <2>6, Zenon DEF RequestWritten
<1>p. ASSUME NEW p \in Persons, NEW q \in Person, Range(q.roles) \subseteq roleRows,
             person' = [person EXCEPT ![p] = q], UNCHANGED <<roleRows, listed, dialog, serving>>,
             changes' \in 0..MaxChanges,
             ~person[p].exists \/ (q.exists /\ q.disabled = person[p].disabled
                                   /\ q.roles = person[p].roles)
      PROVE  PeopleInv' /\ AdminRule
  <2>1. Accounts(person', roleRows')
    BY <1>0, <1>p DEF Accounts
  <2>2. Administered => Administered'
    <3> SUFFICES ASSUME Administered
                 PROVE  Administered'
      OBVIOUS
    <3>1. PICK e \in Persons : person[e].exists /\ ~person[e].disabled /\ IsAdmin(e)
      BY DEF Administered
    <3>2. person'[e].exists /\ person'[e].disabled = person[e].disabled
          /\ person'[e].roles = person[e].roles
      BY <1>0, <1>p, <3>1 DEF Accounts
    <3> QED
      BY <3>1, <3>2 DEF Administered, IsAdmin
  <2> QED
    BY <1>0, <1>a, <1>p, <2>1, <2>2 DEF AdminRule
<1>3. ASSUME NEW p \in Persons, Invite(p)
      PROVE  PeopleInv' /\ AdminRule
  <2>1. PICK q : q = [Absent EXCEPT !.exists = TRUE]
    OBVIOUS
  <2>2. q \in Person /\ q.roles = <<>>
    BY <2>1, PeopleConstants DEF Person
  <2>3. Range(q.roles) \subseteq roleRows
    BY <2>2, PeopleConstants
  <2>4. /\ person' = [person EXCEPT ![p] = q] /\ Spend /\ ~person[p].exists
        /\ UNCHANGED <<roleRows, listed, dialog, serving>>
    BY <1>3, <2>1, Zenon DEF Invite
  <2> QED
    BY <1>p, <1>s, <2>2, <2>3, <2>4
<1>4. ASSUME NEW p \in Persons, AcceptInvitation(p)
      PROVE  PeopleInv' /\ AdminRule
  <2>1. PICK q : q = [person[p] EXCEPT !.accepted = TRUE]
    OBVIOUS
  <2>2. person[p] \in Person /\ Range(person[p].roles) \subseteq roleRows
    BY <1>0 DEF Accounts
  <2>3. /\ q \in Person /\ q.roles = person[p].roles /\ q.exists = person[p].exists
        /\ q.disabled = person[p].disabled
    BY <2>1, <2>2 DEF Person
  <2>4. /\ person' = [person EXCEPT ![p] = q] /\ person[p].exists
        /\ UNCHANGED <<roleRows, listed, dialog, serving, changes>>
    BY <1>4, <2>1, Zenon DEF AcceptInvitation
  <2> QED
    BY <1>0, <1>p, <2>2, <2>3, <2>4
<1>5. CASE \/ OpenPeople
           \/ \E p \in Persons :
                \/ ToggleDialog(p)
                \/ \E x \in Roles : AddRole(p, x) \/ RemoveRole(p, x)
                \/ \E i \in 1..Cardinality(Roles) : MoveRole(p, i)
  <2>1. UNCHANGED <<person, serving>>
    BY <1>5 DEF OpenPeople, ToggleDialog, AddRole, RemoveRole, MoveRole
  <2>2. PeopleTypeOK'
    BY <1>5, DialogTypes DEF PeopleInv
  <2>3. PeopleInv'
    BY <1>0, <2>1, <2>2, Zenon DEF PeopleInv, WellSent
  <2> QED
    BY <1>u, <2>1, <2>3
<1> QED
  BY <1>1, <1>2, <1>3, <1>4, <1>5 DEF PeopleNext

\* A workspace of any size, served by any number of workers, loses its last administrator who
\* is not disabled only to a request that would be refused if it were judged when it is
\* written, whoever disables, demotes, deletes and leaves.
THEOREM AdministratorsRemain == Spec => LastAdministratorStays
<1>1. Init => PeopleInv
  BY PeopleStart DEF Init
<1>2. ASSUME PeopleInv, [Next]_vars
      PROVE  PeopleInv' /\ [AdminRule]_peopleVars
  <2>1. CASE UNCHANGED peopleVars
    BY <1>2, <2>1 DEF peopleVars, PeopleInv, PeopleTypeOK, WellSent
  <2>2. CASE PeopleNext
    BY <1>2, <2>2, PeopleStep
  <2> QED
    BY <1>2, <2>1, <2>2 DEF Next, OnlyOn, vars
<1> QED
  BY <1>1, <1>2, PTL DEF Spec, LastAdministratorStays, AdminRule

-----------------------------------------------------------------------------
(* SQL policy                                                              *)

\* A candidate that is resolved as denied points to the denial of this very statement: no
\* other decision writes to that rule, because a rule of another statement, or of the
\* shape, has another key.
SqlInv ==
    /\ rules \in [DOMAIN rules -> Rule]
    /\ resolution \in [Candidates -> Resolutions]
    /\ DOMAIN resolvedRule = Candidates
    /\ \A s \in Candidates : resolution[s] = "denied" =>
          /\ resolvedRule[s] \in DOMAIN rules
          /\ resolvedRule[s].match = s
          /\ rules[resolvedRule[s]].effect = "deny"

LEMMA DecisionKeepsDenials ==
  ASSUME SqlInv, NEW s \in Candidates, NEW effect \in {"allow", "deny"}, Decide(s, effect)
  PROVE  SqlInv'
<1> DEFINE match == IF effect = "deny" \/ review[s].match = "exact" THEN s ELSE Shape
           key == [match |-> match, scope |-> review[s].scope]
           row == [effect |-> effect, on |-> TRUE]
           outcome == CASE effect = "deny" -> "denied" [] match = Shape -> "allowed_shape"
                        [] OTHER -> "allowed_exact"
<1>1. /\ rules' = [k \in DOMAIN rules \cup {key} |-> IF k = key THEN row ELSE rules[k]]
      /\ resolution' = [resolution EXCEPT ![s] = outcome]
      /\ resolvedRule' = [resolvedRule EXCEPT ![s] = key]
  BY DEF Decide
<1>2. /\ row \in Rule /\ outcome \in Resolutions
      /\ outcome = "denied" => effect = "deny"
  BY DEF Rule, Resolutions
<1>3. /\ DOMAIN rules' = DOMAIN rules \cup {key}
      /\ \A k \in DOMAIN rules' : rules'[k] = IF k = key THEN row ELSE rules[k]
  BY <1>1
<1>4. rules' \in [DOMAIN rules' -> Rule]
  BY <1>1, <1>2 DEF SqlInv
<1>5. resolution' \in [Candidates -> Resolutions] /\ DOMAIN resolvedRule' = Candidates
  BY <1>1, <1>2 DEF SqlInv
<1>6. ASSUME NEW t \in Candidates, resolution'[t] = "denied"
      PROVE  /\ resolvedRule'[t] \in DOMAIN rules'
             /\ resolvedRule'[t].match = t
             /\ rules'[resolvedRule'[t]].effect = "deny"
  <2>1. CASE t = s
    <3>1. resolvedRule'[t] = key /\ effect = "deny"
      BY <1>1, <1>2, <1>6, <2>1 DEF SqlInv
    <3> QED
      BY <1>3, <2>1, <3>1
  <2>2. CASE t # s
    <3>1. resolvedRule'[t] = resolvedRule[t] /\ resolution[t] = "denied"
      BY <1>1, <1>6, <2>2 DEF SqlInv
    <3>2. resolvedRule[t] \in DOMAIN rules /\ resolvedRule[t].match = t
      BY <3>1 DEF SqlInv
    <3>3. key.match # t
      BY <2>2, SqlPolicyAssumption
    <3>4. resolvedRule[t] # key
      BY <3>2, <3>3
    <3> QED
      BY <1>3, <3>1, <3>2, <3>4 DEF SqlInv
  <2> QED
    BY <2>1, <2>2
<1> QED
  BY <1>4, <1>5, <1>6 DEF SqlInv

LEMMA SqlStep ==
  ASSUME SqlInv, SqlNext
  PROVE  SqlInv'
<1>1. CASE UNCHANGED <<rules, resolution, resolvedRule>>
  BY <1>1 DEF SqlInv
<1>2. ASSUME NEW s \in Candidates, Dismiss(s)
      PROVE  SqlInv'
  <2>1. /\ resolution' = [resolution EXCEPT ![s] = "dismissed"]
        /\ resolvedRule' = [resolvedRule EXCEPT ![s] = NoKey]
        /\ rules' = rules
    BY <1>2 DEF Dismiss
  <2> QED
    BY <2>1 DEF SqlInv, Resolutions
<1>3. ASSUME NEW s \in Candidates, NEW e \in {"allow", "deny"}, Decide(s, e)
      PROVE  SqlInv'
  BY <1>3, DecisionKeepsDenials
<1>4. ASSUME NEW k \in DOMAIN rules, SetRuleEnabled(k)
      PROVE  SqlInv'
  <2>1. /\ rules' = [rules EXCEPT ![k].on = ~sqlView.rules[k]]
        /\ resolution' = resolution /\ resolvedRule' = resolvedRule
    BY <1>4 DEF SetRuleEnabled
  <2>2. PICK b \in BOOLEAN : b = ~sqlView.rules[k]
    OBVIOUS
  <2>3. rules' = [rules EXCEPT ![k] = [rules[k] EXCEPT !.on = b]]
    BY <2>1, <2>2
  <2>4. [rules[k] EXCEPT !.on = b] \in Rule /\ [rules[k] EXCEPT !.on = b].effect = rules[k].effect
    BY DEF SqlInv, Rule
  <2>5. /\ rules' \in [DOMAIN rules -> Rule] /\ DOMAIN rules' = DOMAIN rules
        /\ \A j \in DOMAIN rules : rules'[j].effect = rules[j].effect
    BY <2>3, <2>4 DEF SqlInv
  <2> QED
    BY <2>1, <2>5 DEF SqlInv
<1>5. CASE \/ \E s \in Candidates, c \in Connections : Observe(s, c)
           \/ LoadSqlPolicy
           \/ \E f \in Families : ToggleFamily(f)
           \/ ToggleFallback \/ SaveSettings
           \/ \E s \in Candidates :
                \/ \E m \in {"exact", Shape} : ChooseMatch(s, m)
                \/ \E x \in Scopes : ChooseScope(s, x)
  BY <1>1, <1>5 DEF Observe, LoadSqlPolicy, ToggleFamily, ToggleFallback, SaveSettings, ChooseMatch,
                    ChooseScope
<1> QED
  BY <1>2, <1>3, <1>4, <1>5 DEF SqlNext

\* A statement that an administrator has denied stays blocked wherever its rule applies, for
\* any number of statements, rules, scopes and pages that are out of date.
THEOREM DenialsStand == Spec => []DenialStands
<1>1. Init => SqlInv
  BY DEF Init, SqlInit, SqlInv, Resolutions
<1>2. ASSUME SqlInv, [Next]_vars
      PROVE  SqlInv'
  <2>1. CASE UNCHANGED sqlVars
    BY <1>2, <2>1 DEF sqlVars, SqlInv
  <2>2. CASE SqlNext
    BY <1>2, <2>2, SqlStep
  <2> QED
    BY <1>2, <2>1, <2>2 DEF Next, OnlyOn, vars
<1>3. ASSUME SqlInv, NEW s \in Candidates, resolution[s] = "denied", rules[resolvedRule[s]].on,
             NEW c \in Connections, InScope(resolvedRule[s].scope, c)
      PROVE  Assess(s, c) = "blocked"
  <2>1. resolvedRule[s] \in Matching(s, c) /\ rules[resolvedRule[s]].effect = "deny"
    BY <1>3 DEF SqlInv, Matching
  <2>2. MatchingRule(s, c) = "deny"
    BY <2>1 DEF MatchingRule
  <2> QED
    BY <2>2 DEF Assess
<1>4. SqlInv => DenialStands
  BY <1>3 DEF DenialStands
<1> QED
  BY <1>1, <1>2, <1>4, PTL DEF Spec

-----------------------------------------------------------------------------
(* The request editor                                                      *)

\* A preview request that still counts is about the statements on display: the cleanup of
\* the effect disowns the others.
EditorInv ==
    /\ EditorTypeOK
    /\ asking \subseteq [signature : Seq(Statement), active : BOOLEAN]
    /\ \A r \in asking : r.active => r.signature = statements
    /\ WriteOnlyWherePermitted
    /\ AnswerStaysOnDisplay

\* A list of statements that the form can show.
FormList(ss) == ss \in Seq(Statement) /\ Len(ss) \in 1..MaxStatements

LEMMA EditorNumbers ==
  /\ MaxStatements \in Nat /\ 1 <= MaxStatements /\ MaxRequestEdits \in Nat
  /\ Zone.change \in Int /\ Zone.before \in Int /\ Zone.after \in Int
  /\ \A t \in Times : t \in Int
<1>1. /\ MaxStatements \in Nat \ {0} /\ MaxRequestEdits \in Nat
      /\ Zone \in [change : Int, before : Int, after : Int] /\ Times \subseteq Int
  BY EditorAssumption, Zenon
<1>2. Zone.change \in Int /\ Zone.before \in Int /\ Zone.after \in Int
  BY <1>1
<1>3. MaxStatements \in Nat /\ 1 <= MaxStatements
  BY <1>1
<1> QED
  BY <1>1, <1>2, <1>3

LEMMA SingleStatement ==
  ASSUME NEW s \in Statement
  PROVE  FormList(<<s>>)
<1>1. <<s>> \in Seq(Statement) /\ Len(<<s>>) = 1
  OBVIOUS
<1>2. 1 \in 1..MaxStatements
  BY EditorNumbers
<1> QED
  BY <1>1, <1>2 DEF FormList

LEMMA FormListOfOne ==
  ASSUME NEW sql \in Sqls \cup {""}, NEW c \in Targets \cup {NoConnection}
  PROVE  FormList(<<[sql |-> sql, conn |-> c]>>)
<1>1. [sql |-> sql, conn |-> c] \in Statement
  BY DEF Statement
<1> QED
  BY <1>1, SingleStatement

LEMMA DefaultConnectionType == DefaultConnection \in Targets \cup {NoConnection}
<1>1. Cardinality(Targets) = 1 => Targets # {}
  BY FS_EmptySet
<1> QED
  BY <1>1 DEF DefaultConnection

\* Insertions and removals give lists the form can show.
LEMMA EditedLists ==
  ASSUME NEW ss, FormList(ss), NEW i \in DOMAIN ss
  PROVE  /\ ss[i] \in Statement
         /\ \A s \in Statement : FormList([ss EXCEPT ![i] = s])
         /\ \A s \in Statement : Len(ss) < MaxStatements =>
               FormList(SubSeq(ss, 1, i) \o <<s>>
                          \o SubSeq(ss, i + 1, Len(ss)))
         /\ Len(ss) > 1 =>
               FormList(SubSeq(ss, 1, i - 1)
                          \o SubSeq(ss, i + 1, Len(ss)))
<1> DEFINE n == Len(ss)
<1>0. n \in Nat /\ MaxStatements \in Nat /\ i \in 1..n /\ n <= MaxStatements
      /\ ss \in Seq(Statement)
  <2>1. ss \in Seq(Statement) /\ n \in 1..MaxStatements
    BY DEF FormList
  <2>2. DOMAIN ss = 1..n /\ n \in Nat
    BY <2>1
  <2> QED
    BY <2>1, <2>2, EditorNumbers
<1> HIDE DEF n
<1>1. \A j \in 1..n : ss[j] \in Statement
  BY <1>0, ElementOfSeq DEF n
<1>2. ASSUME NEW s \in Statement
      PROVE  FormList([ss EXCEPT ![i] = s])
  BY <1>0, ExceptSeq DEF FormList, n
<1>3. /\ SubSeq(ss, 1, i) \in Seq(Statement) /\ Len(SubSeq(ss, 1, i)) = i
  BY <1>0, <1>1, SubSeqProperties
<1>4. /\ SubSeq(ss, 1, i - 1) \in Seq(Statement) /\ Len(SubSeq(ss, 1, i - 1)) = i - 1
  <2>1. \A j \in 1..(i - 1) : ss[j] \in Statement
    BY <1>0, <1>1
  <2>2. i - 1 \in Int
    BY <1>0
  <2> QED
    BY <1>0, <2>1, <2>2, SubSeqProperties
<1>5. /\ SubSeq(ss, i + 1, n) \in Seq(Statement)
      /\ Len(SubSeq(ss, i + 1, n)) = n - i
  <2>1. \A j \in (i + 1)..n : ss[j] \in Statement
    BY <1>0, <1>1
  <2>2. i + 1 \in Int
    BY <1>0
  <2> QED
    BY <1>0, <2>1, <2>2, SubSeqProperties
<1>6. ASSUME NEW s \in Statement, n < MaxStatements
      PROVE  FormList(SubSeq(ss, 1, i) \o <<s>> \o SubSeq(ss, i + 1, n))
  <2>1. <<s>> \in Seq(Statement) /\ Len(<<s>>) = 1
    OBVIOUS
  <2>2. /\ SubSeq(ss, 1, i) \o <<s>> \in Seq(Statement)
        /\ Len(SubSeq(ss, 1, i) \o <<s>>) = i + 1
    BY <1>3, <2>1, ConcatProperties
  <2> DEFINE a == SubSeq(ss, 1, i) \o <<s>>
             b == SubSeq(ss, i + 1, n)
  <2> HIDE DEF a, b
  <2>3. a \o b \in Seq(Statement) /\ Len(a \o b) = Len(a) + Len(b)
    BY <1>5, <2>2, ConcatProperties DEF a, b
  <2>4. Len(a \o b) = n + 1
    BY <1>0, <1>5, <2>2, <2>3 DEF a, b
  <2> QED
    BY <1>0, <1>6, <2>3, <2>4 DEF FormList, a, b
<1>7. ASSUME n > 1
      PROVE  FormList(SubSeq(ss, 1, i - 1) \o SubSeq(ss, i + 1, n))
  <2> DEFINE a == SubSeq(ss, 1, i - 1)
             b == SubSeq(ss, i + 1, n)
  <2> HIDE DEF a, b
  <2>3. a \o b \in Seq(Statement) /\ Len(a \o b) = Len(a) + Len(b)
    BY <1>4, <1>5, ConcatProperties DEF a, b
  <2>4. Len(a \o b) = n - 1
    BY <1>0, <1>4, <1>5, <2>3 DEF a, b
  <2>5. n - 1 \in 1..MaxStatements
    BY <1>0, <1>7
  <2>6. FormList(a \o b)
    BY <2>3, <2>4, <2>5 DEF FormList
  <2> QED
    BY <2>6 DEF a, b
<1> QED
  BY <1>0, <1>1, <1>2, <1>6, <1>7 DEF n

LEMMA EditorStart == EditorInit => EditorInv
<1> SUFFICES ASSUME EditorInit PROVE EditorInv
  OBVIOUS
<1>1. \A t \in Times : ToLocal(t) \in Int
  BY EditorNumbers DEF ToLocal, Offset
<1>2. /\ FormList(statements) /\ selected \subseteq Targets
      /\ schedule \in [on : BOOLEAN, at : SUBSET Int]
      /\ origin \in {"new", "copy", "draft", "submitted"}
      /\ kind \in {"single_execution", "query_access"}
      /\ transport \in {"browser", "native_proxy"} /\ mode \in {"read", "write"}
  <2>0. Unset \in [on : BOOLEAN, at : SUBSET Int]
    BY DEF Unset
  <2>1. InitForm
    BY DEF EditorInit
  <2>2. CASE origin = "new"
    BY <2>0, <2>1, <2>2, FormListOfOne, DefaultConnectionType DEF InitForm
  <2>3. CASE origin # "new" /\ kind = "single_execution"
    <3>1. PICK s \in Sqls, c \in Targets \cup {NoConnection} :
             /\ c = NoConnection => origin = "copy"
             /\ statements = <<[sql |-> s, conn |-> c]>>
             /\ selected = IF origin = "copy" THEN {} ELSE {c}
      BY <2>1, <2>3 DEF InitForm
    <3>2. schedule \in [on : BOOLEAN, at : SUBSET Int]
      <4>1. \/ schedule = Unset
            \/ \E t \in Times : schedule = [on |-> TRUE, at |-> {ToLocal(t)}]
        BY <2>1, <2>3 DEF InitForm
      <4>2. \A x \in Int : [on |-> TRUE, at |-> {x}] \in [on : BOOLEAN, at : SUBSET Int]
        OBVIOUS
      <4> QED
        BY <1>1, <2>0, <4>1, <4>2
    <3>3. FormList(statements)
      BY <3>1, FormListOfOne
    <3>4. selected \subseteq Targets
      BY <3>1
    <3> QED
      BY <2>1, <2>3, <3>2, <3>3, <3>4 DEF InitForm
  <2>4. CASE origin # "new" /\ kind # "single_execution"
    <3>1. statements = <<[sql |-> "", conn |-> NoConnection]>>
      BY <2>1, <2>4 DEF InitForm
    <3>2. FormList(statements)
      BY <3>1, FormListOfOne
    <3> QED
      BY <2>0, <2>1, <2>4, <3>2 DEF InitForm
  <2> QED
    BY <2>2, <2>3, <2>4
<1>3. EditorTypeOK
  <2>1. timer \in BOOLEAN /\ heard \in BOOLEAN /\ sending \in BOOLEAN
    <3>1. (kind = "single_execution" /\ Inputs(statements) # {}) \in BOOLEAN
      OBVIOUS
    <3>2. (origin \in {"draft", "submitted"}) \in BOOLEAN
      OBVIOUS
    <3> QED
      BY <3>1, <3>2, Zenon DEF EditorInit
  <2>2. policy \in [Sqls -> Verdicts]
    BY EditorAssumption DEF EditorInit
  <2>3. edits \in 0..MaxRequestEdits
    BY EditorNumbers DEF EditorInit
  <2> QED
    BY <1>2, <2>1, <2>2, <2>3 DEF EditorTypeOK, FormList
<1>4. WriteOnlyWherePermitted
  BY DEF EditorInit, InitForm, WriteOnlyWherePermitted, Writable, CopiedAccess
<1>5. AnswerStaysOnDisplay
  BY DEF EditorInit, AnswerStaysOnDisplay, NoAnswer
<1> QED
  BY <1>3, <1>4, <1>5 DEF EditorInv, EditorInit

\* The cleanup of the effect disowns what was asked.
LEMMA EffectDisowns ==
  ASSUME EditorInv, NEW k, NEW ss, Effect(k, ss)
  PROVE  /\ asking' \subseteq [signature : Seq(Statement), active : BOOLEAN]
         /\ \A r \in asking' : ~r.active
         /\ timer' \in BOOLEAN /\ heard' = FALSE
<1>1. \A r \in asking : /\ [r EXCEPT !.active = FALSE] \in [signature : Seq(Statement), active : BOOLEAN]
                        /\ ~[r EXCEPT !.active = FALSE].active
  BY DEF EditorInv
<1> QED
  BY <1>1 DEF Effect

\* Every edit of the statements.
LEMMA SettingStatements ==
  ASSUME EditorInv, NEW ss, FormList(ss), SetStatements(ss)
  PROVE  EditorInv'
<1>1. /\ kind = "single_execution" /\ statements' = ss
      /\ UNCHANGED <<origin, kind, transport, selected, mode, schedule, snapshot, policy, sending>>
  BY DEF SetStatements
<1>2. edits' \in 0..MaxRequestEdits
  BY EditorNumbers DEF SetStatements, EditingRequest, EditorInv, EditorTypeOK
<1>3. CASE ss = statements
  <2>1. UNCHANGED <<timer, asking, heard, statements>>
    BY <1>1, <1>3 DEF SetStatements
  <2> QED
    BY <1>1, <1>2, <2>1 DEF EditorInv, EditorTypeOK, WriteOnlyWherePermitted, AnswerStaysOnDisplay
<1>4. CASE ss # statements
  <2>1. /\ asking' \subseteq [signature : Seq(Statement), active : BOOLEAN]
        /\ \A r \in asking' : ~r.active
        /\ timer' \in BOOLEAN /\ heard' = FALSE
    BY <1>4, EffectDisowns DEF SetStatements
  <2>2. EditorTypeOK'
    BY <1>1, <1>2, <2>1 DEF EditorInv, EditorTypeOK, FormList
  <2> QED
    BY <1>1, <2>1, <2>2 DEF EditorInv, WriteOnlyWherePermitted, AnswerStaysOnDisplay
<1> QED
  BY <1>3, <1>4

LEMMA ListEditing ==
  ASSUME EditorInv, EditStatements
  PROVE  EditorInv'
<1>0. FormList(statements)
  BY DEF EditorInv, EditorTypeOK, FormList
<1>1. PICK i \in DOMAIN statements :
        \/ \E sql \in Sqls \cup {""} : UpdateStatement(i, sql)
        \/ \E c \in Targets : UpdateStatementConnection(i, c)
        \/ InsertStatementAfter(i)
        \/ RemoveStatement(i)
        \/ \E j \in DOMAIN statements : MoveStatement(i, j)
  BY DEF EditStatements
<1>2. statements[i] \in Statement
  BY <1>0, <1>1, EditedLists
<1>3. ASSUME NEW sql \in Sqls \cup {""}, UpdateStatement(i, sql)
      PROVE  EditorInv'
  <2>1. [statements[i] EXCEPT !.sql = sql] \in Statement
    BY <1>2 DEF Statement
  <2>2. FormList([statements EXCEPT ![i] = [statements[i] EXCEPT !.sql = sql]])
    BY <1>0, <1>1, <2>1, EditedLists
  <2> QED
    BY <1>3, <2>2, SettingStatements DEF UpdateStatement
<1>4. ASSUME NEW c \in Targets, UpdateStatementConnection(i, c)
      PROVE  EditorInv'
  <2>1. [statements[i] EXCEPT !.conn = c] \in Statement
    BY <1>2 DEF Statement
  <2>2. FormList([statements EXCEPT ![i] = [statements[i] EXCEPT !.conn = c]])
    BY <1>0, <1>1, <2>1, EditedLists
  <2> QED
    BY <1>4, <2>2, SettingStatements DEF UpdateStatementConnection
<1>5. CASE InsertStatementAfter(i)
  <2>1. [sql |-> "", conn |-> statements[i].conn] \in Statement
    BY <1>2 DEF Statement
  <2>2. FormList(SubSeq(statements, 1, i) \o <<[sql |-> "", conn |-> statements[i].conn]>>
                   \o SubSeq(statements, i + 1, Len(statements)))
    BY <1>0, <1>1, <1>5, <2>1, EditedLists DEF InsertStatementAfter
  <2> QED
    BY <1>5, <2>2, SettingStatements DEF InsertStatementAfter
<1>6. CASE RemoveStatement(i)
  <2>1. FormList(SubSeq(statements, 1, i - 1) \o SubSeq(statements, i + 1, Len(statements)))
    BY <1>0, <1>1, <1>6, EditedLists DEF RemoveStatement
  <2> QED
    BY <1>6, <2>1, SettingStatements DEF RemoveStatement
<1>7. ASSUME NEW j \in DOMAIN statements, MoveStatement(i, j)
      PROVE  EditorInv'
  <2>1. FormList([statements EXCEPT ![i] = statements[j], ![j] = statements[i]])
    <3>1. PICK ss : ss = [statements EXCEPT ![i] = statements[j]]
      OBVIOUS
    <3>2. statements[j] \in Statement
      BY <1>0, EditedLists
    <3>3. FormList(ss) /\ DOMAIN ss = DOMAIN statements
      BY <1>0, <1>1, <3>1, <3>2, EditedLists
    <3>4. FormList([ss EXCEPT ![j] = statements[i]])
      BY <1>2, <3>3, EditedLists
    <3> QED
      BY <3>1, <3>4
  <2> QED
    BY <1>7, <2>1, SettingStatements DEF MoveStatement
<1> QED
  BY <1>1, <1>3, <1>4, <1>5, <1>6, <1>7

\* The choice of workflow, connections and access level.
LEMMA AccessEditing ==
  ASSUME EditorInv, EditAccess
  PROVE  EditorInv'
<1>1. ASSUME NEW k \in {"single_execution", "query_access"},
             NEW tr \in {"browser", "native_proxy"}, SelectWorkflow(k, tr)
      PROVE  EditorInv'
  <2>1. /\ kind' = k /\ transport' = tr
        /\ UNCHANGED <<origin, statements, schedule, snapshot, policy, sending>>
        /\ IF k = "query_access" THEN selected' = {} /\ mode' = "read"
                                 ELSE UNCHANGED <<selected, mode>>
    BY <1>1 DEF SelectWorkflow
  <2>2. edits' \in 0..MaxRequestEdits
    BY <1>1, EditorNumbers DEF SelectWorkflow, EditingRequest, EditorInv, EditorTypeOK
  <2>3. WriteOnlyWherePermitted'
    BY <2>1 DEF WriteOnlyWherePermitted
  <2>4. selected' \subseteq Targets /\ mode' \in {"read", "write"}
    BY <2>1 DEF EditorInv, EditorTypeOK
  <2>5. CASE k = kind
    <3>1. UNCHANGED <<timer, asking, heard>>
      BY <1>1, <2>5 DEF SelectWorkflow
    <3> QED
      BY <2>1, <2>2, <2>3, <2>4, <3>1 DEF EditorInv, EditorTypeOK, AnswerStaysOnDisplay
  <2>6. CASE k # kind
    <3>1. /\ asking' \subseteq [signature : Seq(Statement), active : BOOLEAN]
          /\ \A r \in asking' : ~r.active
          /\ timer' \in BOOLEAN /\ heard' = FALSE
      BY <1>1, <2>6, EffectDisowns DEF SelectWorkflow
    <3>2. EditorTypeOK'
      BY <2>1, <2>2, <2>4, <3>1 DEF EditorInv, EditorTypeOK
    <3> QED
      BY <2>3, <3>1, <3>2 DEF EditorInv, AnswerStaysOnDisplay
  <2> QED
    BY <2>5, <2>6
<1>2. ASSUME NEW cs \in SUBSET Targets, SelectConnections(cs)
      PROVE  EditorInv'
  <2>1. /\ selected' = cs
        /\ mode' = IF (transport = "native_proxy" /\ cs = {}) \/ ~(cs \subseteq Writable)
                   THEN "read" ELSE mode
        /\ UNCHANGED <<origin, kind, transport, statements, schedule, previewVars, policy, sending>>
    BY <1>2 DEF SelectConnections
  <2>2. edits' \in 0..MaxRequestEdits
    BY <1>2, EditorNumbers DEF SelectConnections, EditingRequest, EditorInv, EditorTypeOK
  <2>3. WriteOnlyWherePermitted'
    BY <2>1 DEF WriteOnlyWherePermitted, Writable
  <2>4. EditorTypeOK'
    BY <2>1, <2>2 DEF EditorInv, EditorTypeOK, previewVars
  <2> QED
    BY <2>1, <2>3, <2>4 DEF EditorInv, AnswerStaysOnDisplay, previewVars
<1>3. ASSUME NEW m \in {"read", "write"}, SelectMode(m)
      PROVE  EditorInv'
  <2>1. /\ mode' = m /\ (m = "write" => selected \subseteq Writable)
        /\ UNCHANGED <<origin, kind, transport, selected, statements, schedule, previewVars,
                       policy, sending>>
    BY <1>3 DEF SelectMode, CanRequestWriteSession
  <2>2. edits' \in 0..MaxRequestEdits
    BY <1>3, EditorNumbers DEF SelectMode, EditingRequest, EditorInv, EditorTypeOK
  <2>3. WriteOnlyWherePermitted'
    BY <2>1 DEF WriteOnlyWherePermitted, Writable
  <2>4. EditorTypeOK'
    BY <2>1, <2>2 DEF EditorInv, EditorTypeOK, previewVars
  <2> QED
    BY <2>1, <2>3, <2>4 DEF EditorInv, AnswerStaysOnDisplay, previewVars
<1> QED
  BY <1>1, <1>2, <1>3 DEF EditAccess, ChooseWorkflow

LEMMA RequestEditorStep ==
  ASSUME EditorInv, EditorNext
  PROVE  EditorInv'
<1>1. CASE Ask
  <2>1. /\ asking' = asking \cup {[signature |-> statements, active |-> TRUE]} /\ timer' = FALSE
        /\ UNCHANGED <<origin, formVars, snapshot, heard, policy, sending, edits>>
    BY <1>1 DEF Ask
  <2>2. EditorTypeOK'
    BY <2>1 DEF EditorInv, EditorTypeOK, formVars
  <2>3. [signature |-> statements, active |-> TRUE] \in [signature : Seq(Statement), active : BOOLEAN]
    BY DEF EditorInv, EditorTypeOK
  <2>4. statements' = statements
    BY <2>1 DEF formVars
  <2>5. /\ asking' \subseteq [signature : Seq(Statement), active : BOOLEAN]
        /\ \A r \in asking' : r.active => r.signature = statements'
    <3> SUFFICES ASSUME NEW r \in asking'
                 PROVE  /\ r \in [signature : Seq(Statement), active : BOOLEAN]
                        /\ r.active => r.signature = statements'
      OBVIOUS
    <3>1. CASE r \in asking
      BY <2>4, <3>1 DEF EditorInv
    <3>2. CASE r = [signature |-> statements, active |-> TRUE]
      <4>1. r.signature = statements
        BY <3>2
      <4> QED
        BY <2>3, <2>4, <3>2, <4>1
    <3> QED
      BY <2>1, <3>1, <3>2
  <2> QED
    BY <2>1, <2>2, <2>5 DEF EditorInv, WriteOnlyWherePermitted, Writable, AnswerStaysOnDisplay,
                            formVars
<1>2. ASSUME NEW r \in asking, Answer(r)
      PROVE  EditorInv'
  <2>1. /\ asking' = asking \ {r}
        /\ UNCHANGED <<origin, formVars, timer, policy, sending, edits>>
    BY <1>2 DEF Answer
  <2>2. heard' \in BOOLEAN /\ AnswerStaysOnDisplay'
    <3>1. CASE r.active
      <4>1. r.signature = statements
        BY <3>1 DEF EditorInv
      <4>2. snapshot'.signature = r.signature /\ heard' = (heard \/ r.signature = statements)
        BY <1>2, <3>1 DEF Answer
      <4>3. statements' = statements
        BY <2>1 DEF formVars
      <4>4. heard' = TRUE
        BY <4>1, <4>2
      <4> QED
        BY <4>1, <4>2, <4>3, <4>4 DEF AnswerStaysOnDisplay
    <3>2. CASE ~r.active
      BY <1>2, <2>1, <3>2 DEF Answer, EditorInv, EditorTypeOK, AnswerStaysOnDisplay, formVars
    <3> QED
      BY <3>1, <3>2
  <2>3. EditorTypeOK'
    BY <2>1, <2>2 DEF EditorInv, EditorTypeOK, formVars
  <2> QED
    BY <2>1, <2>2, <2>3 DEF EditorInv, WriteOnlyWherePermitted, Writable, formVars
<1>3. ASSUME NEW r \in asking, Fail(r)
      PROVE  EditorInv'
  BY <1>3 DEF Fail, EditorInv, EditorTypeOK, WriteOnlyWherePermitted, Writable,
              AnswerStaysOnDisplay, formVars
<1>4. CASE EditSchedule
  <2>1. PICK on \in BOOLEAN, at \in SUBSET Int : SetSchedule(on, at)
    BY <1>4, EditorNumbers DEF EditSchedule, EditorInv, EditorTypeOK
  <2>2. edits' \in 0..MaxRequestEdits
    BY <2>1, EditorNumbers DEF SetSchedule, EditingRequest, EditorInv, EditorTypeOK
  <2>3. EditorTypeOK'
    BY <2>1, <2>2 DEF SetSchedule, EditorInv, EditorTypeOK, previewVars
  <2> QED
    BY <2>1, <2>3 DEF SetSchedule, EditorInv, WriteOnlyWherePermitted, Writable,
                      AnswerStaysOnDisplay, previewVars
<1>5. ASSUME NEW intent, Send(intent) \/ Refused
      PROVE  EditorInv'
  <2>1. sending' \in BOOLEAN /\ UNCHANGED <<origin, formVars, previewVars, policy, edits>>
    BY <1>5 DEF Send, Refused
  <2> QED
    BY <2>1 DEF EditorInv, EditorTypeOK, WriteOnlyWherePermitted, Writable,
                AnswerStaysOnDisplay, formVars, previewVars
<1>6. ASSUME NEW sql \in Sqls, NEW v \in Verdicts, ChangePolicy(sql, v)
      PROVE  EditorInv'
  <2>1. policy' \in [Sqls -> Verdicts] /\ UNCHANGED <<origin, formVars, previewVars, sending>>
    BY <1>6 DEF ChangePolicy, EditorInv, EditorTypeOK
  <2>2. edits' \in 0..MaxRequestEdits
    BY <1>6, EditorNumbers DEF ChangePolicy, EditingRequest, EditorInv, EditorTypeOK
  <2> QED
    BY <2>1, <2>2 DEF EditorInv, EditorTypeOK, WriteOnlyWherePermitted, Writable,
                      AnswerStaysOnDisplay, formVars, previewVars
<1> QED
  BY <1>1, <1>2, <1>3, <1>4, <1>5, <1>6, ListEditing, AccessEditing DEF EditorNext, Previewing

\* Looking the offset up twice, at the local time read as UTC and at the instant that
\* gives, finds the instant of every local time that exists, for any offsets and any
\* instant at which they change, whether the clocks go forward or back.
LEMMA LocalTimeReadsBack ==
  ASSUME NEW t \in Int, ~Skipped(t)
  PROVE  ToLocal(ToInstant(t)) = t
<1> DEFINE c == Zone.change
           b == Zone.before
           a == Zone.after
<1>1. c \in Int /\ b \in Int /\ a \in Int
  BY EditorNumbers
<1>2. \A x \in Int : Offset(x) = IF x < c THEN b ELSE a
  BY DEF Offset
<1>3. ~(c + b <= t /\ t < c + a)
  BY DEF Skipped
<1>4. ToInstant(t) = t - Offset(t - Offset(t)) /\ ToLocal(ToInstant(t)) = ToInstant(t) + Offset(ToInstant(t))
  BY DEF ToInstant, ToLocal
<1> HIDE DEF c, b, a
<1>5. CASE t < c
  <2>1. Offset(t) = b /\ t - b \in Int
    BY <1>1, <1>2, <1>5
  <2>2. CASE t - b < c
    BY <1>1, <1>2, <1>4, <2>1, <2>2
  <2>3. CASE ~(t - b < c)
    BY <1>1, <1>2, <1>3, <1>4, <2>1, <2>3
  <2> QED
    BY <2>2, <2>3
<1>6. CASE ~(t < c)
  <2>1. Offset(t) = a /\ t - a \in Int
    BY <1>1, <1>2, <1>6
  <2>2. CASE t - a < c
    BY <1>1, <1>2, <1>3, <1>4, <2>1, <2>2
  <2>3. CASE ~(t - a < c)
    BY <1>1, <1>2, <1>4, <2>1, <2>3
  <2> QED
    BY <2>2, <2>3
<1> QED
  BY <1>5, <1>6

LEMMA EditorInConsole ==
  ASSUME EditorInv, [Next]_vars
  PROVE  EditorInv'
<1>1. CASE UNCHANGED editorVars
  BY <1>1 DEF editorVars, EditorInv, EditorTypeOK, WriteOnlyWherePermitted, Writable,
              AnswerStaysOnDisplay
<1>2. CASE EditorNext
  BY <1>2, RequestEditorStep
<1> QED
  BY <1>1, <1>2 DEF Next, OnlyOn, vars

\* Write access is only asked for on connections that permit it over the chosen transport,
\* for any catalogue of connections and any sequence of changes of the form.
THEOREM WriteAccessIsPermitted == Spec => []WriteOnlyWherePermitted
<1>1. Init => EditorInv
  BY EditorStart DEF Init
<1>2. EditorInv => WriteOnlyWherePermitted
  BY DEF EditorInv
<1> QED
  BY <1>1, <1>2, EditorInConsole, PTL DEF Spec

\* A late answer of the policy preview never displaces the one for the statements on display,
\* for any number of requests in flight that are answered in any order or not at all.
THEOREM LateAnswersAreIgnored == Spec => []AnswerStaysOnDisplay
<1>1. Init => EditorInv
  BY EditorStart DEF Init
<1>2. EditorInv => AnswerStaysOnDisplay
  BY DEF EditorInv
<1> QED
  BY <1>1, <1>2, EditorInConsole, PTL DEF Spec

\* The instant that is sent for a scheduled time reads back as the time that was typed, in
\* every zone, on both sides of a change of its offset, unless the clocks skip that time.
THEOREM SchedulesReadBack == Spec => []ScheduledTimeReadsBack
<1>1. Init => EditorInv
  BY EditorStart DEF Init
<1>2. EditorInv => ScheduledTimeReadsBack
  <2> SUFFICES ASSUME EditorInv, NEW t \in schedule.at, ~Skipped(t)
               PROVE  ToLocal(ToInstant(t)) = t
    BY DEF ScheduledTimeReadsBack
  <2>1. t \in Int
    BY DEF EditorInv, EditorTypeOK
  <2> QED
    BY <2>1, LocalTimeReadsBack
<1> QED
  BY <1>1, <1>2, EditorInConsole, PTL DEF Spec

-----------------------------------------------------------------------------
(* Roles                                                                   *)

\* A row that the form can make and the server stores: no workflow exceeds the access, and
\* what is about writes needs write access.
Coherent(p) ==
    /\ p \in Policy
    /\ Rank(p.query) <= Rank(p.access) /\ Rank(p.native) <= Rank(p.access)
    /\ p.access # "write" => ~p.writeApproval /\ p.limit = "none"

\* The roles of the workspace were saved with this form.
StartCoherent == \A p \in StartPolicies : Coherent(p)

CoherentRows(f) == \A t \in DOMAIN f : Coherent(f[t])

\* Every row, on display or stored, is one.
RoleInv ==
    /\ RoleTypeOK /\ WorkflowsTypeOK
    /\ CoherentRows(storedGroups) /\ CoherentRows(storedExceptions)
    /\ CoherentRows(groupPolicies) /\ CoherentRows(policies)

\* The drafts of a set: functions from a part of it to policies.
LEMMA DraftsAre ==
  ASSUME NEW S, NEW f
  PROVE  f \in Drafts(S) <=> /\ f = [t \in DOMAIN f |-> f[t]] /\ DOMAIN f \subseteq S
                             /\ \A t \in DOMAIN f : f[t] \in Policy
<1>1. ASSUME f \in Drafts(S)
      PROVE  /\ f = [t \in DOMAIN f |-> f[t]] /\ DOMAIN f \subseteq S
             /\ \A t \in DOMAIN f : f[t] \in Policy
  <2>1. PICK T \in SUBSET S : f \in [T -> Policy]
    BY <1>1, Zenon DEF Drafts
  <2> QED
    BY <2>1
<1>2. ASSUME f = [t \in DOMAIN f |-> f[t]], DOMAIN f \subseteq S,
             \A t \in DOMAIN f : f[t] \in Policy
      PROVE  f \in Drafts(S)
  <2>1. f \in [DOMAIN f -> Policy]
    BY <1>2
  <2> QED
    BY <1>2, <2>1, Zenon DEF Drafts
<1> QED
  BY <1>1, <1>2

\* The order of the modes.
LEMMA Ranks ==
  ASSUME NEW m \in Modes, NEW a \in Modes
  PROVE  /\ Rank(m) \in 0..2
         /\ Cap(m, a) \in Modes /\ Rank(Cap(m, a)) <= Rank(a)
         /\ Rank(m) <= Rank(a) => ServerMode(a, m) = m
         /\ m \in WorkflowOptions(a) <=> Rank(m) <= Rank(a)
         /\ Rank("none") <= Rank(a)
BY DEF Modes, Rank, Cap, ServerMode, WorkflowOptions

\* The server stores a coherent row as it is in the form.
LEMMA StoredAsSent ==
  ASSUME NEW p, Coherent(p)
  PROVE  Attributes(Sent(p)) = p /\ Sent(p) = p
<1>1. p \in Policy
  BY DEF Coherent
<1>2. /\ p.access \in Modes /\ p.query \in Modes /\ p.native \in Modes
      /\ p.writeApproval \in BOOLEAN
  BY <1>1 DEF Policy
<1>3. /\ ~("query" \in shown /\ p.query \notin WorkflowOptions(p.access))
      /\ ~("native" \in shown /\ p.native \notin WorkflowOptions(p.access))
  BY <1>2, Ranks DEF Coherent
<1>4. (p.writeApproval /\ p.access = "write") = p.writeApproval
  BY <1>2 DEF Coherent
<1>5. (IF p.access = "write" THEN p.limit ELSE "none") = p.limit
  BY DEF Coherent
<1>6. ServerMode(p.access, p.query) = p.query /\ ServerMode(p.access, p.native) = p.native
  BY <1>2, Ranks DEF Coherent
<1>7. Sent(p) = [p EXCEPT !.query = p.query, !.native = p.native,
                          !.writeApproval = p.writeApproval, !.limit = p.limit]
  BY <1>3, <1>4, <1>5, Zenon DEF Sent
<1>8. Sent(p) = p
  BY <1>1, <1>7 DEF Policy
<1>9. Attributes(p) = [p EXCEPT !.query = p.query, !.native = p.native]
  BY <1>6, Zenon DEF Attributes
<1>10. Attributes(p) = p
  BY <1>1, <1>9 DEF Policy
<1> QED
  BY <1>8, <1>10

\* Saving coherent rows stores those with an effect.
LEMMA SyncedRows ==
  ASSUME NEW f, CoherentRows(f)
  PROVE  /\ DOMAIN Synced(f) = {t \in DOMAIN f : HasEffect(f[t])}
         /\ \A t \in DOMAIN Synced(f) : Synced(f)[t] = f[t]
         /\ CoherentRows(Synced(f))
         /\ Synced(f) = [t \in DOMAIN Synced(f) |-> Synced(f)[t]]
<1> DEFINE sent == [t \in DOMAIN f |-> Attributes(Sent(f[t]))]
<1>1. DOMAIN sent = DOMAIN f /\ \A t \in DOMAIN f : sent[t] = f[t]
  BY StoredAsSent DEF CoherentRows
<1>2. Synced(f) = [t \in {u \in DOMAIN sent : HasEffect(sent[u])} |-> sent[t]]
  BY DEF Synced, Restrict
<1> HIDE DEF sent
<1>3. {u \in DOMAIN sent : HasEffect(sent[u])} = {t \in DOMAIN f : HasEffect(f[t])}
  BY <1>1
<1>4. DOMAIN Synced(f) = {t \in DOMAIN f : HasEffect(f[t])}
  BY <1>2, <1>3
<1>5. \A t \in DOMAIN Synced(f) : Synced(f)[t] = f[t]
  BY <1>1, <1>2, <1>3
<1>6. Synced(f) = [t \in DOMAIN Synced(f) |-> Synced(f)[t]]
  BY <1>2
<1> QED
  BY <1>4, <1>5, <1>6 DEF CoherentRows

\* What can be done to a row keeps it coherent.
LEMMA RowEdits ==
  ASSUME NEW p, Coherent(p)
  PROVE  /\ \A m \in Modes : Coherent(WithAccess(p, m))
         /\ \A q \in WorkflowEdits(p) \cup ApprovalEdits(p) \cup LimitEdits(p) : Coherent(q)
<1>1. p \in Policy
  BY DEF Coherent
<1>2. /\ p.access \in Modes /\ p.query \in Modes /\ p.native \in Modes
      /\ p.review \in BOOLEAN /\ p.readApproval \in BOOLEAN /\ p.writeApproval \in BOOLEAN
      /\ p.limit \in {"none", "ok", "out"}
  BY <1>1 DEF Policy
<1>3. ASSUME NEW m \in Modes
      PROVE  Coherent(WithAccess(p, m))
  <2>1. PICK a, b, w, l : /\ a = Cap(p.query, m) /\ b = Cap(p.native, m) /\ w = (m = "write")
                          /\ l = IF m = "write" THEN p.limit ELSE "none"
    BY Zenon
  <2>2. PICK q : /\ q = [p EXCEPT !.access = m, !.query = a, !.native = b, !.writeApproval = w,
                                  !.limit = l]
                 /\ q = WithAccess(p, m)
    BY <2>1, Zenon DEF WithAccess
  <2>3. /\ a \in Modes /\ b \in Modes /\ Rank(a) <= Rank(m) /\ Rank(b) <= Rank(m)
    BY <1>2, <2>1, Ranks
  <2>4. w \in BOOLEAN /\ (m # "write" => ~w)
    BY <2>1, Zenon
  <2>5. l \in {"none", "ok", "out"} /\ (m # "write" => l = "none")
    BY <1>2, <2>1
  <2>6. q \in Policy /\ q.access = m /\ q.query = a /\ q.native = b /\ q.writeApproval = w
        /\ q.limit = l
    BY <1>1, <2>2, <2>3, <2>4, <2>5 DEF Policy
  <2> QED
    BY <2>2, <2>3, <2>4, <2>5, <2>6 DEF Coherent
<1>4. ASSUME NEW q \in WorkflowEdits(p)
      PROVE  Coherent(q)
  <2>1. PICK m \in WorkflowOptions(p.access) : q = [p EXCEPT !.query = m] \/ q = [p EXCEPT !.native = m]
    BY <1>4 DEF WorkflowEdits
  <2>2. m \in Modes /\ Rank(m) <= Rank(p.access)
    BY <2>1 DEF WorkflowOptions
  <2>3. CASE q = [p EXCEPT !.query = m]
    BY <1>1, <2>2, <2>3 DEF Coherent, Policy
  <2>4. CASE q = [p EXCEPT !.native = m]
    BY <1>1, <2>2, <2>4 DEF Coherent, Policy
  <2> QED
    BY <2>1, <2>3, <2>4
<1>5. ASSUME NEW q \in ApprovalEdits(p)
      PROVE  Coherent(q)
  <2>1. PICK b \in BOOLEAN :
            \/ q = [p EXCEPT !.review = b] \/ q = [p EXCEPT !.readApproval = b]
            \/ p.access = "write" /\ q = [p EXCEPT !.writeApproval = b]
    <3>1. \/ q = [p EXCEPT !.review = ~p.review] \/ q = [p EXCEPT !.readApproval = ~p.readApproval]
          \/ p.access = "write" /\ q = [p EXCEPT !.writeApproval = ~p.writeApproval]
      BY <1>5, Zenon DEF ApprovalEdits
    <3> QED
      BY <3>1, Zenon
  <2>2. CASE q = [p EXCEPT !.review = b]
    BY <1>1, <2>2 DEF Coherent, Policy
  <2>3. CASE q = [p EXCEPT !.readApproval = b]
    BY <1>1, <2>3 DEF Coherent, Policy
  <2>4. CASE p.access = "write" /\ q = [p EXCEPT !.writeApproval = b]
    BY <1>1, <2>4 DEF Coherent, Policy
  <2> QED
    BY <2>1, <2>2, <2>3, <2>4
<1>6. ASSUME NEW q \in LimitEdits(p)
      PROVE  Coherent(q)
  <2>1. PICK l \in {"none", "ok", "out"} : p.access = "write" /\ q = [p EXCEPT !.limit = l]
    BY <1>6 DEF LimitEdits
  <2> QED
    BY <1>1, <2>1 DEF Coherent, Policy
<1> QED
  BY <1>3, <1>4, <1>5, <1>6

\* A row of the drafts is replaced.
LEMMA DraftReplaced ==
  ASSUME NEW S, NEW f, f \in Drafts(S), CoherentRows(f), NEW g \in DOMAIN f, NEW q, Coherent(q)
  PROVE  [f EXCEPT ![g] = q] \in Drafts(S) /\ CoherentRows([f EXCEPT ![g] = q])
<1>1. PICK h : h = [f EXCEPT ![g] = q]
  OBVIOUS
<1>2. /\ f = [t \in DOMAIN f |-> f[t]] /\ DOMAIN f \subseteq S
      /\ \A t \in DOMAIN f : f[t] \in Policy
  BY DraftsAre
<1>3. /\ h = [t \in DOMAIN h |-> h[t]] /\ DOMAIN h = DOMAIN f /\ h[g] = q
      /\ \A t \in DOMAIN f \ {g} : h[t] = f[t]
  BY <1>1, <1>2
<1>4. q \in Policy
  BY DEF Coherent
<1>5. CoherentRows(h)
  BY <1>3 DEF CoherentRows
<1>6. h \in Drafts(S)
  BY <1>2, <1>3, <1>4, DraftsAre
<1> QED
  BY <1>1, <1>5, <1>6

\* A row is removed, or a new one added.
LEMMA DraftResized ==
  ASSUME NEW S, NEW f, f \in Drafts(S), CoherentRows(f), NEW g
  PROVE  /\ Restrict(f, DOMAIN f \ {g}) \in Drafts(S) /\ CoherentRows(Restrict(f, DOMAIN f \ {g}))
         /\ g \in S =>
               LET h == [t \in DOMAIN f \cup {g} |-> IF t = g THEN NewPolicy ELSE f[t]]
               IN  h \in Drafts(S) /\ CoherentRows(h)
<1>1. /\ f = [t \in DOMAIN f |-> f[t]] /\ DOMAIN f \subseteq S
      /\ \A t \in DOMAIN f : f[t] \in Policy
  BY DraftsAre
<1>2. PICK h : h = [t \in DOMAIN f \ {g} |-> f[t]] /\ h = Restrict(f, DOMAIN f \ {g})
  BY Zenon DEF Restrict
<1>3. /\ h = [t \in DOMAIN h |-> h[t]] /\ DOMAIN h \subseteq S
      /\ \A t \in DOMAIN h : t \in DOMAIN f /\ h[t] = f[t]
  BY <1>1, <1>2
<1>4. CoherentRows(h)
  BY <1>3 DEF CoherentRows
<1>5. h \in Drafts(S)
  BY <1>1, <1>3, DraftsAre
<1>6. ASSUME g \in S, NEW k, k = [t \in DOMAIN f \cup {g} |-> IF t = g THEN NewPolicy ELSE f[t]]
      PROVE  k \in Drafts(S) /\ CoherentRows(k)
  <2>1. /\ k = [t \in DOMAIN k |-> k[t]] /\ DOMAIN k \subseteq S
        /\ \A t \in DOMAIN k : k[t] = NewPolicy \/ (t \in DOMAIN f /\ k[t] = f[t])
    BY <1>1, <1>6
  <2>2. Coherent(NewPolicy) /\ NewPolicy \in Policy
    BY DEF Coherent, NewPolicy, Policy, Modes, Rank
  <2>3. CoherentRows(k)
    BY <2>1, <2>2 DEF CoherentRows
  <2>4. \A t \in DOMAIN k : k[t] \in Policy
    BY <1>1, <2>1, <2>2
  <2> QED
    BY <2>1, <2>3, <2>4, DraftsAre
<1> QED
  BY <1>2, <1>4, <1>5, <1>6, Zenon

\* The workspace starts with coherent rows.
LEMMA RoleStart ==
  ASSUME StartCoherent, RoleInit
  PROVE  RoleInv
<1>1. ASSUME NEW S, NEW f, f \in {[t \in T |-> p] : T \in SUBSET S, p \in StartPolicies}
      PROVE  f \in Drafts(S) /\ CoherentRows(f)
  <2>1. PICK T \in SUBSET S, p \in StartPolicies : f = [t \in T |-> p]
    BY <1>1
  <2>2. Coherent(p) /\ p \in Policy
    BY <2>1 DEF StartCoherent, Coherent
  <2>3. f = [t \in DOMAIN f |-> f[t]] /\ DOMAIN f = T /\ \A t \in DOMAIN f : f[t] = p
    BY <2>1
  <2>4. CoherentRows(f)
    BY <2>2, <2>3 DEF CoherentRows
  <2> QED
    BY <2>1, <2>2, <2>3, <2>4, DraftsAre
<1>2. /\ storedGroups \in Drafts(Groups) /\ CoherentRows(storedGroups)
      /\ storedExceptions \in Drafts(Connections) /\ CoherentRows(storedExceptions)
  BY <1>1 DEF RoleInit
<1>3. exceptionsOpen \in BOOLEAN
  BY Zenon DEF RoleInit
<1>4. shown \subseteq Workflows /\ editing \in BOOLEAN /\ roleEdits \in 0..MaxEdits
  <2>1. shown = enabled /\ editing = FALSE /\ roleEdits = 0
    BY DEF RoleInit
  <2>2. enabled \in SUBSET Workflows
    BY DEF RoleInit, WorkflowsInit
  <2>3. MaxEdits \in Nat
    BY RoleAssumption
  <2>4. roleEdits \in 0..MaxEdits
    BY <2>1, <2>3
  <2> QED
    BY <2>1, <2>2, <2>4
<1>5. WorkflowsTypeOK
  BY DEF RoleInit, WorkflowsInit, WorkflowsTypeOK
<1> QED
  BY <1>2, <1>3, <1>4, <1>5 DEF RoleInit, RoleInv, RoleTypeOK

\* Rows stay coherent: the form caps the modes when the access is lowered, and the server
\* stores what was sent.
LEMMA RoleStep ==
  ASSUME RoleInv, RoleNext
  PROVE  RoleInv'
<1> USE DEF RoleInv, RoleTypeOK
<1>e. ASSUME Editing
      PROVE  /\ UNCHANGED <<storedGroups, storedExceptions, shown, editing, workflowVars>>
             /\ roleEdits' \in 0..MaxEdits
  BY <1>e, RoleAssumption DEF Editing
<1>w. ASSUME UNCHANGED workflowVars
      PROVE  WorkflowsTypeOK'
  BY <1>w DEF workflowVars, WorkflowsTypeOK
<1>g. ASSUME Editing, UNCHANGED <<policies, exceptionsOpen>>, groupPolicies' \in Drafts(Groups),
             CoherentRows(groupPolicies')
      PROVE  RoleInv'
  BY <1>e, <1>g, <1>w
<1>p. ASSUME Editing, UNCHANGED <<groupPolicies, exceptionsOpen>>, policies' \in Drafts(Connections),
             CoherentRows(policies')
      PROVE  RoleInv'
  BY <1>e, <1>p, <1>w
<1>1. CASE WorkflowsNext /\ UNCHANGED roleVars
  <2>1. WorkflowsTypeOK'
    BY <1>1 DEF WorkflowsNext, WorkflowsTypeOK, OpenWorkflows, ToggleWorkflow, TypeSetting,
                SaveWorkflows
  <2> QED
    BY <1>1, <2>1 DEF roleVars
<1>2. CASE OpenRole
  <2>1. exceptionsOpen' \in BOOLEAN
    BY <1>2, Zenon DEF OpenRole
  <2>2. shown' \subseteq Workflows
    BY <1>2 DEF OpenRole, WorkflowsTypeOK
  <2> QED
    BY <1>2, <1>w, <2>1, <2>2 DEF OpenRole
<1>3. CASE SaveRole
  <2>1. NoDrafts = [t \in DOMAIN NoDrafts |-> NoDrafts[t]] /\ DOMAIN NoDrafts = {}
    BY DEF NoDrafts
  <2>2. CoherentRows(NoDrafts) /\ DOMAIN NoDrafts \subseteq Connections
    BY <2>1 DEF CoherentRows
  <2>3. CoherentRows(ExceptionRows) /\ DOMAIN ExceptionRows \subseteq Connections
    BY <2>2, DraftsAre DEF ExceptionRows
  <2>4. ASSUME NEW S, NEW f, CoherentRows(f), DOMAIN f \subseteq S
        PROVE  Synced(f) \in Drafts(S) /\ CoherentRows(Synced(f))
    <3>1. /\ DOMAIN Synced(f) \subseteq S /\ CoherentRows(Synced(f))
          /\ Synced(f) = [t \in DOMAIN Synced(f) |-> Synced(f)[t]]
      BY <2>4, SyncedRows
    <3>2. \A t \in DOMAIN Synced(f) : Synced(f)[t] \in Policy
      BY <3>1 DEF CoherentRows, Coherent
    <3> QED
      BY <3>1, <3>2, DraftsAre
  <2>5. DOMAIN groupPolicies \subseteq Groups
    BY DraftsAre
  <2>6. storedGroups' \in Drafts(Groups) /\ CoherentRows(storedGroups')
    BY <1>3, <2>4, <2>5, Zenon DEF SaveRole
  <2>7. storedExceptions' \in Drafts(Connections) /\ CoherentRows(storedExceptions')
    BY <1>3, <2>3, <2>4, Zenon DEF SaveRole
  <2>8. /\ UNCHANGED <<groupPolicies, policies, exceptionsOpen, shown, roleEdits, workflowVars>>
        /\ editing' = FALSE
    BY <1>3, Zenon DEF SaveRole
  <2> QED
    BY <1>w, <2>6, <2>7, <2>8
<1>4. CASE ToggleExceptions
  <2>1. exceptionsOpen' \in BOOLEAN
    BY <1>4, Zenon DEF ToggleExceptions
  <2> QED
    BY <1>4, <1>e, <1>w, <2>1 DEF ToggleExceptions
<1>5. ASSUME NEW g \in Groups, AddGroupPolicy(g)
      PROVE  RoleInv'
  BY <1>5, <1>g, DraftResized DEF AddGroupPolicy
<1>6. ASSUME NEW c \in Connections, AddPolicy(c)
      PROVE  RoleInv'
  BY <1>6, <1>p, DraftResized DEF AddPolicy
<1>7. ASSUME NEW g \in DOMAIN groupPolicies, NEW q, Coherent(q), UpdateGroupPolicy(g, q)
      PROVE  RoleInv'
  BY <1>7, <1>g, DraftReplaced DEF UpdateGroupPolicy
<1>8. ASSUME NEW c \in DOMAIN policies, NEW q, Coherent(q), UpdatePolicy(c, q)
      PROVE  RoleInv'
  BY <1>8, <1>p, DraftReplaced DEF UpdatePolicy
<1>9. ASSUME NEW g \in DOMAIN groupPolicies,
             GroupAccess(g) \/ GroupWorkflows(g) \/ GroupApprovals(g) \/ GroupLimit(g)
      PROVE  RoleInv'
  <2>1. Coherent(groupPolicies[g])
    BY DEF CoherentRows
  <2>2. \E q : Coherent(q) /\ UpdateGroupPolicy(g, q)
    BY <1>9, <2>1, RowEdits DEF GroupAccess, GroupWorkflows, GroupApprovals, GroupLimit
  <2> QED
    BY <1>7, <2>2
<1>10. ASSUME NEW c \in DOMAIN policies, \/ ExceptionAccess(c) \/ ExceptionWorkflows(c)
                                         \/ ExceptionApprovals(c) \/ ExceptionLimit(c)
       PROVE  RoleInv'
  <2>1. Coherent(policies[c])
    BY DEF CoherentRows
  <2>2. \E q : Coherent(q) /\ UpdatePolicy(c, q)
    BY <1>10, <2>1, RowEdits DEF ExceptionAccess, ExceptionWorkflows, ExceptionApprovals,
       ExceptionLimit
  <2> QED
    BY <1>8, <2>2
<1>11. ASSUME NEW g \in DOMAIN groupPolicies, RemoveGroupPolicy(g)
       PROVE  RoleInv'
  BY <1>11, <1>g, DraftResized DEF RemoveGroupPolicy
<1>12. ASSUME NEW c \in DOMAIN policies, RemovePolicy(c)
       PROVE  RoleInv'
  BY <1>12, <1>p, DraftResized DEF RemovePolicy
<1> HIDE DEF RoleInv, RoleTypeOK
<1> QED
  BY <1>1, <1>2, <1>3, <1>4, <1>5, <1>6, <1>9, <1>10, <1>11, <1>12, Zenon DEF RoleNext

\* A save changes no row on its way, for any catalogue, any set of enabled workflows and any
\* sequence of edits, where the rows of the workspace at the start are coherent.
THEOREM RolesAreSavedAsShown ==
    ASSUME StartCoherent
    PROVE  Spec => SavedAsShown
<1>1. Init => RoleInv
  BY StartCoherent, RoleStart DEF Init
<1>2. RoleInv /\ [Next]_vars => RoleInv'
  <2> SUFFICES ASSUME RoleInv, [Next]_vars PROVE RoleInv'
    OBVIOUS
  <2>1. CASE UNCHANGED <<roleVars, workflowVars>>
    BY <2>1 DEF roleVars, workflowVars, RoleInv, RoleTypeOK, WorkflowsTypeOK
  <2>2. CASE RoleNext
    BY <2>2, RoleStep
  <2> QED
    BY <2>1, <2>2 DEF Next, OnlyOn, vars
<1> DEFINE AsShown ==
         /\ \A g \in DOMAIN groupPolicies :
              IF g \in DOMAIN storedGroups' THEN storedGroups'[g] = groupPolicies[g]
                                            ELSE ~HasEffect(groupPolicies[g])
         /\ \A c \in DOMAIN ExceptionRows :
              IF c \in DOMAIN storedExceptions' THEN storedExceptions'[c] = policies[c]
                                                ELSE ~HasEffect(policies[c])
<1>3. RoleInv /\ SaveRole => AsShown
  <2> SUFFICES ASSUME RoleInv, SaveRole PROVE AsShown
    OBVIOUS
  <2>1. storedGroups' = Synced(groupPolicies) /\ storedExceptions' = Synced(ExceptionRows)
    BY Zenon DEF SaveRole
  <2>2. /\ DOMAIN storedGroups' = {t \in DOMAIN groupPolicies : HasEffect(groupPolicies[t])}
        /\ \A t \in DOMAIN storedGroups' : storedGroups'[t] = groupPolicies[t]
    BY <2>1, SyncedRows DEF RoleInv
  <2>3. CASE exceptionsOpen
    <3>1. ExceptionRows = policies
      BY <2>3, Zenon DEF ExceptionRows
    <3>2. /\ DOMAIN storedExceptions' = {t \in DOMAIN policies : HasEffect(policies[t])}
          /\ \A t \in DOMAIN storedExceptions' : storedExceptions'[t] = policies[t]
      BY <2>1, <3>1, SyncedRows DEF RoleInv
    <3> QED
      BY <2>2, <3>1, <3>2
  <2>4. CASE ~exceptionsOpen
    <3>1. ExceptionRows = NoDrafts
      BY <2>4, Zenon DEF ExceptionRows
    <3>2. DOMAIN ExceptionRows = {}
      BY <3>1 DEF NoDrafts
    <3> QED
      BY <2>2, <3>2
  <2> QED
    BY <2>3, <2>4
<1>4. RoleInv /\ [Next]_vars => [SaveRole => AsShown]_roleVars
  BY <1>3
<1> QED
  BY <1>1, <1>2, <1>4, PTL DEF Spec, SavedAsShown

-----------------------------------------------------------------------------
(* The application database: the argument is in MigrationSafety            *)

\* A step of the console is a step of the migration or leaves it alone.
LEMMA MigrationInConsole == [Next]_vars => [MigrationNext]_migrationVars
BY Zenon DEF Next, OnlyOn, vars

\* From verification to the restart, the two databases of a plan hold the same but for the
\* writes made behind the fence, for any number of databases, tables, plans and writes and
\* wherever an operation is interrupted.
THEOREM CutoversLoseNothing == Spec => []CutoverLosesNothing
<1>1. Init => MigrationInv
  BY MigrationStart DEF Init
<1>2. MigrationInv /\ [Next]_vars => MigrationInv'
  BY MigrationStep, MigrationInConsole
<1>3. MigrationInv => CutoverLosesNothing
  BY DEF MigrationInv
<1> QED
  BY <1>1, <1>2, <1>3, PTL DEF Spec

\* While the fence is down every process runs on the selected database, and it is the one
\* the history gives as in use, for any number of databases, plans and processes, whichever
\* of them restart by themselves, as long as no restart is declared complete too early.
THEOREM DatabaseInUseIsOne == Spec => []OneDatabaseInUse
<1>1. Init => MigrationInv /\ UseInv
  BY MigrationStart, UseStart DEF Init
<1>2. MigrationInv /\ UseInv /\ [Next]_vars => MigrationInv' /\ UseInv'
  BY MigrationStep, UseStep, MigrationInConsole
<1>3. MigrationInv /\ UseInv => OneDatabaseInUse
  BY UseShows
<1> QED
  BY <1>1, <1>2, <1>3, PTL DEF Spec

-----------------------------------------------------------------------------
(* Types: SQL policy                                                       *)

\* At the start nothing is decided.
LEMMA SqlTypesStart == SqlInit => SqlTypeOK
<1> SUFFICES ASSUME SqlInit
             PROVE  SqlTypeOK
  OBVIOUS
<1>1. sqlSettings \subseteq Settings /\ sqlDraft \subseteq Settings
  BY DEF SqlInit, Settings
<1>2. DOMAIN rules = {}
  BY DEF SqlInit
<1>3. DOMAIN sqlView.scopes = {} /\ DOMAIN sqlView.rules = {}
  BY DEF SqlInit
<1>4. resolution \in [Candidates -> Resolutions]
  BY DEF SqlInit, Resolutions
<1>5. resolvedRule \in [Candidates -> DOMAIN rules \cup {NoKey}]
  BY DEF SqlInit
<1>6. review \in [Candidates -> [match : {"exact", Shape}, scope : Scopes \cup {"none"}]]
  BY DEF SqlInit, NoReview
<1>7. decisions \in 0..MaxDecisions
  BY SqlPolicyAssumption DEF SqlInit
<1>8. seen = {}
  BY DEF SqlInit
<1> QED
  BY <1>1, <1>2, <1>3, <1>4, <1>5, <1>6, <1>7, <1>8, Zenon DEF SqlTypeOK

\* A scope that covers where a statement was seen is a scope.
LEMMA CoveringScopes ==
  ASSUME NEW s, NEW x, CoversSeen(s, x)
  PROVE  x \in Scopes
<1>1. SeenOn(s) = {x} => x \in Connections
  BY DEF SeenOn
<1> QED
  BY <1>1 DEF CoversSeen, Scopes

\* The first option of a candidate on the page is a scope.
LEMMA FirstScope ==
  ASSUME NEW s, SeenOn(s) # {}
  PROVE  NarrowestScope(s) \in Scopes
<1>1. CASE Cardinality(SeenOn(s)) = 1
  <2>1. (CHOOSE c \in SeenOn(s) : TRUE) \in SeenOn(s)
    BY Zenon
  <2>2. (CHOOSE c \in SeenOn(s) : TRUE) \in Connections
    BY <2>1, Zenon DEF SeenOn
  <2> QED
    BY <1>1, <2>2, Zenon DEF NarrowestScope, Scopes
<1>2. CASE Cardinality(SeenOn(s)) # 1 /\ \E g \in Groups : CoversSeen(s, g)
  <2>1. (CHOOSE g \in Groups : CoversSeen(s, g)) \in Groups
    BY <1>2, Zenon
  <2> QED
    BY <1>2, <2>1, Zenon DEF NarrowestScope, Scopes
<1>3. CASE Cardinality(SeenOn(s)) # 1 /\ ~\E g \in Groups : CoversSeen(s, g)
  BY <1>3, Zenon DEF NarrowestScope, Scopes
<1> QED
  BY <1>1, <1>2, <1>3

\* A decision keeps the rules, and points to one of them.
LEMMA SqlTypesDecide ==
  ASSUME SqlTypeOK, NEW s \in Candidates, NEW e \in {"allow", "deny"}, Decide(s, e)
  PROVE  SqlTypeOK'
<1>0. PICK m : m = IF e = "deny" \/ review[s].match = "exact" THEN s ELSE Shape
  OBVIOUS
<1>1. PICK k : k = [match |-> m, scope |-> review[s].scope]
  OBVIOUS
<1>2. /\ CoversSeen(s, k.scope) /\ Decided
      /\ rules' = [j \in DOMAIN rules \cup {k} |->
                      IF j = k THEN [effect |-> e, on |-> TRUE] ELSE rules[j]]
      /\ resolution' = [resolution EXCEPT ![s] = CASE e = "deny" -> "denied"
                                                   [] m = Shape -> "allowed_shape"
                                                   [] OTHER -> "allowed_exact"]
      /\ resolvedRule' = [resolvedRule EXCEPT ![s] = k]
  BY <1>0, <1>1, Zenon DEF Decide
<1>3. k.scope \in Scopes /\ k.scope = review[s].scope
  BY <1>1, <1>2, CoveringScopes
<1>4. m \in Candidates \cup {Shape}
  BY <1>0
<1>5. k \in RuleKeys
  BY <1>1, <1>3, <1>4 DEF RuleKeys
<1>6. [effect |-> e, on |-> TRUE] \in Rule
  BY DEF Rule
<1>7. DOMAIN rules' = DOMAIN rules \cup {k} /\ \A j \in DOMAIN rules' : rules'[j] \in Rule
  BY <1>2, <1>6 DEF SqlTypeOK
<1>8. resolution' \in [Candidates -> Resolutions]
  BY <1>2 DEF SqlTypeOK, Resolutions
<1>9. resolvedRule' \in [Candidates -> DOMAIN rules' \cup {NoKey}]
  BY <1>2, <1>7 DEF SqlTypeOK
<1>10. decisions' \in 0..MaxDecisions /\ UNCHANGED <<sqlSettings, sqlDraft, seen, sqlView, review>>
  BY <1>2, SqlPolicyAssumption DEF Decided, SqlTypeOK
<1>11. DOMAIN rules' \subseteq RuleKeys /\ DOMAIN sqlView.rules \subseteq DOMAIN rules'
  BY <1>5, <1>7 DEF SqlTypeOK
<1> QED
  BY <1>7, <1>8, <1>9, <1>10, <1>11, Zenon DEF SqlTypeOK

\* Every step of the SQL policy keeps the types: a decision is about a scope that is set.
LEMMA SqlTypesStep ==
  ASSUME SqlTypeOK, SqlNext
  PROVE  SqlTypeOK'
<1> DEFINE Choice == [match : {"exact", Shape}, scope : Scopes \cup {"none"}]
<1>1. ASSUME NEW s \in Candidates, NEW c \in Connections, Observe(s, c)
      PROVE  SqlTypeOK'
  <2>1. seen' \subseteq Candidates \X Connections
    BY <1>1 DEF Observe, SqlTypeOK
  <2> QED
    BY <1>1, <2>1, Zenon DEF Observe, SqlTypeOK
<1>2. CASE LoadSqlPolicy
  <2>1. /\ sqlView' = [scopes |-> [s \in Unresolved |-> {x \in Scopes : CoversSeen(s, x)}],
                       rules |-> [k \in DOMAIN rules |-> rules[k].on]]
        /\ UNCHANGED <<sqlSettings, sqlDraft, rules, resolution, resolvedRule, seen, decisions>>
    BY <1>2, Zenon DEF LoadSqlPolicy
  <2>2. DOMAIN sqlView'.scopes = Unresolved /\ DOMAIN sqlView'.rules = DOMAIN rules
    BY <2>1
  <2>3. Unresolved \subseteq Candidates
    BY DEF Unresolved
  <2>4. \A s \in Candidates :
           (CASE s \notin Unresolved -> NoReview
              [] s \in Unresolved /\ s \in DOMAIN sqlView.scopes -> review[s]
              [] OTHER -> [match |-> "exact", scope |-> NarrowestScope(s)]) \in Choice
    <3> SUFFICES ASSUME NEW s \in Candidates
                 PROVE  (CASE s \notin Unresolved -> NoReview
                           [] s \in Unresolved /\ s \in DOMAIN sqlView.scopes -> review[s]
                           [] OTHER -> [match |-> "exact", scope |-> NarrowestScope(s)]) \in Choice
      BY Zenon
    <3>1. NoReview \in Choice /\ review[s] \in Choice
      BY DEF NoReview, SqlTypeOK
    <3>2. PICK x : x = NarrowestScope(s)
      OBVIOUS
    <3>3. s \in Unresolved => x \in Scopes
      BY <3>2, FirstScope DEF Unresolved
    <3>4. s \in Unresolved => [match |-> "exact", scope |-> x] \in Choice
      BY <3>3
    <3> HIDE DEF Choice
    <3>5. CASE s \notin Unresolved
      BY <3>1, <3>5
    <3>6. CASE s \in Unresolved /\ s \in DOMAIN sqlView.scopes
      BY <3>1, <3>6
    <3>7. CASE s \in Unresolved /\ s \notin DOMAIN sqlView.scopes
      BY <3>2, <3>4, <3>7
    <3> QED
      BY <3>5, <3>6, <3>7
  <2>5. review' \in [Candidates -> Choice]
    <3> HIDE DEF Choice
    <3> QED
      BY <1>2, <2>4 DEF LoadSqlPolicy
  <2> QED
    BY <2>1, <2>2, <2>3, <2>5, Zenon DEF SqlTypeOK
<1>3. CASE (\E f \in Families : ToggleFamily(f)) \/ ToggleFallback \/ SaveSettings
  <2>1. sqlSettings' \subseteq Settings /\ sqlDraft' \subseteq Settings
    BY <1>3 DEF ToggleFamily, ToggleFallback, SaveSettings, SqlTypeOK, Settings
  <2>2. UNCHANGED <<rules, resolution, resolvedRule, seen, sqlView, review, decisions>>
    BY <1>3 DEF ToggleFamily, ToggleFallback, SaveSettings
  <2> QED
    BY <2>1, <2>2, Zenon DEF SqlTypeOK
<1>4. ASSUME NEW s \in Candidates, \/ \E m \in {"exact", Shape} : ChooseMatch(s, m)
                                   \/ \E x \in Scopes : ChooseScope(s, x)
      PROVE  SqlTypeOK'
  <2>1. review' \in [Candidates -> Choice]
    BY <1>4 DEF ChooseMatch, ChooseScope, SqlTypeOK
  <2>2. UNCHANGED <<sqlSettings, sqlDraft, rules, resolution, resolvedRule, seen, sqlView, decisions>>
    BY <1>4 DEF ChooseMatch, ChooseScope
  <2> QED
    BY <2>1, <2>2, Zenon DEF SqlTypeOK
<1>d. ASSUME Decided
      PROVE  decisions' \in 0..MaxDecisions /\ UNCHANGED <<sqlSettings, sqlDraft, seen, sqlView, review>>
  BY <1>d, SqlPolicyAssumption DEF Decided, SqlTypeOK
<1>5. ASSUME NEW s \in Candidates, Dismiss(s)
      PROVE  SqlTypeOK'
  <2>1. resolution' \in [Candidates -> Resolutions]
    BY <1>5 DEF Dismiss, SqlTypeOK, Resolutions
  <2>2. resolvedRule' \in [Candidates -> DOMAIN rules \cup {NoKey}]
    BY <1>5 DEF Dismiss, SqlTypeOK
  <2>3. UNCHANGED rules /\ Decided
    BY <1>5, Zenon DEF Dismiss
  <2> QED
    BY <1>d, <2>1, <2>2, <2>3, Zenon DEF SqlTypeOK
<1>6. ASSUME NEW k \in DOMAIN rules, SetRuleEnabled(k)
      PROVE  SqlTypeOK'
  <2>1. PICK b \in BOOLEAN : rules' = [rules EXCEPT ![k].on = b]
    BY <1>6, Zenon DEF SetRuleEnabled
  <2>2. DOMAIN rules' = DOMAIN rules /\ \A j \in DOMAIN rules : rules'[j] \in Rule
    BY <2>1 DEF SqlTypeOK, Rule
  <2>3. UNCHANGED <<resolution, resolvedRule>> /\ Decided
    BY <1>6, Zenon DEF SetRuleEnabled
  <2> QED
    BY <1>d, <2>2, <2>3, Zenon DEF SqlTypeOK
<1> QED
  BY <1>1, <1>2, <1>3, <1>4, <1>5, <1>6, SqlTypesDecide DEF SqlNext

-----------------------------------------------------------------------------
(* Types: roles and workflows                                              *)

\* Whatever a row holds, what is made of it in the form, sent and stored is a row.
LEMMA PolicyEdits ==
  ASSUME NEW p \in Policy
  PROVE  /\ \A m \in Modes : WithAccess(p, m) \in Policy
         /\ \A q \in WorkflowEdits(p) \cup ApprovalEdits(p) \cup LimitEdits(p) : q \in Policy
         /\ Attributes(Sent(p)) \in Policy
<1>1. /\ p.access \in Modes /\ p.query \in Modes /\ p.native \in Modes
      /\ p.review \in BOOLEAN /\ p.readApproval \in BOOLEAN /\ p.writeApproval \in BOOLEAN
      /\ p.limit \in {"none", "ok", "out"}
  BY DEF Policy
<1>2. ASSUME NEW m \in Modes
      PROVE  WithAccess(p, m) \in Policy
  <2>1. PICK a, b, w, l : /\ a = Cap(p.query, m) /\ b = Cap(p.native, m) /\ w = (m = "write")
                          /\ l = IF m = "write" THEN p.limit ELSE "none"
    BY Zenon
  <2>2. WithAccess(p, m) = [p EXCEPT !.access = m, !.query = a, !.native = b,
                                     !.writeApproval = w, !.limit = l]
    BY <2>1, Zenon DEF WithAccess
  <2>3. a \in Modes /\ b \in Modes
    BY <1>1, <2>1, Ranks
  <2>4. w \in BOOLEAN
    BY <2>1, Zenon
  <2>5. l \in {"none", "ok", "out"}
    BY <1>1, <2>1
  <2> QED
    BY <2>2, <2>3, <2>4, <2>5 DEF Policy
<1>3. ASSUME NEW q \in WorkflowEdits(p)
      PROVE  q \in Policy
  <2>1. PICK m \in WorkflowOptions(p.access) : q = [p EXCEPT !.query = m] \/ q = [p EXCEPT !.native = m]
    BY <1>3 DEF WorkflowEdits
  <2>2. m \in Modes
    BY <2>1 DEF WorkflowOptions
  <2> QED
    BY <2>1, <2>2 DEF Policy
<1>4. ASSUME NEW q \in ApprovalEdits(p)
      PROVE  q \in Policy
  <2>1. PICK b \in BOOLEAN :
            \/ q = [p EXCEPT !.review = b] \/ q = [p EXCEPT !.readApproval = b]
            \/ q = [p EXCEPT !.writeApproval = b]
    <3>1. \/ q = [p EXCEPT !.review = ~p.review] \/ q = [p EXCEPT !.readApproval = ~p.readApproval]
          \/ q = [p EXCEPT !.writeApproval = ~p.writeApproval]
      BY <1>4, Zenon DEF ApprovalEdits
    <3> QED
      BY <3>1, Zenon
  <2> QED
    BY <2>1 DEF Policy
<1>5. ASSUME NEW q \in LimitEdits(p)
      PROVE  q \in Policy
  <2>1. PICK l \in {"none", "ok", "out"} : q = [p EXCEPT !.limit = l]
    BY <1>5 DEF LimitEdits
  <2> QED
    BY <2>1 DEF Policy
<1>6. Attributes(Sent(p)) \in Policy
  <2>1. PICK a, b, w, l :
            /\ a = IF "query" \in shown /\ p.query \notin WorkflowOptions(p.access) THEN "none" ELSE p.query
            /\ b = IF "native" \in shown /\ p.native \notin WorkflowOptions(p.access) THEN "none" ELSE p.native
            /\ w = (p.writeApproval /\ p.access = "write")
            /\ l = IF p.access = "write" THEN p.limit ELSE "none"
    BY Zenon
  <2>2. Sent(p) = [p EXCEPT !.query = a, !.native = b, !.writeApproval = w, !.limit = l]
    BY <2>1, Zenon DEF Sent
  <2>3. a \in Modes /\ b \in Modes /\ l \in {"none", "ok", "out"}
    BY <1>1, <2>1 DEF Modes
  <2>4. w \in BOOLEAN
    BY <2>1, Zenon
  <2>5. Sent(p) \in Policy
    BY <2>2, <2>3, <2>4 DEF Policy
  <2>6. PICK s \in Policy : s = Sent(p)
    BY <2>5
  <2>7. s.access \in Modes /\ s.query \in Modes /\ s.native \in Modes
    BY DEF Policy
  <2>8. PICK c, d : c = ServerMode(s.access, s.query) /\ d = ServerMode(s.access, s.native)
    BY Zenon
  <2>9. c \in Modes /\ d \in Modes
    BY <2>7, <2>8 DEF ServerMode, Modes
  <2>10. Attributes(s) = [s EXCEPT !.query = c, !.native = d]
    BY <2>8, Zenon DEF Attributes
  <2>11. Attributes(s) \in Policy
    BY <2>9, <2>10 DEF Policy
  <2> QED
    BY <2>6, <2>11
<1> QED
  BY <1>2, <1>3, <1>4, <1>5, <1>6

\* Rows are replaced, removed, added and stored.
LEMMA DraftTypes ==
  ASSUME NEW S, NEW f \in Drafts(S), NEW g
  PROVE  /\ \A q \in Policy : [f EXCEPT ![g] = q] \in Drafts(S)
         /\ Restrict(f, DOMAIN f \ {g}) \in Drafts(S)
         /\ g \in S => [t \in DOMAIN f \cup {g} |-> IF t = g THEN NewPolicy ELSE f[t]] \in Drafts(S)
         /\ Synced(f) \in Drafts(S)
<1>1. /\ f = [t \in DOMAIN f |-> f[t]] /\ DOMAIN f \subseteq S
      /\ \A t \in DOMAIN f : f[t] \in Policy
  BY DraftsAre
<1>2. ASSUME NEW q \in Policy
      PROVE  [f EXCEPT ![g] = q] \in Drafts(S)
  <2>1. PICK h : h = [f EXCEPT ![g] = q]
    OBVIOUS
  <2>2. /\ h = [t \in DOMAIN h |-> h[t]] /\ DOMAIN h = DOMAIN f
        /\ \A t \in DOMAIN f : h[t] = q \/ h[t] = f[t]
    BY <1>1, <2>1
  <2>3. \A t \in DOMAIN h : h[t] \in Policy
    BY <1>1, <2>2
  <2> QED
    BY <1>1, <2>1, <2>2, <2>3, DraftsAre
<1>3. ASSUME NEW T, T \subseteq DOMAIN f
      PROVE  Restrict(f, T) \in Drafts(S)
  <2>1. PICK h : h = [t \in T |-> f[t]] /\ h = Restrict(f, T)
    BY Zenon DEF Restrict
  <2>2. /\ h = [t \in DOMAIN h |-> h[t]] /\ DOMAIN h \subseteq S
        /\ \A t \in DOMAIN h : h[t] \in Policy
    BY <1>1, <1>3, <2>1
  <2> QED
    BY <2>1, <2>2, DraftsAre
<1>4. ASSUME g \in S
      PROVE  [t \in DOMAIN f \cup {g} |-> IF t = g THEN NewPolicy ELSE f[t]] \in Drafts(S)
  <2>1. PICK k : k = [t \in DOMAIN f \cup {g} |-> IF t = g THEN NewPolicy ELSE f[t]]
    OBVIOUS
  <2>2. NewPolicy \in Policy
    BY DEF NewPolicy, Policy, Modes
  <2>3. /\ k = [t \in DOMAIN k |-> k[t]] /\ DOMAIN k \subseteq S
        /\ \A t \in DOMAIN k : k[t] = NewPolicy \/ (t \in DOMAIN f /\ k[t] = f[t])
    BY <1>1, <1>4, <2>1
  <2>4. \A t \in DOMAIN k : k[t] \in Policy
    BY <1>1, <2>2, <2>3
  <2>5. k \in Drafts(S)
    BY <2>3, <2>4, DraftsAre
  <2> QED
    BY <2>1, <2>5, Zenon
<1>5. Synced(f) \in Drafts(S)
  <2>1. PICK s : s = [t \in DOMAIN f |-> Attributes(Sent(f[t]))]
    OBVIOUS
  <2>2. /\ DOMAIN s = DOMAIN f /\ \A t \in DOMAIN s : s[t] \in Policy
    BY <1>1, <2>1, PolicyEdits
  <2>3. PICK T : T = {t \in DOMAIN s : HasEffect(s[t])}
    OBVIOUS
  <2>4. PICK h : h = [t \in T |-> s[t]] /\ h = Synced(f)
    BY <2>1, <2>3, Zenon DEF Synced, Restrict
  <2>5. /\ h = [t \in DOMAIN h |-> h[t]] /\ DOMAIN h \subseteq S
        /\ \A t \in DOMAIN h : h[t] \in Policy
    BY <1>1, <2>2, <2>3, <2>4
  <2> QED
    BY <2>4, <2>5, DraftsAre
<1> QED
  BY <1>2, <1>3, <1>4, <1>5, Zenon

\* The rows of the role at the start are of the type of a row, coherent or not.
LEMMA RoleTypesStart ==
  ASSUME RoleInit
  PROVE  RoleTypeOK /\ WorkflowsTypeOK
<1>1. ASSUME NEW S, NEW f, f \in {[t \in T |-> p] : T \in SUBSET S, p \in StartPolicies}
      PROVE  f \in Drafts(S)
  <2>1. PICK T \in SUBSET S, p \in StartPolicies : f = [t \in T |-> p]
    BY <1>1
  <2>2. p \in Policy
    BY <2>1, RoleAssumption
  <2>3. f = [t \in DOMAIN f |-> f[t]] /\ DOMAIN f = T /\ \A t \in DOMAIN f : f[t] = p
    BY <2>1
  <2> QED
    BY <2>1, <2>2, <2>3, DraftsAre
<1>2. storedGroups \in Drafts(Groups) /\ storedExceptions \in Drafts(Connections)
  BY <1>1 DEF RoleInit
<1>3. exceptionsOpen \in BOOLEAN
  BY Zenon DEF RoleInit
<1>4. shown = enabled /\ editing = FALSE /\ roleEdits = 0 /\ enabled \in SUBSET Workflows
  BY DEF RoleInit, WorkflowsInit
<1>5. roleEdits \in 0..MaxEdits
  BY <1>4, RoleAssumption
<1>6. WorkflowsTypeOK
  BY DEF RoleInit, WorkflowsInit, WorkflowsTypeOK
<1> QED
  BY <1>2, <1>3, <1>4, <1>5, <1>6 DEF RoleInit, RoleTypeOK

\* Every step of the role's form and of the workflow settings keeps the types, whether or
\* not the rows at the start are coherent.
LEMMA RoleTypesStep ==
  ASSUME RoleTypeOK, WorkflowsTypeOK, RoleNext
  PROVE  RoleTypeOK' /\ WorkflowsTypeOK'
<1> USE DEF RoleTypeOK
<1>e. ASSUME Editing
      PROVE  /\ UNCHANGED <<storedGroups, storedExceptions, shown, editing, workflowVars>>
             /\ roleEdits' \in 0..MaxEdits
  BY <1>e, RoleAssumption DEF Editing
<1>w. ASSUME UNCHANGED workflowVars
      PROVE  WorkflowsTypeOK'
  BY <1>w DEF workflowVars, WorkflowsTypeOK
<1>g. ASSUME Editing, UNCHANGED <<policies, exceptionsOpen>>, groupPolicies' \in Drafts(Groups)
      PROVE  RoleTypeOK' /\ WorkflowsTypeOK'
  BY <1>e, <1>g, <1>w
<1>p. ASSUME Editing, UNCHANGED <<groupPolicies, exceptionsOpen>>, policies' \in Drafts(Connections)
      PROVE  RoleTypeOK' /\ WorkflowsTypeOK'
  BY <1>e, <1>p, <1>w
<1>1. CASE WorkflowsNext /\ UNCHANGED roleVars
  <2>1. WorkflowsTypeOK'
    BY <1>1 DEF WorkflowsNext, WorkflowsTypeOK, OpenWorkflows, ToggleWorkflow, TypeSetting,
                SaveWorkflows
  <2> QED
    BY <1>1, <2>1 DEF roleVars
<1>2. CASE OpenRole
  <2>1. exceptionsOpen' \in BOOLEAN
    BY <1>2, Zenon DEF OpenRole
  <2>2. shown' \subseteq Workflows
    BY <1>2 DEF OpenRole, WorkflowsTypeOK
  <2> QED
    BY <1>2, <1>w, <2>1, <2>2 DEF OpenRole
<1>3. CASE SaveRole
  <2>1. NoDrafts = [t \in DOMAIN NoDrafts |-> NoDrafts[t]] /\ DOMAIN NoDrafts = {}
    BY DEF NoDrafts
  <2>2. NoDrafts \in Drafts(Connections)
    BY <2>1, DraftsAre
  <2>3. ExceptionRows \in Drafts(Connections)
    BY <2>2, Zenon DEF ExceptionRows
  <2>4. storedGroups' = Synced(groupPolicies) /\ storedExceptions' = Synced(ExceptionRows)
    BY <1>3, Zenon DEF SaveRole
  <2>5. storedGroups' \in Drafts(Groups) /\ storedExceptions' \in Drafts(Connections)
    BY <2>3, <2>4, DraftTypes
  <2>6. /\ UNCHANGED <<groupPolicies, policies, exceptionsOpen, shown, roleEdits, workflowVars>>
        /\ editing' = FALSE
    BY <1>3, Zenon DEF SaveRole
  <2> QED
    BY <1>w, <2>5, <2>6
<1>4. CASE ToggleExceptions
  <2>1. exceptionsOpen' \in BOOLEAN
    BY <1>4, Zenon DEF ToggleExceptions
  <2> QED
    BY <1>4, <1>e, <1>w, <2>1 DEF ToggleExceptions
<1>5. ASSUME NEW g \in Groups, AddGroupPolicy(g)
      PROVE  RoleTypeOK' /\ WorkflowsTypeOK'
  BY <1>5, <1>g, DraftTypes DEF AddGroupPolicy
<1>6. ASSUME NEW c \in Connections, AddPolicy(c)
      PROVE  RoleTypeOK' /\ WorkflowsTypeOK'
  BY <1>6, <1>p, DraftTypes DEF AddPolicy
<1>7. ASSUME NEW g \in DOMAIN groupPolicies,
             GroupAccess(g) \/ GroupWorkflows(g) \/ GroupApprovals(g) \/ GroupLimit(g)
      PROVE  RoleTypeOK' /\ WorkflowsTypeOK'
  <2>1. groupPolicies[g] \in Policy
    BY DraftsAre
  <2>2. PICK q \in Policy : UpdateGroupPolicy(g, q)
    BY <1>7, <2>1, PolicyEdits DEF GroupAccess, GroupWorkflows, GroupApprovals, GroupLimit
  <2> QED
    BY <1>g, <2>2, DraftTypes DEF UpdateGroupPolicy
<1>8. ASSUME NEW c \in DOMAIN policies, \/ ExceptionAccess(c) \/ ExceptionWorkflows(c)
                                        \/ ExceptionApprovals(c) \/ ExceptionLimit(c)
      PROVE  RoleTypeOK' /\ WorkflowsTypeOK'
  <2>1. policies[c] \in Policy
    BY DraftsAre
  <2>2. PICK q \in Policy : UpdatePolicy(c, q)
    BY <1>8, <2>1, PolicyEdits DEF ExceptionAccess, ExceptionWorkflows, ExceptionApprovals,
       ExceptionLimit
  <2> QED
    BY <1>p, <2>2, DraftTypes DEF UpdatePolicy
<1>9. ASSUME NEW g \in DOMAIN groupPolicies, RemoveGroupPolicy(g)
      PROVE  RoleTypeOK' /\ WorkflowsTypeOK'
  BY <1>9, <1>g, DraftTypes DEF RemoveGroupPolicy
<1>10. ASSUME NEW c \in DOMAIN policies, RemovePolicy(c)
       PROVE  RoleTypeOK' /\ WorkflowsTypeOK'
  BY <1>10, <1>p, DraftTypes DEF RemovePolicy
<1> HIDE DEF RoleTypeOK
<1> QED
  BY <1>1, <1>2, <1>3, <1>4, <1>5, <1>6, <1>7, <1>8, <1>9, <1>10, Zenon DEF RoleNext

-----------------------------------------------------------------------------
(* The security of an account                                              *)

\* Beside the types: the page shows whether the second factor is on, and the dialog of the
\* setup is open only while it is not.
SecurityInv ==
    /\ SecurityTypeOK
    /\ tab.here => tab.enabled = account.confirmed
    /\ tab.modal => tab.here /\ ~account.confirmed

\* Nobody is signed in at the start and no page is open.
LEMMA SecurityStart == SecurityInit => SecurityInv
<1> SUFFICES ASSUME SecurityInit
             PROVE  SecurityInv
  OBVIOUS
<1>1. 0 \in 0..MaxIssued
  BY SecurityAssumption
<1>2. account \in Account /\ login \in Login /\ tab \in Tab
  BY <1>1 DEF SecurityInit, NoFactor, SignedOut, Gone, Account, Login, Tab
<1>3. ~account.confirmed /\ ~tab.here /\ ~tab.modal /\ asked = {} /\ answers = {}
      /\ device = 0 /\ issued = 0
  BY DEF SecurityInit, NoFactor, Gone
<1> QED
  BY <1>1, <1>2, <1>3 DEF SecurityInv, SecurityTypeOK

\* What a rendering leaves of account and session.
LEMMA ValidatedState ==
  ASSUME NEW a \in Account, NEW l \in Login
  PROVE  /\ Validated(a, l)[1] \in Account /\ Validated(a, l)[2] \in Login
         /\ Validated(a, l)[2].state = l.state
         /\ Validated(a, l)[1] = a \/ (Validated(a, l)[1] = NoFactor /\ ~a.confirmed)
<1>0. NoFactor \in Account
  BY SecurityAssumption DEF NoFactor, Account
<1>1. PICK e \in BOOLEAN : e = (l.empty \/ a.secret = 0)
  BY Zenon
<1>2. PICK n : n = [l EXCEPT !.empty = e]
  OBVIOUS
<1>3. n \in Login /\ n.state = l.state
  BY <1>1, <1>2 DEF Login
<1>4. PICK c : c = [n EXCEPT !.confirming = TRUE]
  OBVIOUS
<1>5. PICK d : d = [n EXCEPT !.empty = TRUE, !.confirming = FALSE]
  OBVIOUS
<1>6. c \in Login /\ c.state = l.state /\ d \in Login /\ d.state = l.state
  BY <1>3, <1>4, <1>5 DEF Login
<1>7. \/ Validated(a, l) = <<a, c>> \/ Validated(a, l) = <<a, n>>
      \/ Validated(a, l) = <<NoFactor, d>> /\ ~a.confirmed
  BY <1>1, <1>2, <1>4, <1>5, Zenon DEF Validated
<1>8. CASE Validated(a, l) = <<a, c>>
  BY <1>6, <1>8
<1>9. CASE Validated(a, l) = <<a, n>>
  BY <1>3, <1>9
<1>10. CASE Validated(a, l) = <<NoFactor, d>> /\ ~a.confirmed
  BY <1>0, <1>6, <1>10
<1> QED
  BY <1>7, <1>8, <1>9, <1>10

\* What it leaves of the page.
LEMMA ShownTab ==
  ASSUME NEW t \in Tab, NEW a \in Account
  PROVE  /\ Shown(t, a) \in Tab /\ Shown(t, a).enabled = a.confirmed
         /\ Shown(t, a).here = t.here /\ Shown(t, a).modal = t.modal
<1>0. a.confirmed \in BOOLEAN /\ 0 \in 0..MaxIssued
  BY SecurityAssumption DEF Account
<1>1. CASE t.enabled /\ ~a.confirmed
  <2>1. Shown(t, a) = [t EXCEPT !.enabled = FALSE, !.qr = 0, !.key = 0, !.codes = 0,
                                !.failed = FALSE, !.visible = FALSE]
    BY <1>1, Zenon DEF Shown
  <2> QED
    BY <1>0, <1>1, <2>1 DEF Tab
<1>2. CASE ~(t.enabled /\ ~a.confirmed)
  <2>1. PICK v \in BOOLEAN : v = (t.visible /\ t.enabled)
    BY Zenon
  <2>2. Shown(t, a) = [t EXCEPT !.enabled = a.confirmed, !.visible = v]
    BY <1>2, <2>1, Zenon DEF Shown
  <2> QED
    BY <1>0, <2>1, <2>2 DEF Tab
<1> QED
  BY <1>1, <1>2

\* A rendering for an account whose confirmed factor is in the person's hands.
LEMMA RenderKeeps ==
  ASSUME SecurityInv, NEW a \in Account, NEW t \in Tab, Render(a, t), UNCHANGED device,
         login.state = "in", t.here, t.modal => ~a.confirmed,
         a.confirmed => a.secret # 0 /\ device = a.secret,
         asked' \subseteq Questions, UNCHANGED answers, issued' \in 0..MaxIssued
  PROVE  SecurityInv'
<1>0. login \in Login
  BY DEF SecurityInv, SecurityTypeOK
<1>1. PICK v : v = Validated(a, login)
  OBVIOUS
<1>2. account' = v[1] /\ login' = v[2] /\ tab' = Shown(t, v[1])
  BY <1>1, Zenon DEF Render
<1>3. /\ account' \in Account /\ login' \in Login /\ login'.state = "in"
      /\ account' = a \/ (account' = NoFactor /\ ~a.confirmed)
  BY <1>0, <1>1, <1>2, ValidatedState
<1>4. /\ tab' \in Tab /\ tab'.enabled = account'.confirmed /\ tab'.here = t.here
      /\ tab'.modal = t.modal
  BY <1>2, <1>3, ShownTab
<1>5. account'.confirmed => a.confirmed /\ account' = a
  BY <1>3 DEF NoFactor
<1> QED
  BY <1>3, <1>4, <1>5 DEF SecurityInv, SecurityTypeOK

\* A step of the page that leaves account, session and authenticator alone.
LEMMA TabKeeps ==
  ASSUME SecurityInv, UNCHANGED <<account, login, device, issued>>,
         tab' \in Tab, asked' \subseteq Questions,
         answers' \subseteq [kind : Questions, value : 0..MaxIssued],
         tab'.here => tab.here /\ tab'.enabled = tab.enabled,
         tab'.modal => tab'.here /\ ~account.confirmed
  PROVE  SecurityInv'
BY DEF SecurityInv, SecurityTypeOK

\* The page is left, or the session ends.
LEMMA LeavingKeeps ==
  ASSUME SecurityInv, Leaves, UNCHANGED <<account, device, issued>>, login' \in Login
  PROVE  SecurityInv'
<1>1. Gone \in Tab /\ ~Gone.here /\ ~Gone.modal
  BY SecurityAssumption DEF Gone, Tab
<1> QED
  BY <1>1 DEF Leaves, SecurityInv, SecurityTypeOK

\* The session alone changes, and stays where the page needs it.
LEMMA LoginKeeps ==
  ASSUME SecurityInv, UNCHANGED <<account, tab, asked, answers, device, issued>>,
         login' \in Login, tab.here => login'.state = "in"
  PROVE  SecurityInv'
BY DEF SecurityInv, SecurityTypeOK

\* The steps of signing in and out, and of confirming the password.
LEMMA SessionStep ==
  ASSUME SecurityInv, \/ SignIn \/ ToggleRecoveryMode \/ PassChallenge \/ SignOut
                      \/ ConfirmPassword \/ ConfirmationExpires \/ LeaveSecurity \/ NeedsPassword
  PROVE  SecurityInv'
<1>0. login \in Login /\ (tab.here => login.state = "in")
  BY DEF SecurityInv, SecurityTypeOK
<1>s. SignedOut \in Login
  BY DEF SignedOut, Login
<1>1. CASE SignIn
  <2>1. PICK st \in {"out", "challenge", "in"} :
            st = IF account.confirmed THEN "challenge" ELSE "in"
    OBVIOUS
  <2>2. login' = [SignedOut EXCEPT !.state = st]
    BY <1>1, <2>1, Zenon DEF SignIn
  <2>3. login' \in Login /\ ~tab.here
    BY <1>0, <1>1, <1>s, <2>2 DEF SignIn, Login
  <2> QED
    BY <1>1, <2>3, LoginKeeps DEF SignIn
<1>2. CASE ToggleRecoveryMode
  <2>1. PICK b \in BOOLEAN : login' = [login EXCEPT !.recovery = b]
    BY <1>2, Zenon DEF ToggleRecoveryMode
  <2>2. login' \in Login /\ login'.state = login.state
    BY <1>0, <2>1 DEF Login
  <2> QED
    BY <1>0, <1>2, <2>2, LoginKeeps DEF ToggleRecoveryMode
<1>3. CASE PassChallenge
  <2>1. login' \in Login /\ login'.state = "in"
    BY <1>0, <1>3 DEF PassChallenge, Login
  <2> QED
    BY <1>3, <2>1, LoginKeeps DEF PassChallenge
<1>4. CASE SignOut
  BY <1>4, <1>s, LeavingKeeps DEF SignOut
<1>5. CASE ConfirmPassword \/ ConfirmationExpires
  <2>1. PICK b \in BOOLEAN : login' = [login EXCEPT !.sure = b]
    BY <1>5, Zenon DEF ConfirmPassword, ConfirmationExpires
  <2>2. login' \in Login /\ login'.state = login.state
    BY <1>0, <2>1 DEF Login
  <2> QED
    BY <1>0, <1>5, <2>2, LoginKeeps DEF ConfirmPassword, ConfirmationExpires
<1>6. CASE LeaveSecurity \/ NeedsPassword
  BY <1>0, <1>6, LeavingKeeps DEF LeaveSecurity, NeedsPassword, AskForPassword
<1> QED
  BY <1>1, <1>2, <1>3, <1>4, <1>5, <1>6

\* The steps that render the page again.
LEMMA RenderingStep ==
  ASSUME SecurityInv, \/ OpenSecurity \/ SavePassword \/ EnableTwoFactor \/ DisableTwoFactor
                      \/ RegenerateCodes \/ ChangePasskeys
  PROVE  SecurityInv'
<1>0. /\ account \in Account /\ login \in Login /\ tab \in Tab /\ asked \subseteq Questions
      /\ issued \in 0..MaxIssued /\ (tab.here => login.state = "in")
      /\ (account.confirmed => account.secret # 0 /\ device = account.secret)
      /\ (tab.here => tab.enabled = account.confirmed)
      /\ (tab.modal => tab.here /\ ~account.confirmed)
  BY DEF SecurityInv, SecurityTypeOK
<1>1. CASE OpenSecurity
  <2>1. PICK t : t = [Gone EXCEPT !.here = TRUE]
    OBVIOUS
  <2>2. t \in Tab /\ t.here /\ ~t.modal
    <3>1. Gone \in Tab /\ ~Gone.modal
      BY SecurityAssumption DEF Gone, Tab
    <3> QED
      BY <2>1, <3>1 DEF Tab
  <2>3. /\ login.state = "in" /\ Render(account, t) /\ UNCHANGED <<asked, answers, device, issued>>
    BY <1>1, <2>1, Zenon DEF OpenSecurity
  <2> QED
    BY <1>0, <2>2, <2>3, RenderKeeps
<1>2. CASE SavePassword \/ ChangePasskeys
  <2>1. tab.here /\ ~tab.modal /\ Render(account, tab) /\ UNCHANGED <<asked, answers, device, issued>>
    BY <1>2, Zenon DEF SavePassword, ChangePasskeys, OnPage
  <2> QED
    BY <1>0, <2>1, RenderKeeps
<1>3. CASE EnableTwoFactor
  <2>1. PICK a : a = IF account.secret = 0
                     THEN [secret |-> issued', confirmed |-> FALSE, codes |-> issued'] ELSE account
    OBVIOUS
  <2>2. PICK f \in BOOLEAN : f = (tab.failed /\ tab.qr # 0)
    BY Zenon
  <2>3. PICK t : t = [tab EXCEPT !.modal = TRUE, !.failed = f]
    OBVIOUS
  <2>4. /\ Render(a, t) /\ tab.here /\ ~tab.enabled /\ UNCHANGED <<answers, device>>
        /\ asked' = IF tab.qr = 0 THEN asked \cup {"qr", "key"} ELSE asked
    BY <1>3, <2>1, <2>2, <2>3, Zenon DEF EnableTwoFactor, OnPage
  <2>5. issued' \in 0..MaxIssued
    BY <1>0, <1>3, SecurityAssumption DEF EnableTwoFactor
  <2>6. t \in Tab /\ t.here = tab.here
    BY <1>0, <2>2, <2>3 DEF Tab
  <2>7. ~account.confirmed
    BY <1>0, <2>4
  <2>8. a \in Account /\ ~a.confirmed
    BY <1>0, <2>1, <2>5, <2>7 DEF Account
  <2>9. asked' \subseteq Questions
    BY <1>0, <2>4 DEF Questions
  <2> QED
    BY <1>0, <2>4, <2>5, <2>6, <2>8, <2>9, RenderKeeps
<1>4. CASE DisableTwoFactor
  <2>1. /\ tab.here /\ ~tab.modal /\ Render(NoFactor, tab)
        /\ UNCHANGED <<asked, answers, device, issued>>
    BY <1>4, Zenon DEF DisableTwoFactor, OnPage
  <2>2. NoFactor \in Account /\ ~NoFactor.confirmed
    BY SecurityAssumption DEF NoFactor, Account
  <2> QED
    BY <1>0, <2>1, <2>2, RenderKeeps
<1>5. CASE RegenerateCodes
  <2>1. PICK a : a = [account EXCEPT !.codes = issued']
    OBVIOUS
  <2>2. PICK t : t = [tab EXCEPT !.failed = FALSE]
    OBVIOUS
  <2>3. /\ Render(a, t) /\ tab.here /\ ~tab.modal /\ UNCHANGED <<answers, device>>
        /\ asked' = asked \cup {"codes"}
    BY <1>5, <2>1, <2>2, Zenon DEF RegenerateCodes, OnPage
  <2>4. issued' \in 0..MaxIssued
    BY <1>0, <1>5, SecurityAssumption DEF RegenerateCodes
  <2>5. a \in Account /\ a.confirmed = account.confirmed /\ a.secret = account.secret
    BY <1>0, <2>1, <2>4 DEF Account
  <2>6. t \in Tab /\ t.here = tab.here /\ t.modal = tab.modal
    BY <1>0, <2>2 DEF Tab
  <2>7. asked' \subseteq Questions
    BY <1>0, <2>3 DEF Questions
  <2> QED
    BY <1>0, <2>3, <2>4, <2>5, <2>6, <2>7, RenderKeeps
<1> QED
  BY <1>1, <1>2, <1>3, <1>4, <1>5

\* Closing the dialog.
LEMMA ClosedTab ==
  ASSUME NEW t \in Tab, NEW b \in BOOLEAN
  PROVE  /\ Closed(t, b) \in Tab /\ ~Closed(t, b).modal
         /\ Closed(t, b).here = t.here /\ Closed(t, b).enabled = t.enabled
<1>1. PICK u : u = IF b THEN [t EXCEPT !.qr = 0, !.key = 0, !.failed = FALSE] ELSE t
  OBVIOUS
<1>2. u \in Tab /\ u.here = t.here /\ u.enabled = t.enabled
  <2>1. 0 \in 0..MaxIssued
    BY SecurityAssumption
  <2>2. PICK z : z = [t EXCEPT !.qr = 0, !.key = 0, !.failed = FALSE]
    OBVIOUS
  <2>3. z \in Tab /\ z.here = t.here /\ z.enabled = t.enabled
    BY <2>1, <2>2 DEF Tab
  <2>4. u = z \/ u = t
    BY <1>1, <2>2
  <2> QED
    BY <2>3, <2>4
<1>3. Closed(t, b) = [u EXCEPT !.modal = FALSE, !.verifying = FALSE]
  BY <1>1, Zenon DEF Closed
<1> QED
  BY <1>2, <1>3 DEF Tab

\* The steps of the dialog.
LEMMA SetupDialogStep ==
  ASSUME SecurityInv, \/ ContinueSetup \/ CloseSetup \/ ScanCode \/ ConfirmSetup
                      \/ \E next \in BOOLEAN : SetupStep(next)
  PROVE  SecurityInv'
<1>0. /\ account \in Account /\ login \in Login /\ tab \in Tab /\ asked \subseteq Questions
      /\ answers \subseteq [kind : Questions, value : 0..MaxIssued]
      /\ issued \in 0..MaxIssued /\ (tab.here => login.state = "in")
      /\ (tab.here => tab.enabled = account.confirmed)
      /\ (tab.modal => tab.here /\ ~account.confirmed)
  BY DEF SecurityInv, SecurityTypeOK
<1>b. tab.enabled \in BOOLEAN
  BY <1>0 DEF Tab
<1>1. CASE ContinueSetup
  <2>1. tab' \in Tab /\ tab'.here = tab.here /\ tab'.enabled = tab.enabled
    BY <1>0, <1>1 DEF ContinueSetup, Tab
  <2>2. tab.here /\ ~account.confirmed
    BY <1>0, <1>1 DEF ContinueSetup, OnPage
  <2> QED
    BY <1>0, <1>1, <2>1, <2>2, TabKeeps DEF ContinueSetup
<1>2. CASE CloseSetup
  <2>1. tab' \in Tab /\ ~tab'.modal /\ tab'.here = tab.here /\ tab'.enabled = tab.enabled
    BY <1>0, <1>2, <1>b, ClosedTab DEF CloseSetup
  <2> QED
    BY <1>0, <1>2, <2>1, TabKeeps DEF CloseSetup
<1>3. CASE ScanCode
  <2>1. /\ ~account.confirmed /\ UNCHANGED <<account, login, tab, asked, answers, issued>>
        /\ device' \in {tab.qr, tab.key}
    BY <1>0, <1>3 DEF ScanCode
  <2>2. device' \in 0..MaxIssued
    BY <1>0, <2>1 DEF Tab
  <2> QED
    BY <2>1, <2>2 DEF SecurityInv, SecurityTypeOK
<1>4. CASE ConfirmSetup
  <2>1. account' \in Account /\ account'.confirmed /\ account'.secret = account.secret
    BY <1>0, <1>4 DEF ConfirmSetup, Account
  <2>2. /\ Shown(tab, account') \in Tab /\ Shown(tab, account').enabled = account'.confirmed
        /\ Shown(tab, account').here = tab.here
    BY <1>0, <2>1, ShownTab
  <2>3. /\ tab' \in Tab /\ ~tab'.modal /\ tab'.here = tab.here
        /\ tab'.enabled = account'.confirmed
    BY <1>4, <1>b, <2>2, ClosedTab DEF ConfirmSetup
  <2>4. /\ device' = device /\ device = account.secret /\ account.secret # 0
        /\ UNCHANGED <<login, asked, answers, issued>>
    BY <1>4 DEF ConfirmSetup
  <2> QED
    BY <2>1, <2>3, <2>4 DEF SecurityInv, SecurityTypeOK
<1>5. ASSUME NEW next \in BOOLEAN, SetupStep(next)
      PROVE  SecurityInv'
  <2>1. /\ tab' \in Tab /\ tab'.here = tab.here /\ tab'.enabled = tab.enabled
        /\ tab'.modal = tab.modal
    BY <1>0, <1>5 DEF SetupStep, Tab
  <2> QED
    BY <1>0, <1>5, <2>1, TabKeeps DEF SetupStep
<1> QED
  BY <1>1, <1>2, <1>3, <1>4, <1>5

\* Setup data or codes arrive, or do not.
LEMMA SetupDataTab ==
  ASSUME SecurityInv, NEW k, NEW v \in 0..MaxIssued, NEW failed \in BOOLEAN, NEW rest \in SUBSET Questions,
         WithSetupData(k, v, failed, rest)
  PROVE  /\ tab' \in Tab /\ asked' \subseteq Questions /\ tab'.here = tab.here
         /\ tab'.enabled = tab.enabled /\ tab'.modal = tab.modal
<1>0. tab \in Tab
  BY DEF SecurityInv, SecurityTypeOK
<1>1. PICK t : t = IF k = "qr" THEN [tab EXCEPT !.qr = v] ELSE [tab EXCEPT !.key = v]
  OBVIOUS
<1>2. PICK q, y : q = [tab EXCEPT !.qr = v] /\ y = [tab EXCEPT !.key = v]
  BY Zenon
<1>3. /\ q \in Tab /\ q.here = tab.here /\ q.enabled = tab.enabled /\ q.modal = tab.modal
      /\ y \in Tab /\ y.here = tab.here /\ y.enabled = tab.enabled /\ y.modal = tab.modal
  BY <1>0, <1>2 DEF Tab
<1>4. t = q \/ t = y
  BY <1>1, <1>2
<1>5. t \in Tab /\ t.here = tab.here /\ t.enabled = tab.enabled /\ t.modal = tab.modal
  BY <1>3, <1>4
<1>6. PICK f \in BOOLEAN : tab' = [t EXCEPT !.failed = f]
  BY <1>1, Zenon DEF WithSetupData
<1>7. asked' = rest \/ asked' = rest \cup {"qr", "key"}
  BY <1>1, Zenon DEF WithSetupData
<1>8. asked' \subseteq Questions
  BY <1>7 DEF Questions
<1> QED
  BY <1>5, <1>6, <1>8 DEF Tab

\* The recovery codes arrive, or do not.
LEMMA CodesTab ==
  ASSUME SecurityInv, NEW k, NEW v \in 0..MaxIssued, NEW failed \in BOOLEAN, WithCodes(k, v, failed)
  PROVE  /\ tab' \in Tab /\ tab'.here = tab.here
         /\ tab'.enabled = tab.enabled /\ tab'.modal = tab.modal
<1>0. tab \in Tab
  BY DEF SecurityInv, SecurityTypeOK
<1>1. PICK f \in BOOLEAN, b \in BOOLEAN : tab' = [tab EXCEPT !.codes = v, !.failed = f, !.visible = b]
  BY Zenon DEF WithCodes
<1> QED
  BY <1>0, <1>1 DEF Tab

\* The requests of the page, their answers and their failures.
LEMMA RequestStep ==
  ASSUME SecurityInv, \/ ToggleCodes
                      \/ \E k \in asked : Serve(k) \/ RequestFails(k)
                      \/ \E r \in answers : AnswerArrives(r)
  PROVE  SecurityInv'
<1>0. /\ account \in Account /\ login \in Login /\ tab \in Tab /\ asked \subseteq Questions
      /\ answers \subseteq [kind : Questions, value : 0..MaxIssued]
      /\ (tab.modal => tab.here /\ ~account.confirmed)
  BY DEF SecurityInv, SecurityTypeOK
<1>z. 0 \in 0..MaxIssued
  BY SecurityAssumption
<1>1. CASE ToggleCodes
  <2>1. \/ tab' = [tab EXCEPT !.failed = FALSE]
        \/ \E b \in BOOLEAN : tab' = [tab EXCEPT !.visible = b]
    BY <1>1, Zenon DEF ToggleCodes
  <2>2. /\ tab' \in Tab /\ tab'.here = tab.here /\ tab'.enabled = tab.enabled
        /\ tab'.modal = tab.modal
    BY <1>0, <2>1 DEF Tab
  <2>3. asked' = asked \/ asked' = asked \cup {"reveal"}
    BY <1>1, Zenon DEF ToggleCodes
  <2>4. asked' \subseteq Questions
    BY <1>0, <2>3 DEF Questions
  <2>5. UNCHANGED <<account, login, answers, device, issued>>
    BY <1>1, Zenon DEF ToggleCodes
  <2> QED
    BY <1>0, <2>2, <2>4, <2>5, TabKeeps
<1>2. ASSUME NEW k \in asked, Serve(k)
      PROVE  SecurityInv'
  <2>1. PICK v : v = IF k \in {"qr", "key"} THEN account.secret ELSE account.codes
    OBVIOUS
  <2>2. v \in 0..MaxIssued
    BY <1>0, <2>1 DEF Account
  <2>3. /\ answers' = answers \cup {[kind |-> k, value |-> v]} /\ asked' = asked \ {k}
        /\ UNCHANGED <<account, login, tab, device, issued>>
    BY <1>2, <2>1, Zenon DEF Serve
  <2>4. answers' \subseteq [kind : Questions, value : 0..MaxIssued]
    BY <1>0, <2>2, <2>3
  <2> QED
    BY <1>0, <2>3, <2>4, TabKeeps
<1>3. ASSUME NEW k \in asked, RequestFails(k)
      PROVE  SecurityInv'
  <2>0. UNCHANGED <<account, login, device, issued>>
    BY <1>3, Zenon DEF RequestFails
  <2>1. CASE WithSetupData(k, 0, TRUE, asked \ {k}) /\ UNCHANGED answers
    <3>1. asked \ {k} \in SUBSET Questions
      BY <1>0
    <3>2. /\ tab' \in Tab /\ asked' \subseteq Questions /\ tab'.here = tab.here
          /\ tab'.enabled = tab.enabled /\ tab'.modal = tab.modal
      BY <1>z, <2>1, <3>1, SetupDataTab, Zenon
    <3> QED
      BY <1>0, <2>0, <2>1, <3>2, TabKeeps
  <2>2. CASE WithCodes(k, 0, TRUE) /\ asked' = asked \ {k} /\ UNCHANGED answers
    <3>1. /\ tab' \in Tab /\ tab'.here = tab.here /\ tab'.enabled = tab.enabled
          /\ tab'.modal = tab.modal
      BY <1>z, <2>2, CodesTab, Zenon
    <3> QED
      BY <1>0, <2>0, <2>2, <3>1, TabKeeps
  <2>3. CASE Leaves
    BY <1>0, <2>0, <2>3, LeavingKeeps
  <2> QED
    BY <1>3, <2>1, <2>2, <2>3, Zenon DEF RequestFails
<1>4. ASSUME NEW r \in answers, AnswerArrives(r)
      PROVE  SecurityInv'
  <2>0. UNCHANGED <<account, login, device, issued>> /\ answers' = answers \ {r}
    BY <1>4, Zenon DEF AnswerArrives
  <2>1. r.value \in 0..MaxIssued
    BY <1>0
  <2>2. CASE WithSetupData(r.kind, r.value, FALSE, asked)
    <3>1. asked \in SUBSET Questions
      BY <1>0
    <3>2. /\ tab' \in Tab /\ asked' \subseteq Questions /\ tab'.here = tab.here
          /\ tab'.enabled = tab.enabled /\ tab'.modal = tab.modal
      BY <2>1, <2>2, <3>1, SetupDataTab, Zenon
    <3> QED
      BY <1>0, <2>0, <3>2, TabKeeps
  <2>3. CASE WithCodes(r.kind, r.value, FALSE) /\ UNCHANGED asked
    <3>1. /\ tab' \in Tab /\ tab'.here = tab.here /\ tab'.enabled = tab.enabled
          /\ tab'.modal = tab.modal
      BY <2>1, <2>3, CodesTab, Zenon
    <3> QED
      BY <1>0, <2>0, <2>3, <3>1, TabKeeps
  <2> QED
    BY <1>4, <2>2, <2>3, Zenon DEF AnswerArrives
<1> QED
  BY <1>1, <1>2, <1>3, <1>4

\* Every step of the security of an account keeps the invariant.
LEMMA SecurityStep ==
  ASSUME SecurityInv, SecurityNext
  PROVE  SecurityInv'
BY SessionStep, RenderingStep, SetupDialogStep, RequestStep, Zenon DEF SecurityNext

-----------------------------------------------------------------------------
(* The types of the whole                                                  *)

\* Every part is of its type, and the parts whose types rest on more have their invariant.
ConsoleInv ==
    /\ page \in AllPages
    /\ MigrationInv /\ EditorInv /\ SecurityInv
    /\ RoleTypeOK /\ WorkflowsTypeOK /\ SqlTypeOK
    /\ ConnectionInv /\ PeopleInv /\ SignInInv

\* A part that is left alone keeps its types.
LEMMA PartsLeftAlone ==
  /\ UNCHANGED <<roleVars, workflowVars>> /\ RoleTypeOK /\ WorkflowsTypeOK
       => RoleTypeOK' /\ WorkflowsTypeOK'
  /\ UNCHANGED sqlVars /\ SqlTypeOK => SqlTypeOK'
  /\ UNCHANGED connectionVars /\ ConnectionInv => ConnectionInv'
  /\ UNCHANGED peopleVars /\ PeopleInv => PeopleInv'
  /\ UNCHANGED signInVars /\ SignInInv => SignInInv'
  /\ UNCHANGED securityVars /\ SecurityInv => SecurityInv'
<1>1. UNCHANGED <<roleVars, workflowVars>> /\ RoleTypeOK /\ WorkflowsTypeOK
        => RoleTypeOK' /\ WorkflowsTypeOK'
  BY DEF roleVars, workflowVars, RoleTypeOK, WorkflowsTypeOK
<1>2. UNCHANGED sqlVars /\ SqlTypeOK => SqlTypeOK'
  BY DEF sqlVars, SqlTypeOK
<1>3. UNCHANGED connectionVars /\ ConnectionInv => ConnectionInv'
  BY DEF connectionVars, ConnectionInv, ConnectionTypeOK
<1>4. UNCHANGED peopleVars /\ PeopleInv => PeopleInv'
  BY DEF peopleVars, PeopleInv, PeopleTypeOK, WellSent
<1>5. UNCHANGED signInVars /\ SignInInv => SignInInv'
  BY DEF signInVars, SignInInv, SignInTypeOK
<1>6. UNCHANGED securityVars /\ SecurityInv => SecurityInv'
  BY DEF securityVars, SecurityInv, SecurityTypeOK
<1> QED
  BY <1>1, <1>2, <1>3, <1>4, <1>5, <1>6

\* Every part of the console is of its type in every behaviour, for any workspace: any number
\* of people, roles, groups, connections, providers, statements, plans and databases, and
\* whatever the rows of the role were at the start.  For the security of an account this
\* rests on the page showing whether the second factor is on.
THEOREM ConsoleTypes == Spec => []TypeOK
<1>1. Init => ConsoleInv
  <2> SUFFICES ASSUME Init
               PROVE  ConsoleInv
    OBVIOUS
  <2>1. page \in AllPages
    BY ConsoleAssumption DEF Init
  <2>2. MigrationInv /\ EditorInv /\ SecurityInv
    BY MigrationStart, EditorStart, SecurityStart DEF Init
  <2>3. RoleTypeOK /\ WorkflowsTypeOK /\ SqlTypeOK
    BY RoleTypesStart, SqlTypesStart DEF Init
  <2>4. ConnectionInv /\ PeopleInv /\ SignInInv
    BY ConnectionStart, PeopleStart, SignInStart DEF Init
  <2> QED
    BY <2>1, <2>2, <2>3, <2>4 DEF ConsoleInv
<1>2. ConsoleInv /\ [Next]_vars => ConsoleInv'
  <2> SUFFICES ASSUME ConsoleInv, [Next]_vars
               PROVE  ConsoleInv'
    OBVIOUS
  <2>1. MigrationInv' /\ EditorInv'
    BY MigrationStep, MigrationInConsole, EditorInConsole DEF ConsoleInv
  <2>2. page' \in AllPages
    <3>1. page' = page
      BY Zenon DEF Next, OnlyOn, vars
    <3> QED
      BY <3>1 DEF ConsoleInv
  <2>3. RoleTypeOK' /\ WorkflowsTypeOK'
    <3>1. RoleNext \/ UNCHANGED <<roleVars, workflowVars>>
      BY Zenon DEF Next, OnlyOn, vars
    <3> QED
      BY <3>1, RoleTypesStep, PartsLeftAlone DEF ConsoleInv
  <2>4. SqlTypeOK'
    <3>1. SqlNext \/ UNCHANGED sqlVars
      BY Zenon DEF Next, OnlyOn, vars
    <3> QED
      BY <3>1, SqlTypesStep, PartsLeftAlone DEF ConsoleInv
  <2>5. ConnectionInv'
    <3>1. ConnectionNext \/ UNCHANGED connectionVars
      BY Zenon DEF Next, OnlyOn, vars
    <3> QED
      BY <3>1, ConnectionStep, PartsLeftAlone DEF ConsoleInv
  <2>6. PeopleInv'
    <3>1. PeopleNext \/ UNCHANGED peopleVars
      BY Zenon DEF Next, OnlyOn, vars
    <3> QED
      BY <3>1, PeopleStep, PartsLeftAlone DEF ConsoleInv
  <2>7. SignInInv'
    <3>1. SignInNext \/ UNCHANGED signInVars
      BY Zenon DEF Next, OnlyOn, vars
    <3> QED
      BY <3>1, SignInStep, PartsLeftAlone DEF ConsoleInv
  <2>8. SecurityInv'
    <3>1. SecurityNext \/ UNCHANGED securityVars
      BY Zenon DEF Next, OnlyOn, vars
    <3> QED
      BY <3>1, SecurityStep, PartsLeftAlone DEF ConsoleInv
  <2> QED
    BY <2>1, <2>2, <2>3, <2>4, <2>5, <2>6, <2>7, <2>8 DEF ConsoleInv
<1>3. ConsoleInv => TypeOK
  BY DEF ConsoleInv, AllPages, TypeOK, MigrationInv, EditorInv, SecurityInv, ConnectionInv,
         PeopleInv, SignInInv
<1> QED
  BY <1>1, <1>2, <1>3, PTL DEF Spec

=============================================================================
