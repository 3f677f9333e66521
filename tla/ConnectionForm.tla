---------------------------- MODULE ConnectionForm ----------------------------
(***************************************************************************)
(* The form of a database connection, as far as it decides how Crucible    *)
(* connects to the target: the driver, the TLS mode, and the TLS material, *)
(* which is stored but never shown again.                                  *)
(*                                                                         *)
(* Source: resources/js/pages/connections/form.tsx,                        *)
(* StoreDatabaseConnectionRequest, UpdateDatabaseConnectionRequest and     *)
(* DatabaseConnectionController.  A certificate or key is kept as whether  *)
(* there is one.  A request reads the row to validate and writes it        *)
(* afterwards, without a lock (see Serving).  That an update or a deletion *)
(* also revokes the native leases of the connection is the LeaseEnds of    *)
(* NativePanel.                                                            *)
(***************************************************************************)
EXTENDS Naturals, FiniteSets, Serving

CONSTANTS
    ConnectionIds, \* bound: the rows that are ever created
    MaxSubmissions,\* bound on the requests that pass validation
    Drivers        \* the drivers

VARIABLES
    target,        \* the connections
    form,          \* the state of the form
    served,        \* the requests that were validated and not yet stored
    submissions    \* counter, for the bound

connectionVars == <<target, form, served, submissions>>

Material == {"ca", "cert", "key"}

TlsModes == {"disabled", "unverified", "verify"}

NoDriver == "none"

\* The row of the form for a new connection.
NewRow == "new"

ASSUME ConnectionAssumption ==
    /\ NoDriver \notin Drivers /\ Drivers # {} /\ NewRow \notin ConnectionIds
    /\ MaxSubmissions \in Nat

\* A row that was deleted is not used again.
Target == [row : {"unused", "stored", "deleted"}, driver : Drivers \cup {NoDriver},
           mode : TlsModes, material : SUBSET Material]

NoTarget == [row |-> "unused", driver |-> NoDriver, mode |-> "unverified", material |-> {}]

\* loaded is what the form was opened with.
Form == [id : ConnectionIds \cup {NewRow}, loaded : Target, driver : Drivers, mode : TlsModes,
         action : {"retain", "replace", "clear"}, pasted : SUBSET Material]

\* read is the row the request was validated against.
Request == [id : ConnectionIds \cup {NewRow}, read : Target, driver : Drivers, mode : TlsModes,
            action : {"retain", "replace", "clear"}, pasted : SUBSET Material]

ConnectionTypeOK ==
    /\ target \in [ConnectionIds -> Target] /\ form \in Form
    /\ served \subseteq Request /\ submissions \in 0..MaxSubmissions
    /\ \A c \in ConnectionIds : target[c].row = "stored" <=> target[c].driver # NoDriver

-----------------------------------------------------------------------------
(* The form                                                                *)

IsEditing(f) == f.id # NewRow

\* shouldShowTlsMaterial and replacesTlsMaterial: the fields for new material are there.
ShowsMaterial(f) == f.mode # "disabled" \/ (IsEditing(f) /\ f.loaded.material # {})

MaterialFields(f) == ShowsMaterial(f) /\ (~IsEditing(f) \/ f.action = "replace")

\* requiresNewCaCertificate, which makes the field required.
RequiresCa(f) ==
    f.mode = "verify" /\ MaterialFields(f) /\ "ca" \notin f.loaded.material

\* A field that leaves the document loses what was pasted into it.
Kept(f) == IF MaterialFields(f) THEN f ELSE [f EXCEPT !.pasted = {}]

\* The state the form starts with: of a row, or for a new connection.
Fresh(id, t) ==
    [id |-> id, loaded |-> t,
     driver |-> IF id = NewRow THEN CHOOSE d \in Drivers : TRUE ELSE t.driver,
     mode |-> t.mode, action |-> "retain", pasted |-> {}]

\* create().
NewConnection ==
    /\ form' = Fresh(NewRow, NoTarget)
    /\ UNCHANGED <<target, served, submissions>>

\* edit().
OpenConnection(c) ==
    /\ target[c].row = "stored"
    /\ form' = Fresh(c, target[c])
    /\ UNCHANGED <<target, served, submissions>>

\* changeDriver.
ChangeDriver(d) ==
    /\ form' = [form EXCEPT !.driver = d]
    /\ UNCHANGED <<target, served, submissions>>

ChangeTlsMode(m) ==
    /\ form' = Kept([form EXCEPT !.mode = m])
    /\ UNCHANGED <<target, served, submissions>>

\* "Stored TLS material": keep, replace or clear.
ChangeMaterialAction(a) ==
    /\ IsEditing(form) /\ ShowsMaterial(form)
    /\ form' = Kept([form EXCEPT !.action = a])
    /\ UNCHANGED <<target, served, submissions>>

\* A certificate or key is pasted or removed from its field.
Paste(x) ==
    /\ MaterialFields(form)
    /\ form' = [form EXCEPT !.pasted = IF x \in @ THEN @ \ {x} ELSE @ \cup {x}]
    /\ UNCHANGED <<target, served, submissions>>

-----------------------------------------------------------------------------
(* The request                                                             *)

\* What the browser sends: the material action only where its select is there, and then
\* the server takes "retain" for one that is missing.
SentAction(f) == IF IsEditing(f) /\ ShowsMaterial(f) THEN f.action ELSE "retain"

\* Variant: a request that clears the material passes with the certificate it removes.
CaAfterKeeping(r) == "ca" \in r.pasted \/ "ca" \in r.read.material

\* The CA certificate there will be.
CaAfter(r) ==
    CASE r.action = "clear" -> FALSE
      [] r.action = "replace" -> "ca" \in r.pasted \/ "ca" \in r.read.material
      [] OTHER -> "ca" \in IF r.id = NewRow THEN r.pasted ELSE r.read.material

\* The client certificate and key that validation takes into account.
ClientPair(r) ==
    {"cert", "key"} \cap
        CASE r.action = "clear" -> {}
          [] r.action = "replace" -> r.pasted
          [] OTHER -> IF r.id = NewRow THEN r.pasted ELSE r.read.material

\* after() of the two form requests.
Validates(r) ==
    /\ r.mode = "verify" => CaAfter(r)
    /\ ClientPair(r) \in {{}, {"cert", "key"}}

\* The row a request is about, as it is.
RowOf(id) == IF id = NewRow THEN NoTarget ELSE target[id]

\* The form is sent: the row is read and the request validated.  An error empties the
\* fields of the material.
Submitted ==
    LET r == [id |-> form.id, read |-> RowOf(form.id), driver |-> form.driver,
              mode |-> form.mode, action |-> SentAction(form), pasted |-> form.pasted]
    IN /\ RequiresCa(form) => "ca" \in form.pasted
       /\ IsEditing(form) => RowOf(form.id).row = "stored"
       /\ WorkerFree(served)
       /\ IF Validates(r)
          THEN /\ submissions < MaxSubmissions /\ submissions' = submissions + 1
               /\ served' = served \cup {r} /\ UNCHANGED form
          ELSE form' = [form EXCEPT !.pasted = {}] /\ UNCHANGED <<served, submissions>>
       /\ UNCHANGED target

\* store(): a new row.  The answer leads to it; with "Save & add another" it is the same
\* page, whose fields keep what was typed, the material included.
Created(r, c, another) ==
    /\ r \in served /\ r.id = NewRow /\ target[c].row = "unused"
    /\ served' = served \ {r}
    /\ target' = [target EXCEPT ![c] = [row |-> "stored", driver |-> r.driver, mode |-> r.mode,
                                        material |-> r.pasted]]
    /\ IF another THEN ~IsEditing(form) /\ UNCHANGED form
                  ELSE form' = Fresh(c, target'[c])
    /\ UNCHANGED submissions

\* The columns an update writes: those it changes from what it had read.
MaterialAfter(r, t) ==
    CASE r.action = "replace" -> t.material \cup r.pasted
      [] r.action = "clear" -> t.material \ r.read.material
      [] OTHER -> t.material

Updated(r, t) ==
    [row |-> "stored", driver |-> IF r.driver = r.read.driver THEN t.driver ELSE r.driver,
     mode |-> IF r.mode = r.read.mode THEN t.mode ELSE r.mode, material |-> MaterialAfter(r, t)]

\* update(): a row that is gone by now is not written.  The answer leads to the
\* connection, whose form is loaded anew.
Stored(r) ==
    /\ r \in served /\ r.id # NewRow
    /\ served' = served \ {r}
    /\ IF target[r.id].row = "stored"
       THEN /\ target' = [target EXCEPT ![r.id] = Updated(r, @)]
            /\ form' = Fresh(r.id, target'[r.id])
       ELSE UNCHANGED <<target, form>>
    /\ UNCHANGED submissions

\* destroy().
DeleteConnection(c) ==
    /\ target[c].row = "stored"
    /\ target' = [target EXCEPT ![c] = [NoTarget EXCEPT !.row = "deleted"]]
    /\ UNCHANGED <<form, served, submissions>>

-----------------------------------------------------------------------------
ConnectionInit ==
    /\ target = [c \in ConnectionIds |-> NoTarget]
    /\ form = Fresh(NewRow, NoTarget) /\ served = {} /\ submissions = 0

ConnectionNext ==
    \/ NewConnection \/ Submitted
    \/ \E c \in ConnectionIds : OpenConnection(c) \/ DeleteConnection(c)
    \/ \E d \in Drivers : ChangeDriver(d)
    \/ \E m \in TlsModes : ChangeTlsMode(m)
    \/ \E a \in {"retain", "replace", "clear"} : ChangeMaterialAction(a)
    \/ \E x \in Material : Paste(x)
    \/ \E r \in served : Stored(r)
    \/ \E r \in served, c \in ConnectionIds, another \in BOOLEAN : Created(r, c, another)

-----------------------------------------------------------------------------
(* Properties                                                              *)

\* A connection that verifies its server has the CA certificate to do it with, and a
\* client certificate is stored with its key.
Complete(t) ==
    t.row = "stored" =>
        /\ t.mode = "verify" => "ca" \in t.material
        /\ "cert" \in t.material <=> "key" \in t.material

\* A connection is complete, and stays it through everything that is kept, replaced and
\* cleared, however old the form is, with one exception: update() writes columns after
\* validating them against a row that another request has changed in the meantime
\* (UpdateDatabaseConnectionRequest::after, DatabaseConnectionController::update).
TargetTlsComplete ==
    [][\A c \in ConnectionIds : Complete(target[c]) /\ ~Complete(target'[c]) =>
          \E r \in served \ served' : r.id = c /\ r.read # target[c]]_connectionVars

=============================================================================
