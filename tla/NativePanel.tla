----------------------------- MODULE NativePanel -----------------------------
(***************************************************************************)
(* The page part with which a native client is set up: the temporary       *)
(* credentials of a lease, the approval of the CLI's device code, and the  *)
(* clients connected.                                                      *)
(*                                                                         *)
(* Source: resources/js/components/native-proxy/session-panel.tsx and      *)
(* pages/native-proxy/device-authorization.tsx; the server's side is       *)
(* LeaseWorkflow::create, rotate, revoke and expireDue, and                *)
(* DeviceAuthorizationWorkflow::approve and poll.                          *)
(*                                                                         *)
(* A request for credentials may be served and its answer lost; the answer *)
(* to a poll says what was so when the server gave it, and no poll is sent *)
(* from a tab in the background.  SessionPage composes this part with the  *)
(* page around it.                                                         *)
(***************************************************************************)
EXTENDS Naturals

CONSTANT MaxVersion   \* bound on the versions of the credentials

ASSUME PanelAssumption == MaxVersion \in Nat \ {0}

VARIABLES
    lease,       \* the lease in the database: its status and credential version
    issued,      \* history: the last version issued to this panel
    propLease,   \* session.native_proxy.lease, from the last load of the page
    created,     \* createdLease: the status and version it was given
    credential,  \* the version of the credential on display; 0 is none
    command,     \* the credential request in flight
    clients,     \* whether a client is connected, and a device has a valid token
    shownClients,\* what the panel shows of that
    hidden,      \* document.hidden
    clientsPoll, \* the poll of the connections
    answer,      \* what the server has answered to it
    code         \* a device's code, typed in another tab

panelVars == <<lease, issued, propLease, created, credential, command, clients,
               shownClients, hidden, clientsPoll, answer, code>>

NoLease == [status |-> "none", version |-> 0]

\* "ended" is Revoked and Expired.
Lease == [status : {"none", "active", "ended"}, version : 0..MaxVersion]

Idle == [op |-> "none", phase |-> "none", version |-> 0]

Clients == [client : BOOLEAN, device : BOOLEAN]

Unconnected == [client |-> FALSE, device |-> FALSE]

PanelTypeOK ==
    /\ lease \in Lease /\ propLease \in Lease /\ created \in Lease
    /\ issued \in 0..MaxVersion /\ credential \in 0..MaxVersion
    /\ command \in [op : {"none", "create", "rotate"}, phase : {"none", "sent", "served", "refused"},
                    version : 0..MaxVersion]
    /\ clients \in Clients /\ shownClients \in Clients /\ answer \in Clients
    /\ hidden \in BOOLEAN
    /\ clientsPoll \in {"idle", "asked", "answered"}
    /\ code \in {"typing", "approved"}

-----------------------------------------------------------------------------
(* Credentials                                                             *)

\* The panel's own lease hides the one in the props.
ShownLease == IF created # NoLease THEN created ELSE propLease

\* hasUsableCredentials.
Usable == credential # 0 \/ ShownLease.status = "active"

\* The second and the third step of the set-up, for the clients the panel knows of.
DeviceStep(c) == IF c.device THEN "complete" ELSE IF Usable THEN "current" ELSE "upcoming"

ClientStep(c) == IF c.client THEN "complete" ELSE IF c.device THEN "current" ELSE "upcoming"

\* The first step: "Create credentials".
CreateCredentials ==
    /\ ShownLease = NoLease /\ credential = 0
    /\ command = Idle
    /\ command' = [op |-> "create", phase |-> "sent", version |-> 0]
    /\ UNCHANGED <<lease, issued, propLease, created, credential, clients, shownClients,
                   hidden, clientsPoll, answer, code>>

\* Variant: the old credential stays on display during the rotation.
RotateKeepingCredential ==
    /\ ShownLease.status = "active"
    /\ command = Idle
    /\ command' = [op |-> "rotate", phase |-> "sent", version |-> 0]
    /\ UNCHANGED <<lease, issued, propLease, created, credential, clients, shownClients,
                   hidden, clientsPoll, answer, code>>

\* "Rotate credentials": what was on display goes before the server is asked.
RotateCredentials ==
    /\ ShownLease.status = "active"
    /\ command = Idle
    /\ credential' = 0
    /\ command' = [op |-> "rotate", phase |-> "sent", version |-> 0]
    /\ UNCHANGED <<lease, issued, propLease, created, clients, shownClients, hidden,
                   clientsPoll, answer, code>>

\* LeaseWorkflow::create and rotate.  A rotation disconnects the clients.
ServeCommand ==
    /\ command.phase = "sent"
    /\ IF \/ command.op = "create" /\ lease = NoLease
          \/ command.op = "rotate" /\ lease.status = "active"
       THEN /\ lease.version < MaxVersion
            /\ lease' = [status |-> "active", version |-> lease.version + 1]
            /\ issued' = lease'.version
            /\ command' = [command EXCEPT !.phase = "served", !.version = lease'.version]
            /\ clients' = [clients EXCEPT !.client = FALSE]
       ELSE /\ command' = [command EXCEPT !.phase = "refused"]
            /\ UNCHANGED <<lease, issued, clients>>
    /\ UNCHANGED <<propLease, created, credential, shownClients, hidden, clientsPoll,
                   answer, code>>

\* applyCredential.
ApplyCredential ==
    /\ command.phase = "served"
    /\ credential' = command.version
    /\ created' = [status |-> "active", version |-> command.version]
    /\ command' = Idle
    /\ UNCHANGED <<lease, issued, propLease, clients, shownClients, hidden,
                   clientsPoll, answer, code>>

\* The request or its answer is lost, or the server has refused: a message.
CommandFails ==
    /\ command # Idle
    /\ command' = Idle
    /\ UNCHANGED <<lease, issued, propLease, created, credential, clients, shownClients,
                   hidden, clientsPoll, answer, code>>

\* CredentialReveal is closed.
DismissCredential ==
    /\ credential # 0
    /\ credential' = 0
    /\ UNCHANGED <<lease, issued, propLease, created, command, clients, shownClients,
                   hidden, clientsPoll, answer, code>>

\* The lease is revoked or expires, with its session or without: the tokens of its devices
\* are revoked and its clients disconnected.
LeaseEnds ==
    /\ lease.status = "active"
    /\ lease' = [lease EXCEPT !.status = "ended"]
    /\ clients' = Unconnected
    /\ UNCHANGED <<issued, propLease, created, credential, command, shownClients, hidden,
                   clientsPoll, answer, code>>

\* The owner in another window, or an administrator, rotates the credentials.
OthersRotate ==
    /\ lease.status = "active" /\ lease.version < MaxVersion
    /\ lease' = [lease EXCEPT !.version = @ + 1]
    /\ clients' = [clients EXCEPT !.client = FALSE]
    /\ UNCHANGED <<issued, propLease, created, credential, command, shownClients, hidden,
                   clientsPoll, answer, code>>

-----------------------------------------------------------------------------
(* The device code, typed in another tab, and the clients                  *)

\* A complete code is submitted, and approved while its lease is active; a refused one is
\* typed again.
ApproveCode ==
    /\ code = "typing" /\ lease.status = "active"
    /\ code' = "approved"
    /\ UNCHANGED <<lease, issued, propLease, created, credential, command, clients,
                   shownClients, hidden, clientsPoll, answer>>

\* The CLI polls with its code and is given a token, while the lease is active; otherwise,
\* or when the code has run out, it has to begin with another code.
CollectToken ==
    /\ code = "approved"
    /\ code' = "typing"
    /\ \/ lease.status = "active" /\ clients' = [clients EXCEPT !.device = TRUE]
       \/ UNCHANGED clients
    /\ UNCHANGED <<lease, issued, propLease, created, credential, command, shownClients, hidden,
                   clientsPoll, answer>>

\* The tokens run out with the lease's time, before the lease is marked as expired.
TokensRunOut ==
    /\ lease.status = "active" /\ clients.device
    /\ clients' = [clients EXCEPT !.device = FALSE]
    /\ UNCHANGED <<lease, issued, propLease, created, credential, command, shownClients, hidden,
                   clientsPoll, answer, code>>

\* A client connects through a device with a token, or goes.
ClientMoves ==
    /\ clients.client \/ clients.device
    /\ clients' = [clients EXCEPT !.client = ~@]
    /\ UNCHANGED <<lease, issued, propLease, created, credential, command, shownClients, hidden,
                   clientsPoll, answer, code>>

\* The tab goes to the background and comes back.
TurnTab ==
    /\ hidden' = ~hidden
    /\ UNCHANGED <<lease, issued, propLease, created, credential, command, clients,
                   shownClients, clientsPoll, answer, code>>

\* refreshConnections: every 3 s if the document is visible, one request at a time.
AskClients ==
    /\ clientsPoll = "idle" /\ ~hidden
    /\ clientsPoll' = "asked"
    /\ UNCHANGED <<lease, issued, propLease, created, credential, command, clients,
                   shownClients, hidden, answer, code>>

\* ConnectionController::index.
AnswerClients ==
    /\ clientsPoll = "asked"
    /\ clientsPoll' = "answered" /\ answer' = clients
    /\ UNCHANGED <<lease, issued, propLease, created, credential, command, clients,
                   shownClients, hidden, code>>

\* The answer arrives, whatever has happened since.
ShowClients ==
    /\ clientsPoll = "answered"
    /\ clientsPoll' = "idle" /\ answer' = Unconnected
    /\ shownClients' = answer
    /\ UNCHANGED <<lease, issued, propLease, created, credential, command, clients, hidden, code>>

\* Variant: a failure ends the polling.
ClientsPollFailsForGood ==
    /\ clientsPoll # "idle"
    /\ clientsPoll' = "stopped" /\ answer' = Unconnected
    /\ UNCHANGED <<lease, issued, propLease, created, credential, command, clients,
                   shownClients, hidden, code>>

\* A failure keeps what was shown.
ClientsPollFails ==
    /\ clientsPoll # "idle"
    /\ clientsPoll' = "idle" /\ answer' = Unconnected
    /\ UNCHANGED <<lease, issued, propLease, created, credential, command, clients,
                   shownClients, hidden, code>>

\* The page is loaded again: all that is left of the panel is in the props.
ReloadPanel ==
    /\ propLease' = lease /\ created' = NoLease
    /\ credential' = 0 /\ command' = Idle
    /\ shownClients' = clients /\ clientsPoll' = "idle" /\ answer' = Unconnected
    /\ UNCHANGED <<lease, issued, clients, hidden, code>>

-----------------------------------------------------------------------------
PanelInit ==
    /\ lease \in {NoLease, [status |-> "active", version |-> 1]}
    /\ issued = 0
    /\ propLease = lease /\ created = NoLease
    /\ credential = 0 /\ command = Idle
    /\ clients = Unconnected /\ shownClients = Unconnected /\ answer = Unconnected
    /\ hidden = FALSE /\ clientsPoll = "idle" /\ code = "typing"

PanelNext ==
    \/ CreateCredentials \/ RotateCredentials \/ ServeCommand \/ ApplyCredential
    \/ CommandFails \/ DismissCredential \/ LeaseEnds \/ OthersRotate
    \/ ApproveCode \/ CollectToken \/ TokensRunOut \/ ClientMoves
    \/ TurnTab \/ AskClients \/ AnswerClients \/ ShowClients \/ ClientsPollFails
    \/ ReloadPanel

-----------------------------------------------------------------------------
(* Properties                                                              *)

\* A password on display is the last one that was issued here: when a rotation is
\* carried out and its answer is lost, the panel does not keep showing the password
\* that the rotation has just made invalid.
NoSupersededPasswordShown == credential # 0 => credential = issued

=============================================================================
