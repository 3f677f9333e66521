-------------------------- MODULE SessionPageSafety --------------------------
(***************************************************************************)
(* What holds of SessionPage and of the panel for native clients, for any  *)
(* number of connections, queries and versions of the credentials.         *)
(*                                                                         *)
(* The page keeps what it was told: the snapshots in flight are of the     *)
(* session (BrowserInv), a result page is filed under its own query, and   *)
(* while a request for credentials is on its way none is on display        *)
(* (PanelInv).                                                             *)
(***************************************************************************)
EXTENDS SessionPage, TLAPS

-----------------------------------------------------------------------------
(* The panel                                                               *)

\* No credential is on display while another may be issued, and one that was issued and
\* not yet shown is the last one.
PanelInv ==
    /\ PanelTypeOK
    /\ command.phase \in {"sent", "served"} => credential = 0
    /\ command.phase = "served" => command.version = issued
    /\ NoSupersededPasswordShown

\* Nobody is connected.
LEMMA UnconnectedIs == Unconnected \in Clients
BY DEF Unconnected, Clients

\* The panel starts with nothing on display.
LEMMA PanelStart == PanelInit => PanelInv
<1>. SUFFICES ASSUME PanelInit
              PROVE  PanelInv
  OBVIOUS
<1>1. 0 \in 0..MaxVersion /\ 1 \in 0..MaxVersion
  BY PanelAssumption
<1>2. NoLease \in Lease /\ [status |-> "active", version |-> 1] \in Lease
  BY <1>1 DEF NoLease, Lease
<1>3. lease \in Lease /\ propLease \in Lease /\ created \in Lease
  BY <1>2 DEF PanelInit
<1>4. command = [op |-> "none", phase |-> "none", version |-> 0] /\ issued = 0 /\ credential = 0
  BY DEF PanelInit, Idle
<1>5. Unconnected \in Clients
  BY UnconnectedIs
<1>6. /\ clients = Unconnected /\ shownClients = Unconnected /\ answer = Unconnected
      /\ hidden \in BOOLEAN /\ clientsPoll = "idle" /\ code = "typing"
  BY Zenon DEF PanelInit
<1>7. PanelTypeOK
  BY <1>1, <1>3, <1>4, <1>5, <1>6 DEF PanelTypeOK
<1>. QED  BY <1>4, <1>7 DEF PanelInv, NoSupersededPasswordShown

\* The clients change as records of two flags.
LEMMA ClientsType ==
    ASSUME NEW c \in Clients
    PROVE  /\ [c EXCEPT !.client = FALSE] \in Clients
           /\ [c EXCEPT !.device = TRUE] \in Clients
           /\ [c EXCEPT !.device = FALSE] \in Clients
           /\ [c EXCEPT !.client = ~@] \in Clients
BY Zenon DEF Clients

\* The panel goes back to having no request under way.
LEMMA IdleIs ==
    /\ Idle \in [op : {"none", "create", "rotate"}, phase : {"none", "sent", "served", "refused"},
                 version : 0..MaxVersion]
    /\ Idle.phase = "none"
BY PanelAssumption DEF Idle

\* The steps of the panel.
LEMMA PanelStep ==
    ASSUME PanelInv, PanelNext
    PROVE  PanelInv'
<1>0. 0 \in 0..MaxVersion
  BY PanelAssumption
<1>1. CASE CreateCredentials \/ RotateCredentials
  <2>1. /\ UNCHANGED <<lease, issued, propLease, created, clients, shownClients, hidden, clientsPoll, answer, code>>
        /\ credential' = 0
        /\ \E o \in {"create", "rotate"} : command' = [op |-> o, phase |-> "sent", version |-> 0]
    BY <1>1 DEF CreateCredentials, RotateCredentials
  <2>2. /\ command' \in [op : {"none", "create", "rotate"},
                         phase : {"none", "sent", "served", "refused"}, version : 0..MaxVersion]
        /\ command'.phase = "sent"
    BY <1>0, <2>1
  <2>. QED  BY <1>0, <2>1, <2>2 DEF PanelInv, PanelTypeOK, NoSupersededPasswordShown
<1>2. CASE ServeCommand
  <2>1. /\ command.phase = "sent" /\ credential = 0
        /\ UNCHANGED <<propLease, created, credential, shownClients, hidden, clientsPoll, answer, code>>
    BY <1>2 DEF ServeCommand, PanelInv
  <2>2. CASE /\ lease.version < MaxVersion
             /\ lease' = [status |-> "active", version |-> lease.version + 1]
             /\ issued' = lease'.version
             /\ command' = [command EXCEPT !.phase = "served", !.version = lease'.version]
             /\ clients' = [clients EXCEPT !.client = FALSE]
    <3>1. PICK n \in 0..MaxVersion : n = lease.version + 1
      BY <2>2, PanelAssumption DEF PanelInv, PanelTypeOK, Lease
    <3>2. lease' = [status |-> "active", version |-> n] /\ issued' = n
      BY <2>2, <3>1
    <3>3. lease' \in Lease
      BY <3>2 DEF Lease
    <3>4. command' = [command EXCEPT !.phase = "served", !.version = n]
      BY <2>2, <3>2
    <3>5. command \in [op : {"none", "create", "rotate"},
                       phase : {"none", "sent", "served", "refused"}, version : 0..MaxVersion]
      BY DEF PanelInv, PanelTypeOK
    <3>6. /\ command' \in [op : {"none", "create", "rotate"},
                           phase : {"none", "sent", "served", "refused"}, version : 0..MaxVersion]
          /\ command'.phase = "served" /\ command'.version = n
      BY <3>4, <3>5
    <3>7. clients' \in Clients
      BY <2>2, ClientsType DEF PanelInv, PanelTypeOK
    <3>. QED  BY <2>1, <3>2, <3>3, <3>6, <3>7 DEF PanelInv, PanelTypeOK, NoSupersededPasswordShown
  <2>3. CASE command' = [command EXCEPT !.phase = "refused"] /\ UNCHANGED <<lease, issued, clients>>
    <3>1. /\ command' \in [op : {"none", "create", "rotate"},
                           phase : {"none", "sent", "served", "refused"}, version : 0..MaxVersion]
          /\ command'.phase = "refused"
      BY <2>3 DEF PanelInv, PanelTypeOK
    <3>. QED  BY <2>1, <2>3, <3>1 DEF PanelInv, PanelTypeOK, NoSupersededPasswordShown
  <2>. QED  BY <1>2, <2>2, <2>3, Zenon DEF ServeCommand
<1>3. CASE ApplyCredential
  <2>1. /\ command.phase = "served" /\ credential' = command.version /\ command' = Idle
        /\ created' = [status |-> "active", version |-> command.version]
        /\ UNCHANGED <<lease, issued, propLease, clients, shownClients, hidden, clientsPoll, answer, code>>
    BY <1>3 DEF ApplyCredential
  <2>2. command.version \in 0..MaxVersion /\ command.version = issued
    BY <2>1 DEF PanelInv, PanelTypeOK
  <2>3. created' \in Lease
    BY <2>1, <2>2 DEF Lease
  <2>. QED  BY <2>1, <2>2, <2>3, IdleIs DEF PanelInv, PanelTypeOK, NoSupersededPasswordShown
<1>4. CASE CommandFails \/ DismissCredential
  <2>1. /\ UNCHANGED <<lease, issued, propLease, created, clients, shownClients, hidden, clientsPoll, answer, code>>
        /\ credential' \in {credential, 0} /\ command' \in {command, Idle}
    BY <1>4 DEF CommandFails, DismissCredential
  <2>. QED  BY <1>0, <2>1, IdleIs DEF PanelInv, PanelTypeOK, NoSupersededPasswordShown
<1>5. CASE LeaseEnds \/ OthersRotate
  <2>1. /\ UNCHANGED <<issued, propLease, created, credential, command, shownClients, hidden, clientsPoll, answer, code>>
        /\ clients' = Unconnected \/ clients' = [clients EXCEPT !.client = FALSE]
    BY <1>5 DEF LeaseEnds, OthersRotate
  <2>2. lease' \in Lease
    <3>1. lease \in Lease
      BY DEF PanelInv, PanelTypeOK
    <3>2. CASE LeaseEnds
      <4>1. lease' = [lease EXCEPT !.status = "ended"]
        BY <3>2 DEF LeaseEnds
      <4>. QED  BY <3>1, <4>1 DEF Lease
    <3>3. CASE OthersRotate
      <4>1. PICK n \in 0..MaxVersion : n = lease.version + 1
        BY <3>1, <3>3, PanelAssumption DEF OthersRotate, Lease
      <4>2. lease' = [lease EXCEPT !.version = n]
        BY <3>3, <4>1 DEF OthersRotate
      <4>. QED  BY <3>1, <4>2 DEF Lease
    <3>. QED  BY <1>5, <3>2, <3>3
  <2>3. clients' \in Clients
    BY <2>1, ClientsType, UnconnectedIs DEF PanelInv, PanelTypeOK
  <2>. QED  BY <2>1, <2>2, <2>3 DEF PanelInv, PanelTypeOK, NoSupersededPasswordShown
<1>6. CASE ApproveCode \/ CollectToken \/ TokensRunOut \/ ClientMoves
  <2>1. /\ UNCHANGED <<lease, issued, propLease, created, credential, command, shownClients, hidden,
                       clientsPoll, answer>>
        /\ code' \in {code, "typing", "approved"}
        /\ \/ clients' = clients
           \/ clients' = [clients EXCEPT !.device = TRUE]
           \/ clients' = [clients EXCEPT !.device = FALSE]
           \/ clients' = [clients EXCEPT !.client = ~@]
    BY <1>6, Zenon DEF ApproveCode, CollectToken, TokensRunOut, ClientMoves
  <2>2. clients' \in Clients
    <3>1. clients \in Clients
      BY DEF PanelInv, PanelTypeOK
    <3>. QED  BY <2>1, <3>1, ClientsType, Zenon
  <2>. QED  BY <2>1, <2>2 DEF PanelInv, PanelTypeOK, NoSupersededPasswordShown
<1>7. CASE TurnTab \/ AskClients \/ AnswerClients \/ ShowClients \/ ClientsPollFails
  <2>1. /\ UNCHANGED <<lease, issued, propLease, created, credential, command, clients, code>>
        /\ clientsPoll' \in {clientsPoll, "idle", "asked", "answered"}
        /\ shownClients' \in {shownClients, answer} /\ answer' \in {answer, clients, Unconnected}
    BY <1>7 DEF TurnTab, AskClients, AnswerClients, ShowClients, ClientsPollFails
  <2>2. hidden' \in BOOLEAN
    BY <1>7, Zenon DEF TurnTab, AskClients, AnswerClients, ShowClients, ClientsPollFails, PanelInv,
                       PanelTypeOK
  <2>. QED  BY <2>1, <2>2, UnconnectedIs DEF PanelInv, PanelTypeOK, NoSupersededPasswordShown
<1>8. CASE ReloadPanel
  <2>1. NoLease \in Lease
    BY <1>0 DEF NoLease, Lease
  <2>. QED  BY <1>0, <1>8, <2>1, IdleIs, UnconnectedIs DEF ReloadPanel, PanelInv, PanelTypeOK, NoSupersededPasswordShown
<1>. QED  BY <1>1, <1>2, <1>3, <1>4, <1>5, <1>6, <1>7, <1>8, Zenon DEF PanelNext

-----------------------------------------------------------------------------
(* The browser's part                                                      *)

\* The snapshots of a session whose queries are within the bound.
Snap == {s \in Snapshot : Len(s.queries) <= MaxQueries}

Polled == [phase : {"asked"}, target : Targets] \cup [phase : {"answered"}, snapshot : Snap]

Visited ==
    [op : {"run", "switch"}, target : Targets, phase : {"sent", "served"}]
    \cup [op : {"cancel"}, query : 1..MaxQueries, phase : {"sent", "served"}]
    \cup [op : {"end"}, phase : {"sent", "served"}]

\* What is in flight and what is shown are snapshots of the session, and a result page is
\* filed under the query whose rows it has.
BrowserInv ==
    /\ live \in BOOLEAN /\ open \in BOOLEAN
    /\ queries \in Seq(Query) /\ Len(queries) <= MaxQueries
    /\ shown \in Snap
    /\ poll \in {NoPoll} \cup Polled
    /\ visit \in {NoVisit} \cup Visited
    /\ cancelling \in 0..MaxQueries /\ pageLoad \in 0..MaxQueries
    /\ page \in [query : 0..MaxQueries, rows : 0..MaxQueries] /\ page.query = page.rows
    /\ ~open => poll = NoPoll /\ visit = NoVisit

\* The bound is a number, and null is within it.
LEMMA SessionNumbers == MaxQueries \in Nat /\ 0 \in 0..MaxQueries /\ 1..MaxQueries \subseteq 0..MaxQueries
BY SessionAssumption

\* The props are a snapshot.
LEMMA PropsType ==
    ASSUME BrowserInv, NEW t \in Targets
    PROVE  Props(t) \in Snap
<1>1. PICK z : z = [live |-> live, target |-> t, queries |-> queries]
  BY Zenon
<1>2. z \in Snapshot /\ z.queries = queries
  BY <1>1 DEF BrowserInv, Snapshot
<1>. QED  BY <1>1, <1>2 DEF Props, Snap, BrowserInv

\* The latest query is one of those on display.
LEMMA LatestType ==
    ASSUME NEW s \in Snap
    PROVE  Latest(s) \in 0..MaxQueries
<1>1. Len(s.queries) \in Nat /\ Len(s.queries) <= MaxQueries
  BY DEF Snap, Snapshot
<1>. QED  BY <1>1, SessionNumbers DEF Latest

\* The cancellation of queries leaves as many queries.
LEMMA CancelledType ==
    ASSUME NEW qs \in Seq(Query), NEW cancel, NEW rs \in CancelledFrom(qs, cancel)
    PROVE  rs \in Seq(Query) /\ Len(rs) = Len(qs)
<1>1. rs \in [1..Len(qs) -> Query] /\ Len(qs) \in Nat
  BY DEF CancelledFrom
<1>. QED  BY <1>1

\* What the server does with a visit keeps the types of the session.
LEMMA HandleType ==
    ASSUME BrowserInv, visit \in Visited, Handle(visit)
    PROVE  live' \in BOOLEAN /\ queries' \in Seq(Query) /\ Len(queries') <= MaxQueries
<1>1. queries \in Seq(Query) /\ Len(queries) <= MaxQueries /\ live \in BOOLEAN
  BY DEF BrowserInv
<1>2. CASE visit \in [op : {"run", "switch"}, target : Targets, phase : {"sent", "served"}]
  <2>1. visit.op \in {"run", "switch"} /\ visit.target \in Targets
    BY <1>2
  <2>2. CASE visit.op = "run"
    <3>1. /\ live' = live
          /\ \/ queries' = queries
             \/ /\ Len(queries) < MaxQueries
                /\ queries' = Append(queries, [target |-> visit.target, status |-> "active"])
      BY <2>2 DEF Handle
    <3>2. [target |-> visit.target, status |-> "active"] \in Query
      BY <2>1 DEF Query
    <3>3. PICK x \in Query : x = [target |-> visit.target, status |-> "active"]
      BY <3>2
    <3>4. CASE Len(queries) < MaxQueries /\ queries' = Append(queries, x)
      <4>1. Append(queries, x) \in Seq(Query) /\ Len(Append(queries, x)) = Len(queries) + 1
        BY <1>1
      <4>2. Len(queries) \in Nat
        BY <1>1
      <4>. QED  BY <1>1, <3>1, <3>4, <4>1, <4>2, SessionNumbers
    <3>. QED  BY <1>1, <3>1, <3>3, <3>4
  <2>3. CASE visit.op = "switch"
    <3>1. live' = live /\ queries' = queries
      BY <2>3 DEF Handle
    <3>. QED  BY <1>1, <3>1
  <2>. QED  BY <2>1, <2>2, <2>3
<1>3. CASE visit \in [op : {"cancel"}, query : 1..MaxQueries, phase : {"sent", "served"}]
  <2>1. live' = live /\ queries' \in CancelledFrom(queries, {visit.query})
    BY <1>3 DEF Handle
  <2>. QED  BY <1>1, <2>1, CancelledType
<1>4. CASE visit \in [op : {"end"}, phase : {"sent", "served"}]
  <2>1. live' = FALSE /\ queries' \in CancelledFrom(queries, DOMAIN queries)
    BY <1>4 DEF Handle
  <2>. QED  BY <1>1, <2>1, CancelledType
<1>. QED  BY <1>2, <1>3, <1>4 DEF Visited

\* A visit is served.
LEMMA ServedType ==
    ASSUME visit \in Visited, visit' = [visit EXCEPT !.phase = "served"]
    PROVE  visit' \in Visited
<1>1. CASE visit \in [op : {"run", "switch"}, target : Targets, phase : {"sent", "served"}]
  BY <1>1, Zenon DEF Visited
<1>2. CASE visit \in [op : {"cancel"}, query : 1..MaxQueries, phase : {"sent", "served"}]
  BY <1>2, Zenon DEF Visited
<1>3. CASE visit \in [op : {"end"}, phase : {"sent", "served"}]
  BY <1>3, Zenon DEF Visited
<1>. QED  BY <1>1, <1>2, <1>3, Zenon DEF Visited

\* A form is sent.
LEMMA SentKeeps ==
    ASSUME BrowserInv, NEW v \in Visited, Submit(v), cancelling' \in 0..MaxQueries
    PROVE  BrowserInv'
<1>1. open /\ visit' = v /\ UNCHANGED <<live, queries, open, shown, poll, page, pageLoad>>
  BY DEF Submit
<1>. QED  BY <1>1 DEF BrowserInv

\* What the user does.
LEMMA UserActsKeep ==
    ASSUME BrowserInv, UserActs
    PROVE  BrowserInv'
<1>1. shown.target \in Targets
  BY DEF BrowserInv, Snap, Snapshot
<1>2. CASE RunQuery
  <2>1. [op |-> "run", target |-> shown.target, phase |-> "sent"] \in Visited
    BY <1>1 DEF Visited
  <2>. QED  BY <1>2, <2>1, SentKeeps, SessionNumbers DEF RunQuery
<1>3. CASE EndSession
  <2>1. [op |-> "end", phase |-> "sent"] \in Visited
    BY DEF Visited
  <2>. QED  BY <1>3, <2>1, SentKeeps, SessionNumbers DEF EndSession
<1>4. ASSUME NEW q \in 1..MaxQueries, CancelQuery(q)
      PROVE  BrowserInv'
  <2>1. [op |-> "cancel", query |-> q, phase |-> "sent"] \in Visited
    BY DEF Visited
  <2>2. cancelling' \in 0..MaxQueries
    BY <1>4, SessionNumbers DEF CancelQuery
  <2>. QED  BY <1>4, <2>1, <2>2, SentKeeps DEF CancelQuery
<1>5. ASSUME NEW t \in Targets, SwitchConnection(t)
      PROVE  BrowserInv'
  <2>1. [op |-> "switch", target |-> t, phase |-> "sent"] \in Visited
    BY DEF Visited
  <2>. QED  BY <1>5, <2>1, SentKeeps, SessionNumbers DEF SwitchConnection
<1>6. CASE LoadResultPage
  <2>1. pageLoad' = Latest(shown) /\ UNCHANGED <<live, queries, open, shown, poll, visit, cancelling, page>>
    BY <1>6 DEF LoadResultPage
  <2>2. pageLoad' \in 0..MaxQueries
    BY <2>1, LatestType DEF BrowserInv
  <2>. QED  BY <2>1, <2>2 DEF BrowserInv
<1>. QED  BY <1>2, <1>3, <1>4, <1>5, <1>6, Zenon DEF UserActs

\* What the server does and what comes back.
LEMMA PageMovesKeep ==
    ASSUME BrowserInv, PageMoves
    PROVE  BrowserInv'
<1>1. CASE ResultPageArrives
  <2>1. PICK n \in 0..MaxQueries : n = pageLoad
    BY DEF BrowserInv
  <2>2. /\ page' = [query |-> n, rows |-> n] /\ pageLoad' = 0
        /\ UNCHANGED <<live, queries, open, shown, poll, visit, cancelling>>
    BY <1>1, <2>1 DEF ResultPageArrives
  <2>3. page' \in [query : 0..MaxQueries, rows : 0..MaxQueries] /\ page'.query = page'.rows
    BY <2>2
  <2>. QED  BY <2>2, <2>3, SessionNumbers DEF BrowserInv
<1>2. CASE ServeVisit
  <2>1. /\ visit \in Visited /\ Handle(visit) /\ visit' = [visit EXCEPT !.phase = "served"]
        /\ UNCHANGED <<open, shown, poll, cancelling, page, pageLoad>>
    BY <1>2, Zenon DEF ServeVisit, BrowserInv
  <2>2. visit' \in Visited
    BY <2>1, ServedType
  <2>3. live' \in BOOLEAN /\ queries' \in Seq(Query) /\ Len(queries') <= MaxQueries
    BY <2>1, HandleType
  <2>4. open
    BY <1>2 DEF ServeVisit, BrowserInv
  <2>. QED  BY <2>1, <2>2, <2>3, <2>4 DEF BrowserInv
<1>3. CASE ApplyVisit
  <2>1. /\ visit \in Visited /\ visit' = NoVisit /\ cancelling' = 0 /\ UNCHANGED <<live, queries>>
    BY <1>3, Zenon DEF ApplyVisit, BrowserInv
  <2>2. CASE /\ visit.op # "end" /\ UNCHANGED <<open, poll, page, pageLoad>>
             /\ shown' = Props(IF visit.op = "switch" THEN visit.target ELSE shown.target)
    <3>1. shown.target \in Targets
      BY DEF BrowserInv, Snap, Snapshot
    <3>2. visit.op = "switch" => visit.target \in Targets
      BY <2>1 DEF Visited
    <3>3. shown' \in Snap
      BY <2>2, <3>1, <3>2, PropsType
    <3>. QED  BY <2>1, <2>2, <3>3, SessionNumbers DEF BrowserInv
  <2>3. CASE Unmount
    <3>1. /\ open' = FALSE /\ poll' = NoPoll /\ page' = NoPage /\ pageLoad' = 0 /\ shown' = shown
      BY <2>3 DEF Unmount
    <3>2. /\ NoPage \in [query : 0..MaxQueries, rows : 0..MaxQueries]
          /\ NoPage.query = NoPage.rows
      BY SessionNumbers DEF NoPage
    <3>. QED  BY <2>1, <3>1, <3>2, SessionNumbers DEF BrowserInv
  <2>. QED  BY <1>3, <2>2, <2>3, Zenon DEF ApplyVisit
<1>4. CASE ServerMoves
  <2>1. UNCHANGED <<open, shown, poll, visit, cancelling, page, pageLoad>>
    BY <1>4 DEF ServerMoves
  <2>2. live' \in BOOLEAN /\ queries' \in Seq(Query) /\ Len(queries') <= MaxQueries
    <3>1. queries \in Seq(Query) /\ Len(queries) <= MaxQueries /\ live \in BOOLEAN
      BY DEF BrowserInv
    <3>2. ASSUME NEW i \in DOMAIN queries, NEW s \in {"succeeded", "ended"},
                 queries' = [queries EXCEPT ![i].status = s], live' = live
          PROVE  live' \in BOOLEAN /\ queries' \in Seq(Query) /\ Len(queries') <= MaxQueries
      <4>1. PICK x : x = [queries[i] EXCEPT !.status = s]
        BY Zenon
      <4>2. queries[i] \in Query
        BY <3>1
      <4>3. x \in Query
        BY <4>1, <4>2 DEF Query
      <4>4. queries' = [queries EXCEPT ![i] = x]
        BY <3>2, <4>1, Zenon
      <4>. QED  BY <3>1, <3>2, <4>3, <4>4
    <3>3. CASE live' = FALSE /\ queries' \in CancelledFrom(queries, DOMAIN queries)
      BY <3>1, <3>3, CancelledType
    <3>. QED  BY <1>4, <3>2, <3>3, Zenon DEF ServerMoves
  <2>. QED  BY <2>1, <2>2 DEF BrowserInv
<1>5. CASE AskPoll
  <2>1. /\ open /\ poll' = [phase |-> "asked", target |-> shown.target]
        /\ UNCHANGED <<live, queries, open, shown, visit, cancelling, page, pageLoad>>
    BY <1>5 DEF AskPoll
  <2>2. shown.target \in Targets
    BY DEF BrowserInv, Snap, Snapshot
  <2>3. poll' \in Polled
    BY <2>1, <2>2 DEF Polled
  <2>. QED  BY <2>1, <2>3 DEF BrowserInv
<1>6. CASE AnswerPoll
  <2>1. /\ poll.phase = "asked" /\ poll' = [phase |-> "answered", snapshot |-> Props(poll.target)]
        /\ UNCHANGED <<live, queries, open, shown, visit, cancelling, page, pageLoad>>
    BY <1>6 DEF AnswerPoll
  <2>2. poll # NoPoll /\ poll \in [phase : {"asked"}, target : Targets]
    BY <2>1 DEF BrowserInv, Polled, NoPoll
  <2>3. Props(poll.target) \in Snap
    BY <2>2, PropsType
  <2>4. poll' \in Polled
    BY <2>1, <2>3 DEF Polled
  <2>. QED  BY <2>1, <2>2, <2>4 DEF BrowserInv
<1>7. CASE ApplyPoll
  <2>1. /\ poll.phase = "answered" /\ poll' = NoPoll /\ shown' = poll.snapshot
        /\ UNCHANGED <<live, queries, open, visit, cancelling, page, pageLoad>>
    BY <1>7 DEF ApplyPoll
  <2>2. poll \in [phase : {"answered"}, snapshot : Snap]
    BY <2>1 DEF BrowserInv, Polled, NoPoll
  <2>. QED  BY <2>1, <2>2 DEF BrowserInv
<1>8. CASE LosePoll
  BY <1>8 DEF LosePoll, BrowserInv
<1>. QED  BY <1>1, <1>2, <1>3, <1>4, <1>5, <1>6, <1>7, <1>8, Zenon DEF PageMoves

-----------------------------------------------------------------------------
(* Theorems                                                                *)

\* A session has one transport, and both parts of its page are as they should be.
SessionPageInv == transport \in {"browser", "native_proxy"} /\ PanelInv /\ BrowserInv

\* Both parts start as they should.
LEMMA SessionPageStart == Init => SessionPageInv
<1>. SUFFICES ASSUME Init
              PROVE  SessionPageInv
  OBVIOUS
<1>1. PanelInv /\ transport \in {"browser", "native_proxy"}
  BY PanelStart DEF Init
<1>2. BrowserInit
  BY DEF Init
<1>3. live \in BOOLEAN /\ open \in BOOLEAN
  BY <1>2, Zenon DEF BrowserInit
<1>4. queries = <<>> /\ <<>> \in Seq(Query) /\ Len(queries) <= MaxQueries
  BY <1>2, SessionNumbers DEF BrowserInit
<1>5. shown \in Snap
  <2>1. PICK t \in Targets : shown = [live |-> TRUE, target |-> t, queries |-> <<>>]
    BY <1>2 DEF BrowserInit
  <2>2. shown \in Snapshot /\ shown.queries = <<>>
    BY <1>4, <2>1 DEF Snapshot
  <2>. QED  BY <2>2, SessionNumbers DEF Snap
<1>6. /\ page \in [query : 0..MaxQueries, rows : 0..MaxQueries] /\ page.query = page.rows
  BY <1>2, SessionNumbers DEF BrowserInit, NoPage
<1>. QED  BY <1>1, <1>2, <1>3, <1>4, <1>5, <1>6, SessionNumbers DEF BrowserInit, BrowserInv, SessionPageInv

\* A step is one of the part the session's transport gives the page.
LEMMA SessionPageStep == SessionPageInv /\ [Next]_vars => SessionPageInv'
<1>. SUFFICES ASSUME SessionPageInv, [Next]_vars
              PROVE  SessionPageInv'
  OBVIOUS
<1>1. ASSUME UNCHANGED panelVars
      PROVE  PanelInv'
  BY <1>1 DEF panelVars, SessionPageInv, PanelInv, PanelTypeOK, NoSupersededPasswordShown
<1>2. ASSUME UNCHANGED browserVars
      PROVE  BrowserInv'
  BY <1>2 DEF browserVars, SessionPageInv, BrowserInv
<1>3. CASE UNCHANGED vars
  BY <1>1, <1>2, <1>3 DEF vars, SessionPageInv
<1>4. CASE InBrowser(UserActs \/ PageMoves)
  <2>1. (UserActs \/ PageMoves) /\ UNCHANGED <<transport, panelVars>>
    BY <1>4, Zenon DEF InBrowser
  <2>2. BrowserInv'
    BY <2>1, UserActsKeep, PageMovesKeep, Zenon DEF SessionPageInv
  <2>. QED  BY <1>1, <2>1, <2>2 DEF SessionPageInv
<1>5. CASE InPanel(PanelNext)
  <2>1. PanelNext /\ UNCHANGED <<transport, browserVars>>
    BY <1>5, Zenon DEF InPanel
  <2>. QED  BY <1>2, <2>1, PanelStep DEF SessionPageInv
<1>. QED  BY <1>3, <1>4, <1>5, Zenon DEF Next

\* Every variable of the page and the panel keeps its type, and a page that was left has
\* nothing in flight.
THEOREM SessionPageTypes == Spec => []TypeOK
<1>1. SessionPageInv => TypeOK
  <2>. SUFFICES ASSUME SessionPageInv
                PROVE  TypeOK
    OBVIOUS
  <2>1. BrowserInv /\ PanelTypeOK /\ transport \in {"browser", "native_proxy"}
    BY DEF SessionPageInv, PanelInv
  <2>2. poll.phase \in {"none", "asked", "answered"}
    <3>1. CASE poll = NoPoll
      BY <3>1 DEF NoPoll
    <3>2. CASE poll \in Polled
      BY <3>2 DEF Polled
    <3>. QED  BY <2>1, <3>1, <3>2 DEF BrowserInv
  <2>3. visit.op \in {"none", "run", "cancel", "switch", "end"}
    <3>1. CASE visit = NoVisit
      BY <3>1 DEF NoVisit
    <3>2. CASE visit \in Visited
      BY <3>2 DEF Visited
    <3>. QED  BY <2>1, <3>1, <3>2 DEF BrowserInv
  <2>4. shown \in Snapshot
    BY <2>1 DEF BrowserInv, Snap
  <2>. QED  BY <2>1, <2>2, <2>3, <2>4 DEF TypeOK, BrowserInv
<1>. QED  BY <1>1, SessionPageStart, SessionPageStep, PTL DEF Spec

\* The rows on display are those of the query they are shown under, for any number of
\* queries and connections, whenever a result page arrives.
THEOREM RowsBelongToTheirQuery == Spec => []RowsOfTheLatestQuery
<1>1. SessionPageInv => RowsOfTheLatestQuery
  BY DEF SessionPageInv, BrowserInv, RowsOfTheLatestQuery, RowsOnDisplay, ShownPage
<1>. QED  BY <1>1, SessionPageStart, SessionPageStep, PTL DEF Spec

\* A password on display is the last one issued to the panel, for any number of rotations,
\* wherever a request or its answer is lost.
THEOREM PasswordsShownAreCurrent == Spec => []NoSupersededPasswordShown
<1>1. SessionPageInv => NoSupersededPasswordShown
  BY DEF SessionPageInv, PanelInv
<1>. QED  BY <1>1, SessionPageStart, SessionPageStep, PTL DEF Spec

=============================================================================
