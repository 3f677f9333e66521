----------------------------- MODULE SessionPage -----------------------------
(***************************************************************************)
(* The page of a query access session in its user's browser: the editor    *)
(* and the results of browser queries, or the panel for a native client.   *)
(*                                                                         *)
(* Source: resources/js/pages/query-sessions/show.tsx with the props of    *)
(* QuerySessionController::show; the server's side of a query is the       *)
(* QuerySession module's, reduced to what the page can see of it.          *)
(*                                                                         *)
(* The page shows a snapshot of the session, replaced by full visits and,  *)
(* while a query is active in it, by polls; both are in flight together,   *)
(* and a poll is applied whenever it comes.                                *)
(*                                                                         *)
(* Left out: the text in the editor and its selection, the schema browser, *)
(* the countdown (it withdraws what the server would refuse), the layout,  *)
(* and result pages that fail (nothing happens).                           *)
(***************************************************************************)
EXTENDS NativePanel, Sequences

CONSTANTS
    Targets,      \* the connections of the session
    MaxQueries    \* bound on the queries of the session

ASSUME SessionAssumption == MaxQueries \in Nat /\ Targets # {}

VARIABLES
    transport,   \* which of the two the session is for
    live,        \* the session is active (server)
    queries,     \* its queries, oldest first: target and status (server)
    open,        \* the page is open
    shown,       \* the session on display
    poll,        \* the poll in flight
    visit,       \* the visit in flight
    cancelling,  \* cancellingQueryId; 0 is null
    page,        \* loadedResultPage: the query and whose rows these are; 0 is null
    pageLoad     \* the query whose result page has been asked for; 0 is none

browserVars == <<live, queries, open, shown, poll, visit, cancelling, page, pageLoad>>

vars == <<transport, browserVars, panelVars>>

\* "active" is Queued, Running and Cancelling, "ended" is Failed and Cancelled.
Query == [target : Targets, status : {"active", "succeeded", "ended"}]

Snapshot == [live : BOOLEAN, target : Targets, queries : Seq(Query)]

NoPoll == [phase |-> "none"]

NoVisit == [op |-> "none"]

NoPage == [query |-> 0, rows |-> 0]

HasActive(s) == \E i \in DOMAIN s.queries : s.queries[i].status = "active"

TypeOK ==
    /\ transport \in {"browser", "native_proxy"}
    /\ PanelTypeOK
    /\ live \in BOOLEAN /\ open \in BOOLEAN
    /\ queries \in Seq(Query) /\ Len(queries) <= MaxQueries
    /\ shown \in Snapshot
    /\ poll.phase \in {"none", "asked", "answered"}
    /\ visit.op \in {"none", "run", "cancel", "switch", "end"}
    /\ cancelling \in 0..MaxQueries /\ pageLoad \in 0..MaxQueries
    /\ page \in [query : 0..MaxQueries, rows : 0..MaxQueries]
    /\ ~open => poll = NoPoll /\ visit = NoVisit

\* The props, for the connection in the address.
Props(target) == [live |-> live, target |-> target, queries |-> queries]

\* latest_query, if it ran on the connection on display; 0 is null.
Latest(s) ==
    LET n == Len(s.queries)
    IN IF n > 0 /\ s.queries[n].target = s.target THEN n ELSE 0

\* resultPage: the page loaded last if it is of the latest query, else the first one
\* in the props; the value is the query whose rows are on display.
ShownPage(s, p) == IF p # NoPage /\ p.query = Latest(s) THEN p.rows ELSE Latest(s)

\* The card with the result of the latest query.
RowsOnDisplay == ShownPage(shown, page)

-----------------------------------------------------------------------------
(* What the user does                                                      *)

\* A visit replaces the one in flight, which calls its onFinish.
Submit(v) ==
    /\ open
    /\ visit' = v
    /\ UNCHANGED <<live, queries, open, shown, poll, page, pageLoad>>

\* The editor is read-only and its button disabled without a live session, and while
\* a query is active.
OffersRun == shown.live /\ ~HasActive(shown)

\* runQuery, by the button or the keyboard.  The form names the connection on
\* display (an effect keeps it so).
RunQuery ==
    /\ OffersRun
    /\ Submit([op |-> "run", target |-> shown.target, phase |-> "sent"])
    /\ cancelling' = 0

\* The query history, and the card of the latest result.
OffersCancel(q) ==
    /\ q \in DOMAIN shown.queries /\ shown.queries[q].status = "active"
    /\ cancelling # q

CancelQuery(q) ==
    /\ OffersCancel(q)
    /\ Submit([op |-> "cancel", query |-> q, phase |-> "sent"])
    /\ cancelling' = IF visit.op = "cancel" THEN 0 ELSE q

SwitchConnection(t) ==
    /\ t # shown.target
    /\ Submit([op |-> "switch", target |-> t, phase |-> "sent"])
    /\ cancelling' = 0

EndSession ==
    /\ shown.live
    /\ Submit([op |-> "end", phase |-> "sent"])
    /\ cancelling' = 0

\* loadResultPage: a page of the latest result, one at a time.
LoadResultPage ==
    /\ open /\ pageLoad = 0
    /\ Latest(shown) # 0 /\ shown.queries[Latest(shown)].status = "succeeded"
    /\ pageLoad' = Latest(shown)
    /\ UNCHANGED <<live, queries, open, shown, poll, visit, cancelling, page>>

\* Variant: the page is filed under the query on display when it arrives.
FileUnderTheLatest ==
    /\ pageLoad # 0
    /\ page' = [query |-> Latest(shown), rows |-> pageLoad]
    /\ pageLoad' = 0
    /\ UNCHANGED <<live, queries, open, shown, poll, visit, cancelling>>

\* The page is filed under the query it was asked for.
ResultPageArrives ==
    /\ pageLoad # 0
    /\ page' = [query |-> pageLoad, rows |-> pageLoad]
    /\ pageLoad' = 0
    /\ UNCHANGED <<live, queries, open, shown, poll, visit, cancelling>>

-----------------------------------------------------------------------------
(* The server                                                              *)

\* A queued query is cancelled at once, a running one when its database gives up.
CancelledFrom(qs, cancel) ==
    {rs \in [DOMAIN qs -> Query] :
        \A i \in DOMAIN qs : \/ rs[i] = qs[i]
                             \/ i \in cancel /\ qs[i].status = "active"
                                /\ rs[i] = [qs[i] EXCEPT !.status = "ended"]}

Handle(v) ==
    CASE v.op = "run" ->
            /\ queries' = IF live /\ ~HasActive(Props(v.target)) /\ Len(queries) < MaxQueries
                          THEN Append(queries, [target |-> v.target, status |-> "active"])
                          ELSE queries
            /\ UNCHANGED live
      [] v.op = "cancel" ->
            /\ queries' \in CancelledFrom(queries, {v.query})
            /\ UNCHANGED live
      [] v.op = "end" ->
            /\ queries' \in CancelledFrom(queries, DOMAIN queries)
            /\ live' = FALSE
      [] v.op = "switch" -> UNCHANGED <<live, queries>>

ServeVisit ==
    /\ visit # NoVisit /\ visit.phase = "sent"
    /\ Handle(visit)
    /\ visit' = [visit EXCEPT !.phase = "served"]
    /\ UNCHANGED <<open, shown, poll, cancelling, page, pageLoad>>

\* A query ends, by its worker or the reconciliation; the session expires.
ServerMoves ==
    /\ \/ \E i \in DOMAIN queries, s \in {"succeeded", "ended"} :
             /\ queries[i].status = "active"
             /\ queries' = [queries EXCEPT ![i].status = s]
             /\ UNCHANGED live
       \/ /\ live /\ live' = FALSE
          /\ queries' \in CancelledFrom(queries, DOMAIN queries)
    /\ UNCHANGED <<open, shown, poll, visit, cancelling, page, pageLoad>>

-----------------------------------------------------------------------------
(* What comes back                                                         *)

\* Variant: the poller is not stopped when the page is left.
UnmountKeepingPoll ==
    /\ open' = FALSE /\ page' = NoPage /\ pageLoad' = 0
    /\ UNCHANGED <<shown, poll>>

\* The page is left.
Unmount ==
    /\ open' = FALSE /\ poll' = NoPoll /\ page' = NoPage /\ pageLoad' = 0
    /\ UNCHANGED shown

\* The page with all its props, or, when the session was ended, another page.
ApplyVisit ==
    /\ visit # NoVisit /\ visit.phase = "served"
    /\ visit' = NoVisit /\ cancelling' = 0
    /\ \/ visit.op # "end" /\ shown' = Props(IF visit.op = "switch" THEN visit.target ELSE shown.target)
          /\ UNCHANGED <<open, poll, page, pageLoad>>
       \/ visit.op = "end" /\ Unmount
    /\ UNCHANGED <<live, queries>>

\* Variant: the poller runs while the latest query on this connection is active.
PollsLatestOnly(s) == Latest(s) # 0 /\ s.queries[Latest(s)].status = "active"

\* QueryExecutionPoller is mounted while a query on display is active.
Polls(s) == HasActive(s)

AskPoll ==
    /\ open /\ Polls(shown) /\ poll = NoPoll
    /\ poll' = [phase |-> "asked", target |-> shown.target]
    /\ UNCHANGED <<live, queries, open, shown, visit, cancelling, page, pageLoad>>

AnswerPoll ==
    /\ poll.phase = "asked"
    /\ poll' = [phase |-> "answered", snapshot |-> Props(poll.target)]
    /\ UNCHANGED <<live, queries, open, shown, visit, cancelling, page, pageLoad>>

ApplyPoll ==
    /\ poll.phase = "answered"
    /\ poll' = NoPoll
    /\ shown' = poll.snapshot
    /\ UNCHANGED <<live, queries, open, visit, cancelling, page, pageLoad>>

LosePoll ==
    /\ poll # NoPoll
    /\ poll' = NoPoll
    /\ UNCHANGED <<live, queries, open, shown, visit, cancelling, page, pageLoad>>

-----------------------------------------------------------------------------
(* The specification                                                       *)

BrowserInit ==
    /\ live = TRUE /\ queries = <<>>
    /\ open = TRUE
    /\ \E t \in Targets : shown = [live |-> TRUE, target |-> t, queries |-> <<>>]
    /\ poll = NoPoll /\ visit = NoVisit /\ cancelling = 0
    /\ page = NoPage /\ pageLoad = 0

UserActs ==
    \/ RunQuery \/ EndSession \/ LoadResultPage
    \/ \E q \in 1..MaxQueries : CancelQuery(q)
    \/ \E t \in Targets : SwitchConnection(t)

PageMoves ==
    \/ ResultPageArrives
    \/ ServeVisit \/ ApplyVisit \/ ServerMoves
    \/ AskPoll \/ AnswerPoll \/ ApplyPoll \/ LosePoll

Init == transport \in {"browser", "native_proxy"} /\ BrowserInit /\ PanelInit

\* The session's transport decides which of the two parts the page has.
InBrowser(A) == transport = "browser" /\ A /\ UNCHANGED <<transport, panelVars>>

InPanel(A) == transport = "native_proxy" /\ A /\ UNCHANGED <<transport, browserVars>>

Next == InBrowser(UserActs \/ PageMoves) \/ InPanel(PanelNext)

Spec == Init /\ [][Next]_vars

\* The browser goes on polling and answers come back, if not every time; workers and
\* the reconciliation end every query (see QuerySession).
Fairness ==
    /\ WF_vars(InBrowser(AskPoll)) /\ SF_vars(InBrowser(AnswerPoll))
    /\ SF_vars(InBrowser(ApplyPoll))
    /\ WF_vars(InPanel(AskClients)) /\ SF_vars(InPanel(AnswerClients))
    /\ SF_vars(InPanel(ShowClients))

FairSpec == Spec /\ Fairness

-----------------------------------------------------------------------------
(* Properties                                                              *)

\* The rows on display are those of the query they are shown under, although a result
\* page may arrive after a poll has brought another query, or the user has changed to
\* another connection.
RowsOfTheLatestQuery == RowsOnDisplay = Latest(shown)

\* A query does not stay "in progress" on display: once no query of the session is
\* active any more, a page that shows one comes to show its end, or is left.
ProgressEnds ==
    open /\ HasActive(shown)
        ~> ~open \/ ~HasActive(shown) \/ HasActive(Props(shown.target))

\* Once the devices and clients of a session stay as they are and the tab in front, the
\* steps of the set-up come to show them and do so from then on: whatever polls fail, are
\* answered before the last change and shown after it, or are not sent in the background.
StepsAreShown ==
    \A c \in Clients :
        <>[](transport = "native_proxy" /\ clients = c /\ ~hidden)
            => <>[](DeviceStep(shownClients) = DeviceStep(c) /\ ClientStep(shownClients) = ClientStep(c))

=============================================================================
