----------------------------- MODULE RequestPage -----------------------------
(***************************************************************************)
(* The detail page of a query request, open in one viewer's browser while  *)
(* colleagues, workers and the scheduler change the request behind it.     *)
(*                                                                         *)
(* Source: resources/js/pages/query-requests/show.tsx, with the props of   *)
(* QueryRequestController::show and the gates of QueryRequestPolicy that   *)
(* they are computed from, and the handlers its forms post to.             *)
(*                                                                         *)
(* The page shows props that were true when they were computed.  A full    *)
(* load fills all of them; a poll only query_request, can_dispatch,        *)
(* can_cancel and can_retry.  So the page is two snapshots of the row:     *)
(* "shown", the latest of either, and "loaded", the latest full load; each *)
(* prop is a function of one of them.  Polls and form visits are in flight *)
(* together and arrive in any order.                                       *)
(*                                                                         *)
(* Left out: toasts and texts, the notification subscription, collapsible  *)
(* sections, the links, and the deletion of an access request.             *)
(***************************************************************************)
EXTENDS RequestRow

CONSTANTS
    Viewers,       \* who may be looking: out of "requester", "reviewer", "admin"
    RequestKinds,  \* the kinds of request looked at
    MaxChanges     \* bound on the changes of the row

ASSUME PageAssumption ==
    /\ Viewers \subseteq {"requester", "reviewer", "admin"}
    /\ RequestKinds \subseteq Kinds
    /\ MaxChanges \in Nat
    /\ {"viewer", "colleague"} \subseteq Actors

VARIABLES
    viewer,      \* who is looking
    row,         \* the request in the database
    changes,     \* how often it has changed
    open,        \* the page is mounted
    shown,       \* the row as query_request and the polled props have it
    loaded,      \* the row as the props of the last full load have it
    poll,        \* the poll in flight
    visit,       \* the form visit in flight
    awaiting,    \* awaitingExecution
    stored,      \* the same flag in sessionStorage
    resolution,  \* the state of the failure resolution dialog
    verdicts     \* history: the statements approved here, and the ones read

vars == <<viewer, row, changes, open, shown, loaded, poll, visit, awaiting, stored,
          resolution, verdicts>>

-----------------------------------------------------------------------------
(* Types                                                                   *)

Ops == {"approve", "reject", "start", "dispatch", "retry", "resolve", "withdraw",
        "cancel", "preflight"}

\* The row of a request that has not been answered.
NoRow == AbsentRow("single_execution")

NoPoll == [phase |-> "none", row |-> NoRow]

\* A visit carries the revision in the review form and, for the history, the
\* statements on display.
Visit == [op : Ops, revision : Nat, read : Nat, phase : {"sent", "served", "away"}]

NoVisit == [op |-> "none", revision |-> 0, read |-> 0, phase |-> "none"]

\* isFailureResolutionDialogOpen, and whether the form in it may be sent.
Dialogs == {"closed", "incomplete", "ready"}

TypeOK ==
    /\ viewer \in Viewers
    /\ changes \in 0..MaxChanges
    /\ row \in Row /\ shown \in Row /\ loaded \in Row
    /\ open \in BOOLEAN /\ awaiting \in BOOLEAN /\ stored \in BOOLEAN
    /\ poll \in {NoPoll} \cup [phase : {"asked", "answered"}, row : Row]
    /\ visit \in {NoVisit} \cup Visit
    /\ resolution \in Dialogs
    /\ verdicts \subseteq Nat \X Nat
    /\ ~open => poll = NoPoll /\ visit = NoVisit

-----------------------------------------------------------------------------
(* The props: QueryRequestPolicy on a row, for the viewer                  *)

Owns == viewer \in {"requester", "admin"}

Reviews == viewer \in {"reviewer", "admin"}

DispatchedHere(p) == p.dispatchedBy = "viewer"

CanReview(p)   == p.status = "pending_review" /\ Reviews
CanWithdraw(p) == IsBatch(p) /\ p.status = "pending_review" /\ ~p.dispatched /\ Owns
CanUpdate(p)   == /\ IsBatch(p) /\ Owns /\ ~p.dispatched
                  /\ p.status \in {"draft", "pending_review", "approved", "rejected", "scheduled"}
CanDispatch(p) == IsBatch(p) /\ p.status = "approved" /\ ~p.dispatched /\ (Owns \/ Reviews)
CanStart(p)    == ~IsBatch(p) /\ p.status = "approved" /\ Owns
CanCancel(p)   == /\ p.status \in {"draft", "pending_review", "approved", "scheduled", "running"}
                  /\ Owns \/ (p.status = "running" /\ DispatchedHere(p))
CanRetry(p)    == /\ IF IsBatch(p) THEN p.status = "failed"
                     ELSE p.status \in {"completed", "cancelled"}
                  /\ Owns \/ DispatchedHere(p)
CanResolve(p)  == /\ IsBatch(p) /\ p.status = "failed" /\ ~p.resolved
                  /\ Owns \/ DispatchedHere(p)

\* retryStrategy().
RetryStrategy(p) ==
    CASE ~IsBatch(p) /\ p.status \in {"completed", "cancelled"} -> "renew_access"
      [] IsBatch(p) /\ p.status = "failed" /\ p.queryType = "read" -> "resume_read_only"
      [] IsBatch(p) /\ p.status = "failed" /\ p.queryType = "write" -> "create_retry_request"
      [] OTHER -> "none"

\* completed_at is set by every handler that finishes a request, and cleared by
\* the ones that take it up again.
Completed(p) == p.status \in RowFinished

-----------------------------------------------------------------------------
(* Polling and the awaiting flag                                           *)

\* Variant: the poll goes on after completion.
PollsAlways(p, aw) == IsBatch(p) /\ (p.dispatched \/ aw)

\* shouldPollExecution.
ShouldPoll(p, aw) ==
    IsBatch(p) /\ ~Completed(p) /\ (p.dispatched \/ aw)

\* What follows a render with props p and flag aw: a finished request clears the
\* flag, in storage at once and in the page by a timer of 0 ms.
Settle(p, aw, st) ==
    /\ awaiting' = (aw /\ ~Completed(p))
    /\ stored' = (st /\ ~(aw /\ Completed(p)))

\* usePoll in mode "rest": a poll is asked when none is in flight.
AskPoll ==
    /\ open /\ ShouldPoll(shown, awaiting)
    /\ poll = NoPoll
    /\ poll' = [phase |-> "asked", row |-> NoRow]
    /\ UNCHANGED <<viewer, row, changes, open, shown, loaded, visit, awaiting, stored,
                   resolution, verdicts>>

AnswerPoll ==
    /\ poll.phase = "asked"
    /\ poll' = [phase |-> "answered", row |-> row]
    /\ UNCHANGED <<viewer, row, changes, open, shown, loaded, visit, awaiting, stored,
                   resolution, verdicts>>

\* The partial reload replaces the polled props, also when they are older than
\* the ones on display.
ApplyPoll ==
    /\ poll.phase = "answered"
    /\ shown' = poll.row
    /\ poll' = NoPoll
    /\ Settle(poll.row, awaiting, stored)
    /\ UNCHANGED <<viewer, row, changes, open, loaded, visit, resolution, verdicts>>

\* The poll fails, or its page has gone.
LosePoll ==
    /\ poll # NoPoll
    /\ poll' = NoPoll
    /\ UNCHANGED <<viewer, row, changes, open, shown, loaded, visit, awaiting, stored,
                   resolution, verdicts>>

-----------------------------------------------------------------------------
(* The forms of the page                                                   *)

\* The section with the SQL of the batch: the statements of query_request.
StatementsOnDisplay == shown.stamp

\* A form is submitted: its own button is disabled while it is in flight; the
\* visit of another form is given up by the client, served or not.
Submit(op) ==
    /\ open /\ visit.op # op
    /\ visit' = [op |-> op, revision |-> shown.revision, read |-> StatementsOnDisplay,
                 phase |-> "sent"]
    /\ UNCHANGED <<viewer, row, changes, open, shown, loaded, poll, resolution, verdicts>>

SubmitPlainly(op) == Submit(op) /\ UNCHANGED <<awaiting, stored>>

\* The review section, with expected_revision from query_request.
ClickReview(decision) ==
    /\ CanReview(loaded)
    /\ SubmitPlainly(decision)

\* "Start Session", when there is no session to resume.
ClickStart ==
    /\ shown.status # "running" /\ CanStart(loaded)
    /\ SubmitPlainly("start")

\* "Execute batch" or "Run now".
ClickDispatch ==
    /\ CanDispatch(shown)
    /\ Submit("dispatch")
    /\ Settle(shown, TRUE, TRUE)

\* Variant: the polled prop is not looked at.
OffersRetryByStrategy == RetryStrategy(loaded) # "none"

\* The retry dialog: offered when the two props agree.
OffersRetry == CanRetry(shown) /\ RetryStrategy(loaded) # "none"

ClickRetry ==
    /\ OffersRetry
    /\ Submit("retry")
    /\ IF RetryStrategy(loaded) = "resume_read_only"
       THEN Settle(shown, TRUE, TRUE)
       ELSE UNCHANGED <<awaiting, stored>>

\* The failure resolution dialog is opened or closed ...
ToggleResolution ==
    /\ open
    /\ \/ resolution = "closed" /\ CanResolve(loaded) /\ resolution' \in {"incomplete", "ready"}
       \/ resolution # "closed" /\ resolution' = "closed"
    /\ UNCHANGED <<viewer, row, changes, open, shown, loaded, poll, visit, awaiting, stored, verdicts>>

\* ... filled in: a batch replaced by another needs the other one's name ...
FillResolution ==
    /\ open /\ resolution # "closed"
    /\ resolution' \in {"incomplete", "ready"} \ {resolution}
    /\ UNCHANGED <<viewer, row, changes, open, shown, loaded, poll, visit, awaiting, stored, verdicts>>

\* ... and recorded.
ClickResolve ==
    /\ resolution = "ready" /\ CanResolve(loaded)
    /\ SubmitPlainly("resolve")

ClickWithdraw == CanWithdraw(loaded) /\ SubmitPlainly("withdraw")

ClickCancel == CanCancel(shown) /\ SubmitPlainly("cancel")

\* "Run preflight" stores a report and reloads the page.
ClickPreflight == CanUpdate(loaded) /\ IsBatch(shown) /\ SubmitPlainly("preflight")

-----------------------------------------------------------------------------
(* The server's side of a visit                                            *)

\* The gate of the handler, on the row as it is now.
Allows(v) ==
    CASE v.op \in {"approve", "reject"} -> CanReview(row)
      [] v.op = "start"     -> CanStart(row)
      [] v.op = "dispatch"  -> CanDispatch(row)
      [] v.op = "retry"     -> CanRetry(row)
      [] v.op = "resolve"   -> CanResolve(row)
      [] v.op = "withdraw"  -> CanWithdraw(row)
      [] v.op = "cancel"    -> CanCancel(row)
      [] v.op = "preflight" -> CanUpdate(row)

\* Variant: the decision is taken on whatever the row has become.
DecidesOnAnyRevision(v, q) ==
    /\ Decided(row, q)
    /\ (v.op = "reject") = (q.status = "rejected")

\* A decision counts only for the revision it was made on.
Decides(v, q) ==
    /\ v.revision = row.revision
    /\ Decided(row, q)
    /\ (v.op = "reject") = (q.status = "rejected")

\* What the handler does with the row.  A decision that is out of date or that
\* preflight blocks, and a retry that becomes a linked request, leave it alone.
Handles(v, q) ==
    \/ v.op \in {"approve", "reject"} /\ (Decides(v, q) \/ q = row)
    \/ v.op = "start" /\ (Started(row, q) \/ SentBackToReview(row, q))
    \/ /\ v.op = "dispatch"
       /\ \/ Dispatched(row, q) /\ q.dispatchedBy = "viewer"
          \/ GivenBack(row, q) \/ SentBackToReview(row, q)
    \/ /\ v.op = "retry"
       /\ \/ RetryStrategy(row) = "resume_read_only"
             /\ Dispatched(row, q) /\ q.dispatchedBy = "viewer"
          \/ q = row
    \/ v.op = "resolve" /\ Resolved(row, q)
    \/ v.op = "withdraw" /\ Withdrawn(row, q)
    \/ v.op = "cancel" /\ Cancelled(row, q)
    \/ v.op = "preflight" /\ q = row

\* The bound on changes.
Counted ==
    /\ row' # row => changes < MaxChanges
    /\ changes' = IF row' # row THEN changes + 1 ELSE changes

Approves(v, q) == v.op = "approve" /\ q.status \in {"approved", "scheduled"} /\ q # row

Execute(v) ==
    /\ Handles(v, row')
    /\ Counted
    /\ verdicts' = IF Approves(v, row') THEN verdicts \cup {<<v.read, row.stamp>>} ELSE verdicts

\* Where the handler redirects to: a session that was started and the linked request of a
\* retry are other pages; a retry that resumes this very request goes back to it.
LeadsAway(op) ==
    \/ op = "start" /\ row'.status = "running"
    \/ op = "retry" /\ row' = row

\* The handler runs, and redirects.
ServeVisit ==
    /\ visit.phase = "sent" /\ Allows(visit)
    /\ Execute(visit)
    /\ visit' = [visit EXCEPT !.phase = IF LeadsAway(visit.op) THEN "away" ELSE "served"]
    /\ UNCHANGED <<viewer, open, shown, loaded, poll, awaiting, stored, resolution>>

\* The gate refuses: an error is shown over the page, which keeps its props.
RefuseVisit ==
    /\ visit.phase = "sent" /\ ~Allows(visit)
    /\ visit' = NoVisit
    /\ UNCHANGED <<viewer, row, changes, open, shown, loaded, poll, awaiting, stored,
                   resolution, verdicts>>

\* Variant: the poll is not stopped with the page.
UnmountKeepingPoll ==
    /\ open' = FALSE
    /\ shown' = NoRow /\ loaded' = NoRow
    /\ visit' = NoVisit /\ poll' = poll
    /\ awaiting' = FALSE /\ resolution' = "closed"

\* A page that is left takes its state with it.
Unmount ==
    /\ open' = FALSE
    /\ shown' = NoRow /\ loaded' = NoRow
    /\ visit' = NoVisit /\ poll' = NoPoll
    /\ awaiting' = FALSE /\ resolution' = "closed"

\* The redirect is followed: to another page, or back to this one with all props
\* computed again; a resolution that was accepted closes its dialog.
ApplyVisit ==
    /\ \/ visit.phase = "away" /\ Unmount /\ UNCHANGED stored
       \/ /\ visit.phase = "served"
          /\ shown' = row /\ loaded' = row
          /\ Settle(row, awaiting, stored)
          /\ resolution' = IF visit.op = "resolve" THEN "closed" ELSE resolution
          /\ visit' = NoVisit
          /\ UNCHANGED <<open, poll>>
    /\ UNCHANGED <<viewer, row, changes, verdicts>>

-----------------------------------------------------------------------------
(* Navigation, and everybody else                                          *)

\* The page is opened, or opened again: a mount takes the flag from storage.
Mount ==
    /\ shown' = row /\ loaded' = row /\ open' = TRUE
    /\ visit' = NoVisit /\ poll' = NoPoll /\ resolution' = "closed"
    /\ Settle(row, stored, stored)
    /\ UNCHANGED <<viewer, row, changes, verdicts>>

Leave ==
    /\ open
    /\ Unmount
    /\ UNCHANGED <<viewer, row, changes, stored, verdicts>>

\* A colleague, the viewer in another tab, a worker or the scheduler.
OthersAct ==
    /\ RowStep(row, row')
    /\ Counted
    /\ UNCHANGED <<viewer, open, shown, loaded, poll, visit, awaiting, stored,
                   resolution, verdicts>>

-----------------------------------------------------------------------------
(* The specification                                                       *)

Init ==
    /\ viewer \in Viewers
    /\ \E kind \in RequestKinds : Created(AbsentRow(kind), row)
    /\ changes = 0
    /\ open = FALSE
    /\ shown = NoRow /\ loaded = NoRow
    /\ poll = NoPoll /\ visit = NoVisit
    /\ awaiting = FALSE /\ stored = FALSE
    /\ resolution = "closed"
    /\ verdicts = {}

Click ==
    \/ \E d \in {"approve", "reject"} : ClickReview(d)
    \/ ClickStart \/ ClickDispatch \/ ClickRetry \/ ClickResolve
    \/ ClickWithdraw \/ ClickCancel \/ ClickPreflight
    \/ ToggleResolution \/ FillResolution

Polling == AskPoll \/ AnswerPoll \/ ApplyPoll \/ LosePoll

Visiting == ServeVisit \/ RefuseVisit \/ ApplyVisit

Next ==
    \/ Click \/ Polling \/ Visiting
    \/ Mount \/ Leave
    \/ OthersAct

Spec == Init /\ [][Next]_vars

\* The browser keeps polling and the server keeps answering; a poll may fail, but
\* not for ever.
Fairness ==
    /\ WF_vars(AskPoll) /\ SF_vars(AnswerPoll) /\ SF_vars(ApplyPoll)

FairSpec == Spec /\ Fairness

-----------------------------------------------------------------------------
(* Properties                                                              *)

\* What the viewer approves is what the viewer read: however polls, visits and
\* edits by others interleave, an approval recorded from this page is for the very
\* statements that were on display when the form was sent (expected_revision is
\* taken from the same prop as the statements, and checked by review()).
ApprovesWhatWasRead == \A v \in verdicts : v[1] = v[2]

\* The retry that is offered is the one for the request on display, although
\* can_retry is polled and retry_strategy is not, and a late poll can bring back an
\* older row: within one revision the two props never disagree.
RetryOfferIsCurrent ==
    OffersRetry /\ shown.revision = loaded.revision =>
        RetryStrategy(loaded) = RetryStrategy(shown)

\* Watching ends: a page does not poll a finished batch for ever.  It comes to show
\* a row that is not polled (finished, or given back to its owner) or is left.  An
\* awaiting flag that outlived a refused dispatch would otherwise poll for ever.
WatchedBatchSettles ==
    open /\ ShouldPoll(shown, awaiting)
        ~> ~open \/ ~ShouldPoll(shown, awaiting) \/ row.status \notin RowFinished

=============================================================================
