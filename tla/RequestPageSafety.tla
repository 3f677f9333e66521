-------------------------- MODULE RequestPageSafety --------------------------
(***************************************************************************)
(* What holds of RequestPage however often the request changes behind the  *)
(* page, and in whatever order polls and visits are answered.              *)
(*                                                                         *)
(* The page holds rows that were read at different times.  Two facts about *)
(* every transition of the row make them comparable: the revision never    *)
(* goes back, and the statements and their type change only with it.  So   *)
(* no row the page holds is ahead of the database (Behind), and any two    *)
(* rows of one revision have the same statements (Agree).                  *)
(***************************************************************************)
EXTENDS RequestPage, TLAPS

\* The rows of one revision have the same statements.
Agree(p, q) == p.revision = q.revision => p.stamp = q.stamp /\ p.queryType = q.queryType

\* The rows the page holds, and the one in the database.
Held == {row, shown, loaded, poll.row}

\* A row that was read is an earlier one of the same request.
Behind(p) == p.revision <= row.revision /\ (p = NoRow \/ (p.kind = row.kind /\ p.revision >= 1))

\* The request exists, and the rows that are held agree with each other.
HeldInv ==
    /\ row.status # "absent" /\ row.revision >= 1
    /\ \A p \in Held : Behind(p)
    /\ \A p, q \in Held : Agree(p, q)

\* The revision a form carries is that of the statements that were read.
FormInv ==
    visit # NoVisit =>
        /\ visit.revision <= row.revision
        /\ visit.revision = row.revision => visit.read = row.stamp

PageInv == TypeOK /\ HeldInv /\ FormInv /\ ApprovesWhatWasRead

-----------------------------------------------------------------------------
(* The transitions of the row                                              *)

\* What a reader may rely on: the kind of a request stays, its revision is the same or the
\* next, and within one revision the statements stay.
Follows(p, q) ==
    /\ q \in Row /\ q.kind = p.kind /\ q.status # "absent"
    /\ q.revision = p.revision \/ q.revision = p.revision + 1
    /\ q.revision = p.revision => q.stamp = p.stamp /\ q.queryType = p.queryType

\* A request that exists follows itself.
LEMMA RowStays ==
    ASSUME NEW p \in Row, p.status # "absent"
    PROVE  Follows(p, p)
BY DEF Follows

\* A new request has revision 1.
LEMMA CreatedFollows ==
    ASSUME NEW kind \in Kinds, NEW q, Created(AbsentRow(kind), q)
    PROVE  q \in Row /\ q.status # "absent" /\ q.revision = 1 /\ q.kind = kind
<1>1. PICK s \in {"draft", "pending_review", "approved", "scheduled"}, t \in {"read", "write"} :
        q = [AbsentRow(kind) EXCEPT !.status = s, !.revision = 1, !.stamp = 1, !.queryType = t]
  BY Zenon DEF Created
<1>2. PICK z : z = [AbsentRow(kind) EXCEPT !.status = s, !.revision = 1, !.stamp = 1, !.queryType = t]
  BY Zenon
<1>3. z = [kind |-> kind, status |-> s, revision |-> 1, stamp |-> 1, queryType |-> t,
           dispatched |-> FALSE, dispatchedBy |-> None, resolved |-> FALSE]
  BY <1>2 DEF AbsentRow
<1>4. q = z
  BY <1>1, <1>2, Zenon
<1>. QED  BY <1>3, <1>4 DEF Row, RowStatus

\* Every transition of an existing request is followed.
LEMMA StepFollows ==
    ASSUME NEW p \in Row, NEW q, p.status # "absent", RowStep(p, q)
    PROVE  Follows(p, q)
<1>0. PICK n \in Nat : n = p.revision + 1
  BY DEF Row
<1>1. CASE Created(p, q)
  BY <1>1 DEF Created
<1>2. CASE Edited(p, q)
  <2>1. PICK s \in {"draft", "pending_review", "approved", "scheduled"}, t \in {"read", "write"} :
          q = [p EXCEPT !.status = s, !.revision = n, !.stamp = n, !.queryType = t,
                        !.dispatchedBy = None]
    BY <1>0, <1>2, Zenon DEF Edited
  <2>2. q \in Row /\ q.kind = p.kind /\ q.status = s /\ q.revision = n
    BY <2>1 DEF Row, RowStatus
  <2>. QED  BY <1>0, <2>2 DEF Follows, Row
<1>3. CASE Decided(p, q)
  <2>1. PICK s \in {"approved", "scheduled", "rejected"} : q = [p EXCEPT !.status = s]
    BY <1>3, Zenon DEF Decided
  <2>. QED  BY <2>1 DEF Follows, Row, RowStatus
<1>4. CASE Withdrawn(p, q)
  <2>1. q = [p EXCEPT !.status = "draft", !.revision = n, !.dispatchedBy = None]
    BY <1>0, <1>4, Zenon DEF Withdrawn
  <2>2. q \in Row /\ q.kind = p.kind /\ q.status = "draft" /\ q.revision = n
    BY <2>1 DEF Row, RowStatus
  <2>. QED  BY <1>0, <2>2 DEF Follows, Row
<1>5. CASE Dispatched(p, q)
  <2>1. PICK a \in Actors \cup {None} :
          q = [p EXCEPT !.status = "approved", !.dispatched = TRUE, !.dispatchedBy = a]
    BY <1>5, Zenon DEF Dispatched
  <2>. QED  BY <2>1 DEF Follows, Row, RowStatus
<1>6. CASE GivenBack(p, q)
  BY <1>6 DEF GivenBack, Follows, Row, RowStatus
<1>7. CASE SentBackToReview(p, q)
  <2>1. q = [p EXCEPT !.status = "pending_review", !.revision = n, !.dispatched = FALSE,
                      !.dispatchedBy = None]
    BY <1>0, <1>7, Zenon DEF SentBackToReview
  <2>2. q \in Row /\ q.kind = p.kind /\ q.status = "pending_review" /\ q.revision = n
    BY <2>1 DEF Row, RowStatus
  <2>. QED  BY <1>0, <2>2 DEF Follows, Row
<1>8. CASE Started(p, q)
  BY <1>8 DEF Started, Follows, Row, RowStatus
<1>9. CASE Ended(p, q)
  BY <1>9 DEF Ended, Follows, Row, RowStatus
<1>10. CASE Cancelled(p, q)
  BY <1>10 DEF Cancelled, Follows, Row, RowStatus
<1>11. CASE Resolved(p, q)
  BY <1>11 DEF Resolved, Follows, Row, RowStatus
<1>. QED  BY <1>1, <1>2, <1>3, <1>4, <1>5, <1>6, <1>7, <1>8, <1>9, <1>10, <1>11, Zenon DEF RowStep

\* So is what a handler does with the row.
LEMMA HandlerFollows ==
    ASSUME row \in Row, row.status # "absent", NEW v, NEW q, Handles(v, q)
    PROVE  Follows(row, q)
<1>1. q = row \/ RowStep(row, q)
  BY Zenon DEF Handles, Decides, RowStep
<1>. QED  BY <1>1, RowStays, StepFollows

\* What is held stays behind a row that moves on, and agrees with it.
LEMMA RowMoves ==
    ASSUME TypeOK, HeldInv, FormInv, Follows(row, row'), UNCHANGED <<shown, loaded, poll>>
    PROVE  /\ HeldInv'
           /\ visit # NoVisit =>
                 /\ visit.revision <= row'.revision
                 /\ visit.revision = row'.revision => visit.read = row'.stamp
<1>1. /\ row \in Row /\ row' \in Row /\ shown \in Row /\ loaded \in Row
      /\ row.revision \in Nat /\ row'.revision \in Nat
  BY DEF TypeOK, Follows, Row
<1>2. poll.row \in Row
  <2>1. NoRow \in Row
    BY DEF NoRow, AbsentRow, Row, RowStatus, Kinds
  <2>2. CASE poll = NoPoll
    BY <2>1, <2>2 DEF NoPoll
  <2>3. CASE poll # NoPoll
    BY <2>3 DEF TypeOK
  <2>. QED  BY <2>2, <2>3
<1>3. \A p \in Held : p \in Row /\ p.revision \in Nat
  BY <1>1, <1>2 DEF Held, Row
<1>4. Held' = {row', shown, loaded, poll.row}
  BY DEF Held
<1>5. row'.status # "absent" /\ row'.revision >= 1 /\ row'.kind = row.kind
  BY <1>1 DEF HeldInv, Follows
<1>6. \A p \in Held : p.revision <= row'.revision /\ (p = NoRow \/ (p.kind = row'.kind /\ p.revision >= 1))
  BY <1>1, <1>3, <1>5 DEF HeldInv, Behind, Follows
<1>7. \A p \in Held : Agree(p, row') /\ Agree(row', p)
  <2>1. row \in Held
    BY DEF Held
  <2>2. ASSUME NEW p \in Held
        PROVE  Agree(p, row') /\ Agree(row', p)
    <3>1. Agree(p, row) /\ p.revision <= row.revision /\ p.revision \in Nat
      BY <1>3, <2>1 DEF HeldInv, Behind
    <3>. QED  BY <1>1, <3>1 DEF Agree, Follows
  <2>. QED  BY <2>2
<1>8. \A p \in Held' : p \in Held \/ p = row'
  BY <1>4 DEF Held
<1>9. \A p \in Held' : p.revision <= row'.revision /\ (p = NoRow \/ (p.kind = row'.kind /\ p.revision >= 1))
  BY <1>1, <1>5, <1>6, <1>8
<1>10. \A p, q \in Held' : Agree(p, q)
  BY <1>7, <1>8 DEF HeldInv, Agree
<1>11. HeldInv'
  BY <1>5, <1>9, <1>10 DEF HeldInv, Behind
<1>12. ASSUME visit # NoVisit
       PROVE  /\ visit.revision <= row'.revision
              /\ visit.revision = row'.revision => visit.read = row'.stamp
  <2>1. visit.revision \in Nat
    BY <1>12 DEF TypeOK, Visit
  <2>. QED  BY <1>1, <1>12, <2>1 DEF FormInv, Follows
<1>. QED  BY <1>11, <1>12

-----------------------------------------------------------------------------
(* The steps of the page                                                   *)

\* The row that stands for none.
LEMMA NoRowIs == NoRow \in Row /\ NoRow.revision = 0 /\ NoRow.status = "absent"
BY DEF NoRow, AbsentRow, Row, RowStatus, Kinds

\* The rows that are held are rows.
LEMMA HeldRows ==
    ASSUME TypeOK
    PROVE  Held \subseteq Row
<1>1. CASE poll = NoPoll
  BY <1>1, NoRowIs DEF NoPoll, Held, TypeOK
<1>2. CASE poll # NoPoll
  BY <1>2 DEF Held, TypeOK
<1>. QED  BY <1>1, <1>2

\* The page takes over rows it holds, or none.
LEMMA HeldMoves ==
    ASSUME TypeOK, HeldInv, row' = row, {shown', loaded', poll'.row} \subseteq Held \cup {NoRow}
    PROVE  HeldInv'
<1>1. Held' \subseteq Held \cup {NoRow}
  BY DEF Held
<1>2. \A p \in Held \cup {NoRow} : Behind(p)
  <2>1. row.revision \in Nat
    BY DEF TypeOK, Row
  <2>. QED  BY <2>1, NoRowIs DEF HeldInv, Behind
<1>3. ASSUME NEW p \in Held \cup {NoRow}, NEW q \in Held \cup {NoRow}
      PROVE  Agree(p, q)
  <2>1. CASE p \in Held /\ q \in Held
    BY <2>1 DEF HeldInv
  <2>2. CASE p = NoRow \/ q = NoRow
    <3>1. p.revision = q.revision => p = q
      BY <1>2, <2>2, NoRowIs DEF Behind
    <3>. QED  BY <3>1 DEF Agree
  <2>. QED  BY <2>1, <2>2
<1>4. \A p \in Held' : Behind(p)'
  BY <1>1, <1>2 DEF Behind
<1>5. \A p, q \in Held' : Agree(p, q)
  BY <1>1, <1>3
<1>6. row'.status # "absent" /\ row'.revision >= 1
  BY DEF HeldInv
<1>. QED  BY <1>4, <1>5, <1>6 DEF HeldInv, Agree, Behind

\* Neither the row nor the form in flight changes.
LEMMA FormStays ==
    ASSUME FormInv, row' = row, visit' = visit \/ visit' = NoVisit
    PROVE  FormInv'
BY DEF FormInv

\* The steps of the polls.
LEMMA PollingKeeps ==
    ASSUME PageInv, Polling
    PROVE  PageInv'
<1>1. UNCHANGED <<viewer, row, changes, open, loaded, visit, resolution, verdicts>>
  BY Zenon DEF Polling, AskPoll, AnswerPoll, ApplyPoll, LosePoll
<1>2. FormInv' /\ ApprovesWhatWasRead'
  BY <1>1, FormStays DEF PageInv, ApprovesWhatWasRead
<1>3. TypeOK' /\ HeldInv'
  <2>1. CASE AskPoll
    <3>1. poll' = [phase |-> "asked", row |-> NoRow] /\ open /\ UNCHANGED <<shown, awaiting, stored>>
      BY <2>1 DEF AskPoll
    <3>2. poll' \in [phase : {"asked", "answered"}, row : Row] /\ poll'.row = NoRow
      BY <3>1, NoRowIs
    <3>3. HeldInv'
      BY <1>1, <3>1, <3>2, HeldMoves DEF PageInv, Held
    <3>. QED  BY <1>1, <3>1, <3>2, <3>3 DEF PageInv, TypeOK
  <2>2. CASE AnswerPoll
    <3>1. poll' = [phase |-> "answered", row |-> row] /\ UNCHANGED <<shown, awaiting, stored>>
      BY <2>2 DEF AnswerPoll
    <3>2. poll' \in [phase : {"asked", "answered"}, row : Row] /\ poll'.row = row
      BY <3>1 DEF PageInv, TypeOK
    <3>3. open
      BY <2>2 DEF AnswerPoll, PageInv, TypeOK, NoPoll
    <3>4. HeldInv'
      BY <1>1, <3>1, <3>2, HeldMoves DEF PageInv, Held
    <3>. QED  BY <1>1, <3>1, <3>2, <3>3, <3>4 DEF PageInv, TypeOK
  <2>3. CASE ApplyPoll
    <3>1. shown' = poll.row /\ poll' = NoPoll /\ awaiting' \in BOOLEAN /\ stored' \in BOOLEAN
      BY <2>3, Zenon DEF ApplyPoll, Settle
    <3>2. poll.row \in Held /\ poll.row \in Row /\ poll'.row = NoRow
      BY <3>1, HeldRows DEF PageInv, Held, NoPoll
    <3>3. HeldInv'
      BY <1>1, <3>1, <3>2, HeldMoves DEF PageInv, Held
    <3>. QED  BY <1>1, <3>1, <3>2, <3>3 DEF PageInv, TypeOK
  <2>4. CASE LosePoll
    <3>1. poll' = NoPoll /\ UNCHANGED <<shown, awaiting, stored>>
      BY <2>4 DEF LosePoll
    <3>2. HeldInv'
      BY <1>1, <3>1, HeldMoves DEF PageInv, Held, NoPoll
    <3>. QED  BY <1>1, <3>1, <3>2 DEF PageInv, TypeOK
  <2>. QED  BY <2>1, <2>2, <2>3, <2>4, Zenon DEF Polling
<1>. QED  BY <1>2, <1>3 DEF PageInv

\* A form is sent: it carries the revision of the statements on display.
LEMMA SubmitKeeps ==
    ASSUME PageInv, NEW o \in Ops, Submit(o), awaiting' \in BOOLEAN, stored' \in BOOLEAN
    PROVE  PageInv'
<1>1. /\ open /\ UNCHANGED <<viewer, row, changes, open, shown, loaded, poll, resolution, verdicts>>
      /\ visit' = [op |-> o, revision |-> shown.revision, read |-> shown.stamp, phase |-> "sent"]
  BY DEF Submit, StatementsOnDisplay
<1>2. shown \in Row /\ shown.revision \in Nat /\ shown.stamp \in Nat
  BY DEF PageInv, TypeOK, Row
<1>3. visit' \in Visit
  BY <1>1, <1>2 DEF Visit
<1>4. TypeOK'
  BY <1>1, <1>3 DEF PageInv, TypeOK
<1>5. HeldInv'
  BY <1>1, HeldMoves DEF PageInv, Held
<1>6. FormInv'
  <2>1. Agree(shown, row) /\ Behind(shown)
    BY DEF PageInv, HeldInv, Held
  <2>. QED  BY <1>1, <2>1 DEF FormInv, Agree, Behind
<1>. QED  BY <1>1, <1>4, <1>5, <1>6 DEF PageInv, ApprovesWhatWasRead

\* The steps of the viewer on the page.
LEMMA ClickKeeps ==
    ASSUME PageInv, Click
    PROVE  PageInv'
<1>1. ASSUME NEW o \in Ops, SubmitPlainly(o)
      PROVE  PageInv'
  BY <1>1, SubmitKeeps DEF SubmitPlainly, PageInv, TypeOK
<1>2. ASSUME NEW d \in {"approve", "reject"}, ClickReview(d)
      PROVE  PageInv'
  BY <1>1, <1>2 DEF ClickReview, Ops
<1>3. CASE ClickStart \/ ClickResolve \/ ClickWithdraw \/ ClickCancel \/ ClickPreflight
  BY <1>1, <1>3 DEF ClickStart, ClickResolve, ClickWithdraw, ClickCancel, ClickPreflight, Ops
<1>4. CASE ClickDispatch
  <2>1. Submit("dispatch") /\ awaiting' \in BOOLEAN /\ stored' \in BOOLEAN
    BY <1>4, Zenon DEF ClickDispatch, Settle
  <2>. QED  BY <2>1, SubmitKeeps DEF Ops
<1>5. CASE ClickRetry
  <2>1. Submit("retry") /\ awaiting' \in BOOLEAN /\ stored' \in BOOLEAN
    BY <1>5, Zenon DEF ClickRetry, Settle, PageInv, TypeOK
  <2>. QED  BY <2>1, SubmitKeeps DEF Ops
<1>6. CASE ToggleResolution \/ FillResolution
  <2>1. UNCHANGED <<viewer, row, changes, open, shown, loaded, poll, visit, awaiting, stored, verdicts>>
    BY <1>6 DEF ToggleResolution, FillResolution
  <2>2. resolution' \in Dialogs
    BY <1>6 DEF ToggleResolution, FillResolution, Dialogs
  <2>. QED  BY <2>1, <2>2, HeldMoves, FormStays DEF PageInv, TypeOK, ApprovesWhatWasRead, Held
<1>. QED  BY <1>2, <1>3, <1>4, <1>5, <1>6, Zenon DEF Click

\* A full load: the page shows the row as it is, or is left.
LEMMA LoadKeeps ==
    ASSUME PageInv, UNCHANGED <<viewer, row, changes, verdicts>>,
           open' \in BOOLEAN, awaiting' \in BOOLEAN, stored' \in BOOLEAN,
           resolution' \in Dialogs, visit' = NoVisit,
           poll' = NoPoll \/ (poll' = poll /\ (open => open')),
           shown' \in {row, NoRow}, loaded' \in {row, NoRow}
    PROVE  PageInv'
<1>1. HeldInv'
  BY HeldMoves DEF PageInv, Held, NoPoll
<1>2. FormInv' /\ ApprovesWhatWasRead'
  BY FormStays DEF PageInv, ApprovesWhatWasRead
<1>3. TypeOK'
  BY NoRowIs DEF PageInv, TypeOK
<1>. QED  BY <1>1, <1>2, <1>3 DEF PageInv

\* A handler runs: a decision that counts is about the statements that were read.
LEMMA ServeKeeps ==
    ASSUME PageInv, ServeVisit
    PROVE  PageInv'
<1>1. /\ visit.phase = "sent" /\ Handles(visit, row') /\ Counted
      /\ verdicts' = IF Approves(visit, row') THEN verdicts \cup {<<visit.read, row.stamp>>} ELSE verdicts
      /\ \E phase \in {"served", "away"} : visit' = [visit EXCEPT !.phase = phase]
      /\ UNCHANGED <<viewer, open, shown, loaded, poll, awaiting, stored, resolution>>
  BY Zenon DEF ServeVisit, Execute
<1>2. visit \in Visit /\ visit # NoVisit /\ open
  BY <1>1 DEF PageInv, TypeOK, NoVisit
<1>3. /\ visit' \in Visit /\ visit'.revision = visit.revision /\ visit'.read = visit.read
  BY <1>1, <1>2 DEF Visit
<1>4. row \in Row /\ row.status # "absent"
  BY DEF PageInv, TypeOK, HeldInv
<1>5. Follows(row, row')
  BY <1>1, <1>4, HandlerFollows
<1>6. /\ HeldInv'
      /\ visit.revision <= row'.revision
      /\ visit.revision = row'.revision => visit.read = row'.stamp
  BY <1>1, <1>2, <1>5, RowMoves DEF PageInv
<1>7. FormInv'
  BY <1>3, <1>6 DEF FormInv
<1>8. ApprovesWhatWasRead'
  <2>1. CASE Approves(visit, row')
    <3>1. visit.op = "approve" /\ row' # row
      BY <2>1 DEF Approves
    <3>2. visit.revision = row.revision
      BY <1>1, <3>1 DEF Handles, Decides
    <3>3. visit.read = row.stamp
      BY <1>2, <3>2 DEF PageInv, FormInv
    <3>. QED  BY <1>1, <2>1, <3>3 DEF PageInv, ApprovesWhatWasRead
  <2>2. CASE ~Approves(visit, row')
    BY <1>1, <2>2 DEF PageInv, ApprovesWhatWasRead
  <2>. QED  BY <2>1, <2>2
<1>9. TypeOK'
  <2>1. row' \in Row
    BY <1>5 DEF Follows
  <2>2. changes' \in 0..MaxChanges
    BY <1>1, PageAssumption DEF Counted, PageInv, TypeOK
  <2>3. verdicts' \subseteq Nat \X Nat
    <3>1. <<visit.read, row.stamp>> \in Nat \X Nat
      BY <1>2, <1>4 DEF Visit, Row
    <3>. QED  BY <1>1, <3>1, Zenon DEF PageInv, TypeOK
  <2>. QED  BY <1>1, <1>2, <1>3, <2>1, <2>2, <2>3 DEF PageInv, TypeOK
<1>. QED  BY <1>6, <1>7, <1>8, <1>9 DEF PageInv

\* Somebody else changes the row.
LEMMA OthersKeep ==
    ASSUME PageInv, OthersAct
    PROVE  PageInv'
<1>1. /\ RowStep(row, row') /\ Counted
      /\ UNCHANGED <<viewer, open, shown, loaded, poll, visit, awaiting, stored, resolution, verdicts>>
  BY DEF OthersAct
<1>2. Follows(row, row')
  BY <1>1, StepFollows DEF PageInv, TypeOK, HeldInv
<1>3. HeldInv' /\ FormInv'
  BY <1>1, <1>2, RowMoves DEF PageInv, FormInv
<1>4. row' \in Row
  BY <1>2 DEF Follows
<1>5. changes' \in 0..MaxChanges
  BY <1>1, PageAssumption DEF Counted, PageInv, TypeOK
<1>6. TypeOK'
  BY <1>1, <1>4, <1>5 DEF PageInv, TypeOK
<1>. QED  BY <1>1, <1>3, <1>6 DEF PageInv, ApprovesWhatWasRead

\* The invariant is kept by every step.
LEMMA PageStep == PageInv /\ [Next]_vars => PageInv'
<1>. SUFFICES ASSUME PageInv, [Next]_vars
              PROVE  PageInv'
  OBVIOUS
<1>1. CASE UNCHANGED vars
  BY <1>1 DEF vars, PageInv, TypeOK, HeldInv, Held, Behind, FormInv, ApprovesWhatWasRead
<1>2. CASE RefuseVisit
  <2>1. /\ visit' = NoVisit
        /\ UNCHANGED <<viewer, row, changes, open, shown, loaded, poll, awaiting, stored,
                       resolution, verdicts>>
    BY <1>2 DEF RefuseVisit
  <2>. QED  BY <2>1, HeldMoves, FormStays DEF PageInv, TypeOK, ApprovesWhatWasRead, Held
<1>3. CASE ApplyVisit
  <2>1. /\ UNCHANGED <<viewer, row, changes, verdicts>> /\ visit' = NoVisit
    BY <1>3, Zenon DEF ApplyVisit, Unmount
  <2>2. CASE Unmount /\ UNCHANGED stored
    BY <2>1, <2>2, LoadKeeps DEF Unmount, Dialogs, PageInv, TypeOK
  <2>3. CASE /\ shown' = row /\ loaded' = row /\ Settle(row, awaiting, stored)
             /\ resolution' = IF visit.op = "resolve" THEN "closed" ELSE resolution
             /\ UNCHANGED <<open, poll>>
    <3>1. awaiting' \in BOOLEAN /\ stored' \in BOOLEAN
      BY <2>3, Zenon DEF Settle
    <3>2. resolution' \in Dialogs
      BY <2>3 DEF PageInv, TypeOK, Dialogs
    <3>. QED  BY <2>1, <2>3, <3>1, <3>2, LoadKeeps DEF PageInv, TypeOK
  <2>. QED  BY <1>3, <2>2, <2>3, Zenon DEF ApplyVisit
<1>4. CASE Mount
  <2>1. awaiting' \in BOOLEAN /\ stored' \in BOOLEAN
    BY <1>4, Zenon DEF Mount, Settle
  <2>. QED  BY <1>4, <2>1, LoadKeeps DEF Mount, Dialogs
<1>5. CASE Leave
  BY <1>5, LoadKeeps DEF Leave, Unmount, Dialogs, PageInv, TypeOK
<1>. QED  BY <1>1, <1>2, <1>3, <1>4, <1>5, ClickKeeps, PollingKeeps, ServeKeeps, OthersKeep, Zenon
             DEF Next, Visiting

\* The page starts unopened, with a request that exists.
LEMMA PageStart == Init => PageInv
<1>. SUFFICES ASSUME Init
              PROVE  PageInv
  OBVIOUS
<1>1. PICK kind \in RequestKinds : Created(AbsentRow(kind), row)
  BY DEF Init
<1>2. row \in Row /\ row.status # "absent" /\ row.revision = 1
  BY <1>1, CreatedFollows, PageAssumption
<1>3. TypeOK
  <2>1. changes \in 0..MaxChanges
    BY PageAssumption DEF Init
  <2>2. open \in BOOLEAN /\ awaiting \in BOOLEAN /\ stored \in BOOLEAN
    BY Zenon DEF Init
  <2>3. viewer \in Viewers /\ shown \in Row /\ loaded \in Row
    BY NoRowIs DEF Init
  <2>4. resolution \in Dialogs /\ verdicts \subseteq Nat \X Nat /\ poll = NoPoll /\ visit = NoVisit
    BY DEF Init, Dialogs
  <2>. QED  BY <1>2, <2>1, <2>2, <2>3, <2>4 DEF TypeOK
<1>4. \A p \in Held : p = row \/ p = NoRow
  BY DEF Held, Init, NoPoll
<1>5. HeldInv
  BY <1>2, <1>4, NoRowIs DEF HeldInv, Behind, Agree
<1>6. FormInv /\ ApprovesWhatWasRead
  BY DEF Init, FormInv, ApprovesWhatWasRead
<1>. QED  BY <1>3, <1>5, <1>6 DEF PageInv

-----------------------------------------------------------------------------
(* Theorems                                                                *)

\* Every variable of the page keeps its type, and a page that is closed has nothing in
\* flight, for any number of changes of the request.
THEOREM PageTypes == Spec => []TypeOK
<1>1. PageInv => TypeOK
  BY DEF PageInv
<1>. QED  BY <1>1, PageStart, PageStep, PTL DEF Spec

\* An approval from this page is for the statements that were on display when it was sent,
\* for any number of edits, polls and visits in any order: expected_revision and the
\* statements come from one prop, and review() compares it under the lock.
THEOREM ApprovalsAreInformed == Spec => []ApprovesWhatWasRead
<1>1. PageInv => ApprovesWhatWasRead
  BY DEF PageInv
<1>. QED  BY <1>1, PageStart, PageStep, PTL DEF Spec

\* Within one revision the retry that is offered is the one for the request on display,
\* although the two props it is made of were computed at different times and a late poll
\* may bring back an older row than the last full load.
THEOREM RetryOffersAreCurrent == Spec => []RetryOfferIsCurrent
<1>1. PageInv => RetryOfferIsCurrent
  <2>. SUFFICES ASSUME PageInv, CanRetry(shown), RetryStrategy(loaded) # "none",
                       shown.revision = loaded.revision
                PROVE  RetryStrategy(loaded) = RetryStrategy(shown)
    BY DEF RetryOfferIsCurrent, OffersRetry
  <2>1. Agree(shown, loaded) /\ Behind(shown) /\ Behind(loaded)
    BY DEF PageInv, HeldInv, Held
  <2>2. shown.status # "absent"
    BY DEF CanRetry
  <2>3. shown # NoRow
    BY <2>2, NoRowIs
  <2>4. shown.kind = loaded.kind /\ shown.queryType = loaded.queryType
    BY <2>1, <2>3, NoRowIs DEF Agree, Behind
  <2>5. loaded \in Row /\ shown \in Row
    BY DEF PageInv, TypeOK
  <2>6. CASE IsBatch(shown)
    <3>1. shown.status = "failed" /\ IsBatch(loaded)
      BY <2>4, <2>6 DEF CanRetry, IsBatch
    <3>2. loaded.status = "failed"
      BY <3>1 DEF RetryStrategy
    <3>. QED  BY <2>4, <2>6, <3>1, <3>2 DEF RetryStrategy
  <2>7. CASE ~IsBatch(shown)
    <3>1. shown.status \in {"completed", "cancelled"} /\ ~IsBatch(loaded)
      BY <2>4, <2>7 DEF CanRetry, IsBatch
    <3>2. loaded.status \in {"completed", "cancelled"}
      BY <3>1 DEF RetryStrategy
    <3>. QED  BY <2>7, <3>1, <3>2 DEF RetryStrategy
  <2>. QED  BY <2>6, <2>7
<1>. QED  BY <1>1, PageStart, PageStep, PTL DEF Spec

=============================================================================
