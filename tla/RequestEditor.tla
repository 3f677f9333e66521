---------------------------- MODULE RequestEditor ----------------------------
(***************************************************************************)
(* The form in which a request is written: a deployment batch of ordered   *)
(* statements, or a request for browser or native query access.            *)
(*                                                                         *)
(* Source: resources/js/pages/query-requests/create.tsx, its hook          *)
(* use-deployment-policy-preview.ts (a debounced check of the statements   *)
(* by the server, whose answers arrive in any order or not at all),        *)
(* connection-combobox.tsx and lib/timezone.ts; the initial values are     *)
(* those of QueryRequestController::create, createSimilar and edit.        *)
(*                                                                         *)
(* A statement is its SQL, one of a few texts that policy tells apart, and *)
(* its target; a verdict is what the message shown for it comes down to.   *)
(*                                                                         *)
(* Left out: title and notes, the duration field, the focus and the format *)
(* button, warnings (they block nothing), and all wording.                 *)
(***************************************************************************)
EXTENDS Integers, Sequences, FiniteSets

CONSTANTS
    Targets,    \* the connections offered
    BrowserRead, BrowserWrite, NativeRead, NativeWrite,  \* what each one permits
    NoConnection,   \* the empty choice
    Sqls,           \* statements, beside the blank one
    LocalPolicy,    \* what the loaded policy says of each
    MaxStatements,  \* 50 in the code
    Zone,           \* the user's time zone: one change of its offset
    Times,          \* local times that are typed
    MaxRequestEdits        \* bound on the number of edits

Verdicts == {"allowed", "reviewable", "blocked"}

ASSUME EditorAssumption ==
    /\ NoConnection \notin Targets
    /\ BrowserRead \subseteq Targets /\ BrowserWrite \subseteq BrowserRead
    /\ NativeRead \subseteq Targets /\ NativeWrite \subseteq NativeRead
    /\ "" \notin Sqls
    /\ LocalPolicy \in [Sqls -> Verdicts]
    /\ MaxStatements \in Nat \ {0} /\ MaxRequestEdits \in Nat
    /\ Zone \in [change : Int, before : Int, after : Int]
    /\ Times \subseteq Int

VARIABLES
    origin,      \* a new form, a copy, a draft, or a request under way
    kind,        \* requestKind
    transport,   \* accessTransport
    selected,    \* selectedConnectionIds
    mode,        \* requestedAccessMode
    statements,  \* the statements, in order
    schedule,    \* scheduleQuery and scheduledAtLocal
    timer,       \* the 400 ms timer of the preview is running
    asking,      \* preview requests in flight
    snapshot,    \* the last preview received
    heard,       \* history: the statements on display have been answered
    policy,      \* what the server says of each statement
    sending,     \* the form is being submitted
    edits        \* counter, for the bound

editorVars == <<origin, kind, transport, selected, mode, statements, schedule, timer,
                asking, snapshot, heard, policy, sending, edits>>

formVars == <<kind, transport, selected, mode, statements, schedule>>

previewVars == <<timer, asking, snapshot, heard>>

Statement == [sql : Sqls \cup {""}, conn : Targets \cup {NoConnection}]

\* "at" is the time typed, if any.
Unset == [on |-> FALSE, at |-> {}]

EditorTypeOK ==
    /\ origin \in {"new", "copy", "draft", "submitted"}
    /\ kind \in {"single_execution", "query_access"}
    /\ transport \in {"browser", "native_proxy"}
    /\ selected \subseteq Targets
    /\ mode \in {"read", "write"}
    /\ statements \in Seq(Statement) /\ Len(statements) \in 1..MaxStatements
    /\ schedule \in [on : BOOLEAN, at : SUBSET Int]
    /\ timer \in BOOLEAN /\ heard \in BOOLEAN /\ sending \in BOOLEAN
    /\ policy \in [Sqls -> Verdicts]
    /\ edits \in 0..MaxRequestEdits

-----------------------------------------------------------------------------
(* Local time: zonedDateTimeLocalToIso and isoToZonedDateTimeLocal         *)

\* timezoneOffsetMilliseconds.
Offset(instant) == IF instant < Zone.change THEN Zone.before ELSE Zone.after

ToLocal(instant) == instant + Offset(instant)

\* Variant: the offset is looked up once.
ToInstantOnePass(local) == local - Offset(local)

\* The offset is looked up at the local time read as UTC, and again at the instant
\* which that gives.
ToInstant(local) == local - Offset(local - Offset(local))

\* A local time that the change of the offset leaves out.
Skipped(local) ==
    /\ Zone.change + Zone.before <= local
    /\ local < Zone.change + Zone.after

-----------------------------------------------------------------------------
(* The preview of the policy                                               *)

Inputs(ss) == {s \in {ss[i] : i \in DOMAIN ss} : s.sql # "" /\ s.conn # NoConnection}

\* DeploymentPolicyPreview::forStatement, for every statement sent.
Answers(ss) == {[statement |-> s, verdict |-> policy[s.sql]] : s \in Inputs(ss)}

NoAnswer(ss) == [signature |-> ss, previews |-> {}]

\* Variant: an answer to an earlier effect is not discarded.
EffectKeepingRequests(k, ss) ==
    /\ timer' = (k = "single_execution" /\ Inputs(ss) # {})
    /\ asking' = asking
    /\ heard' = FALSE

\* The effect of the hook runs when "enabled" or the statements change: its
\* cleanup clears the timer and disowns what it has asked.
Effect(k, ss) ==
    /\ timer' = (k = "single_execution" /\ Inputs(ss) # {})
    /\ asking' = {[r EXCEPT !.active = FALSE] : r \in asking}
    /\ heard' = FALSE

Ask ==
    /\ timer
    /\ timer' = FALSE
    /\ asking' = asking \cup {[signature |-> statements, active |-> TRUE]}
    /\ UNCHANGED <<origin, formVars, snapshot, heard, policy, sending, edits>>

\* The server answers one of the requests, and the answer arrives: what an answer is about
\* matters below, not which verdict it has, so a change of policy on its way may be taken as
\* one before it.
Answer(r) ==
    /\ asking' = asking \ {r}
    /\ \/ /\ r.active
          /\ snapshot' = [signature |-> r.signature, previews |-> Answers(r.signature)]
          /\ heard' = (heard \/ r.signature = statements)
       \/ ~r.active /\ UNCHANGED <<snapshot, heard>>
    /\ UNCHANGED <<origin, formVars, timer, policy, sending, edits>>

\* A check that fails leaves the local preview in place.
Fail(r) ==
    /\ asking' = asking \ {r}
    /\ UNCHANGED <<origin, formVars, timer, snapshot, heard, policy, sending, edits>>

\* What the hook returns.
Previews == IF snapshot.signature = statements THEN snapshot.previews ELSE {}

\* topLevelGovernedSql, sqlStatementPolicyMessage and usesEmergencySqlFallback: what the
\* form itself makes of the text of a statement.
LocalVerdict(s) == LocalPolicy[s.sql]

\* deploymentPreflightPreview: the server's verdict where there is one.
Verdict(s) ==
    IF s.sql = "" \/ s.conn = NoConnection THEN "incomplete"
    ELSE IF \E p \in Previews : p.statement = s
         THEN (CHOOSE p \in Previews : p.statement = s).verdict
         ELSE LocalVerdict(s)

\* policyReviewEligibility.canRequest.
CanRequest ==
    LET found == {Verdict(statements[i]) : i \in DOMAIN statements}
    IN "reviewable" \in found /\ found \subseteq {"reviewable", "allowed"}

-----------------------------------------------------------------------------
(* The statements of a batch                                               *)

\* An edit of the form; the bound.
EditingRequest == edits < MaxRequestEdits /\ edits' = edits + 1

SetStatements(ss) ==
    /\ kind = "single_execution"
    /\ EditingRequest
    /\ statements' = ss
    /\ IF ss = statements THEN UNCHANGED <<timer, asking, heard>> ELSE Effect(kind, ss)
    /\ UNCHANGED <<origin, kind, transport, selected, mode, schedule, snapshot, policy,
                   sending>>

UpdateStatement(i, sql) == SetStatements([statements EXCEPT ![i].sql = sql])

UpdateStatementConnection(i, c) == SetStatements([statements EXCEPT ![i].conn = c])

\* A blank statement with the target of the one above it.
InsertStatementAfter(i) ==
    /\ Len(statements) < MaxStatements
    /\ SetStatements(SubSeq(statements, 1, i)
                       \o <<[sql |-> "", conn |-> statements[i].conn]>>
                       \o SubSeq(statements, i + 1, Len(statements)))

\* One statement stays.
RemoveStatement(i) ==
    /\ Len(statements) > 1
    /\ SetStatements(SubSeq(statements, 1, i - 1)
                       \o SubSeq(statements, i + 1, Len(statements)))

MoveStatement(i, target) ==
    /\ target \in {i - 1, i + 1} \cap DOMAIN statements
    /\ SetStatements([statements EXCEPT ![i] = statements[target], ![target] = statements[i]])

SetSchedule(on, at) ==
    /\ kind = "single_execution"
    /\ EditingRequest
    /\ schedule' = [on |-> on, at |-> at]
    /\ UNCHANGED <<origin, kind, transport, selected, mode, statements, previewVars, policy,
                   sending>>

EditSchedule ==
    \/ SetSchedule(~schedule.on, schedule.at)
    \/ \E t \in Times : schedule.on /\ SetSchedule(TRUE, {t})

-----------------------------------------------------------------------------
(* The workflow, and the choice of access                                  *)

\* Variant: the mode survives a change of workflow.
SelectWorkflowKeepingMode(k, tr) ==
    /\ EditingRequest
    /\ kind' = k /\ transport' = tr
    /\ UNCHANGED <<selected, mode>>
    /\ IF k = kind THEN UNCHANGED <<timer, asking, heard>> ELSE Effect(k, statements)
    /\ UNCHANGED <<origin, statements, schedule, snapshot, policy, sending>>

\* selectWorkflow; access starts over with no connection, read-only.
SelectWorkflow(k, tr) ==
    /\ EditingRequest
    /\ kind' = k /\ transport' = tr
    /\ IF k = "query_access" THEN selected' = {} /\ mode' = "read"
                             ELSE UNCHANGED <<selected, mode>>
    /\ IF k = kind THEN UNCHANGED <<timer, asking, heard>> ELSE Effect(k, statements)
    /\ UNCHANGED <<origin, statements, schedule, snapshot, policy, sending>>

ChooseWorkflow ==
    \/ SelectWorkflow("single_execution", "browser")
    \/ BrowserRead # {} /\ SelectWorkflow("query_access", "browser")
    \/ NativeRead # {} /\ SelectWorkflow("query_access", "native_proxy")

Writable == IF transport = "native_proxy" THEN NativeWrite ELSE BrowserWrite

\* ConnectionCombobox: one connection for a native client, or none again.
PicksOne(cs) == cs \subseteq NativeRead /\ Cardinality(cs) <= 1

\* ConnectionMultiCombobox: one connection for the browser is added or taken away.
PicksAnother(cs) ==
    /\ cs \subseteq BrowserRead
    /\ \E c \in Targets : cs = selected \cup {c} \/ cs = selected \ {c}

\* onValueChange of the two: a choice that does not permit writes takes the mode back.
SelectConnections(cs) ==
    /\ kind = "query_access"
    /\ IF transport = "native_proxy" THEN PicksOne(cs) ELSE PicksAnother(cs)
    /\ EditingRequest
    /\ selected' = cs
    /\ mode' = IF (transport = "native_proxy" /\ cs = {}) \/ ~(cs \subseteq Writable)
               THEN "read" ELSE mode
    /\ UNCHANGED <<origin, kind, transport, statements, schedule, previewVars, policy, sending>>

CanRequestWriteSession == selected # {} /\ selected \subseteq Writable

SelectMode(m) ==
    /\ kind = "query_access"
    /\ m = "write" => CanRequestWriteSession
    /\ EditingRequest
    /\ mode' = m
    /\ UNCHANGED <<origin, kind, transport, selected, statements, schedule, previewVars, policy,
                   sending>>

-----------------------------------------------------------------------------
(* Sending                                                                 *)

MayDraft == kind = "single_execution" /\ origin \in {"new", "copy", "draft"}

OffersPolicyReview == MayDraft /\ CanRequest

OffersSubmit == ~CanRequest

Send(intent) ==
    /\ ~sending
    /\ CASE intent = "draft" -> MayDraft
         [] intent = "policy_review" -> OffersPolicyReview
         [] intent = "submit" -> OffersSubmit
    /\ kind = "single_execution" /\ schedule.on => schedule.at # {}
    /\ sending' = TRUE
    /\ UNCHANGED <<origin, formVars, previewVars, policy, edits>>

\* The server refuses: the form stays, with messages.
Refused ==
    /\ sending
    /\ sending' = FALSE
    /\ UNCHANGED <<origin, formVars, previewVars, policy, edits>>

\* The server's verdict on a statement changes: an administrator decides on it.
ChangePolicy(sql, v) ==
    /\ v # policy[sql] /\ EditingRequest
    /\ policy' = [policy EXCEPT ![sql] = v]
    /\ UNCHANGED <<origin, formVars, previewVars, sending>>

-----------------------------------------------------------------------------
(* The specification                                                       *)

DefaultConnection ==
    IF Cardinality(Targets) = 1 THEN CHOOSE c \in Targets : TRUE ELSE NoConnection

\* createSimilar() copies the targets that still permit the access.
CopiedAccess(tr, m, cs) ==
    cs \subseteq CASE tr = "browser" /\ m = "read"  -> BrowserRead
                   [] tr = "browser" /\ m = "write" -> BrowserWrite
                   [] tr # "browser" /\ m = "read"  -> NativeRead
                   [] tr # "browser" /\ m = "write" -> NativeWrite

InitForm ==
    \/ /\ origin = "new" /\ kind = "single_execution" /\ transport = "browser"
       /\ statements = <<[sql |-> "", conn |-> DefaultConnection]>>
       /\ selected = {DefaultConnection} \ {NoConnection} /\ mode = "read"
       /\ schedule = Unset
    \/ /\ origin \in {"copy", "draft", "submitted"}
       /\ kind = "single_execution" /\ transport = "browser"
       /\ \E s \in Sqls, c \in Targets \cup {NoConnection} :
             /\ c = NoConnection => origin = "copy"
             /\ statements = <<[sql |-> s, conn |-> c]>>
             /\ selected = IF origin = "copy" THEN {} ELSE {c}
       /\ mode = "read"
       /\ \/ schedule = Unset
          \/ origin # "copy" /\ \E t \in Times : schedule = [on |-> TRUE, at |-> {ToLocal(t)}]
    \/ /\ origin = "copy" /\ kind = "query_access"
       /\ transport \in {"browser", "native_proxy"} /\ mode \in {"read", "write"}
       /\ selected \in {cs \in SUBSET Targets : CopiedAccess(transport, mode, cs)}
       /\ transport = "native_proxy" => Cardinality(selected) <= 1
       /\ statements = <<[sql |-> "", conn |-> NoConnection]>>
       /\ schedule = Unset

EditorInit ==
    /\ InitForm
    /\ policy = LocalPolicy
    /\ timer = (kind = "single_execution" /\ Inputs(statements) # {})
    /\ asking = {}
    /\ snapshot = IF origin \in {"draft", "submitted"}
                  THEN [signature |-> statements, previews |-> Answers(statements)]
                  ELSE NoAnswer(statements)
    /\ heard = (origin \in {"draft", "submitted"})
    /\ sending = FALSE /\ edits = 0

EditStatements ==
    \E i \in DOMAIN statements :
        \/ \E sql \in Sqls \cup {""} : UpdateStatement(i, sql)
        \/ \E c \in Targets : UpdateStatementConnection(i, c)
        \/ InsertStatementAfter(i)
        \/ RemoveStatement(i)
        \/ \E target \in DOMAIN statements : MoveStatement(i, target)

EditAccess ==
    \/ ChooseWorkflow
    \/ \E cs \in SUBSET Targets : SelectConnections(cs)
    \/ \E m \in {"read", "write"} : SelectMode(m)

Previewing == Ask \/ \E r \in asking : Answer(r) \/ Fail(r)

EditorNext ==
    \/ EditStatements \/ EditSchedule \/ EditAccess
    \/ Previewing
    \/ \E intent \in {"draft", "policy_review", "submit"} : Send(intent)
    \/ Refused
    \/ \E sql \in Sqls, v \in Verdicts : ChangePolicy(sql, v)

-----------------------------------------------------------------------------
(* Properties                                                              *)

\* Write access is asked for only where every chosen connection permits it over the
\* chosen transport, however workflow, connections and access level are changed and
\* changed back, and whatever request the form was copied from.
WriteOnlyWherePermitted ==
    kind = "query_access" /\ mode = "write" => selected \subseteq Writable

\* The server's verdict on the statements on display, once it has arrived, stays until
\* they are edited: an answer to an earlier version, coming late, does not displace it.
AnswerStaysOnDisplay == heard => snapshot.signature = statements

\* The time that was typed is the time that is scheduled: the instant sent reads back
\* as that local time, on either side of a change of the clocks, unless the clocks
\* skip it.
ScheduledTimeReadsBack ==
    \A t \in schedule.at : ~Skipped(t) => ToLocal(ToInstant(t)) = t

=============================================================================
