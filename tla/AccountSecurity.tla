--------------------------- MODULE AccountSecurity ---------------------------
(***************************************************************************)
(* A person's sign-in factors: two-factor authentication, its recovery     *)
(* codes and the passkeys, on the security page, and the challenge that    *)
(* asks for them at sign-in.                                               *)
(*                                                                         *)
(* Source: resources/js/pages/settings/security.tsx,                       *)
(* pages/auth/two-factor-challenge.tsx and confirm-password.tsx,           *)
(* components/manage-two-factor.tsx, two-factor-setup-modal.tsx,           *)
(* two-factor-recovery-codes.tsx, manage-passkeys.tsx, passkey-item.tsx,   *)
(* passkey-register.tsx, hooks/use-two-factor-auth.ts and                  *)
(* SecurityController.  What Fortify does at its routes is modelled from   *)
(* how they are used.                                                      *)
(*                                                                         *)
(* One tab.  A secret and a set of recovery codes are numbers in the order *)
(* they were issued, 0 where there is none.  The page is always rendered   *)
(* in a later second than the one in which a setup was first noticed.      *)
(***************************************************************************)
EXTENDS Naturals

CONSTANT
    MaxIssued      \* bound on the secrets and sets of codes issued

ASSUME SecurityAssumption == MaxIssued \in Nat \ {0}

VARIABLES
    account,       \* the stored factors
    login,         \* the browser's session
    tab,           \* the state of the security page
    asked,         \* requests of the page's hook that were not served yet
    answers,       \* their answers, not yet received
    device,        \* the secret in the person's authenticator
    issued         \* the last number issued

securityVars == <<account, login, tab, asked, answers, device, issued>>

Account == [secret : 0..MaxIssued, confirmed : BOOLEAN, codes : 0..MaxIssued]

\* sure: the password was confirmed a while ago; empty and confirming are the marks
\* that Fortify keeps in the session.
Login == [state : {"out", "challenge", "in"}, recovery : BOOLEAN, sure : BOOLEAN,
          empty : BOOLEAN, confirming : BOOLEAN]

Tab == [here : BOOLEAN, enabled : BOOLEAN, qr : 0..MaxIssued, key : 0..MaxIssued,
        codes : 0..MaxIssued, failed : BOOLEAN, modal : BOOLEAN, verifying : BOOLEAN,
        visible : BOOLEAN]

Questions == {"qr", "key", "codes", "reveal"}

Gone == [here |-> FALSE, enabled |-> FALSE, qr |-> 0, key |-> 0, codes |-> 0,
         failed |-> FALSE, modal |-> FALSE, verifying |-> FALSE, visible |-> FALSE]

NoFactor == [secret |-> 0, confirmed |-> FALSE, codes |-> 0]

SignedOut == [state |-> "out", recovery |-> FALSE, sure |-> FALSE, empty |-> FALSE,
              confirming |-> FALSE]

\* Beside the types: the second factor that sign-in asks for is in the person's hands.
SecurityTypeOK ==
    /\ account \in Account /\ login \in Login /\ tab \in Tab
    /\ asked \subseteq Questions
    /\ answers \subseteq [kind : Questions, value : 0..MaxIssued]
    /\ device \in 0..MaxIssued /\ issued \in 0..MaxIssued
    /\ tab.here => login.state = "in"
    /\ account.confirmed => account.secret # 0 /\ device = account.secret

-----------------------------------------------------------------------------
(* The server                                                              *)

\* ensureStateIsValid(), at every rendering of the page: a setup that was noticed by an
\* earlier rendering and is not confirmed by now is undone.
Validated(a, l) ==
    LET seen == [l EXCEPT !.empty = @ \/ a.secret = 0]
        begun == a.secret # 0 /\ ~a.confirmed /\ seen.empty /\ ~seen.confirming
    IN IF begun THEN <<a, [seen EXCEPT !.confirming = TRUE]>>
       ELSE IF a.confirmed THEN <<a, seen>>
       ELSE <<NoFactor, [seen EXCEPT !.empty = TRUE, !.confirming = FALSE]>>

\* edit(), and the page that receives its properties: data of a factor that was just
\* disabled is cleared, and the codes are hidden.
Shown(t, a) ==
    IF t.enabled /\ ~a.confirmed
    THEN [t EXCEPT !.enabled = FALSE, !.qr = 0, !.key = 0, !.codes = 0, !.failed = FALSE,
                   !.visible = FALSE]
    ELSE [t EXCEPT !.enabled = a.confirmed, !.visible = @ /\ t.enabled]

\* The page is rendered for account a, keeping the state of its components.
Render(a, t) ==
    LET v == Validated(a, login)
    IN account' = v[1] /\ login' = v[2] /\ tab' = Shown(t, v[1])

\* An action that needs a recently confirmed password leads to the confirmation page.
Leaves == tab' = Gone /\ asked' = {} /\ answers' = {}

AskForPassword ==
    /\ ~login.sure /\ Leaves
    /\ UNCHANGED <<account, login, device, issued>>

-----------------------------------------------------------------------------
(* Signing in and out                                                      *)

\* A password is accepted: the challenge follows where a second factor is confirmed.
SignIn ==
    /\ login.state = "out"
    /\ login' = [SignedOut EXCEPT !.state = IF account.confirmed THEN "challenge" ELSE "in"]
    /\ UNCHANGED <<account, tab, asked, answers, device, issued>>

\* toggleRecoveryMode.
ToggleRecoveryMode ==
    /\ login.state = "challenge"
    /\ login' = [login EXCEPT !.recovery = ~@]
    /\ UNCHANGED <<account, tab, asked, answers, device, issued>>

\* A code of the authenticator, or a recovery code, is accepted.
PassChallenge ==
    /\ login.state = "challenge"
    /\ login.recovery \/ device = account.secret
    /\ login' = [login EXCEPT !.state = "in", !.recovery = FALSE]
    /\ UNCHANGED <<account, tab, asked, answers, device, issued>>

SignOut ==
    /\ login.state # "out"
    /\ login' = SignedOut /\ Leaves
    /\ UNCHANGED <<account, device, issued>>

\* The confirmation page: a password, a passkey or an SSO account.
ConfirmPassword ==
    /\ login.state = "in" /\ ~login.sure /\ ~tab.here
    /\ login' = [login EXCEPT !.sure = TRUE]
    /\ UNCHANGED <<account, tab, asked, answers, device, issued>>

\* The confirmation is too old.
ConfirmationExpires ==
    /\ login.sure
    /\ login' = [login EXCEPT !.sure = FALSE]
    /\ UNCHANGED <<account, tab, asked, answers, device, issued>>

-----------------------------------------------------------------------------
(* The page                                                                *)

OpenSecurity ==
    /\ login.state = "in" /\ ~tab.here
    /\ Render(account, [Gone EXCEPT !.here = TRUE])
    /\ UNCHANGED <<asked, answers, device, issued>>

LeaveSecurity ==
    /\ tab.here /\ Leaves
    /\ UNCHANGED <<account, login, device, issued>>

\* The page can be used: the dialog of the setup, which covers it, is not open.
OnPage == tab.here /\ ~tab.modal

\* update(): the answer is the page again, whether the password was accepted or not.
SavePassword ==
    /\ OnPage
    /\ Render(account, tab)
    /\ UNCHANGED <<asked, answers, device, issued>>

HasSetupData == tab.qr # 0 /\ tab.key # 0

\* "Enable 2FA": a secret and codes are made unless there are some.  The dialog opens
\* and, without a QR code, asks for the setup data.
EnableTwoFactor ==
    /\ OnPage /\ ~tab.enabled /\ ~HasSetupData /\ login.sure
    /\ account.secret = 0 => issued < MaxIssued
    /\ issued' = IF account.secret = 0 THEN issued + 1 ELSE issued
    /\ Render(IF account.secret = 0
              THEN [secret |-> issued', confirmed |-> FALSE, codes |-> issued'] ELSE account,
              [tab EXCEPT !.modal = TRUE, !.failed = @ /\ tab.qr # 0])
    /\ asked' = IF tab.qr = 0 THEN asked \cup {"qr", "key"} ELSE asked
    /\ UNCHANGED <<answers, device>>

ContinueSetup ==
    /\ OnPage /\ ~tab.enabled /\ HasSetupData
    /\ tab' = [tab EXCEPT !.modal = TRUE]
    /\ UNCHANGED <<account, login, asked, answers, device, issued>>

\* handleClose: the data is dropped only once the factor is enabled.
Closed(t, enabled) ==
    [IF enabled THEN [t EXCEPT !.qr = 0, !.key = 0, !.failed = FALSE] ELSE t
        EXCEPT !.modal = FALSE, !.verifying = FALSE]

CloseSetup ==
    /\ tab.modal
    /\ tab' = Closed(tab, tab.enabled)
    /\ UNCHANGED <<account, login, asked, answers, device, issued>>

\* The person scans the QR code, or types the setup key.
ScanCode ==
    /\ tab.modal /\ ~tab.verifying /\ ~tab.failed
    /\ \E s \in {tab.qr, tab.key} \ {0} : device' = s
    /\ UNCHANGED <<account, login, tab, asked, answers, issued>>

\* handleModalNextStep, and Back.
SetupStep(next) ==
    /\ tab.modal /\ tab.verifying # next
    /\ next => ~tab.failed
    /\ tab' = [tab EXCEPT !.verifying = next]
    /\ UNCHANGED <<account, login, asked, answers, device, issued>>

\* Variant: a code is accepted although the account has another secret.
ConfirmSetupUnverified ==
    /\ tab.modal /\ tab.verifying /\ login.sure
    /\ account.secret # 0
    /\ account' = [account EXCEPT !.confirmed = TRUE]
    /\ tab' = Closed(Shown(tab, account'), tab.enabled)
    /\ UNCHANGED <<login, asked, answers, device, issued>>

\* The six digits are sent: they are right when the authenticator has the account's
\* secret.  The dialog is closed by the callback of the rendering that sent the form,
\* to which the factor was not enabled.
ConfirmSetup ==
    /\ tab.modal /\ tab.verifying /\ login.sure
    /\ account.secret # 0 /\ device = account.secret
    /\ account' = [account EXCEPT !.confirmed = TRUE]
    /\ tab' = Closed(Shown(tab, account'), tab.enabled)
    /\ UNCHANGED <<login, asked, answers, device, issued>>

\* "Disable 2FA".
DisableTwoFactor ==
    /\ OnPage /\ tab.enabled /\ login.sure
    /\ Render(NoFactor, tab)
    /\ UNCHANGED <<asked, answers, device, issued>>

\* toggleCodesVisibility: without codes they are fetched first, and shown afterwards.
ToggleCodes ==
    /\ OnPage /\ tab.enabled
    /\ LET fetch == ~tab.visible /\ tab.codes = 0
       IN /\ asked' = IF fetch THEN asked \cup {"reveal"} ELSE asked
          /\ tab' = IF fetch THEN [tab EXCEPT !.failed = FALSE]
                             ELSE [tab EXCEPT !.visible = ~@]
    /\ UNCHANGED <<account, login, answers, device, issued>>

\* "Regenerate codes", followed by a fetch.
RegenerateCodes ==
    /\ OnPage /\ tab.enabled /\ tab.visible /\ tab.codes # 0 /\ login.sure
    /\ issued < MaxIssued /\ issued' = issued + 1
    /\ Render([account EXCEPT !.codes = issued'], [tab EXCEPT !.failed = FALSE])
    /\ asked' = asked \cup {"codes"}
    /\ UNCHANGED <<answers, device>>

\* One of the actions above is tried when the password has to be confirmed again.
NeedsPassword ==
    /\ tab.here
    /\ tab.modal => tab.verifying
    /\ AskForPassword

-----------------------------------------------------------------------------
(* The requests of the hook                                                *)

\* The server answers.  There is no setup key without a secret.
Serve(k) ==
    /\ k \in asked /\ login.sure
    /\ k = "key" => account.secret # 0
    /\ asked' = asked \ {k}
    /\ answers' = answers \cup
         {[kind |-> k, value |-> IF k \in {"qr", "key"} THEN account.secret ELSE account.codes]}
    /\ UNCHANGED <<account, login, tab, device, issued>>

\* What the page makes of the setup data v that arrives, 0 where the request failed.  A
\* QR code that disappears from the open dialog is asked for again.
WithSetupData(k, v, failed, rest) ==
    LET t == IF k = "qr" THEN [tab EXCEPT !.qr = v] ELSE [tab EXCEPT !.key = v]
        again == tab.modal /\ tab.qr # 0 /\ t.qr = 0
    IN /\ tab' = [t EXCEPT !.failed = (@ \/ failed) /\ ~again]
       /\ asked' = IF again THEN rest \cup {"qr", "key"} ELSE rest

\* The same for recovery codes, which are revealed whether or not they came.
WithCodes(k, v, failed) ==
    tab' = [tab EXCEPT !.codes = v, !.failed = @ \/ failed,
                       !.visible = (@ \/ k = "reveal") /\ tab.enabled]

\* fetchQrCode, fetchSetupKey and fetchRecoveryCodes receive their answers.
AnswerArrives(r) ==
    /\ r \in answers
    /\ answers' = answers \ {r}
    /\ IF r.kind \in {"qr", "key"}
       THEN WithSetupData(r.kind, r.value, FALSE, asked)
       ELSE WithCodes(r.kind, r.value, FALSE) /\ UNCHANGED asked
    /\ UNCHANGED <<account, login, device, issued>>

\* A request fails.  Where the password has to be confirmed first, the one for the codes
\* leads to the confirmation.
RequestFails(k) ==
    /\ k \in asked
    /\ \/ /\ k \in {"qr", "key"}
          /\ WithSetupData(k, 0, TRUE, asked \ {k})
          /\ UNCHANGED answers
       \/ /\ k \in {"codes", "reveal"} /\ login.sure
          /\ WithCodes(k, 0, TRUE)
          /\ asked' = asked \ {k}
          /\ UNCHANGED answers
       \/ /\ k \in {"codes", "reveal"} /\ ~login.sure
          /\ Leaves
    /\ UNCHANGED <<account, login, device, issued>>

-----------------------------------------------------------------------------
(* Passkeys                                                                *)

\* A passkey is registered or removed, and the page rendered again.
ChangePasskeys ==
    /\ OnPage /\ login.sure
    /\ Render(account, tab)
    /\ UNCHANGED <<asked, answers, device, issued>>

-----------------------------------------------------------------------------
SecurityInit ==
    /\ account = NoFactor /\ login = SignedOut /\ tab = Gone
    /\ asked = {} /\ answers = {} /\ device = 0 /\ issued = 0

SecurityNext ==
    \/ SignIn \/ ToggleRecoveryMode \/ PassChallenge \/ SignOut
    \/ ConfirmPassword \/ ConfirmationExpires
    \/ OpenSecurity \/ LeaveSecurity \/ SavePassword
    \/ EnableTwoFactor \/ ContinueSetup \/ CloseSetup \/ ScanCode \/ ConfirmSetup
    \/ \E next \in BOOLEAN : SetupStep(next)
    \/ DisableTwoFactor \/ ToggleCodes \/ RegenerateCodes \/ NeedsPassword
    \/ \E k \in asked : Serve(k) \/ RequestFails(k)
    \/ \E r \in answers : AnswerArrives(r)
    \/ ChangePasskeys

=============================================================================
