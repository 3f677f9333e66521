------------------------------ MODULE SqlPolicy ------------------------------
(***************************************************************************)
(* Workspace SQL policy: the statement families that may run, the          *)
(* statements that preflight found unsupported (the candidates), the rules *)
(* administrators promote them to, and the page on which they decide.      *)
(*                                                                         *)
(* Source: resources/js/pages/settings/admin/sql-policy.tsx,               *)
(* SqlPolicyManager, DeploymentStatementPolicy, SqlPolicyCandidateRecorder *)
(* and SqlStatementPolicyController.  Statements that have a shape share   *)
(* one.  A page may have been loaded long before a decision is made on it: *)
(* loading is a step of its own.                                           *)
(***************************************************************************)
EXTENDS Catalog, Functions

CONSTANTS
    Candidates,    \* the statements that no family covers
    Shaped,        \* those with a reusable shape
    Families,      \* the statement families
    MaxDecisions   \* bound on the decisions and rule changes

VARIABLES
    sqlSettings,   \* the settings that are on: families, and the emergency fallback
    sqlDraft,      \* the switches of the page
    rules,         \* the custom rules: effect and is_enabled, by statement or shape and scope
    resolution,    \* of each candidate
    resolvedRule,  \* the rule each candidate was resolved with
    seen,          \* the occurrences: pairs of a candidate and a connection
    sqlView,       \* the candidates with their scopes, and the rules, on the page
    review,        \* rule type and scope chosen for each candidate on the page
    decisions      \* the number of decisions so far

sqlVars == <<sqlSettings, sqlDraft, rules, resolution, resolvedRule, seen, sqlView, review, decisions>>

Fallback == "fallback"
Shape == "shape"
Workspace == "workspace"

ASSUME SqlPolicyAssumption ==
    /\ Shaped \subseteq Candidates /\ Shape \notin Candidates /\ Fallback \notin Families
    /\ MaxDecisions \in Nat

Settings == Families \cup {Fallback}

Scopes == {Workspace} \cup Groups \cup Connections

RuleKeys == [match : Candidates \cup {Shape}, scope : Scopes]

NoKey == [match |-> Shape, scope |-> "none"]

Rule == [effect : {"allow", "deny"}, on : BOOLEAN]

Resolutions == {"none", "allowed_exact", "allowed_shape", "denied", "dismissed"}

NoReview == [match |-> "exact", scope |-> "none"]

SqlTypeOK ==
    /\ sqlSettings \subseteq Settings /\ sqlDraft \subseteq Settings
    /\ DOMAIN rules \subseteq RuleKeys /\ \A k \in DOMAIN rules : rules[k] \in Rule
    /\ resolution \in [Candidates -> Resolutions]
    /\ resolvedRule \in [Candidates -> DOMAIN rules \cup {NoKey}]
    /\ seen \subseteq Candidates \X Connections
    /\ DOMAIN sqlView.scopes \subseteq Candidates /\ DOMAIN sqlView.rules \subseteq DOMAIN rules
    /\ review \in [Candidates -> [match : {"exact", Shape}, scope : Scopes \cup {"none"}]]
    /\ decisions \in 0..MaxDecisions

-----------------------------------------------------------------------------
(* What the policy says of a statement                                     *)

\* A rule of this scope applies to the connection.
InScope(scope, c) == scope \in {Workspace, c} \cup GroupsOf[c]

\* The enabled rules that match a statement on a connection.
Matching(s, c) ==
    {k \in DOMAIN rules : /\ rules[k].on /\ InScope(k.scope, c)
                          /\ k.match = s \/ (k.match = Shape /\ s \in Shaped)}

\* Variant: the rule of the narrowest scope decides.
NarrowestRule(s, c) ==
    LET M == Matching(s, c)
        At(scopes) == {k \in M : k.scope \in scopes}
        N == CASE At({c}) # {} -> At({c})
               [] At({c}) = {} /\ At(GroupsOf[c]) # {} -> At(GroupsOf[c])
               [] OTHER -> M
    IN IF N = {} THEN "none" ELSE IF \E k \in N : rules[k].effect = "deny" THEN "deny" ELSE "allow"

\* matchingRule: a denial before an allowance.
MatchingRule(s, c) ==
    LET M == Matching(s, c)
    IN IF M = {} THEN "none" ELSE IF \E k \in M : rules[k].effect = "deny" THEN "deny" ELSE "allow"

\* assess(), for a statement that no family covers.
Assess(s, c) ==
    CASE MatchingRule(s, c) = "deny" -> "blocked"
      [] MatchingRule(s, c) = "allow" -> "allowed"
      [] OTHER -> IF Fallback \in sqlSettings THEN "fallback" ELSE "unsupported"

\* Preflight records a statement that no rule covers.
Observe(s, c) ==
    /\ Assess(s, c) \in {"fallback", "unsupported"}
    /\ <<s, c>> \notin seen
    /\ seen' = seen \cup {<<s, c>>}
    /\ UNCHANGED <<sqlSettings, sqlDraft, rules, resolution, resolvedRule, sqlView, review, decisions>>

-----------------------------------------------------------------------------
(* The page                                                                *)

SeenOn(s) == {c \in Connections : <<s, c>> \in seen}

\* ensureScopeCoversCandidate, and the scope_options of the page.
CoversSeen(s, scope) ==
    \/ scope = Workspace
    \/ SeenOn(s) = {scope}
    \/ scope \in Groups /\ SeenOn(s) # {} /\ \A c \in SeenOn(s) : scope \in GroupsOf[c]

\* The candidates on the page are those without a resolution.
Unresolved == {s \in Candidates : resolution[s] = "none" /\ SeenOn(s) # {}}

\* The first of the scope options.
NarrowestScope(s) ==
    IF Cardinality(SeenOn(s)) = 1 THEN CHOOSE c \in SeenOn(s) : TRUE
    ELSE IF \E g \in Groups : CoversSeen(s, g) THEN CHOOSE g \in Groups : CoversSeen(s, g)
    ELSE Workspace

\* edit(): the page is loaded.  The choices made for a candidate that stays on the page
\* stay with it; the form of a new one starts from the first option.
LoadSqlPolicy ==
    /\ sqlView' = [scopes |-> [s \in Unresolved |-> {x \in Scopes : CoversSeen(s, x)}],
                   rules |-> [k \in DOMAIN rules |-> rules[k].on]]
    /\ review' = [s \in Candidates |->
                    CASE s \notin Unresolved -> NoReview
                      [] s \in Unresolved /\ s \in DOMAIN sqlView.scopes -> review[s]
                      [] OTHER -> [match |-> "exact", scope |-> NarrowestScope(s)]]
    /\ UNCHANGED <<sqlSettings, sqlDraft, rules, resolution, resolvedRule, seen, decisions>>

\* PolicyField: a family is switched.
ToggleFamily(f) ==
    /\ sqlDraft' = IF f \in sqlDraft THEN sqlDraft \ {f} ELSE sqlDraft \cup {f}
    /\ UNCHANGED <<sqlSettings, rules, resolution, resolvedRule, seen, sqlView, review, decisions>>

ToggleFallback == ToggleFamily(Fallback)

\* update() of the settings: all of the switches are stored.
SaveSettings ==
    /\ sqlSettings' = sqlDraft
    /\ UNCHANGED <<sqlDraft, rules, resolution, resolvedRule, seen, sqlView, review, decisions>>

\* The rule type of a candidate; the shape is offered where there is one.
ChooseMatch(s, m) ==
    /\ s \in DOMAIN sqlView.scopes
    /\ m = Shape => s \in Shaped
    /\ review' = [review EXCEPT ![s].match = m]
    /\ UNCHANGED <<sqlSettings, sqlDraft, rules, resolution, resolvedRule, seen, sqlView, decisions>>

\* The scope of a candidate, from the options it was loaded with.
ChooseScope(s, x) ==
    /\ s \in DOMAIN sqlView.scopes /\ x \in sqlView.scopes[s]
    /\ review' = [review EXCEPT ![s].scope = x]
    /\ UNCHANGED <<sqlSettings, sqlDraft, rules, resolution, resolvedRule, seen, sqlView, decisions>>

Decided ==
    /\ decisions < MaxDecisions
    /\ decisions' = decisions + 1
    /\ UNCHANGED <<sqlSettings, sqlDraft, seen, sqlView, review>>

\* resolveCandidate, without a rule.  Nothing asks whether the candidate is still open.
Dismiss(s) ==
    /\ s \in DOMAIN sqlView.scopes
    /\ Decided
    /\ resolution' = [resolution EXCEPT ![s] = "dismissed"]
    /\ resolvedRule' = [resolvedRule EXCEPT ![s] = NoKey]
    /\ UNCHANGED rules

\* resolveCandidate, with a rule: the one for the same statement or shape and the same
\* scope, with the new effect and enabled, or a new one.  A denial is always exact.
Decide(s, effect) ==
    LET match == IF effect = "deny" \/ review[s].match = "exact" THEN s ELSE Shape
        key == [match |-> match, scope |-> review[s].scope]
    IN /\ s \in DOMAIN sqlView.scopes
       /\ CoversSeen(s, key.scope)
       /\ Decided
       /\ rules' = [k \in DOMAIN rules \cup {key} |->
                      IF k = key THEN [effect |-> effect, on |-> TRUE] ELSE rules[k]]
       /\ resolution' = [resolution EXCEPT ![s] = CASE effect = "deny" -> "denied"
                                                    [] match = Shape -> "allowed_shape"
                                                    [] OTHER -> "allowed_exact"]
       /\ resolvedRule' = [resolvedRule EXCEPT ![s] = key]

\* CustomRuleRow sends the negation of what it shows; setRuleEnabled stores it.
SetRuleEnabled(k) ==
    /\ k \in DOMAIN sqlView.rules
    /\ Decided
    /\ rules' = [rules EXCEPT ![k].on = ~sqlView.rules[k]]
    /\ UNCHANGED <<resolution, resolvedRule>>

-----------------------------------------------------------------------------
SqlInit ==
    /\ sqlSettings \in {Families, Settings} /\ sqlDraft = sqlSettings
    /\ rules = [k \in {} |-> [effect |-> "deny", on |-> TRUE]]
    /\ resolution = [s \in Candidates |-> "none"]
    /\ resolvedRule = [s \in Candidates |-> NoKey]
    /\ seen = {}
    /\ sqlView = [scopes |-> [s \in {} |-> {}], rules |-> [k \in {} |-> TRUE]]
    /\ review = [s \in Candidates |-> NoReview]
    /\ decisions = 0

SqlNext ==
    \/ \E s \in Candidates, c \in Connections : Observe(s, c)
    \/ LoadSqlPolicy
    \/ \E f \in Families : ToggleFamily(f)
    \/ ToggleFallback \/ SaveSettings
    \/ \E s \in Candidates :
         \/ \E m \in {"exact", Shape} : ChooseMatch(s, m)
         \/ \E x \in Scopes : ChooseScope(s, x)
         \/ Dismiss(s)
         \/ \E e \in {"allow", "deny"} : Decide(s, e)
    \/ \E k \in DOMAIN rules : SetRuleEnabled(k)

-----------------------------------------------------------------------------
(* Properties                                                              *)

\* A statement that an administrator has denied stays blocked wherever the rule applies,
\* whatever is decided after it elsewhere: no allowance of its shape, for another
\* statement or in another scope, no fallback and no stale page lets it through, until
\* the decision itself is replaced or its rule is switched off.
DenialStands ==
    \A s \in Candidates :
        (resolution[s] = "denied" /\ rules[resolvedRule[s]].on) =>
            \A c \in Connections : InScope(resolvedRule[s].scope, c) => Assess(s, c) = "blocked"

=============================================================================
