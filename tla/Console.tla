------------------------------ MODULE Console ------------------------------
(***************************************************************************)
(* The pages beside those of a running request: the form in which a        *)
(* request is written, and what administrators and users set up (roles,    *)
(* SQL policy, connections, people, sign-in, the security of an account,   *)
(* the application's own database).                                        *)
(*                                                                         *)
(* These parts share no variable, so that a behaviour of the whole is a    *)
(* behaviour of each part with stuttering, and every property here is of   *)
(* one part.  A behaviour of this module is therefore one of a single      *)
(* part, chosen at the start.                                              *)
(***************************************************************************)
EXTENDS DatabaseMigration, RoleForm, SqlPolicy, ConnectionForm, People, SignIn,
        AccountSecurity, RequestEditor

CONSTANT Pages    \* the parts that are looked at

AllPages == {"application_database", "roles", "sql_policy", "connections", "people",
             "sign_in", "security", "request"}

ASSUME ConsoleAssumption == Pages \subseteq AllPages

VARIABLE page

vars == <<page, migrationVars, roleVars, workflowVars, sqlVars, connectionVars, peopleVars,
          signInVars, securityVars, editorVars>>

TypeOK ==
    CASE page = "application_database" -> MigrationTypeOK
      [] page = "roles" -> RoleTypeOK /\ WorkflowsTypeOK
      [] page = "sql_policy" -> SqlTypeOK
      [] page = "connections" -> ConnectionTypeOK
      [] page = "people" -> PeopleTypeOK
      [] page = "sign_in" -> SignInTypeOK
      [] page = "security" -> SecurityTypeOK
      [] page = "request" -> EditorTypeOK

\* Every part but this one stays as it is.
OnlyOn(p) ==
    /\ page = p /\ UNCHANGED page
    /\ p # "application_database" => UNCHANGED migrationVars
    /\ p # "roles" => UNCHANGED <<roleVars, workflowVars>>
    /\ p # "sql_policy" => UNCHANGED sqlVars
    /\ p # "connections" => UNCHANGED connectionVars
    /\ p # "people" => UNCHANGED peopleVars
    /\ p # "sign_in" => UNCHANGED signInVars
    /\ p # "security" => UNCHANGED securityVars
    /\ p # "request" => UNCHANGED editorVars

\* The parts with several initial states have one of them where they are not looked at.
OneStart ==
    /\ page # "roles" => enabled = {} /\ DOMAIN storedGroups = {} /\ DOMAIN storedExceptions = {}
    /\ page # "sql_policy" => sqlSettings = Settings
    /\ page # "request" => origin = "new"

Init ==
    /\ page \in Pages
    /\ MigrationInit
    /\ RoleInit
    /\ SqlInit
    /\ ConnectionInit
    /\ PeopleInit
    /\ SignInInit
    /\ SecurityInit
    /\ EditorInit
    /\ OneStart

Next ==
    \/ OnlyOn("application_database") /\ MigrationNext
    \/ OnlyOn("roles") /\ RoleNext
    \/ OnlyOn("sql_policy") /\ SqlNext
    \/ OnlyOn("connections") /\ ConnectionNext
    \/ OnlyOn("people") /\ PeopleNext
    \/ OnlyOn("sign_in") /\ SignInNext
    \/ OnlyOn("security") /\ SecurityNext
    \/ OnlyOn("request") /\ EditorNext

Spec == Init /\ [][Next]_vars

=============================================================================
