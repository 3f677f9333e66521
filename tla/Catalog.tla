------------------------------- MODULE Catalog -------------------------------
(***************************************************************************)
(* The connections an administrator has registered and the groups each one *)
(* belongs to, as the pages for roles and for SQL policy list them.        *)
(***************************************************************************)
EXTENDS Naturals, FiniteSets

CONSTANTS
    Groups,        \* the connection groups
    Connections,   \* the connections
    GroupsOf       \* the groups of each connection: none, one or several

ASSUME CatalogAssumption == GroupsOf \in [Connections -> SUBSET Groups]

=============================================================================
