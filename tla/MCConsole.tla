----------------------------- MODULE MCConsole -----------------------------
(***************************************************************************)
(* Small instances of Console for TLC.                                     *)
(***************************************************************************)
EXTENDS Console, TLC

\* Every group holds every connection.
MCGroupsOf == [c \in Connections |-> Groups]

\* A policy whose native mode is below its browser mode.
MCStartPolicies ==
    {[access |-> "write", query |-> "write", native |-> "read", review |-> FALSE,
      readApproval |-> FALSE, writeApproval |-> TRUE, limit |-> "ok"]}

\* A supported statement and one that the governed policy does not know.
MCLocalPolicy == [s \in Sqls |-> IF s = "select" THEN "allowed" ELSE "reviewable"]

\* One hour, and two hours from instant 6 on.
MCZoneForward == [change |-> 6, before |-> 1, after |-> 2]

=============================================================================
