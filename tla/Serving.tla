------------------------------- MODULE Serving -------------------------------
(***************************************************************************)
(* How the web server works: several workers serve requests at once.  A    *)
(* request first reads what it decides on and writes afterwards; where the *)
(* code takes no lock, another request may be served in between.           *)
(*                                                                         *)
(* Source: compose.yaml and .docker/production-supervisord.conf, which     *)
(* start two workers unless told otherwise.                                *)
(***************************************************************************)
EXTENDS Naturals, FiniteSets

CONSTANT
    Workers        \* the number of requests that are served at once

ASSUME ServingAssumption == Workers \in Nat \ {0}

\* A worker is free: these are the requests that were admitted and not written yet.
WorkerFree(requests) == Cardinality(requests) < Workers

=============================================================================
