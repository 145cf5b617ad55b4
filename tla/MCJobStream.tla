----------------------------- MODULE MCJobStream -----------------------------
(* One job watched by one or two pages. *)
EXTENDS JobStream, TLC

CONSTANTS j1

\* Every page is the page of the same job.
WatchOne == [s \in Streams |-> j1]
=============================================================================
