---------------------------- MODULE MCThreadRuns ----------------------------
(***************************************************************************)
(* A small instance of ThreadRuns: two requests at a time, two runs.       *)
(***************************************************************************)
EXTENDS ThreadRuns

CONSTANTS h1, h2
=============================================================================
