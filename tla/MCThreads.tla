----------------------------- MODULE MCThreads -----------------------------
(***************************************************************************)
(* Values for Threads: small, and such that every part has a choice.       *)
(***************************************************************************)
EXTENDS Threads

\* Messages 1 and 2 are of the first thread and have equal texts.
MCThreadOf == <<"t1", "t1", "t2">>
MCText == <<"a", "a", "b">>
=============================================================================
