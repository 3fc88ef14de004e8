------------------------------ MODULE MCPages ------------------------------
(***************************************************************************)
(* Values for Pages: small, and such that every part has a choice.         *)
(***************************************************************************)
EXTENDS Pages

\* A file replaced by a directory, two files in a directory and a deep one.
MCNoPath == <<>>
MCTreePaths == {<<1>>, <<1, 1>>, <<1, 2>>, <<2, 1, 1>>}

\* Edits with and without a directory in common.
MCEdits == {{<<1, 1>>}, {<<1, 1>>, <<1, 2>>}, {<<1, 1>>, <<1, 2>>, <<2>>}}
MCPrFiles == {<<1, 1>>, <<2>>}

MCProjects == <<"a", "b">>

\* One model, of which an effort is no longer offered.
MCSupported == {<<"m", "low">>, <<"m", "high">>}
MCRetired == {<<"m", "max">>}
MCFirst == <<"m", "low">>

\* Two follow-ups that were queued before.
MCQueued == {<<-1, 0>>, <<-2, 0>>}

\* Two sessions of two projects.
MCProjectOf == [s1 |-> "p", s2 |-> "q"]
MCFiles == [p |-> 2, q |-> 1]
=============================================================================
