--------------------------- MODULE MCSourceControl ---------------------------
(* Small instances of SourceControl.                                        *)
EXTENDS SourceControl
=============================================================================
