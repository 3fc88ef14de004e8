--------------------------- MODULE MCMessageQueue ---------------------------
(* Small instances of MessageQueue.                                          *)
EXTENDS MessageQueue

CONSTANTS h1, h2
=============================================================================
