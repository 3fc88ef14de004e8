----------------------------- MODULE MCSchedules -----------------------------
(* Small instances of Schedules.                                            *)
EXTENDS Schedules, TLC

CONSTANTS q1, q2
MCRequestSymmetry == Permutations(Requests)
=============================================================================
