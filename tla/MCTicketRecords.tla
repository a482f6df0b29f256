---------------------------- MODULE MCTicketRecords ----------------------------
(***************************************************************************)
(* TicketRecords for TLC: a delivery in a worker, runs of /process_ticket, *)
(* and the PUT requests of two agents.                                     *)
(***************************************************************************)
EXTENDS TicketRecords, TLC

CONSTANTS w1, a1, a2, s1, s2

\* The two agents are alike, and nothing is checked under fairness.
Alike == Permutations(Staff)
=============================================================================
