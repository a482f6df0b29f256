--------------------------- MODULE MCTicketDelivery ---------------------------
(***************************************************************************)
(* Two tickets, one of them too long for TicketRequest, and two workers;   *)
(* four tickets where only the dispatcher runs: a pool of two threads with *)
(* room for one more task is full with three of them.                      *)
(***************************************************************************)
EXTENDS TicketDelivery

CONSTANTS t1, t2, t3, t4, w1, w2
=============================================================================
