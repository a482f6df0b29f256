---------------------------- MODULE TicketMessages ----------------------------
(***************************************************************************)
(* The Redis lists between ticket-core-service and the orchestrator's      *)
(* worker.  A list is a sequence, left end first; a message is its ticket. *)
(*   ticketQueue   ticket_queue: LPUSH adds on the left, BLMOVE takes from *)
(*                 the right                                               *)
(*   processing    ticket_queue:processing                                 *)
(* A Redis command is atomic.  Redis itself does not lose the lists.       *)
(***************************************************************************)
EXTENDS Naturals, Sequences, SequencesExt

CONSTANT Tickets

VARIABLES ticketQueue, processing

lists == <<ticketQueue, processing>>

Occurs(t, list) == \E i \in DOMAIN list : list[i] = t
InRedis(t) == Occurs(t, ticketQueue) \/ Occurs(t, processing)

LPush(t) == ticketQueue' = Cons(t, ticketQueue)

\* The message at the right end of from goes to the left end of to.
Move(from, to) == from' = Front(from) /\ to' = Cons(Last(from), to)
=============================================================================
