---------------------------- MODULE TicketHandover ----------------------------
(***************************************************************************)
(* What the queue promises: at-least-once delivery.  A ticket that waits   *)
(* is let go only after a worker has reacted to it.                        *)
(***************************************************************************)
CONSTANT Tickets

VARIABLES waiting, reacted

Init == waiting = {} /\ reacted = {}

Enqueue(t) == /\ t \notin reacted
              /\ waiting' = waiting \cup {t}
              /\ UNCHANGED reacted
React(t)   == reacted' = reacted \cup {t} /\ UNCHANGED waiting
Forget(t)  == t \in reacted /\ waiting' = waiting \ {t} /\ UNCHANGED reacted

Next == \E t \in Tickets : Enqueue(t) \/ (t \in waiting /\ React(t)) \/ Forget(t)

Spec == Init /\ [][Next]_<<waiting, reacted>>
=============================================================================
