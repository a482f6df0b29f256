---------------------------- MODULE TicketDelivery ----------------------------
(***************************************************************************)
(* A ticket from the request that saves it to the worker that handles it:  *)
(* TicketDispatcher and TicketQueue share the Redis lists.                 *)
(***************************************************************************)
EXTENDS TicketDispatcher, TicketQueue

vars == <<lists, dispatcherVars, workerVars>>

Init == DispatcherInit /\ QueueInit

Next == \/ DispatcherNext /\ UNCHANGED workerVars
        \/ QueueNext /\ UNCHANGED dispatcherVars

Spec == Init /\ [][Next]_vars /\ DispatcherFairness /\ QueueFairness

\* The dispatcher while no worker runs.
DispatcherSpec ==
    Init /\ [][DispatcherNext /\ UNCHANGED workerVars]_vars /\ DispatcherFairness

-----------------------------------------------------------------------------
(* Properties *)

\* The variables of both components are in their types, and a worker has a
\* message exactly while it handles or removes one.
TypeOK ==
    /\ ticketQueue \in Seq(Tickets) /\ processing \in Seq(Tickets)
    /\ place \in [Tickets -> Places]
    /\ running \in BOOLEAN
    /\ executor \in {"running", "shutdown", "stop"}
    /\ workQueue \in Seq(Tickets) /\ Len(workQueue) <= Capacity
    /\ stopper \in {"up", "stopping", "draining", "stopped", "closed", "killed"}
    /\ phase \in [Processes -> Phases]
    /\ message \in [Processes -> Tickets \cup {NoMessage}]
    /\ \A p \in Processes :
          message[p] \in Tickets <=> phase[p] \in {"handling", "removing"}
    /\ handled \subseteq Tickets /\ rejected \subseteq Tickets /\ lostReply \subseteq Tickets
    /\ faults \in 0..MaxFaults

Handover == INSTANCE TicketHandover
              WITH waiting <- {t \in Tickets : InRedis(t)}, reacted <- handled \cup rejected

\* At least once: no crash, restart, second worker or failed reply makes a ticket
\* vanish from Redis before a worker has reacted to it.
AtLeastOnce == Handover!Spec

\* A ticket whose hand-off succeeded is reacted to in the end, crashes included,
\* unless the reply to its BLMOVE was lost: then it lies in ticket_queue:processing,
\* where nothing looks before the next start of a worker.
Served == \A t \in Tickets :
             place[t] = "done" ~> t \in handled \cup rejected \cup lostReply
=============================================================================
