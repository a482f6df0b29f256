------------------------------ MODULE TicketQueue ------------------------------
(***************************************************************************)
(* The orchestrator's worker (worker.py): the Redis "reliable queue".  A   *)
(* worker that starts moves whatever lies in ticket_queue:processing back  *)
(* to the queue, then handles one message at a time.  More than one worker *)
(* may run, for instance while a deploy replaces one.                      *)
(*                                                                         *)
(* Phases of a worker: down, recovering, listening, handling its message,  *)
(* removing it in the finally block.                                       *)
(* What handling a ticket writes to the database is another module's.      *)
(***************************************************************************)
EXTENDS TicketMessages

CONSTANTS
    Processes,          \* worker processes
    TooLong,            \* tickets TicketRequest rejects: over 5000 characters
    NoMessage,
    MaxFaults           \* bound on worker crashes and failed Redis replies

ASSUME QueueAssumption ==
    /\ TooLong \subseteq Tickets
    /\ NoMessage \notin Tickets
    /\ MaxFaults \in Nat

VARIABLES
    phase, message,     \* per worker: where it is, and the message it took
    handled,            \* tickets background_orchestration has returned for
    rejected,           \* tickets whose payload raised before that
    lostReply,          \* tickets taken by a BLMOVE whose reply was lost
    faults              \* crashes and failed replies so far

workerVars == <<phase, message, handled, rejected, lostReply, faults>>

Phases == {"down", "recovering", "listening", "handling", "removing"}

QueueInit ==
    /\ ticketQueue = <<>> /\ processing = <<>>
    /\ phase = [p \in Processes |-> "down"]
    /\ message = [p \in Processes |-> NoMessage]
    /\ handled = {} /\ rejected = {} /\ lostReply = {}
    /\ faults = 0

Become(p, from, to) == phase[p] = from /\ phase' = [phase EXCEPT ![p] = to]

Fault == faults < MaxFaults /\ faults' = faults + 1

\* Mutant of StartWorker: nothing is recovered.
StartListening(p) ==
    /\ Become(p, "down", "listening")
    /\ UNCHANGED <<lists, message, handled, rejected, lostReply, faults>>
StartWorker(p) ==
    /\ Become(p, "down", "recovering")
    /\ UNCHANGED <<lists, message, handled, rejected, lostReply, faults>>

\* Mutant of RecoverMove: the message is copied, not moved.
RecoverCopy == ticketQueue' = Cons(Last(processing), ticketQueue) /\ UNCHANGED processing
RecoverMove == Move(processing, ticketQueue)
\* _recover_stale_messages, one RPOPLPUSH at a time.
Recover(p) ==
    /\ IF processing = <<>>
       THEN Become(p, "recovering", "listening") /\ UNCHANGED lists
       ELSE /\ phase[p] = "recovering" /\ UNCHANGED phase
            /\ RecoverMove
    /\ UNCHANGED <<message, handled, rejected, lostReply, faults>>

\* Mutant of TakeMove: the message is popped and not kept, as BRPOP did.
TakePop == ticketQueue' = Front(ticketQueue) /\ UNCHANGED processing
TakeMove == Move(ticketQueue, processing)
\* BLMOVE, which waits for a message.
Take(p) ==
    /\ Become(p, "listening", "handling")
    /\ ticketQueue # <<>>
    /\ message' = [message EXCEPT ![p] = Last(ticketQueue)]
    /\ TakeMove
    /\ UNCHANGED <<handled, rejected, lostReply, faults>>

\* The reply to BLMOVE is lost with its connection: the outer except goes on.
ReplyLost(p) ==
    /\ phase[p] = "listening" /\ ticketQueue # <<>>
    /\ Fault
    /\ lostReply' = lostReply \cup {Last(ticketQueue)}
    /\ TakeMove
    /\ UNCHANGED <<phase, message, handled, rejected>>

\* TicketRequest rejects the payload, or background_orchestration returns: it
\* lets no exception through.
Handle(p) ==
    /\ Become(p, "handling", "removing")
    /\ IF message[p] \in TooLong
       THEN rejected' = rejected \cup {message[p]} /\ UNCHANGED handled
       ELSE handled' = handled \cup {message[p]} /\ UNCHANGED rejected
    /\ UNCHANGED <<lists, message, lostReply, faults>>

\* LREM in the finally block, which finds nothing when another worker has
\* recovered the message.
LRem(p) ==
    /\ Become(p, "removing", "listening")
    /\ processing' = RemoveFirst(processing, message[p])
    /\ message' = [message EXCEPT ![p] = NoMessage]
    /\ UNCHANGED <<ticketQueue, handled, rejected, lostReply, faults>>

\* LREM raises, with or without having been executed.
LRemFails(p) ==
    /\ Become(p, "removing", "listening")
    /\ Fault
    /\ processing' \in {processing, RemoveFirst(processing, message[p])}
    /\ message' = [message EXCEPT ![p] = NoMessage]
    /\ UNCHANGED <<ticketQueue, handled, rejected, lostReply>>

Crash(p) ==
    /\ phase[p] # "down"
    /\ Fault
    /\ phase' = [phase EXCEPT ![p] = "down"]
    /\ message' = [message EXCEPT ![p] = NoMessage]
    /\ UNCHANGED <<lists, handled, rejected, lostReply>>

Work(p) == StartWorker(p) \/ Recover(p) \/ Take(p) \/ Handle(p) \/ LRem(p)

QueueNext == \E p \in Processes : Work(p) \/ ReplyLost(p) \/ LRemFails(p) \/ Crash(p)

\* A worker that is down is started again; the graph and Redis come to an end.
QueueFairness == \A p \in Processes : WF_<<lists, workerVars>>(Work(p))

-----------------------------------------------------------------------------
(* Properties *)

\* A ticket is in the two lists once at most: moves, recoveries by a second
\* worker and late removals do not multiply it.
OneMessage ==
    LET all == ticketQueue \o processing
    IN  \A i, j \in DOMAIN all : all[i] = all[j] => i = j
=============================================================================
